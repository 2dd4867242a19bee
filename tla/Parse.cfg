SPECIFICATION Spec
CONSTANT Texts <- MCTexts
INVARIANTS
    TypeOK
    ParsedIsWritten
    LegalIsParsed
PROPERTIES
    ParseEnds
