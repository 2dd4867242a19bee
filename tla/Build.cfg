SPECIFICATION FairSpec
CONSTANTS
    NoWord = NoWord
    a = a
    b = b
    img = img
    zero = zero
    p1 = p1
    p2 = p2
    x = x
    u = u
    ValueOf <- MCValueOf
    Names = {a, b, img, zero, u}
    ArgNames = {x}
    Numerals = {zero}
    Platforms = {p1, p2, "other"}
    Supported = {p1, p2}
    StagePlatforms = {p1}
    FromWords = {a, b, img, x}
    AsNames = {a, b, zero}
    CopyWords = {a, b, zero, NoWord}
    Defaults = {img, NoWord}
    Operands = {a, b, x}
    Ops = {"set", "list", "run", "cmd"}
    Within <- MCWithin
    Requests <- MCRequests
INVARIANTS
    TypeOK
    RequiredIsLeast
    ReferencesAgree
    OutcomeIsRight
    UserArgsKept
PROPERTIES
    BuildEnds
