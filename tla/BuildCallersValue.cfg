SPECIFICATION Spec
CONSTANTS
    NoWord = NoWord
    a = a
    b = b
    img = img
    zero = zero
    p1 = p1
    p2 = p2
    x = x
    u = u
    ValueOf <- MCValueOf
    Names = {img, u}
    ArgNames = {x}
    Numerals = {}
    Platforms = {p1, p2}
    Supported = {p1, p2}
    StagePlatforms = {}
    FromWords = {img}
    AsNames = {}
    CopyWords = {}
    Defaults = {img}
    Operands = {x}
    Ops = {"set"}
    Within <- FourLines
    Requests <- GivenArg
INVARIANTS
    CallersValueIsUsed
