SPECIFICATION Spec
CONSTANTS
    FieldSize = 2
    HeightSize = 3
    Int64Max = 50
    CidBuffer = 64
    Limit = 4
    KeyLength = 2
    Texts64 <- Texts64Def
    Bytes <- BytesDef
    Sizes <- SizesDef
    PoPInfos <- PoPInfosDef
    CidLists <- CidListsDef
    Contents <- ContentsDef
    Times <- TimesDef
INVARIANTS
    Base64RoundTrip
    DecodedIsEncodable
    PayloadFits
    PoPInfoIsWhole
    PickedIsListed
    ReadAnswersChallenge
