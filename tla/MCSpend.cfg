SPECIFICATION SpendSpec
CONSTANTS
    Radix = 256
    MaxDigits = 4
    MaxPlaces = 4
    Levels = 3
    NoToken = NoToken
    NoCascade = NoCascade
    MaxMessage = 3000
    HashBits = 4
    LogW = 3
    ChecksumBlocks = 2
    Depth = 1
    DigitBits = 2
    OlderBlocks = 2
    OlderChecksum = 2
    OlderDepth = 1
    OlderSeed = 1
    OlderMessages <- MCOlderMessages
    ByteBits = 3
    WordBits = 4
    Sizes <- MCSizes
    NoWord = NoWord
    NoPhrase = NoPhrase
    Entropies <- MCEntropies
    Sources <- MCSources
    UTxO <- MCUTxO
    Templates <- MCTemplates
    Parcels <- MCParcels
    Randoms <- MCRandoms
    Master = 5
    None = None
    MaxKeys = 2
    MaxNonce = 1
    MaxSignatures = 2
INVARIANTS ReadIsWritten KeysBind VerdictIsDue PhraseRestores
