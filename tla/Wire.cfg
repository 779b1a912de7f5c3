\* Messages of the default sizes take turns in one buffer.
CONSTANTS
    v4 = v4
    v6 = v6
    p1 = p1
    p486 = p486
    p487 = p487
    NULL = NULL
    MAX_VECTOR_SIZE = 20
    MESSAGE_MAX_SIZE = 512
    AddressLen <- Lengths
    DataSize <- Sizes
    MAX_OUTPUT_MESSAGES = 1
    MESSAGE_RETRY_ATTEMPTS = 2
    MESSAGE_RETRY_INTERVAL = 1
    Message <- Offered
    Recipients <- Lists
    MaxSeq = 3
SPECIFICATION Spec
INVARIANTS
    WireCarriesContents
    OnlyDataIsRefused
