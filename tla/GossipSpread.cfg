\* Three nodes that know each other; or two, one of which may be restarted, late enough
\* to get a new member id.  Every message is sent once.
CONSTANTS
    n1 = n1
    n2 = n2
    n3 = n3
    Node = {n1, n2, n3}
    Seeds <- Star
    Payload = {p1, p2}
    Oversized = {}
    MAX_OUTPUT_MESSAGES = 4
    MESSAGE_RETRY_ATTEMPTS = 1
    MESSAGE_RETRY_INTERVAL = 1
    MESSAGE_RUMOR_FACTOR = 1
    MEMBERS_INITIAL_CAPACITY = 1
    MEMBER_LIST_SYNC_SIZE = 1
    MAX_VECTOR_SIZE = 4
    DATA_LOG_SIZE = 4
    GOSSIP_TICK_INTERVAL = 1
    UidSpan = 2
    Pause = 2
    MaxDrift = 0
    Restarting = {n2}
    MaxUid = 2
    MaxSeq = 7
    Budget <- SpreadBudget
SPECIFICATION SpreadSpec
SYMMETRY Symmetry
INVARIANTS
    LogMatchesClock
    DeliveredOnceInOrder
    VersionIdentifiesPayload
PROPERTY Disseminates
