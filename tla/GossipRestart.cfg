\* A node is restarted soon enough to keep its member id.
CONSTANTS
    n1 = n1
    n2 = n2
    n3 = n3
    Node = {n1, n2}
    Seeds <- Star
    Payload = {p1, p2}
    Oversized = {}
    MAX_OUTPUT_MESSAGES = 4
    MESSAGE_RETRY_ATTEMPTS = 1
    MESSAGE_RETRY_INTERVAL = 1
    MESSAGE_RUMOR_FACTOR = 1
    MEMBERS_INITIAL_CAPACITY = 1
    MEMBER_LIST_SYNC_SIZE = 1
    MAX_VECTOR_SIZE = 3
    DATA_LOG_SIZE = 3
    GOSSIP_TICK_INTERVAL = 1
    UidSpan = 2
    Pause = 0
    MaxDrift = 0
    Restarting = {n2}
    MaxUid = 1
    MaxSeq = 7
    Budget <- SpreadBudget
SPECIFICATION PairSpec
SYMMETRY Symmetry
INVARIANT VersionIdentifiesPayload
