\* A seed node and two demo nodes; one call of the system fails.
CONSTANTS
    n1 = n1
    n2 = n2
    n3 = n3
    Node = {n1, n2, n3}
    Seeds <- Star
    Payload = {p1}
    Oversized = {}
    MAX_OUTPUT_MESSAGES = 6
    MESSAGE_RETRY_ATTEMPTS = 1
    MESSAGE_RETRY_INTERVAL = 1
    MESSAGE_RUMOR_FACTOR = 1
    MEMBERS_INITIAL_CAPACITY = 4
    MEMBER_LIST_SYNC_SIZE = 3
    MAX_VECTOR_SIZE = 3
    DATA_LOG_SIZE = 3
    GOSSIP_TICK_INTERVAL = 1
    UidSpan = 1
    Pause = 1
    MaxDrift = 0
    Restarting = {}
    MaxUid = 1
    MaxSeq = 8
    Budget <- DemoBudget
SPECIFICATION EitherSpec
INVARIANT EndsOnlyOnFailure
PROPERTY DemoConnects
