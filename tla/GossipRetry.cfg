\* Two nodes that know each other, with retransmission and two buffers: payloads
\* cross with acknowledgements that come late or twice, a write fails, or a node
\* is restarted, with a new member id.
CONSTANTS
    n1 = n1
    n2 = n2
    n3 = n3
    Node = {n1, n2}
    Seeds <- Star
    Payload = {p1, p2}
    Oversized = {p2}
    MAX_OUTPUT_MESSAGES = 2
    MESSAGE_RETRY_ATTEMPTS = 2
    MESSAGE_RETRY_INTERVAL = 1
    MESSAGE_RUMOR_FACTOR = 1
    MEMBERS_INITIAL_CAPACITY = 1
    MEMBER_LIST_SYNC_SIZE = 1
    MAX_VECTOR_SIZE = 3
    DATA_LOG_SIZE = 3
    GOSSIP_TICK_INTERVAL = 1
    UidSpan = 1
    Pause = 1
    MaxDrift = 0
    Restarting = {n2}
    MaxUid = 1
    MaxSeq = 6
    Budget <- RetryBudget
SPECIFICATION RetrySpec
INVARIANTS
    TypeOK
    AckedDataIsKnown
