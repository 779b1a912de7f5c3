\* Two nodes that know each other; payloads of one or both have been lost or were
\* too large, and one takes a tick.  Or n2 has been restarted, and an acknowledgement for
\* its predecessor is on its way.  Every message is sent once.
CONSTANTS
    n1 = n1
    n2 = n2
    n3 = n3
    Node = {n1, n2}
    Seeds <- Star
    Payload = {p1, p2}
    Oversized = {p2}
    MAX_OUTPUT_MESSAGES = 4
    MESSAGE_RETRY_ATTEMPTS = 1
    MESSAGE_RETRY_INTERVAL = 1
    MESSAGE_RUMOR_FACTOR = 1
    MEMBERS_INITIAL_CAPACITY = 1
    MEMBER_LIST_SYNC_SIZE = 1
    MAX_VECTOR_SIZE = 3
    DATA_LOG_SIZE = 3
    GOSSIP_TICK_INTERVAL = 1
    UidSpan = 1
    Pause = 1
    MaxDrift = 0
    Restarting = {n2}
    MaxUid = 1
    MaxSeq = 11
    Budget <- StatusBudget
SPECIFICATION FairStatusSpec
PROPERTY StatusRepairs
