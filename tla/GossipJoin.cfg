\* A node joins another, which may have ended, and one datagram may get lost; or a node
\* joins through one that is joining itself.  Every message that can be acknowledged is
\* sent twice.
CONSTANTS
    n1 = n1
    n2 = n2
    n3 = n3
    Node = {n1, n2, n3}
    Seeds <- Chain
    Payload = {p1, p2}
    Oversized = {}
    MAX_OUTPUT_MESSAGES = 4
    MESSAGE_RETRY_ATTEMPTS = 2
    MESSAGE_RETRY_INTERVAL = 1
    MESSAGE_RUMOR_FACTOR = 1
    MEMBERS_INITIAL_CAPACITY = 1
    MEMBER_LIST_SYNC_SIZE = 1
    MAX_VECTOR_SIZE = 2
    DATA_LOG_SIZE = 2
    GOSSIP_TICK_INTERVAL = 0
    UidSpan = 1
    Pause = 1
    MaxDrift = 1
    Restarting = {}
    MaxUid = 1
    MaxSeq = 6
    Budget <- JoinBudget
SPECIFICATION FairJoinSpec
INVARIANT MembersFit
PROPERTIES
    JoinCompletes
    FallsSilent
