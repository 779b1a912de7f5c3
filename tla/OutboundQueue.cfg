\* Two buffers, so that the third message in flight evicts another.  No clock
\* tick falls inside a pass; writes may fail anywhere.
CONSTANTS
    MAX_OUTPUT_MESSAGES = 2
    MESSAGE_RETRY_ATTEMPTS = 3
    MESSAGE_RETRY_INTERVAL = 1
    Message = {m1, m2}
    Recipient = {r1, r2}
    Unsendable = {}
    MESSAGE_RUMOR_FACTOR = 1
    MaxSeq = 4
    MaxDrift = 0
SPECIFICATION Spec
SYMMETRY Symmetry
INVARIANTS
    TypeOK
    GroupsInOrder
    EnvelopeKeepsItsMessage
PROPERTIES
    DroppedOnlyAfterPatience
    
