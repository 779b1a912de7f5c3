\* The clock may tick once inside a pass.
CONSTANTS
    MAX_OUTPUT_MESSAGES = 2
    MESSAGE_RETRY_ATTEMPTS = 3
    MESSAGE_RETRY_INTERVAL = 2
    Message = {m1, m2}
    Recipient = {r1, r2}
    Unsendable = {}
    MESSAGE_RUMOR_FACTOR = 1
    MaxSeq = 4
    MaxDrift = 1
SPECIFICATION Spec
SYMMETRY Symmetry
INVARIANT EnvelopeKeepsItsMessage
