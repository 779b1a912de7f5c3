\* The socket can never send to r1.
CONSTANTS
    MAX_OUTPUT_MESSAGES = 2
    MESSAGE_RETRY_ATTEMPTS = 2
    MESSAGE_RETRY_INTERVAL = 2
    Message = {m1}
    Recipient = {r1, r2}
    Unsendable = {r1}
    MESSAGE_RUMOR_FACTOR = 1
    MaxSeq = 2
    MaxDrift = 0
SPECIFICATION FairSpec
PROPERTIES
    EveryEnvelopeLeaves
