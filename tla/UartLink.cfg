\* One damage in every call, on either line, anywhere; the tool is stopped only
\* when the device is at rest or hangs.
SPECIFICATION FairSpec
CONSTANTS
    MaxId = 3
    Payloads <- MCPayloads
    RxSize = 4
    TxSize = 2
    Noisy = TRUE
    Impatient = FALSE
INVARIANTS
    LinkTypeOK
    AnswerIsOwn
PROPERTIES
    NothingDropped
    ImplementsRpc
    EveryCallAnswered
