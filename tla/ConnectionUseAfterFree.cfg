\* A peer that ends its last request with Connection: close.
SPECIFICATION Spec
CONSTANTS
    Pieces <- Ending
    ReplyLen = 1
    SndCap = 1
    MaxSend = 2
    SigPipe = {"ignore"}
INVARIANTS ClientOutlivesCallbacks
CHECK_DEADLOCK FALSE
