\* A peer that sends kept-alive requests, shuts its side down and reads on.
SPECIFICATION Spec
CONSTANTS
    Pieces <- KeptAlive
    ReplyLen = 2
    SndCap = 1
    MaxSend = 1
    SigPipe = {"ignore"}
PROPERTIES CloseWaitsForWrite
CHECK_DEADLOCK FALSE
