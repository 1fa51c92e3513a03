\* A peer whose requests are well-formed, CONNECT and Upgrade among them.
SPECIFICATION Spec
CONSTANTS
    Pieces = {"part", "request", "connect"}
    ReplyLen = 2
    SndCap = 1
    MaxSend = 1
    SigPipe = {"ignore"}
PROPERTIES PausedReplySent
CHECK_DEADLOCK FALSE
