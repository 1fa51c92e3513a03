\* A peer that sends every kind of piece; SIGPIPE kills, or is ignored by whoever
\* started the server.
SPECIFICATION FairSpec
CONSTANTS
    Pieces <- AllPieces
    ReplyLen = 2
    SndCap = 3
    MaxSend = 4
    SigPipe = {"kill", "ignore"}
INVARIANTS TypeOK RepliesInOrder WriteBufRight NoLingering FreedOnce
PROPERTIES CloseIsJustified NoReplyAfterLast Implements RequestsServed LastReplyEnds
CHECK_DEADLOCK FALSE
