SPECIFICATION Spec
CONSTANTS
    File = {transcript}
    transcript = transcript
    session = session
    Id = {session}
    IdOf <- OneSession
    Pid = {1, 2}
    Span = 1
    Vocabularies <- Sources
    Reopens = {"resume"}
    Reentry = {"turn"}
    Window = 2
    Headroom = 1
    MaxPending = 1
    MaxLines = 2
    Written = 1
    Faults = {"probe", "refuse", "stop"}
    Budget = 2
PROPERTY EndHasCause NoGhost
