\* A participant, the service it depends on and a thread that receives data
CONSTANTS
    Participants = {1, 2}
    Service = 2
    Receivers = {"r"}
    Cloud = FALSE
    Dur = 1
    MaxTime = 2
SPECIFICATION Spec
INVARIANT UpdatesBeforeRelease
CHECK_DEADLOCK FALSE
