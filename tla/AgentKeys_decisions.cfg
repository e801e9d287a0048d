SPECIFICATION Spec
CONSTANTS
    MaxKeys = 2
    MaxHosts = 2
    Grace = 1
    MaxTime = 1
    AutoAccept = TRUE
    Sub = Sub
    Callers = {c1}
    Readers = {r1}
    MaxFaults = 1
    None = None
INVARIANT KeysTypeOK
INVARIANT CacheIsCurrent
INVARIANT AcceptedAgentVerifies
INVARIANT ReplacedKeyVerifies
CHECK_DEADLOCK FALSE
