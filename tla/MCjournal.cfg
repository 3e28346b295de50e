SPECIFICATION Spec
CONSTANTS
    Clients = {c1, c2}
    Nobody = Nobody
    MaxUpdates = 3
INVARIANT InterruptedWriteIsInvisible
CHECK_DEADLOCK FALSE
