SPECIFICATION Spec
CONSTANTS
    Tracks = {t1}
    Requests = {r1, r2}
    Chunks = 1
    Room = 1
    Target = 0
    MaxBlobs = 4
    MaxStops = 1
    None = None
INVARIANTS ReadyOnDisk LeaseHolds  
CHECK_DEADLOCK FALSE
