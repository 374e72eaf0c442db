SPECIFICATION Spec
CONSTANTS
    SlaveOffset = 50
    LinkDelay = 3
    Residence = {10}
    None = None
INVARIANT TransparentClock
CHECK_DEADLOCK FALSE
