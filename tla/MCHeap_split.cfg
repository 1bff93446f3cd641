CONSTANTS
    HeapSize = 236
    Hdr = 20
    SizeMod = 4096
    Requests <- SmallRequests
SPECIFICATION Spec
PROPERTIES AllocationsAlwaysKept
\* A damaged heap is not followed further.
CHECK_DEADLOCK FALSE
