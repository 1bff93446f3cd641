\* Room for five blocks; a request as large as a merged pair.
CONSTANTS
    HeapSize = 236
    Hdr = 20
    SizeMod = 4096
    Requests <- SmallRequests
SPECIFICATION Spec
INVARIANTS TypeOK Tiled NoAdjacentFree CoalescesFully
PROPERTIES AllocationsKept
\* A damaged heap is not followed further.
CHECK_DEADLOCK FALSE
