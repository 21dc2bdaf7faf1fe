SPECIFICATION MemorySpec
CONSTANTS
    MemCallers = {c1}
    MemIds = {i1, i2}
    MemSetups <- VectorOnly
    MemRequests <- StoreAndErase
    DefaultLimit = 1
    MemBounds <- NothingFails
INVARIANT ErasureIsComplete
CHECK_DEADLOCK FALSE
