\* A request inserts a row that names what it found, and no one erases anything.
SPECIFICATION ErasureSpec
CONSTANT NULL = NULL
INVARIANT FoundIsAccepted
CHECK_DEADLOCK FALSE
