\* Three rows on pages of one, two milliseconds of two microseconds each:
\* two rows can share a millisecond or a microsecond, or neither.
CONSTANTS
    Ids = {1, 2, 3}
    MaxMs = 2
    PerMs = 2
    Limit = 1
SPECIFICATION Spec
INVARIANT NoDuplicatesNoSkips
CHECK_DEADLOCK FALSE
