SPECIFICATION Spec
CONSTANTS
    nan = nan
    NaN = nan
    Values <- MCValues
    Capacity = 2
INVARIANT StoredInRange
