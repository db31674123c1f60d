\* The SQLite schema against spec section 4.1, over crashes
\* and restarts.
SPECIFICATION Spec
CONSTANTS
    Dialects = {"sqlite"}
    MaxFaults = 2
INVARIANT BindingIndexed
CHECK_DEADLOCK FALSE
