CONSTANTS
    Setups <- MCDefault
SPECIFICATION Spec
INVARIANTS
    ForcedByDefault
CHECK_DEADLOCK FALSE
