CONSTANTS
    Sessions <- TwoSums
    Servers = {"calServer"}
    Pipelining = {"calServer"}
SPECIFICATION Spec
CHECK_DEADLOCK FALSE
INVARIANTS
    NothingHeldBack
