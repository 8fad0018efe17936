CONSTANTS
    Conns = {"c1", "c2"}
    Stalling = {"c2"}
    MaxVersion = 2
SPECIFICATION FairSpec
CHECK_DEADLOCK FALSE
INVARIANTS TypeOK RegisteredServed NothingMissed
PROPERTIES BroadcastOutlivesStalls GoneLeaves
