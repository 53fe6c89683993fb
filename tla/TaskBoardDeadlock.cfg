\* The event loop and the panel's refresher take two locks in opposite orders.
SPECIFICATION Spec
CONSTANTS
    Tool = {t1, t2}
    Nobody = Nobody
CHECK_DEADLOCK FALSE
INVARIANTS
    LoopAndRefresherNeverDeadlock
