SPECIFICATION Spec
CHECK_DEADLOCK FALSE
INVARIANTS   TrapsInvisible SwitchKeepsThreads
