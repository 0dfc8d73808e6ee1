SPECIFICATION Spec
CONSTANT Topologies <- ReluBehindReorder
INVARIANT OutputsKeepMeaning
CHECK_DEADLOCK FALSE
