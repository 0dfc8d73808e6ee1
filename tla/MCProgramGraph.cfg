SPECIFICATION Spec
CONSTANT Topologies <- MCTopologies
INVARIANT TypeOK
INVARIANT UsersMirrorDependencies
INVARIANT OrderIsTopological
INVARIANT OutputsKeepMeaning
INVARIANT ConstantsAreConstant
INVARIANT ConstantsPropagated
\* The build is over when the passes are.
CHECK_DEADLOCK FALSE
