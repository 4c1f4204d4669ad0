SPECIFICATION Spec
INVARIANTS TypeOK SuccessMeans FilterHasFile SidecarsFirst ExperimentPrepared
