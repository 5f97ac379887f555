SPECIFICATION FairSpec
CONSTANTS
  Topics = {t1, t2, t3, t4, t5, t6}
INVARIANTS TypeOK GateMeansSubscribed CountNeedsState
PROPERTIES ImplementsGate GateOpens
