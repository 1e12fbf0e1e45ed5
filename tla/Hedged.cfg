SPECIFICATION FairSpec
CONSTANT N = 4
INVARIANTS ReportedOnce
PROPERTIES ImplementsOneTunnel CallSettles
CHECK_DEADLOCK FALSE
