SPECIFICATION FairSpec
CONSTANT StuckCap = 2
INVARIANT IInv
PROPERTIES
    Tracked
    FailedNetworkIsDeletable
    CreatedWhenReady
    Implements
    HandlerReturns
