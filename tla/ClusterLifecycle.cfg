SPECIFICATION FairSpec
CONSTANT MaxTransient = 2
INVARIANT IInv
PROPERTIES
    Created
    CreateHolds
    ForgottenWhenGone
    Implements
    CreateFinishes
    DeleteFinishes
