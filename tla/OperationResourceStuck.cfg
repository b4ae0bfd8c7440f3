SPECIFICATION Spec
CONSTANT StuckCap = 2
PROPERTY FailedIsDeletable
