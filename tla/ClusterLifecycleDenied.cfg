SPECIFICATION Spec
CONSTANT MaxTransient = 2
PROPERTY CreateHoldsDenied
