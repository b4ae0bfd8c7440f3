SPECIFICATION Spec
CONSTANTS
    Values = {v1, v2}
    Foreign = Foreign
    None = None
    MaxLate = 2
SYMMETRY Symmetry
PROPERTY NoOrphan
