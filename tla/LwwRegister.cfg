SPECIFICATION Spec
CONSTANTS
    Device = {1, 2}
    MaxWrites = 3
INVARIANT SameWritesSameValue
