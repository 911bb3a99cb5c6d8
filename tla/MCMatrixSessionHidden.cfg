SPECIFICATION Spec
CONSTANTS
    Tombstone = Tombstone
    Foreign = Foreign
    MaxIssued = 2
INVARIANT
    HiddenIsWarned
