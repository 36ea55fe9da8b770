SPECIFICATION Spec
CONSTANTS
    Disks <- MCDisks
    Absent = Absent
    None = None
    MaxBlocks = 6
INVARIANTS TypeOK Loaded
PROPERTIES KeepsContract Finishes
CHECK_DEADLOCK FALSE
