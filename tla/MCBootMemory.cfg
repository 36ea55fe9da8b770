SPECIFICATION Spec
CONSTANTS
    Regions <- MCRegions
    Clusters <- MCClusters
    MaxStack = 40
    Junk = Junk
INVARIANTS MapKept StillThere
CHECK_DEADLOCK FALSE
