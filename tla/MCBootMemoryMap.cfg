SPECIFICATION Spec
CONSTANTS
    Regions <- MCRegions
    Clusters <- MCClusters
    MaxStack = 40
    Junk = Junk
INVARIANTS IdentityMap
CHECK_DEADLOCK FALSE
