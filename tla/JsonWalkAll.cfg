\* Every tree of the instance, with and without a callback.
SPECIFICATION Spec
CONSTANTS
    Trees <- MCTrees
    Json <- MCJson
    Depth = 3
INVARIANTS TypeOK PassesNumbers
PROPERTIES WalkEnds
