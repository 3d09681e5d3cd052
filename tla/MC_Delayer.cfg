\* scaleFactor against the halving recursion for every cluster up to 10000.
CONSTANTS
    MaxNodes = 10000
    MaxDoublings = 7
SPECIFICATION Spec
INVARIANT ScaleMatchesReference
\* The walk over cluster sizes ends at MaxNodes.
CHECK_DEADLOCK FALSE
