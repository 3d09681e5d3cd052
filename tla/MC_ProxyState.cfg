\* Run loop of state.go: coalesce token, only valid snapshots published,
\* with snap.Clone() allowed to fail.
CONSTANTS
    roots = roots
    leaf = leaf
    intentions = intentions
    r1 = r1
    NoOne = NoOne
    Watches <- MCWatches
    Required <- MCWatches
    Requesters <- MCRequesters
    MaxEvents = 4
    InboundCap = 2
    CloneFails = TRUE
SPECIFICATION Spec
INVARIANT CoalesceTokenUnique
INVARIANT PublishedValid
PROPERTY ReplyOnlyToWaiter
PROPERTY ImplementsAbstractSnapshot
\* Once the cache has delivered its MaxEvents events run blocks in its
\* select, as the real loop does between updates.
CHECK_DEADLOCK FALSE
