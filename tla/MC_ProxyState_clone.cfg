\* snap.Clone() failing while a CurrentSnapshot caller waits on reqCh.
CONSTANTS
    roots = roots
    leaf = leaf
    intentions = intentions
    r1 = r1
    NoOne = NoOne
    Watches <- MCWatches
    Required <- MCWatches
    Requesters <- MCRequesters
    MaxEvents = 4
    InboundCap = 2
    CloneFails = TRUE
SPECIFICATION Spec
PROPERTY RequestsAnswered
\* Once the cache has delivered its MaxEvents events run blocks in its
\* select, as the real loop does between updates.
CHECK_DEADLOCK FALSE
