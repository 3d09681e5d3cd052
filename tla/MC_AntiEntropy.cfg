\* StateSyncer: pause refcount, periodic anti-entropy and eventual sync.
CONSTANTS
    p1 = p1
    p2 = p2
    Pausers <- MCPausers
    MaxPauses = 2
SPECIFICATION Spec
INVARIANT TypeOK
INVARIANT PauseRefcount
INVARIANT AntiEntropyArmed
PROPERTY InSyncEventually
