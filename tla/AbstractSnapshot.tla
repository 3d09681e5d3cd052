-------------------------- MODULE AbstractSnapshot --------------------------
(***************************************************************************)
(* What the proxycfg state goroutine promises the Manager's snapCh         *)
(* consumer, without its channels, coalesce timer and clones: one snapshot *)
(* is updated by the events applied to it, and the consumer is handed      *)
(* valid copies of it, each taken after the one it holds and none taken    *)
(* after the live snapshot (debounced delivery of spec 4.3: published      *)
(* copies are clones of the snapshot, delivered through a FIFO channel).   *)
(* The consumer notifies the watchers of each copy before it takes the     *)
(* next one.                                                               *)
(***************************************************************************)
EXTENDS Naturals

CONSTANTS Watches, Required, MaxEvents

\* A snapshot: the watches that have delivered, and the updates applied.
Snapshots == [parts : SUBSET Watches, version : 0..MaxEvents]

Valid(s) == Required \subseteq s.parts

VARIABLES
    snap,      \* the live snapshot
    received,  \* the last copy handed to the consumer
    notifying  \* the consumer is passing that copy on to the watchers

avars == <<snap, received, notifying>>

Init ==
    /\ snap = [parts |-> {}, version |-> 0]
    /\ received = snap
    /\ notifying = FALSE

\* An event of watch w is applied to the live snapshot.
Update(w) ==
    /\ snap.version < MaxEvents
    /\ snap' = [parts |-> snap.parts \cup {w}, version |-> snap.version + 1]
    /\ UNCHANGED <<received, notifying>>

\* The consumer is handed a valid copy newer than the one it holds and no
\* newer than, and contained in, the live snapshot.
Deliver ==
    /\ ~notifying
    /\ notifying' = TRUE
    /\ \E s \in Snapshots :
        /\ Valid(s)
        /\ received.version < s.version
        /\ s.version <= snap.version
        /\ s.parts \subseteq snap.parts
        /\ received' = s
        /\ UNCHANGED snap

\* The consumer has notified the watchers of the copy it holds.
Notify ==
    /\ notifying
    /\ notifying' = FALSE
    /\ UNCHANGED <<snap, received>>

Next == (\E w \in Watches : Update(w)) \/ Deliver \/ Notify

SafetySpec == Init /\ [][Next]_avars

=============================================================================
