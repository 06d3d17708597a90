---------------------------- MODULE DdnsService ----------------------------
(***************************************************************************)
(* What the DDNS manager promises its users, with no child processes, file *)
(* writes or timers: the rows change, a snapshot of them is published, and *)
(* at most one updater serves the published snapshot.  A snapshot is never *)
(* replaced by an older one, and never under a running updater.            *)
(***************************************************************************)
EXTENDS Integers

CONSTANTS MaxMutations

VARIABLES db, published, served

serviceVars == <<db, published, served>>

Down == -1

Init == db = 0 /\ published = Down /\ served = Down

Commit ==
    /\ db < MaxMutations
    /\ db' = db + 1
    /\ UNCHANGED <<published, served>>

Publish(v) ==
    /\ served = Down
    /\ published <= v
    /\ published' = v
    /\ UNCHANGED <<db, served>>

Serve ==
    /\ served = Down
    /\ published # Down
    /\ served' = published
    /\ UNCHANGED <<db, published>>

Leave ==
    /\ served' = Down
    /\ UNCHANGED <<db, published>>

Next == Commit \/ (\E v \in 0..db : Publish(v)) \/ Serve \/ Leave

Spec == Init /\ [][Next]_serviceVars
=============================================================================
