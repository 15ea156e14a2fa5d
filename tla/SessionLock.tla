---------------------------- MODULE SessionLock -----------------------------
(***************************************************************************)
(* What the lockfile of a session promises: at any time at most one        *)
(* process has it, and it passes from one to another only through being    *)
(* free.                                                                   *)
(***************************************************************************)
CONSTANT Procs

VARIABLE holders    \* the processes that have the lock

Init == holders = {}

Take(p) == holders = {} /\ holders' = {p}
Leave == holders # {} /\ holders' = {}

Next == Leave \/ \E p \in Procs : Take(p)

Spec == Init /\ [][Next]_holders
=============================================================================
