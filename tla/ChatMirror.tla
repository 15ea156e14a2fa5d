----------------------------- MODULE ChatMirror -----------------------------
(***************************************************************************)
(* What the downloader promises about one chat, whatever happens to its    *)
(* runs: messages are posted, messages with media are kept one by one and  *)
(* never dropped, and the sync mark only moves up, over messages that are  *)
(* kept already or have nothing to keep.                                   *)
(***************************************************************************)
EXTENDS Integers

CONSTANTS MaxId, NoMedia

VARIABLES
    posted,     \* messages of the chat
    kept,       \* messages recorded as downloaded
    mark        \* where the next sync run starts

vars == <<posted, kept, mark>>

Init == posted = {} /\ kept = {} /\ mark = 0

Post(m) ==
    /\ \A n \in posted : n < m
    /\ posted' = posted \union {m}
    /\ UNCHANGED <<kept, mark>>

Keep(m) ==
    /\ m \in posted \ (kept \union NoMedia)
    /\ kept' = kept \union {m}
    /\ UNCHANGED <<posted, mark>>

Covered(k) == \A m \in posted \ NoMedia : m <= k => m \in kept

Advance(k) ==
    /\ k > mark /\ k \in posted /\ Covered(k)
    /\ mark' = k
    /\ UNCHANGED <<posted, kept>>

Next == \E m \in 1 .. MaxId : Post(m) \/ Keep(m) \/ Advance(m)

Spec == Init /\ [][Next]_vars
=============================================================================
