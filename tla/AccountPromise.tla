--------------------------- MODULE AccountPromise ---------------------------
(***************************************************************************)
(* What a reader who deletes his account is promised, as far as he and     *)
(* those who read him can tell: the account is shut, then nothing of him   *)
(* is left to be found, and at last the address is free.  None of it is    *)
(* taken back, and once he is told that he has gone nothing he still       *)
(* holds lets him leave another trace.  AccountErasure implements it.      *)
(***************************************************************************)
CONSTANT User

VARIABLES
    stage,     \* how far his account is on its way
    traces,    \* whom something is left of in the discussions
    able       \* who can still act in his own name

promised == <<stage, traces, able>>

Init == stage = [u \in User |-> "open"] /\ traces = {} /\ able = {}

Login(u) == stage[u] = "open" /\ able' = able \cup {u} /\ UNCHANGED <<stage, traces>>
TokensRunOut == able' \subseteq able /\ UNCHANGED <<stage, traces>>
Post(u) == u \in able /\ traces' = traces \cup {u} /\ UNCHANGED <<stage, able>>
\* Asked for, the trace goes at once where it can; while tokens are good it may come again
Wipe(u) == traces' = traces \ {u} /\ UNCHANGED <<stage, able>>
Shut(u) == stage[u] = "open" /\ stage' = [stage EXCEPT ![u] = "shut"] /\ UNCHANGED <<traces, able>>
\* A ban keeps the address: all the rest has gone
Empty(u) ==
    /\ stage[u] = "shut" /\ u \notin traces /\ u \notin able
    /\ stage' = [stage EXCEPT ![u] = "emptied"] /\ UNCHANGED <<traces, able>>
Finish(u) ==
    /\ stage[u] \in {"shut", "emptied"} /\ u \notin traces /\ u \notin able
    /\ stage' = [stage EXCEPT ![u] = "gone"] /\ UNCHANGED <<traces, able>>

Next ==
    \/ TokensRunOut
    \/ \E u \in User : Login(u) \/ Post(u) \/ Wipe(u) \/ Shut(u) \/ Empty(u) \/ Finish(u)

Spec == Init /\ [][Next]_promised
=============================================================================
