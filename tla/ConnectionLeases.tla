-------------------------- MODULE ConnectionLeases --------------------------
(***************************************************************************)
(* What the connection pool promises its users (DatabasePool.hpp): each    *)
(* connection is lent to one at a time and comes back once, none is lent   *)
(* after the pool has been closed, and only one that cannot be opened anew *)
(* is ever missing.                                                        *)
(***************************************************************************)
CONSTANTS Conns, Users, Unreachable

VARIABLES idle,   \* the connections that can be lent
          lent,   \* the connections of each user
          closed

vars == <<idle, lent, closed>>

Init == idle = Conns /\ lent = [u \in Users |-> {}] /\ closed = FALSE

Lend(u, c) == /\ ~closed /\ c \in idle
              /\ idle' = idle \ {c}
              /\ lent' = [lent EXCEPT ![u] = @ \cup {c}]
              /\ UNCHANGED closed

Lose(c) == /\ ~closed /\ c \in idle \cap Unreachable
           /\ idle' = idle \ {c}
           /\ UNCHANGED <<lent, closed>>

Return(u, c) == /\ c \in lent[u]
                /\ lent' = [lent EXCEPT ![u] = @ \ {c}]
                /\ idle' = IF closed THEN {} ELSE idle \cup {c}
                /\ UNCHANGED closed

Close == ~closed /\ closed' = TRUE /\ idle' = {} /\ UNCHANGED lent

Next == \/ \E u \in Users, c \in Conns : Lend(u, c) \/ Return(u, c)
        \/ \E c \in Conns : Lose(c)
        \/ Close

Spec == Init /\ [][Next]_vars
=============================================================================
