---------------------------- MODULE BatchReports ----------------------------
(***************************************************************************)
(* What UploadBatchCoordinatorService promises its callers: the operations *)
(* are processed in the order of their calls, and each reports one result  *)
(* for every candidate before the next begins.                             *)
(***************************************************************************)
EXTENDS Integers, Sequences, FiniteSets

CONSTANT Batch

VARIABLES order,  \* the operations that have not ended, in order
          due,    \* the candidates of the first that have no result
          count   \* the results that each has reported

vars == <<order, due, count>>

Candidates(b) == {Batch[b][i] : i \in DOMAIN Batch[b]}

First(s) == IF s = <<>> THEN {} ELSE Candidates(Head(s))

Init == /\ order = <<>> /\ due = {}
        /\ count = [b \in DOMAIN Batch |-> 0]

Call(b) == /\ count[b] = 0 /\ \A i \in DOMAIN order : order[i] # b
           /\ order' = Append(order, b)
           /\ due' = IF order = <<>> THEN Candidates(b) ELSE due
           /\ UNCHANGED count

Report(s) == /\ order # <<>> /\ s # {} /\ due' = due \ s
             /\ count' = [count EXCEPT ![Head(order)] = @ + Cardinality(s)]
             /\ UNCHANGED order

End == /\ order # <<>> /\ due = {}
       /\ order' = Tail(order) /\ due' = First(Tail(order))
       /\ UNCHANGED count

Next == \/ \E b \in DOMAIN Batch : Call(b)
        \/ \E s \in SUBSET due : Report(s)
        \/ End

Spec == Init /\ [][Next]_vars

\* An operation that has ended has reported as many results as it had
\* candidates, one that waits none, and the first the rest of those due.
Adds ==
    \A b \in DOMAIN Batch :
        IF order # <<>> /\ Head(order) = b
        THEN count[b] + Cardinality(due) = Cardinality(Candidates(b))
        ELSE /\ count[b] \in {0, Cardinality(Candidates(b))}
             /\ (\E i \in DOMAIN order : order[i] = b) => count[b] = 0
=============================================================================
