---------------------------- MODULE DatabasePool ----------------------------
(***************************************************************************)
(* The pool of PostgreSQL connections every manager of the backend borrows *)
(* from (database/DatabasePool.cpp): a FIFO queue under one mutex, one     *)
(* condition variable, and an RAII wrapper that gives a connection back.   *)
(*                                                                         *)
(* A thread is one request (or one garbage-collector run). It borrows a    *)
(* connection, and some requests look up a Google access token while they  *)
(* still hold it: on a cache miss the lookup borrows a second connection   *)
(* (GoogleDriveService::get_access_token_for_storage). These are the       *)
(* Nested threads: Google Drive downloads, the total quota and phase 3 of  *)
(* the garbage collector, which does it once per pending deletion.         *)
(***************************************************************************)
EXTENDS Naturals, Sequences, FiniteSets

CONSTANTS Threads,        \* concurrent requests
          Conns,          \* the connections the constructor opens
          Nested,         \* the threads whose request looks up access tokens
          MaxLookups,     \* bound: lookups one request makes
          Unreachable,    \* the connections opening anew can fail for
          None            \* "holds no connection"

ASSUME PoolAssumption ==
    /\ IsFiniteSet(Threads)
    /\ IsFiniteSet(Conns)
    /\ Nested \subseteq Threads
    /\ MaxLookups \in Nat
    /\ Unreachable \subseteq Conns
    /\ None \notin Conns

VARIABLES connections,    \* connections_: the queue of idle connections
          isOpen,         \* whether the server still serves a connection
          isShuttingDown, \* is_shutting_down_
          pc,             \* where each thread is
          outer, inner,   \* the connection of a request, and of its lookup
          lookups         \* token lookups a request still has to make

vars == <<connections, isOpen, isShuttingDown, pc, outer, inner, lookups>>

\* "sleeping" is inside condition_.wait, "woken" has left it and holds no
\* guarantee that the predicate still is true; "notifying" has pushed its
\* connection and not yet called notify_one.
Places == {"start", "sleeping", "woken", "using", "notifying", "done"}

Waiting(t) == pc[t] \in {"sleeping", "woken"}

TypeOK ==
    /\ connections \in Seq(Conns)
    /\ isOpen \in [Conns -> BOOLEAN]
    /\ isShuttingDown \in BOOLEAN
    /\ pc \in [Threads -> Places]
    /\ outer \in [Threads -> Conns \cup {None}]
    /\ inner \in [Threads -> Conns \cup {None}]
    /\ lookups \in [Threads -> Nat]

\* The lookups of a request are those that miss the token cache.
Init ==
    /\ connections \in [1..Cardinality(Conns) -> Conns]
    /\ \A i, j \in 1..Cardinality(Conns) :
          connections[i] = connections[j] => i = j
    /\ isOpen = [c \in Conns |-> TRUE]
    /\ isShuttingDown = FALSE
    /\ pc = [t \in Threads |-> "start"]
    /\ outer = [t \in Threads |-> None]
    /\ inner = [t \in Threads |-> None]
    /\ lookups \in [Threads -> 0..MaxLookups]
    /\ \A t \in Threads \ Nested : lookups[t] = 0

-----------------------------------------------------------------------------
(***************************************************************************)
(* acquire_connection                                                      *)
(***************************************************************************)

\* The call is about to take the mutex: the request's own call, or that of
\* a lookup made while the request's connection is held.
Calls(t) ==
    \/ pc[t] = "start"
    \/ pc[t] = "using" /\ inner[t] = None /\ lookups[t] > 0

\* The exception unwinds an outermost call to the end of the request; a
\* lookup's is caught by the loop around it, which goes on with the next
\* one or gives up the rest.
Throws(t) ==
    IF outer[t] = None
    THEN /\ pc' = [pc EXCEPT ![t] = "done"]
         /\ UNCHANGED lookups
    ELSE /\ pc' = [pc EXCEPT ![t] = "using"]
         /\ \E n \in {0, lookups[t] - 1} : lookups' = [lookups EXCEPT ![t] = n]

\* Mutant of Lends: the second connection overwrites the first.
LendsOver(t, c) ==
    /\ pc' = [pc EXCEPT ![t] = "using"]
    /\ outer' = [outer EXCEPT ![t] = c]
    /\ lookups' = [lookups EXCEPT ![t] = IF outer[t] = None THEN @ ELSE @ - 1]
    /\ UNCHANGED inner

Lends(t, c) ==
    /\ pc' = [pc EXCEPT ![t] = "using"]
    /\ IF outer[t] = None
       THEN /\ outer' = [outer EXCEPT ![t] = c]
            /\ UNCHANGED <<inner, lookups>>
       ELSE /\ inner' = [inner EXCEPT ![t] = c]
            /\ lookups' = [lookups EXCEPT ![t] = @ - 1]
            /\ UNCHANGED outer

\* The head of the queue is popped first; a connection the server closed is
\* then replaced, and when that fails the exception leaves with it popped.
Pops(t) ==
    LET c == Head(connections)
    IN  /\ connections # <<>>
        /\ connections' = Tail(connections)
        /\ \/ /\ Lends(t, c)
              /\ isOpen' = [isOpen EXCEPT ![c] = TRUE]
           \/ /\ c \in Unreachable
              /\ ~isOpen[c]
              /\ Throws(t)
              /\ UNCHANGED <<isOpen, outer, inner>>
        /\ UNCHANGED isShuttingDown

Acquire(t) ==
    /\ \/ Calls(t)
       \/ pc[t] = "woken"
    /\ \/ /\ isShuttingDown
          /\ Throws(t)
          /\ UNCHANGED <<connections, isOpen, isShuttingDown, outer, inner>>
       \/ /\ ~isShuttingDown
          /\ connections = <<>>
          /\ pc' = [pc EXCEPT ![t] = "sleeping"]
          /\ UNCHANGED <<connections, isOpen, isShuttingDown, outer, inner,
                         lookups>>
       \/ /\ ~isShuttingDown
          /\ Pops(t)

\* std::condition_variable may return without a notification.
SpuriousWakeup(t) ==
    /\ pc[t] = "sleeping"
    /\ pc' = [pc EXCEPT ![t] = "woken"]
    /\ UNCHANGED <<connections, isOpen, isShuttingDown, outer, inner, lookups>>

-----------------------------------------------------------------------------
(***************************************************************************)
(* ~ConnectionWrapper and release_connection                               *)
(***************************************************************************)

\* The wrapper a thread destroys next: the lookup's before the request's.
Innermost(t) == IF inner[t] # None THEN inner[t] ELSE outer[t]

Afterwards(t) == IF outer[t] = None THEN "done" ELSE "using"

\* Mutant of Clears: the wrapper copies its connection out.
ClearsNothing(t) == UNCHANGED <<inner, outer>>

\* The wrapper's connection is moved out of it.
Clears(t) ==
    IF inner[t] # None
    THEN inner' = [inner EXCEPT ![t] = None] /\ UNCHANGED outer
    ELSE outer' = [outer EXCEPT ![t] = None] /\ UNCHANGED inner

Pushes(c) == connections' = Append(connections, c)

\* The push and the wake-up are two steps: the mutex is released in between.
Release(t) ==
    LET c == Innermost(t)
    IN  /\ pc[t] = "using"
        /\ c # None
        /\ \/ inner[t] # None
           \/ lookups[t] = 0
        /\ Clears(t)
        /\ \/ /\ isShuttingDown
              /\ isOpen' = [isOpen EXCEPT ![c] = FALSE]
              /\ pc' = [pc EXCEPT ![t] = IF inner[t] = None THEN "done" ELSE @]
              /\ UNCHANGED connections
           \/ /\ ~isShuttingDown
              /\ Pushes(c)
              /\ pc' = [pc EXCEPT ![t] = "notifying"]
              /\ UNCHANGED isOpen
        /\ UNCHANGED <<isShuttingDown, lookups>>

Sleepers == {s \in Threads : pc[s] = "sleeping"}

\* Mutant of WakesOne: no wake-up.
WakesNobody(t) == pc' = [pc EXCEPT ![t] = Afterwards(t)]

\* Mutant of WakesOne: wakes only when the queue was empty before the push.
WakesIfFirst(t) ==
    IF Len(connections) = 1 /\ Sleepers # {}
    THEN \E s \in Sleepers :
            pc' = [pc EXCEPT ![t] = Afterwards(t), ![s] = "woken"]
    ELSE pc' = [pc EXCEPT ![t] = Afterwards(t)]

\* notify_one wakes one sleeper, any of them, if there is one.
WakesOne(t) ==
    IF Sleepers = {}
    THEN pc' = [pc EXCEPT ![t] = Afterwards(t)]
    ELSE \E s \in Sleepers :
            pc' = [pc EXCEPT ![t] = Afterwards(t), ![s] = "woken"]

Notify(t) ==
    /\ pc[t] = "notifying"
    /\ WakesOne(t)
    /\ UNCHANGED <<connections, isOpen, isShuttingDown, outer, inner, lookups>>

-----------------------------------------------------------------------------
\* Mutant of WakesAll: notify_one in place of notify_all.
WakesOneOnly ==
    IF Sleepers = {} THEN UNCHANGED pc
    ELSE \E s \in Sleepers : pc' = [pc EXCEPT ![s] = "woken"]

WakesAll == pc' = [t \in Threads |-> IF t \in Sleepers THEN "woken" ELSE pc[t]]

\* close_all_connections: closes what is idle and wakes every sleeper.
CloseAll ==
    /\ ~isShuttingDown
    /\ isShuttingDown' = TRUE
    /\ connections' = <<>>
    /\ isOpen' = [c \in Conns |->
                    isOpen[c] /\ \A i \in 1..Len(connections) :
                                    connections[i] # c]
    /\ WakesAll
    /\ UNCHANGED <<outer, inner, lookups>>

\* The server ends a session, idle or borrowed; the pool learns of it later.
ServerDrops(c) ==
    /\ isOpen[c]
    /\ isOpen' = [isOpen EXCEPT ![c] = FALSE]
    /\ UNCHANGED <<connections, isShuttingDown, pc, outer, inner, lookups>>

Finished == /\ \A t \in Threads : pc[t] = "done"
            /\ UNCHANGED vars

Step(t) == Acquire(t) \/ Release(t) \/ Notify(t)

Next == \/ \E t \in Threads : Step(t) \/ SpuriousWakeup(t)
        \/ \E c \in Conns : ServerDrops(c)
        \/ CloseAll
        \/ Finished

\* Threads are scheduled; nothing obliges the server to fail, the process
\* to shut down or the library to wake a thread without a reason.
Fairness == \A t \in Threads : WF_vars(Step(t))

Spec == Init /\ [][Next]_vars

FairSpec == Spec /\ Fairness

-----------------------------------------------------------------------------
(***************************************************************************)
(* Properties                                                              *)
(***************************************************************************)

Queued == {connections[i] : i \in 1..Len(connections)}

Held(t) == {outer[t], inner[t]} \ {None}

\* Two requests never run on one connection, and no request runs on one the
\* pool would lend again: a second release of a moved-from wrapper, or a
\* wrapper that keeps its connection, would break this.
NoSharedConnection ==
    /\ \A i, j \in 1..Len(connections) :
          connections[i] = connections[j] => i = j
    /\ \A t \in Threads :
          /\ Held(t) \cap Queued = {}
          /\ outer[t] = inner[t] => outer[t] = None
    /\ \A s, t \in Threads : s # t => Held(s) \cap Held(t) = {}

\* A sleeper is owed a wake-up for as long as the queue holds a connection:
\* idle connections never outnumber the notifications on their way plus the
\* threads already woken. The push and its notify_one are two steps, and
\* late callers may take a connection in between.
NoLostWakeup ==
    (\E t \in Threads : pc[t] = "sleeping") =>
        Len(connections) <=
            Cardinality({t \in Threads : pc[t] \in {"notifying", "woken"}})

Leases == INSTANCE ConnectionLeases WITH
    Users <- Threads,
    idle <- Queued,
    lent <- [t \in Threads |-> Held(t)],
    closed <- isShuttingDown

\* The pool keeps what ConnectionLeases promises: whichever threads overtake
\* each other in the queue, wait, shut down or fail to open a connection
\* anew, a connection goes from the pool to one user and back.
LeasesKept == Leases!Spec

\* While the pool serves, a connection it opened is idle or in use, but for
\* those a failed attempt to open them anew has dropped.
NoConnectionLost ==
    ~isShuttingDown =>
        Conns \ Unreachable \subseteq Queued \cup UNION {Held(t) : t \in Threads}

\* The pool is never exhausted by requests that wait for the pool: with an
\* empty queue some thread that holds a connection is not waiting for one.
NotSelfBlocked ==
    connections = <<>> /\ ~isShuttingDown =>
        \E t \in Threads : Held(t) # {} /\ ~Waiting(t)

\* Every request that asks for a connection ends.
AllServed == <>(\A t \in Threads : pc[t] = "done")

\* Closing the pool releases every thread that waits in it.
ShutdownFreesWaiters ==
    isShuttingDown ~> (\A t \in Threads : ~Waiting(t))
=============================================================================
