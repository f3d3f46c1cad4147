------------------------- MODULE DatabasePoolProofs -------------------------
(***************************************************************************)
(* Theorems about the connection pool, for every number of threads and     *)
(* connections.                                                            *)
(***************************************************************************)
EXTENDS DatabasePool, FiniteSetTheorems, SequenceTheorems, TLAPS

-----------------------------------------------------------------------------
(***************************************************************************)
(* The shape of a request: which connections it can hold where it is.      *)
(***************************************************************************)

Shape == \A t \in Threads :
    /\ pc[t] \in {"start", "done"} => outer[t] = None
    /\ pc[t] = "using" => outer[t] # None
    /\ inner[t] # None => pc[t] = "using"
    /\ Waiting(t) /\ outer[t] # None => lookups[t] > 0
    /\ t \notin Nested => lookups[t] = 0

\* The initial states have the types and the shape.
LEMMA InitTyped == Init => TypeOK /\ Shape
<1> SUFFICES ASSUME Init PROVE TypeOK /\ Shape
  OBVIOUS
<1>1. Cardinality(Conns) \in Nat
  BY FS_CardinalityType, PoolAssumption
<1>2. connections \in Seq(Conns)
  BY <1>1, IsASeq DEF Init
<1>3. TypeOK
  <2>1. lookups \in [Threads -> Nat]
    BY PoolAssumption DEF Init
  <2>2. pc \in [Threads -> Places]
    BY DEF Init, Places
  <2> QED
    BY <1>2, <2>1, <2>2 DEF Init, TypeOK
<1>4. Shape
  BY <1>3 DEF Init, Shape, Waiting, TypeOK
<1> QED
  BY <1>3, <1>4

\* A thread that calls holds no lookup's connection, and a lookup is due if
\* it holds the request's.
LEMMA Callers ==
    ASSUME TypeOK, Shape, NEW t \in Threads, Calls(t) \/ pc[t] = "woken"
    PROVE  /\ inner[t] = None
           /\ outer[t] # None => lookups[t] - 1 \in Nat
BY DEF TypeOK, Shape, Calls, Waiting, Places

\* What a thrown exception leaves of the types and the shape.
LEMMA ThrowsTyped ==
    ASSUME TypeOK, Shape, NEW t \in Threads, Calls(t) \/ pc[t] = "woken",
           Throws(t), UNCHANGED <<outer, inner>>
    PROVE  /\ pc' \in [Threads -> Places]
           /\ lookups' \in [Threads -> Nat]
           /\ Shape'
<1>1. inner[t] = None /\ (outer[t] # None => lookups[t] - 1 \in Nat)
  BY Callers
<1>2. CASE outer[t] = None
  BY <1>1, <1>2 DEF TypeOK, Shape, Throws, Waiting, Places
<1>3. CASE outer[t] # None
  <2>1. PICK n \in {0, lookups[t] - 1} : lookups' = [lookups EXCEPT ![t] = n]
    BY <1>3 DEF Throws
  <2>2. n \in Nat /\ (t \notin Nested => n = 0)
    BY <1>1, <1>3 DEF Shape, TypeOK
  <2>3. pc' = [pc EXCEPT ![t] = "using"]
    BY <1>3 DEF Throws
  <2> QED
    BY <1>1, <1>3, <2>1, <2>2, <2>3 DEF TypeOK, Shape, Waiting, Places
<1> QED
  BY <1>2, <1>3

\* What lending a connection leaves of the types and the shape.
LEMMA LendsTyped ==
    ASSUME TypeOK, Shape, NEW t \in Threads, Calls(t) \/ pc[t] = "woken",
           NEW c \in Conns, Lends(t, c)
    PROVE  /\ pc' \in [Threads -> Places]
           /\ outer' \in [Threads -> Conns \cup {None}]
           /\ inner' \in [Threads -> Conns \cup {None}]
           /\ lookups' \in [Threads -> Nat]
           /\ Shape'
<1>1. inner[t] = None /\ (outer[t] # None => lookups[t] - 1 \in Nat)
  BY Callers
<1>2. c # None
  BY PoolAssumption
<1>3. CASE outer[t] = None
  BY <1>1, <1>2, <1>3 DEF TypeOK, Shape, Lends, Waiting, Places
<1>4. CASE outer[t] # None
  <2>1. lookups[t] - 1 \in Nat /\ t \in Nested
    BY <1>1, <1>4 DEF TypeOK, Shape
  <2>2. /\ pc' = [pc EXCEPT ![t] = "using"]
        /\ outer' = outer
        /\ inner' = [inner EXCEPT ![t] = c]
        /\ lookups' = [lookups EXCEPT ![t] = lookups[t] - 1]
    BY <1>4 DEF Lends
  <2>3. /\ pc' \in [Threads -> Places]
        /\ outer' \in [Threads -> Conns \cup {None}]
        /\ inner' \in [Threads -> Conns \cup {None}]
        /\ lookups' \in [Threads -> Nat]
    BY <2>1, <2>2 DEF TypeOK, Places
  <2>4. Shape'
    BY <1>4, <2>1, <2>2 DEF TypeOK, Shape, Waiting
  <2> QED
    BY <2>3, <2>4
<1> QED
  BY <1>3, <1>4

\* Every step keeps the types and the shape.
LEMMA NextTyped ==
    ASSUME TypeOK, Shape, [Next]_vars
    PROVE  TypeOK' /\ Shape'
<1>1. ASSUME NEW t \in Threads, Acquire(t)
      PROVE  TypeOK' /\ Shape'
  <2>0. Calls(t) \/ pc[t] = "woken"
    BY <1>1 DEF Acquire
  <2>1. CASE /\ isShuttingDown
             /\ Throws(t)
             /\ UNCHANGED <<connections, isOpen, isShuttingDown, outer, inner>>
    BY <2>0, <2>1, ThrowsTyped DEF TypeOK
  <2>2. CASE /\ connections = <<>>
             /\ pc' = [pc EXCEPT ![t] = "sleeping"]
             /\ UNCHANGED <<connections, isOpen, isShuttingDown, outer, inner,
                            lookups>>
    <3>1. TypeOK'
      BY <2>2 DEF TypeOK, Places
    <3>2. inner[t] = None /\ (outer[t] # None => lookups[t] > 0)
      BY <2>0, Callers DEF TypeOK
    <3>3. Shape'
      BY <2>2, <3>2 DEF TypeOK, Shape, Waiting, Places
    <3> QED
      BY <3>1, <3>3
  <2>3. CASE Pops(t)
    <3>1. /\ connections # <<>>
          /\ connections \in Seq(Conns)
          /\ Head(connections) \in Conns
          /\ Tail(connections) \in Seq(Conns)
      BY <2>3, HeadTailProperties DEF Pops, TypeOK
    <3>2. /\ connections' \in Seq(Conns)
          /\ isShuttingDown' \in BOOLEAN
      BY <2>3, <3>1 DEF Pops, TypeOK
    <3>3. CASE /\ Lends(t, Head(connections))
               /\ isOpen' = [isOpen EXCEPT ![Head(connections)] = TRUE]
      BY <2>0, <3>1, <3>2, <3>3, LendsTyped DEF TypeOK
    <3>4. CASE Throws(t) /\ UNCHANGED <<isOpen, outer, inner>>
      BY <2>0, <3>2, <3>4, ThrowsTyped DEF TypeOK
    <3> QED
      BY <2>3, <3>3, <3>4 DEF Pops
  <2> QED
    BY <1>1, <2>1, <2>2, <2>3 DEF Acquire
<1>2. ASSUME NEW t \in Threads, Release(t)
      PROVE  TypeOK' /\ Shape'
  <2> DEFINE c == Innermost(t)
  <2>1. c \in Conns
    BY <1>2 DEF Release, Innermost, TypeOK
  <2>2. Append(connections, c) \in Seq(Conns)
    BY <2>1, AppendProperties DEF TypeOK
  <2>3. /\ connections' \in Seq(Conns)
        /\ isOpen' \in [Conns -> BOOLEAN]
    BY <1>2, <2>2 DEF Release, Pushes, TypeOK
  <2>4. TypeOK'
    BY <1>2, <2>3 DEF Release, Clears, TypeOK, Places
  <2>5. Shape'
    BY <1>2 DEF Release, Clears, Innermost, TypeOK, Shape, Waiting, Places
  <2> QED
    BY <2>4, <2>5
<1>3. ASSUME NEW t \in Threads, Notify(t)
      PROVE  TypeOK' /\ Shape'
  <2>1. CASE pc' = [pc EXCEPT ![t] = Afterwards(t)]
    BY <1>3, <2>1 DEF Notify, Afterwards, TypeOK, Shape, Waiting, Places
  <2>2. ASSUME NEW s \in Sleepers,
               pc' = [pc EXCEPT ![t] = Afterwards(t), ![s] = "woken"]
        PROVE  TypeOK' /\ Shape'
    BY <1>3, <2>2
    DEF Notify, Sleepers, Afterwards, TypeOK, Shape, Waiting, Places
  <2> QED
    BY <1>3, <2>1, <2>2 DEF Notify, WakesOne
<1>4. ASSUME NEW t \in Threads, SpuriousWakeup(t)
      PROVE  TypeOK' /\ Shape'
  BY <1>4 DEF SpuriousWakeup, TypeOK, Shape, Waiting, Places
<1>5. ASSUME NEW c \in Conns, ServerDrops(c)
      PROVE  TypeOK' /\ Shape'
  BY <1>5 DEF ServerDrops, TypeOK, Shape, Waiting, Places
<1>6. CASE CloseAll
  <2>1. connections' \in Seq(Conns)
    BY <1>6, EmptySeq DEF CloseAll
  <2>2. TypeOK'
    BY <1>6, <2>1 DEF CloseAll, WakesAll, TypeOK, Places
  <2>3. Shape'
    BY <1>6 DEF CloseAll, WakesAll, Sleepers, TypeOK, Shape, Waiting, Places
  <2> QED
    BY <2>2, <2>3
<1>7. CASE UNCHANGED vars
  BY <1>7 DEF vars, TypeOK, Shape, Waiting
<1> QED
  BY <1>1, <1>2, <1>3, <1>4, <1>5, <1>6, <1>7 DEF Next, Step, Finished

\* Type correctness, and the shape of every request: a request's connection
\* outlives its lookups' ones, and only a lookup waits while holding one.
THEOREM Typing == Spec => [](TypeOK /\ Shape)
<1>1. Init => TypeOK /\ Shape
  BY InitTyped
<1>2. TypeOK /\ Shape /\ [Next]_vars => TypeOK' /\ Shape'
  BY NextTyped
<1> QED
  BY <1>1, <1>2, PTL DEF Spec

-----------------------------------------------------------------------------
(***************************************************************************)
(* The elements of a queue under Head, Tail and Append.                    *)
(***************************************************************************)

Elements(s) == {s[i] : i \in 1..Len(s)}

Distinct(s) == \A i, j \in 1..Len(s) : s[i] = s[j] => i = j

\* Popping the head of a queue without repetitions takes it out of it.
LEMMA PopElements ==
    ASSUME NEW S, NEW s \in Seq(S), s # <<>>, Distinct(s)
    PROVE  /\ Head(s) \in Elements(s)
           /\ Elements(Tail(s)) = Elements(s) \ {Head(s)}
           /\ Distinct(Tail(s))
<1>1. /\ Len(s) \in Nat \ {0}
      /\ Head(s) = s[1]
      /\ Len(Tail(s)) = Len(s) - 1
      /\ \A i \in 1..Len(Tail(s)) : Tail(s)[i] = s[i + 1]
  BY HeadTailProperties, LenProperties, EmptySeq
<1>2. Head(s) \in Elements(s)
  BY <1>1 DEF Elements
<1>3. ASSUME NEW x \in Elements(Tail(s))
      PROVE  x \in Elements(s) \ {Head(s)}
  <2>1. PICK i \in 1..Len(Tail(s)) : x = Tail(s)[i]
    BY DEF Elements
  <2>2. i + 1 \in 1..Len(s) /\ 1 \in 1..Len(s) /\ x = s[i + 1] /\ i + 1 # 1
    BY <1>1, <2>1
  <2> QED
    BY <1>1, <2>2 DEF Elements, Distinct
<1>4. ASSUME NEW x \in Elements(s), x # Head(s)
      PROVE  x \in Elements(Tail(s))
  <2>1. PICK i \in 1..Len(s) : x = s[i]
    BY DEF Elements
  <2>2. i - 1 \in 1..Len(Tail(s)) /\ Tail(s)[i - 1] = x
    BY <1>1, <1>4, <2>1
  <2> QED
    BY <2>2 DEF Elements
<1>5. Distinct(Tail(s))
  <2> SUFFICES ASSUME NEW i \in 1..Len(Tail(s)), NEW j \in 1..Len(Tail(s)),
                      Tail(s)[i] = Tail(s)[j]
               PROVE  i = j
    BY DEF Distinct
  <2>1. /\ i + 1 \in 1..Len(s)
        /\ j + 1 \in 1..Len(s)
        /\ s[i + 1] = s[j + 1]
    BY <1>1
  <2> QED
    BY <2>1 DEF Distinct
<1> QED
  BY <1>2, <1>3, <1>4, <1>5

\* Pushing puts the element in the queue, and repeats none that is not there.
LEMMA PushElements ==
    ASSUME NEW S, NEW s \in Seq(S), NEW x \in S
    PROVE  /\ Elements(Append(s, x)) = Elements(s) \cup {x}
           /\ Distinct(s) /\ x \notin Elements(s) => Distinct(Append(s, x))
<1>1. /\ Len(s) \in Nat
      /\ Len(Append(s, x)) = Len(s) + 1
      /\ \A i \in 1..Len(s) : Append(s, x)[i] = s[i]
      /\ Append(s, x)[Len(s) + 1] = x
  BY AppendProperties, LenProperties
<1> DEFINE n == Len(s) + 1
<1>2. \A i \in 1..n : i \in 1..Len(s) \/ i = n
  BY <1>1
<1>3. 1..Len(s) \subseteq 1..n /\ n \in 1..n
  BY <1>1
<1>4. Elements(Append(s, x)) = Elements(s) \cup {x}
  BY <1>1, <1>2, <1>3 DEF Elements
<1>5. ASSUME Distinct(s), x \notin Elements(s)
      PROVE  Distinct(Append(s, x))
  BY <1>1, <1>2, <1>5 DEF Elements, Distinct
<1> QED
  BY <1>4, <1>5

-----------------------------------------------------------------------------
(***************************************************************************)
(* No connection is shared.                                                *)
(***************************************************************************)

\* NoSharedConnection in terms of the queue's elements.
LEMMA SharedByElements ==
    NoSharedConnection <=>
        /\ Distinct(connections)
        /\ \A t \in Threads :
              /\ Held(t) \cap Elements(connections) = {}
              /\ outer[t] = inner[t] => outer[t] = None
        /\ \A s, t \in Threads : s # t => Held(s) \cap Held(t) = {}
BY DEF NoSharedConnection, Distinct, Elements, Queued

\* What a lent connection adds to the connections a thread holds.
LEMMA LendsHeld ==
    ASSUME TypeOK, Shape, NEW t \in Threads, Calls(t) \/ pc[t] = "woken",
           NEW c \in Conns, Lends(t, c)
    PROVE  /\ Held(t)' = Held(t) \cup {c}
           /\ \A s \in Threads \ {t} : Held(s)' = Held(s)
           /\ \A s \in Threads \ {t} :
                 outer'[s] = outer[s] /\ inner'[s] = inner[s]
           /\ outer'[t] = inner'[t] => outer[t] = c
<1>1. inner[t] = None /\ c # None
  BY Callers, PoolAssumption
<1>2. CASE outer[t] = None
  BY <1>1, <1>2 DEF TypeOK, Lends, Held
<1>3. CASE outer[t] # None
  BY <1>1, <1>3 DEF TypeOK, Lends, Held
<1> QED
  BY <1>2, <1>3

\* A released connection is one the thread held, and holds no more.
LEMMA ReleaseHeld ==
    ASSUME TypeOK, Shape, NEW t \in Threads, Release(t),
           outer[t] = inner[t] => outer[t] = None
    PROVE  /\ Innermost(t) \in Conns
           /\ Innermost(t) \in Held(t)
           /\ Held(t)' = Held(t) \ {Innermost(t)}
           /\ \A s \in Threads \ {t} : Held(s)' = Held(s)
           /\ \A s \in Threads :
                 outer'[s] = inner'[s] /\ outer'[s] # None =>
                     outer[s] = inner[s] /\ outer[s] # None
<1>1. Innermost(t) # None
  BY DEF Release
<1>2. CASE inner[t] # None
  BY <1>1, <1>2 DEF TypeOK, Release, Clears, Innermost, Held
<1>3. CASE inner[t] = None
  BY <1>1, <1>3 DEF TypeOK, Release, Clears, Innermost, Held
<1> QED
  BY <1>2, <1>3

\* Every step keeps the connections of the threads and the queue apart.
LEMMA NextUnshared ==
    ASSUME TypeOK, Shape, NoSharedConnection, [Next]_vars
    PROVE  NoSharedConnection'
<1> DEFINE Q == Elements(connections)
<1>0. /\ Distinct(connections)
      /\ \A t \in Threads : Held(t) \cap Q = {}
      /\ \A t \in Threads : outer[t] = inner[t] => outer[t] = None
      /\ \A s, t \in Threads : s # t => Held(s) \cap Held(t) = {}
  BY SharedByElements
<1> SUFFICES
      /\ Distinct(connections')
      /\ \A t \in Threads : Held(t)' \cap Elements(connections') = {}
      /\ \A t \in Threads : outer'[t] = inner'[t] => outer'[t] = None
      /\ \A s, t \in Threads : s # t => Held(s)' \cap Held(t)' = {}
  BY DEF NoSharedConnection, Queued, Distinct, Elements
<1>1. ASSUME UNCHANGED <<outer, inner>>
      PROVE  \A t \in Threads : Held(t)' = Held(t)
  BY <1>1 DEF Held
<1>2. CASE UNCHANGED <<outer, inner, connections>>
  BY <1>0, <1>1, <1>2
<1>3. ASSUME NEW t \in Threads, Acquire(t)
      PROVE  /\ Distinct(connections')
             /\ \A s \in Threads : Held(s)' \cap Elements(connections') = {}
             /\ \A s \in Threads : outer'[s] = inner'[s] => outer'[s] = None
             /\ \A r, s \in Threads : r # s => Held(r)' \cap Held(s)' = {}
  <2>1. CASE UNCHANGED <<connections, outer, inner>>
    BY <1>2, <2>1
  <2>2. CASE Pops(t)
    <3> DEFINE c == Head(connections)
    <3>1. /\ c \in Conns
          /\ c \in Q
          /\ connections' = Tail(connections)
          /\ Elements(connections') = Q \ {c}
          /\ Distinct(connections')
      BY <1>0, <2>2, PopElements, HeadTailProperties DEF Pops, TypeOK
    <3>2. CASE Lends(t, c)
      <4>1. Calls(t) \/ pc[t] = "woken"
        BY <1>3 DEF Acquire
      <4>2. /\ Held(t)' = Held(t) \cup {c}
            /\ \A s \in Threads \ {t} : Held(s)' = Held(s)
            /\ \A s \in Threads \ {t} :
                  outer'[s] = outer[s] /\ inner'[s] = inner[s]
            /\ outer'[t] = inner'[t] => outer[t] = c
        BY <3>1, <3>2, <4>1, LendsHeld
      <4>3. outer[t] # c
        BY <1>0, <3>1, PoolAssumption DEF Held
      <4> QED
        BY <1>0, <3>1, <4>2, <4>3
    <3>3. CASE UNCHANGED <<outer, inner>>
      BY <1>0, <1>1, <3>1, <3>3
    <3> QED
      BY <2>2, <3>2, <3>3 DEF Pops
  <2> QED
    BY <1>3, <2>1, <2>2 DEF Acquire
<1>4. ASSUME NEW t \in Threads, Release(t)
      PROVE  /\ Distinct(connections')
             /\ \A s \in Threads : Held(s)' \cap Elements(connections') = {}
             /\ \A s \in Threads : outer'[s] = inner'[s] => outer'[s] = None
             /\ \A r, s \in Threads : r # s => Held(r)' \cap Held(s)' = {}
  <2> DEFINE c == Innermost(t)
  <2>1. /\ c \in Conns
        /\ c \in Held(t)
        /\ Held(t)' = Held(t) \ {c}
        /\ \A s \in Threads \ {t} : Held(s)' = Held(s)
        /\ \A s \in Threads : outer'[s] = inner'[s] => outer'[s] = None
    BY <1>0, <1>4, ReleaseHeld
  <2>2. CASE UNCHANGED connections
    BY <1>0, <2>1, <2>2
  <2>3. CASE connections' = Append(connections, c)
    <3>1. c \notin Q
      BY <1>0, <2>1
    <3>2. /\ Elements(connections') = Q \cup {c}
          /\ Distinct(connections')
      BY <1>0, <2>1, <2>3, <3>1, PushElements DEF TypeOK
    <3> QED
      BY <1>0, <2>1, <3>2
  <2> QED
    BY <1>4, <2>2, <2>3 DEF Release, Pushes
<1>5. CASE CloseAll
  <2>1. connections' = <<>> /\ UNCHANGED <<outer, inner>>
    BY <1>5 DEF CloseAll
  <2>2. Distinct(connections') /\ Elements(connections') = {}
    BY <2>1 DEF Distinct, Elements
  <2> QED
    BY <1>0, <1>1, <2>1, <2>2
<1> QED
  BY <1>2, <1>3, <1>4, <1>5
  DEF Next, Step, Notify, SpuriousWakeup, ServerDrops, Finished, vars

\* Whatever the number of requests, connections and lookups, and whether or
\* not reconnecting fails, a connection has one user: the idle queue, a
\* request, or a lookup of that request.
THEOREM Unshared == Spec => []NoSharedConnection
<1>1. Init => NoSharedConnection
  <2> SUFFICES ASSUME Init PROVE NoSharedConnection
    OBVIOUS
  <2>1. Cardinality(Conns) \in Nat
    BY FS_CardinalityType, PoolAssumption
  <2>2. Len(connections) = Cardinality(Conns)
    BY <2>1 DEF Init
  <2>3. \A t \in Threads : Held(t) = {} /\ outer[t] = None
    BY DEF Init, Held
  <2> QED
    BY <2>2, <2>3 DEF Init, NoSharedConnection
<1>2. TypeOK /\ Shape /\ NoSharedConnection /\ [Next]_vars => NoSharedConnection'
  BY NextUnshared
<1> QED
  BY <1>1, <1>2, Typing, PTL DEF Spec

-----------------------------------------------------------------------------
(***************************************************************************)
(* No connection is lost that can be opened anew.                          *)
(***************************************************************************)

HeldBySome == UNION {Held(t) : t \in Threads}

\* A queue of as many distinct connections as there are holds every one.
LEMMA AllQueued ==
    ASSUME Init
    PROVE  Conns \subseteq Queued
<1> DEFINE n == Cardinality(Conns)
<1>1. n \in Nat /\ IsFiniteSet(1..n) /\ Cardinality(1..n) = n
  BY FS_CardinalityType, FS_Interval, PoolAssumption
<1>2. connections \in Injection(1..n, Conns)
  BY DEF Init, Injection, IsInjective
<1>3. connections \in Surjection(1..n, Conns)
  BY <1>1, <1>2, FS_Injection, PoolAssumption
<1>4. Len(connections) = n
  BY <1>1 DEF Init
<1> QED
  BY <1>3, <1>4 DEF Surjection, Queued

\* Every step keeps every connection that can be opened anew in the queue
\* or in a thread's hands.
LEMMA NextNotLost ==
    ASSUME TypeOK, Shape, NoSharedConnection, NoConnectionLost,
           [Next]_vars
    PROVE  NoConnectionLost'
<1> SUFFICES ASSUME ~isShuttingDown', NEW x \in Conns \ Unreachable
             PROVE  x \in Elements(connections') \/ \E t \in Threads : x \in Held(t)'
  BY DEF NoConnectionLost, Queued, Elements
<1>0. ~isShuttingDown
  BY DEF Next, Step, Acquire, Pops, Release, Notify, SpuriousWakeup,
         ServerDrops, CloseAll, Finished, vars
<1>1. x \in Elements(connections) \/ \E t \in Threads : x \in Held(t)
  BY <1>0 DEF NoConnectionLost, Queued, Elements
<1>2. CASE UNCHANGED <<connections, outer, inner>>
  BY <1>1, <1>2 DEF Held
<1>3. ASSUME NEW t \in Threads, Acquire(t), Pops(t)
      PROVE  x \in Elements(connections') \/ \E s \in Threads : x \in Held(s)'
  <2> DEFINE c == Head(connections)
  <2>1. /\ c \in Conns
        /\ Elements(connections') = Elements(connections) \ {c}
    BY <1>3, PopElements, HeadTailProperties, SharedByElements
    DEF Pops, TypeOK
  <2>2. CASE Lends(t, c) /\ (Calls(t) \/ pc[t] = "woken")
    <3>1. /\ Held(t)' = Held(t) \cup {c}
          /\ \A s \in Threads \ {t} : Held(s)' = Held(s)
      BY <2>1, <2>2, LendsHeld
    <3> QED
      BY <1>1, <2>1, <3>1
  <2>3. CASE c \in Unreachable /\ UNCHANGED <<outer, inner>>
    BY <1>1, <2>1, <2>3 DEF Held
  <2> QED
    BY <1>3, <2>2, <2>3 DEF Pops, Acquire
<1>4. ASSUME NEW t \in Threads, Release(t)
      PROVE  x \in Elements(connections') \/ \E s \in Threads : x \in Held(s)'
  <2> DEFINE c == Innermost(t)
  <2>1. /\ c \in Conns
        /\ Held(t)' = Held(t) \ {c}
        /\ \A s \in Threads \ {t} : Held(s)' = Held(s)
    BY <1>4, ReleaseHeld, SharedByElements
  <2>2. Elements(connections') = Elements(connections) \cup {c}
    BY <1>0, <1>4, <2>1, PushElements DEF Release, Pushes, TypeOK
  <2> QED
    BY <1>1, <2>1, <2>2
<1>5. CASE CloseAll
  BY <1>5 DEF CloseAll
<1> QED
  BY <1>2, <1>3, <1>4, <1>5
  DEF Next, Step, Acquire, Notify, SpuriousWakeup, ServerDrops, Finished, vars

\* The pool never loses a connection it was built with, but for those that
\* cannot be opened anew after the server has dropped them.
THEOREM NotLost == Spec => []NoConnectionLost
<1>1. Init => NoConnectionLost
  BY AllQueued DEF NoConnectionLost
<1>2. TypeOK /\ Shape /\ NoSharedConnection /\ NoConnectionLost /\ [Next]_vars
         => NoConnectionLost'
  BY NextNotLost
<1> QED
  BY <1>1, <1>2, Typing, Unshared, PTL DEF Spec

-----------------------------------------------------------------------------
(***************************************************************************)
(* The pool does not block itself.                                         *)
(***************************************************************************)

\* If every lasting connection is with a waiting thread, each is with a different
\* Nested one: there are at least as many Nested threads as connections.
LEMMA FewNestedLeaveOne ==
    ASSUME TypeOK, Shape, NoSharedConnection, NoConnectionLost,
           Cardinality(Nested) < Cardinality(Conns \ Unreachable)
    PROVE  NotSelfBlocked
<1> SUFFICES ASSUME connections = <<>>, ~isShuttingDown,
                    \A t \in Threads : Held(t) # {} => Waiting(t)
             PROVE  FALSE
  BY DEF NotSelfBlocked
<1>1. Queued = {}
  BY DEF Queued
<1> DEFINE Lasting == Conns \ Unreachable
<1>2. \A c \in Lasting : \E t \in Nested : outer[t] = c
  <2> TAKE c \in Lasting
  <2>1. PICK t \in Threads : c \in Held(t)
    BY <1>1 DEF NoConnectionLost
  <2>2. Waiting(t)
    BY <2>1
  <2>3. inner[t] = None
    BY <2>2 DEF Shape, Waiting
  <2>4. outer[t] = c /\ c # None
    BY <2>1, <2>3, PoolAssumption DEF Held
  <2>5. t \in Nested
    BY <2>2, <2>4 DEF Shape
  <2> QED
    BY <2>4, <2>5
<1> DEFINE f == [c \in Lasting |-> CHOOSE t \in Nested : outer[t] = c]
<1>3. \A c \in Lasting : f[c] \in Nested /\ outer[f[c]] = c
  BY <1>2
<1>4. f \in [Lasting -> Nested]
  BY <1>3
<1>5. IsFiniteSet(Nested) /\ IsFiniteSet(Lasting)
  BY FS_Subset, PoolAssumption
<1>6. PICK x, y \in Lasting : x # y /\ f[x] = f[y]
  <2> HIDE DEF f
  <2> QED
    BY <1>4, <1>5, FS_PigeonHole, PoolAssumption
<1> QED
  BY <1>3, <1>6

\* With fewer requests that look up tokens than lasting connections, an
\* exhausted pool always has a user that is not waiting for it: the pool cannot starve
\* itself. The bound is exact: as many of them as connections block each other.
THEOREM NotBlocked ==
    Cardinality(Nested) < Cardinality(Conns \ Unreachable)
        => (Spec => []NotSelfBlocked)
<1> SUFFICES ASSUME Cardinality(Nested) < Cardinality(Conns \ Unreachable)
             PROVE  Spec => []NotSelfBlocked
  OBVIOUS
<1>1. TypeOK /\ Shape /\ NoSharedConnection /\ NoConnectionLost
         => NotSelfBlocked
  BY FewNestedLeaveOne
<1>2. Spec => []NoConnectionLost
  BY NotLost
<1> QED
  BY <1>1, <1>2, Typing, Unshared, PTL

-----------------------------------------------------------------------------
(***************************************************************************)
(* No wake-up is lost.                                                     *)
(***************************************************************************)

\* The threads that have yet to notify, or to look at the queue again.
Owed == {t \in Threads : pc[t] \in {"notifying", "woken"}}

\* A closed pool queues nothing.
ClosedIsEmpty == isShuttingDown => connections = <<>>

\* Owed loses or gains at most the threads that move.
LEMMA OwedCounts ==
    ASSUME TypeOK, NEW t \in Threads, NEW p \in Places,
           pc' = [pc EXCEPT ![t] = p]
    PROVE  /\ Cardinality(Owed') \in Nat
           /\ Cardinality(Owed') >= Cardinality(Owed) - 1
           /\ p \in {"notifying", "woken"} /\ t \notin Owed =>
                 Cardinality(Owed') = Cardinality(Owed) + 1
<1>1. /\ IsFiniteSet(Owed)
      /\ IsFiniteSet(Owed')
  BY FS_Subset, PoolAssumption DEF Owed
<1>2. Cardinality(Owed) \in Nat /\ Cardinality(Owed') \in Nat
  BY <1>1, FS_CardinalityType
<1>3. Owed' = Owed \cup {t} \/ Owed' = Owed \ {t}
  BY DEF Owed, TypeOK
<1>4. p \in {"notifying", "woken"} => Owed' = Owed \cup {t}
  BY DEF Owed, TypeOK
<1>5. CASE Owed' = Owed \cup {t}
  <2>1. Cardinality(Owed') =
           IF t \in Owed THEN Cardinality(Owed) ELSE Cardinality(Owed) + 1
    BY <1>1, <1>5, FS_AddElement
  <2> QED
    BY <1>2, <2>1
<1>6. CASE Owed' = Owed \ {t} /\ p \notin {"notifying", "woken"}
  <2>1. Cardinality(Owed') =
           IF t \in Owed THEN Cardinality(Owed) - 1 ELSE Cardinality(Owed)
    BY <1>1, <1>6, FS_RemoveElement
  <2> QED
    BY <1>2, <1>6, <2>1
<1> QED
  BY <1>3, <1>4, <1>5, <1>6

\* A notification that finds a sleeper is handed over, not used up.
LEMMA HandedOver ==
    ASSUME TypeOK, NEW t \in Threads, pc[t] = "notifying",
           NEW s \in Sleepers, NEW p \in Places \ {"notifying", "woken"},
           pc' = [pc EXCEPT ![t] = p, ![s] = "woken"]
    PROVE  Cardinality(Owed') = Cardinality(Owed)
<1>1. IsFiniteSet(Owed)
  BY FS_Subset, PoolAssumption DEF Owed
<1>2. t \in Owed /\ s \notin Owed /\ s # t
  BY DEF Owed, Sleepers
<1>3. Owed' = (Owed \ {t}) \cup {s}
  BY <1>2 DEF Owed, TypeOK, Sleepers
<1>4. /\ IsFiniteSet(Owed \ {t})
      /\ Cardinality(Owed \ {t}) = Cardinality(Owed) - 1
  BY <1>1, <1>2, FS_RemoveElement
<1>5. Cardinality((Owed \ {t}) \cup {s}) = Cardinality(Owed \ {t}) + 1
  BY <1>2, <1>4, FS_AddElement
<1>6. Cardinality(Owed) \in Nat
  BY <1>1, FS_CardinalityType
<1> QED
  BY <1>3, <1>4, <1>5, <1>6

\* Every step keeps a closed pool empty, and its sleepers owed a wake-up.
LEMMA NextOwed ==
    ASSUME TypeOK, Shape, ClosedIsEmpty, NoLostWakeup, [Next]_vars
    PROVE  ClosedIsEmpty' /\ NoLostWakeup'
<1> USE DEF Waiting
<1>0. Len(connections) \in Nat /\ Cardinality(Owed) \in Nat
  <2>1. IsFiniteSet(Owed)
    BY FS_Subset, PoolAssumption DEF Owed
  <2> QED
    BY <2>1, FS_CardinalityType, LenProperties DEF TypeOK
<1>1. ClosedIsEmpty'
  BY DEF ClosedIsEmpty, Next, Step, Acquire, Pops, Release, Notify,
         SpuriousWakeup, ServerDrops, CloseAll, Finished, vars
<1>2. /\ NoLostWakeup <=> (Sleepers # {} => Len(connections) <= Cardinality(Owed))
      /\ NoLostWakeup' <=>
           (Sleepers' # {} => Len(connections') <= Cardinality(Owed'))
  BY DEF NoLostWakeup, Sleepers, Owed
<1> SUFFICES ASSUME Sleepers' # {}
             PROVE  Len(connections') <= Cardinality(Owed')
  BY <1>1, <1>2
<1>3. CASE connections' = <<>>
  <2>1. IsFiniteSet(Owed')
    BY FS_Subset, PoolAssumption DEF Owed
  <2>2. Cardinality(Owed') \in Nat
    BY <2>1, FS_CardinalityType
  <2> QED
    BY <1>3, <2>2
<1>4. ASSUME NEW t \in Threads, Acquire(t), Pops(t)
      PROVE  Len(connections') <= Cardinality(Owed')
  <2>1. PICK p \in {"using", "done"} : pc' = [pc EXCEPT ![t] = p]
    BY <1>4 DEF Pops, Lends, Throws
  <2>2. Sleepers # {}
    BY <2>1 DEF Sleepers, TypeOK
  <2>3. Len(connections') = Len(connections) - 1
    BY <1>4, HeadTailProperties DEF Pops, TypeOK
  <2>4. p \in Places
    BY DEF Places
  <2>5. Cardinality(Owed') >= Cardinality(Owed) - 1 /\ Cardinality(Owed') \in Nat
    BY <2>1, <2>4, OwedCounts
  <2> QED
    BY <1>0, <1>2, <2>2, <2>3, <2>5
<1>5. ASSUME NEW t \in Threads, Release(t), ~isShuttingDown
      PROVE  Len(connections') <= Cardinality(Owed')
  <2>1. pc' = [pc EXCEPT ![t] = "notifying"] /\ pc[t] = "using"
    BY <1>5 DEF Release
  <2>2. Sleepers # {} /\ t \notin Owed
    BY <2>1 DEF Sleepers, TypeOK, Owed
  <2>3. Innermost(t) \in Conns
    BY <1>5 DEF Release, Innermost, TypeOK
  <2>4. Len(connections') = Len(connections) + 1
    BY <1>5, <2>3, AppendProperties DEF Release, Pushes, TypeOK
  <2>5. Cardinality(Owed') = Cardinality(Owed) + 1
    BY <2>1, <2>2, OwedCounts DEF Places
  <2> QED
    BY <1>0, <1>2, <2>2, <2>4, <2>5
<1>6. ASSUME NEW t \in Threads, Notify(t)
      PROVE  Len(connections') <= Cardinality(Owed')
  <2>1. connections' = connections /\ pc[t] = "notifying"
    BY <1>6 DEF Notify
  <2>2. Afterwards(t) \in Places \ {"notifying", "woken", "sleeping"}
    BY DEF Afterwards, Places
  <2>3. Sleepers # {}
    BY <1>6, <2>2 DEF Notify, WakesOne, Sleepers, TypeOK
  <2>4. PICK s \in Sleepers :
           pc' = [pc EXCEPT ![t] = Afterwards(t), ![s] = "woken"]
    BY <1>6, <2>3 DEF Notify, WakesOne
  <2>5. Cardinality(Owed') = Cardinality(Owed)
    BY <2>1, <2>2, <2>4, HandedOver
  <2> QED
    BY <1>2, <2>1, <2>3, <2>5
<1>7. ASSUME NEW t \in Threads, SpuriousWakeup(t)
      PROVE  Len(connections') <= Cardinality(Owed')
  <2>1. /\ pc' = [pc EXCEPT ![t] = "woken"]
        /\ pc[t] = "sleeping"
        /\ connections' = connections
    BY <1>7 DEF SpuriousWakeup
  <2>2. t \notin Owed /\ Sleepers # {}
    BY <2>1 DEF Owed, Sleepers
  <2>3. Cardinality(Owed') = Cardinality(Owed) + 1
    BY <2>1, <2>2, OwedCounts DEF Places
  <2> QED
    BY <1>0, <1>2, <2>1, <2>2, <2>3
<1>8. CASE UNCHANGED <<connections, pc>>
  BY <1>2, <1>8 DEF Sleepers, Owed
<1>9. CASE isShuttingDown'
  BY <1>1, <1>3, <1>9 DEF ClosedIsEmpty
<1>10. ASSUME NEW t \in Threads, Acquire(t)
       PROVE  Len(connections') <= Cardinality(Owed')
  BY <1>3, <1>4, <1>9, <1>10 DEF Acquire
<1>11. ASSUME NEW t \in Threads, Release(t)
       PROVE  Len(connections') <= Cardinality(Owed')
  BY <1>5, <1>9, <1>11 DEF Release
<1> QED
  BY <1>6, <1>7, <1>8, <1>9, <1>10, <1>11
  DEF Next, Step, ServerDrops, CloseAll, Finished, vars

\* Although the push and its notify_one are separate steps, and callers that
\* arrive in between take connections first, idle connections never
\* outnumber the wake-ups on their way to the sleepers.
THEOREM WakeupsKept == Spec => []NoLostWakeup
<1>1. Init => ClosedIsEmpty /\ NoLostWakeup
  BY DEF Init, ClosedIsEmpty, NoLostWakeup
<1>2. TypeOK /\ Shape /\ ClosedIsEmpty /\ NoLostWakeup /\ [Next]_vars
         => ClosedIsEmpty' /\ NoLostWakeup'
  BY NextOwed
<1> QED
  BY <1>1, <1>2, Typing, PTL DEF Spec

-----------------------------------------------------------------------------
(***************************************************************************)
(* The pool implements ConnectionLeases.                                   *)
(***************************************************************************)

Lent == [t \in Threads |-> Held(t)]

\* The pool's threads and their connections, as ConnectionLeases sees them.
LEMMA LentChanges ==
    ASSUME NEW t \in Threads, NEW C,
           Held(t)' = C, \A s \in Threads \ {t} : Held(s)' = Held(s)
    PROVE  Lent' = [Lent EXCEPT ![t] = C]
BY DEF Lent

LEMMA SameLent ==
    ASSUME UNCHANGED <<connections, isShuttingDown, outer, inner>>
    PROVE  UNCHANGED Leases!vars
BY DEF Leases!vars, Queued, Held

\* Popping lends a connection, or loses it.
LEMMA PopsRefines ==
    ASSUME TypeOK, Shape, NoSharedConnection, NEW t \in Threads,
           Calls(t) \/ pc[t] = "woken", ~isShuttingDown, Pops(t)
    PROVE  Leases!Next
<1> DEFINE c == Head(connections)
<1>0. Queued = Elements(connections) /\ Queued' = Elements(connections')
  BY DEF Elements, Queued
<1>1. /\ c \in Conns /\ c \in Queued
      /\ Queued' = Queued \ {c}
      /\ UNCHANGED isShuttingDown
  BY <1>0, PopElements, HeadTailProperties, SharedByElements DEF Pops, TypeOK
<1>2. CASE Lends(t, c)
  <2>1. /\ Held(t)' = Held(t) \cup {c}
        /\ \A s \in Threads \ {t} : Held(s)' = Held(s)
    BY <1>1, <1>2, LendsHeld
  <2>2. Lent' = [Lent EXCEPT ![t] = Held(t) \cup {c}]
    BY <2>1, LentChanges
  <2>3. Lent' = [Lent EXCEPT ![t] = @ \cup {c}]
    BY <2>2 DEF Lent
  <2>4. Leases!Lend(t, c)
    BY <1>1, <2>3 DEF Leases!Lend, Lent
  <2> QED
    BY <1>1, <2>4 DEF Leases!Next
<1>3. CASE c \in Unreachable /\ UNCHANGED <<outer, inner>>
  <2>1. Leases!Lose(c)
    BY <1>1, <1>3 DEF Leases!Lose, Held
  <2> QED
    BY <1>1, <2>1 DEF Leases!Next
<1> QED
  BY <1>2, <1>3 DEF Pops

\* A release returns a connection.
LEMMA ReleaseRefines ==
    ASSUME TypeOK, Shape, NoSharedConnection, ClosedIsEmpty,
           NEW t \in Threads, Release(t)
    PROVE  Leases!Next
<1> DEFINE c == Innermost(t)
<1>1. /\ c \in Conns /\ c \in Held(t)
      /\ Held(t)' = Held(t) \ {c}
      /\ \A s \in Threads \ {t} : Held(s)' = Held(s)
  BY ReleaseHeld, SharedByElements
<1>2. Lent' = [Lent EXCEPT ![t] = Held(t) \ {c}]
  BY <1>1, LentChanges
<1>3. Lent' = [Lent EXCEPT ![t] = @ \ {c}] /\ c \in Lent[t]
  BY <1>1, <1>2 DEF Lent
<1>4. Queued' = IF isShuttingDown THEN {} ELSE Queued \cup {c}
  <2>1. CASE isShuttingDown
    BY <2>1 DEF Release, ClosedIsEmpty, Queued
  <2>2. CASE ~isShuttingDown
    <3>1. Queued = Elements(connections) /\ Queued' = Elements(connections')
      BY DEF Elements, Queued
    <3> QED
      BY <1>1, <2>2, <3>1, PushElements DEF Release, Pushes, TypeOK
  <2> QED
    BY <2>1, <2>2
<1>5. Leases!Return(t, c)
  BY <1>3, <1>4 DEF Leases!Return, Lent, Release
<1> QED
  BY <1>1, <1>5 DEF Leases!Next

\* Every step of the pool lends, returns, loses, closes, or does nothing.
LEMMA NextRefines ==
    ASSUME TypeOK, Shape, NoSharedConnection, ClosedIsEmpty, [Next]_vars
    PROVE  [Leases!Next]_(Leases!vars)
<1>1. CASE UNCHANGED <<connections, isShuttingDown, outer, inner>>
  BY <1>1, SameLent
<1>2. ASSUME NEW t \in Threads, Acquire(t)
      PROVE  [Leases!Next]_(Leases!vars)
  BY <1>1, <1>2, PopsRefines DEF Acquire
<1>3. CASE CloseAll
  <2>1. Queued' = {} /\ Lent' = Lent
    BY <1>3 DEF CloseAll, Queued, Lent, Held
  <2>2. Leases!Close
    BY <1>3, <2>1 DEF Leases!Close, CloseAll, Lent
  <2> QED
    BY <2>2 DEF Leases!Next
<1> QED
  BY <1>1, <1>2, <1>3, ReleaseRefines
  DEF Next, Step, Notify, SpuriousWakeup, ServerDrops, Finished, vars

LEMMA InitRefines ==
    ASSUME Init
    PROVE  Leases!Init
<1>1. Cardinality(Conns) \in Nat
  BY FS_CardinalityType, PoolAssumption
<1>2. Queued \subseteq Conns
  BY <1>1 DEF Init, Queued
<1> QED
  BY <1>2, AllQueued DEF Init, Leases!Init, Held

LEMMA Emptied == Spec => []ClosedIsEmpty
<1>1. Init => ClosedIsEmpty
  BY DEF Init, ClosedIsEmpty
<1>2. ClosedIsEmpty /\ [Next]_vars => ClosedIsEmpty'
  BY DEF ClosedIsEmpty, Next, Step, Acquire, Pops, Release, Notify,
         SpuriousWakeup, ServerDrops, CloseAll, Finished, vars
<1> QED
  BY <1>1, <1>2, PTL DEF Spec

\* For any number of threads and connections, whatever fails to be opened
\* anew and whenever the pool is closed: the queue, the wrappers and the
\* shutdown implement exclusive leases.
THEOREM LeasesHonoured == Spec => LeasesKept
<1>1. Init => Leases!Init
  BY InitRefines
<1>2. TypeOK /\ Shape /\ NoSharedConnection /\ ClosedIsEmpty /\ [Next]_vars
         => [Leases!Next]_(Leases!vars)
  BY NextRefines
<1> QED
  BY <1>1, <1>2, Typing, Unshared, Emptied, PTL
  DEF Spec, LeasesKept, Leases!Spec
=============================================================================
