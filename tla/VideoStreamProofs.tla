-------------------------- MODULE VideoStreamProofs --------------------------
(***************************************************************************)
(* Proofs about VideoStream, for videos of any length, loads of any number *)
(* of chunks, and any number of loads, streams and seeks: what is played   *)
(* next is buffered, on its way, or yet to be asked for; no update of the  *)
(* SourceBuffer begins while another is at work; and the transmuxer is     *)
(* given one chunk after another.                                          *)
(*                                                                         *)
(* They follow from one invariant, the last from another one with it, about *)
(* the mail. It is shown first of the functions on a stream of which the   *)
(* actions are made, each for itself, and then of the actions.             *)
(***************************************************************************)
EXTENDS VideoStream, FiniteSetTheorems, NaturalsInduction, WellFoundedInduction, TLAPS

-----------------------------------------------------------------------------
(* Records and sequences of tasks.                                         *)

\* A load has a chunk to do.
Task == {t \in [kind : {"load", "evict"}, gen : Nat, todo : Times, last : Times,
                seg : Nat, at : TaskSteps] :
            t.kind = "load" => t.todo <= t.last /\ t.last < Chunks}

\* What the service posts to the transmuxer.
Message == [type : {"CHUNK", "SEEK"}, to : Times, gen : Nat]

\* How far a seek out of the buffer has come, and where it goes.
Clearing == [at : {"no", "idle", "behind", "ahead", "sync"}, to : Times]

\* What the SourceBuffer is at work for.
Update == [by : {"none", "load", "evict", "room", "clear"}, gen : Nat]

\* A stream has these fields and no others.
Whole(r) ==
    r = [at |-> r.at, for |-> r.for, from |-> r.from, fast |-> r.fast,
         next |-> r.next, active |-> r.active, gen |-> r.gen, tasks |-> r.tasks,
         clear |-> r.clear, timer |-> r.timer, op |-> r.op,
         buffered |-> r.buffered, playhead |-> r.playhead, ended |-> r.ended,
         workers |-> r.workers, fed |-> r.fed, mail |-> r.mail]

\* The part of TypeOK that these proofs need, of one stream.
Typed(r) ==
    /\ Whole(r)
    /\ r.from \in Times /\ r.next \in Times /\ r.playhead \in Times
    /\ r.gen \in Nat /\ r.fed \in Int /\ r.buffered \subseteq 0..(Chunks - 1)
    /\ r.tasks \in Seq(Task) /\ r.mail \in Seq(Message)
    /\ r.clear \in Clearing /\ r.op \in Update

\* The constants are numbers, and what they count is there.
LEMMA Numbers ==
    /\ Chunks \in Nat /\ Chunks > 0 /\ PerLoad \in Nat /\ PerLoad > 0
    /\ Slots \in Nat /\ Slots > 0 /\ Ahead \in Nat /\ Behind \in Nat
    /\ Segments \in Nat /\ Room \in Nat /\ MaxStreams \in Nat /\ MaxSeeks \in Nat
    BY VideoAssumption

\* The lesser of two numbers.
LEMMA LeastOfTwo ==
    ASSUME NEW a \in Int, NEW b \in Int
    PROVE  Min({a, b}) = IF a <= b THEN a ELSE b
    BY DEF Min

\* A sequence of tasks with one more.
LEMMA SequenceFacts ==
    ASSUME NEW S, NEW q \in Seq(S)
    PROVE  /\ Len(q) \in Nat /\ DOMAIN q = 1..Len(q)
           /\ \A i \in DOMAIN q : i \in Nat /\ q[i] \in S
    OBVIOUS

\* A sequence of tasks one of which is replaced.
LEMMA PlaceSet ==
    ASSUME NEW q \in Seq(Task), NEW i \in DOMAIN q, NEW u \in Task,
           NEW p, p = [q EXCEPT ![i] = u]
    PROVE  /\ p \in Seq(Task) /\ DOMAIN p = DOMAIN q /\ p[i] = u
           /\ \A j \in DOMAIN q : j # i => p[j] = q[j]
<1>. HIDE DEF Task
<1>. QED
    OBVIOUS

\* A task that moves on to another place remains a task.
LEMMA TaskSet ==
    ASSUME NEW t \in Task, NEW w \in TaskSteps, NEW u, u = [t EXCEPT !.at = w]
    PROVE  /\ u \in Task /\ u.at = w /\ u.kind = t.kind /\ u.gen = t.gen
           /\ u.todo = t.todo /\ u.last = t.last
    BY DEF Task

\* Sets of numbers that have 0 and n + 1 with every n.
LEMMA SetInduction ==
    ASSUME NEW S, 0 \in S, \A n \in Nat : n \in S => n + 1 \in S
    PROVE  Nat \subseteq S
<1>. SUFFICES ASSUME NEW n \in Nat \ S PROVE FALSE
    OBVIOUS
<1>. DEFINE R == {ss \in Nat \X Nat : ss[1] < ss[2]}
<1>1. IsWellFoundedOn(R, Nat)
    BY NatLessThanWellFounded DEF OpToRel
<1>2. \A j, k \in Nat : j < k => <<j, k>> \in R
    OBVIOUS
<1>. HIDE DEF R
<1>3. PICK m \in Nat \ S : \A k \in Nat \ S : ~ (<<k, m>> \in R)
    BY <1>1, WFMin
<1>4. ASSUME NEW k \in Nat \ S PROVE m <= k
    <2>1. m \in Nat /\ k \in Nat /\ ~(k < m)
        BY <1>2, <1>3
    <2>. QED
        BY <2>1
<1>5. m - 1 \in Nat /\ m - 1 \in S
    BY <1>4
<1>. QED
    BY <1>5

\* The prefixes of Kept, as its definition says them, up to n.
Prefixes(q, K, n, f) ==
    f = [i \in 0..n |-> IF i = 0 THEN <<>>
                        ELSE IF i \in K THEN Append(f[i - 1], q[i])
                        ELSE f[i - 1]]

\* There is such a function for every n.
LEMMA PrefixesExist ==
    ASSUME NEW q, NEW K PROVE \A n \in Nat : \E f : Prefixes(q, K, n, f)
<1>. DEFINE T == {n \in Nat : \E f : Prefixes(q, K, n, f)}
            Next1(v, i) == IF i \in K THEN Append(v, q[i]) ELSE v
<1>1. 0 \in T
    <2>. DEFINE f == [i \in 0..0 |-> <<>>]
    <2>1. Prefixes(q, K, 0, f)
        BY DEF Prefixes
    <2>. QED
        BY <2>1
<1>2. ASSUME NEW n \in Nat, n \in T PROVE n + 1 \in T
    <2>1. PICK f : Prefixes(q, K, n, f)
        BY <1>2
    <2>. DEFINE g == [i \in 0..(n + 1) |-> IF i = n + 1 THEN Next1(f[n], n + 1) ELSE f[i]]
    <2>2. \A i \in 0..n : f[i] = IF i = 0 THEN <<>> ELSE Next1(f[i - 1], i)
        BY <2>1 DEF Prefixes
    <2>. HIDE DEF Next1
    <2>3. ASSUME NEW i \in 0..(n + 1)
          PROVE  g[i] = IF i = 0 THEN <<>> ELSE Next1(g[i - 1], i)
        <3>1. CASE i = 0
            BY <2>2, <3>1
        <3>2. CASE i # 0 /\ i # n + 1
            <4>1. i \in 0..n /\ i - 1 \in 0..n /\ g[i] = f[i] /\ g[i - 1] = f[i - 1]
                BY <3>2
            <4>. QED
                BY <2>2, <3>2, <4>1
        <3>3. CASE i = n + 1
            <4>1. g[i] = Next1(f[n], i) /\ i - 1 = n /\ g[n] = f[n] /\ i # 0
                BY <3>3
            <4>. QED
                BY <4>1
        <3>. QED
            BY <3>1, <3>2, <3>3
    <2>4. g = [i \in 0..(n + 1) |-> g[i]]
        OBVIOUS
    <2>. HIDE DEF g
    <2>5. Prefixes(q, K, n + 1, g)
        BY <2>3, <2>4 DEF Prefixes, Next1
    <2>. QED
        BY <2>5
<1>. HIDE DEF T
<1>3. Nat \subseteq T
    BY <1>1, <1>2, SetInduction
<1>. QED
    BY <1>3 DEF T

\* p is what q has at the places in K, in this order: h says which place of q
\* each place of p is.
Embeds(p, q, K, h) ==
    /\ h \in [DOMAIN p -> K]
    /\ \A j \in DOMAIN p : p[j] = q[h[j]]
    /\ \A j, k \in DOMAIN p : j < k => h[j] < h[k]
    /\ \A k \in K : \E j \in DOMAIN p : h[j] = k

\* One more of q, after all that p has.
LEMMA EmbedsMore ==
    ASSUME NEW S, NEW q \in Seq(S), NEW i \in DOMAIN q, NEW K, K \subseteq 1..(i - 1),
           NEW p \in Seq(S), NEW h, Embeds(p, q, K, h)
    PROVE  \E g : Embeds(Append(p, q[i]), q, K \cup {i}, g)
<1>. DEFINE m == Len(p)
            e == Append(p, q[i])
            g == [j \in 1..(m + 1) |-> IF j = m + 1 THEN i ELSE h[j]]
<1>1. /\ m \in Nat /\ DOMAIN p = 1..m /\ i \in Nat /\ i >= 1 /\ q[i] \in S
      /\ e \in Seq(S) /\ DOMAIN e = 1..(m + 1) /\ e[m + 1] = q[i]
      /\ \A j \in 1..m : e[j] = p[j]
    OBVIOUS
<1>. HIDE DEF e, m
<1>0. /\ h \in [1..m -> K] /\ \A j \in 1..m : p[j] = q[h[j]]
      /\ \A j, k \in 1..m : j < k => h[j] < h[k]
      /\ \A k \in K : \E j \in 1..m : h[j] = k
    BY <1>1 DEF Embeds
<1>. HIDE DEF Embeds
<1>9. ASSUME NEW j \in 1..m PROVE h[j] \in K /\ h[j] \in Int /\ h[j] < i
    <2>1. h[j] \in K
        BY <1>0
    <2>2. h[j] \in 1..(i - 1)
        BY <2>1
    <2>. QED
        BY <1>1, <2>1, <2>2
<1>2. /\ \A j \in 1..m : g[j] = h[j] /\ h[j] \in K /\ h[j] \in Int /\ h[j] < i
      /\ g[m + 1] = i
    BY <1>1, <1>9
<1>3. DOMAIN g = 1..(m + 1) /\ g \in [1..(m + 1) -> K \cup {i}]
    BY <1>1, <1>9
<1>. HIDE DEF g
<1>4. ASSUME NEW j \in 1..(m + 1) PROVE e[j] = q[g[j]]
    <2>1. CASE j = m + 1
        BY <1>1, <1>2, <2>1
    <2>2. CASE j # m + 1
        <3>1. j \in 1..m
            BY <1>1, <2>2
        <3>. QED
            BY <1>0, <1>1, <1>2, <3>1
    <2>. QED
        BY <2>1, <2>2
<1>5. ASSUME NEW j \in 1..(m + 1), NEW k \in 1..(m + 1), j < k PROVE g[j] < g[k]
    <2>1. j \in 1..m
        BY <1>1, <1>5
    <2>2. CASE k = m + 1
        BY <1>2, <2>1, <2>2
    <2>3. CASE k # m + 1
        <3>1. k \in 1..m
            BY <1>1, <2>3
        <3>. QED
            BY <1>0, <1>2, <1>5, <2>1, <3>1
    <2>. QED
        BY <2>2, <2>3
<1>6. \A k \in K \cup {i} : \E j \in 1..(m + 1) : g[j] = k
    <2>1. \E j \in 1..(m + 1) : g[j] = i
        BY <1>1, <1>2
    <2>2. \A k \in K : \E j \in 1..m : g[j] = k
        BY <1>0, <1>1, <1>2
    <2>. QED
        BY <1>1, <2>1, <2>2
<1>7. Embeds(e, q, K \cup {i}, g)
    BY <1>1, <1>3, <1>4, <1>5, <1>6 DEF Embeds
<1>. QED
    BY <1>7 DEF e

\* Kept gives what is at the places in K, in its order.
LEMMA KeptOrder ==
    ASSUME NEW S, NEW q \in Seq(S), NEW K, K \subseteq DOMAIN q
    PROVE  Kept(q, K) \in Seq(S) /\ \E h : Embeds(Kept(q, K), q, K, h)
<1>. DEFINE n == Len(q)
            f == CHOOSE f : Prefixes(q, K, n, f)
            Good(i) == /\ f[i] \in Seq(S)
                       /\ \E h : Embeds(f[i], q, K \cap 1..i, h)
            T == {i \in Nat : i <= n => Good(i)}
<1>1. n \in Nat /\ DOMAIN q = 1..n
    OBVIOUS
<1>2. Prefixes(q, K, n, f) /\ Kept(q, K) = f[n]
    <2>1. \E g : Prefixes(q, K, n, g)
        BY <1>1, PrefixesExist
    <2>. QED
        BY <2>1 DEF Prefixes, Kept
<1>. HIDE DEF f
<1>3. \A i \in 0..n : f[i] = IF i = 0 THEN <<>>
                             ELSE IF i \in K THEN Append(f[i - 1], q[i])
                             ELSE f[i - 1]
    BY <1>2 DEF Prefixes
<1>4. 0 \in T
    <2>1. f[0] = <<>>
        BY <1>1, <1>3
    <2>2. f[0] \in Seq(S) /\ DOMAIN f[0] = {} /\ K \cap 1..0 = {}
        BY <2>1
    <2>. DEFINE h == [j \in {} |-> 0]
    <2>3. h \in [{} -> {}]
        OBVIOUS
    <2>. HIDE DEF h
    <2>4. Embeds(f[0], q, K \cap 1..0, h)
        BY <2>2, <2>3 DEF Embeds
    <2>. QED
        BY <2>2, <2>4
<1>. HIDE DEF T, Good
<1>5. ASSUME NEW i \in Nat, i \in T PROVE i + 1 \in T
    <2>. SUFFICES ASSUME i + 1 <= n PROVE Good(i + 1)
        BY <1>5 DEF T
    <2>0. i <= n /\ Good(i)
        BY <1>1, <1>5 DEF T
    <2>. USE DEF Good
    <2>1. Good(i) /\ i + 1 \in DOMAIN q /\ q[i + 1] \in S
        BY <1>1, <2>0
    <2>2. f[i + 1] = IF i + 1 \in K THEN Append(f[i], q[i + 1]) ELSE f[i]
        BY <1>1, <1>3
    <2>3. PICK h : Embeds(f[i], q, K \cap 1..i, h)
        BY <2>1
    <2>4. CASE i + 1 \in K
        <3>1. f[i + 1] = Append(f[i], q[i + 1]) /\ f[i] \in Seq(S)
            BY <2>1, <2>2, <2>4
        <3>2. /\ K \cap 1..(i + 1) = (K \cap 1..i) \cup {i + 1}
              /\ K \cap 1..i \subseteq 1..((i + 1) - 1)
            BY <2>4
        <3>3. \E g : Embeds(Append(f[i], q[i + 1]), q, (K \cap 1..i) \cup {i + 1}, g)
            BY <2>1, <2>3, <3>1, <3>2, EmbedsMore
        <3>4. f[i + 1] \in Seq(S)
            BY <2>1, <3>1
        <3>. QED
            BY <3>1, <3>2, <3>3, <3>4
    <2>5. CASE i + 1 \notin K
        <3>1. K \cap 1..(i + 1) = K \cap 1..i
            BY <2>5
        <3>. QED
            BY <2>1, <2>2, <2>5, <3>1
    <2>. QED
        BY <2>4, <2>5
<1>6. n \in T
    BY <1>1, <1>4, <1>5, SetInduction
<1>7. Good(n)
    BY <1>1, <1>6 DEF T
<1>. USE DEF Good
<1>8. K \cap 1..n = K
    BY <1>1
<1>. QED
    BY <1>2, <1>7, <1>8

-----------------------------------------------------------------------------
(***************************************************************************)
(* The invariants of one stream r. The promises hold while no seek within  *)
(* the buffer has ended one out of it ("early"), and those about what is   *)
(* loaded while no load has failed.                                        *)
(***************************************************************************)
Current(r, i) == i \in DOMAIN r.tasks /\ r.tasks[i].gen = r.gen

Load(r, i) == Current(r, i) /\ r.tasks[i].kind = "load"

\* No task of the same generation is before it.
Foremost(r, i) == \A j \in DOMAIN r.tasks : j < i => r.tasks[j].gen # r.tasks[i].gen

\* Of each generation, only the first task is at work.
OneAtWork(r) ==
    \A i \in DOMAIN r.tasks : r.tasks[i].at # "queue" => Foremost(r, i)

\* Tasks of older generations are past the point of no return.
Leftovers(r) ==
    \A i \in DOMAIN r.tasks :
        /\ r.tasks[i].gen <= r.gen
        /\ r.tasks[i].gen # r.gen =>
              GoesOn(r.tasks[i]) /\ (r.tasks[i].kind = "evict" => r.clear.at = "idle")
        /\ r.tasks[i].kind = "evict" => r.tasks[i].at \in {"queue", "evict"}
        /\ r.tasks[i].at = "evict" => r.tasks[i].kind = "evict"

\* The place of the task that the buffer is at work for.
Place(by) == IF by = "load" THEN "append" ELSE by

Owns(r, i) == r.tasks[i].gen = r.op.gen /\ r.tasks[i].at = Place(r.op.by)

\* Who the buffer is at work for is there, and is not the seek of another
\* generation.
Owned(r) ==
    /\ r.op.by = "none" <=> r.op = Idle
    /\ r.op.gen <= r.gen
    /\ r.op.by \in {"load", "room", "evict"} => \E i \in DOMAIN r.tasks : Owns(r, i)
    /\ r.op.by = "clear" =>
          IF r.op.gen = r.gen THEN r.clear.at \in {"behind", "ahead"} ELSE r.clear.at = "idle"

\* An eviction that has begun is what the buffer is at work for.
Evicting(r) ==
    \A i \in DOMAIN r.tasks :
        r.tasks[i].at = "evict" => r.op.by = "evict" /\ r.op.gen = r.tasks[i].gen

\* While a seek out of the buffer is prepared, it is waited for, nothing else
\* is loaded, and the transmuxer is asked once, after all else.
Preparing(r, seeking) ==
    /\ r.clear.at # "no" =>
          /\ seeking /\ r.clear.to < Chunks
          /\ \A i \in DOMAIN r.tasks : ~ Current(r, i)
          /\ \A k \in DOMAIN r.mail : r.mail[k].type = "CHUNK" => r.mail[k].gen # r.gen
    /\ \A k \in DOMAIN r.mail :
          /\ r.mail[k].gen <= r.gen
          /\ r.mail[k].type = "SEEK" /\ r.mail[k].gen = r.gen =>
                r.clear.at = "sync" /\ r.mail[k].to = r.clear.to /\ k = Len(r.mail)

\* What holds of tasks and updates whatever has happened.
Working(r, seeking) ==
    OneAtWork(r) /\ Leftovers(r) /\ Owned(r) /\ Preparing(r, seeking)

\* The loads are of one chunk after another, up to the next one to ask for.
InTurn(r) ==
    \A i \in DOMAIN r.tasks : Load(r, i) =>
        /\ r.tasks[i].todo <= r.tasks[i].last /\ r.tasks[i].last < r.next
        /\ \A c \in r.tasks[i].todo..(r.next - 1) :
              \E j \in DOMAIN r.tasks : Load(r, j) /\ c \in r.tasks[j].todo..r.tasks[j].last
        /\ \A j \in DOMAIN r.tasks : Load(r, j) /\ i < j => r.tasks[i].last < r.tasks[j].todo

\* What the transmuxer has been given is what comes before the first load, or
\* the chunk that this has in hand.
Feeding(r) ==
    r.at = "ready" /\ r.clear.at = "no" =>
       /\ r.mail # <<>> => \E i \in DOMAIN r.tasks : Load(r, i) /\ r.tasks[i].at = "mux"
       /\ (\A i \in DOMAIN r.tasks : ~ Load(r, i)) => r.fed + 1 = r.next
       /\ \A i \in DOMAIN r.tasks : Load(r, i) =>
            /\ r.tasks[i].at = "mux" =>
                  /\ r.mail = <<[type |-> "CHUNK", to |-> r.tasks[i].todo, gen |-> r.gen]>>
                  /\ r.fed + 1 = r.tasks[i].todo
            /\ r.tasks[i].at \notin {"queue", "mux"} =>
                  r.mail = <<>> /\ r.fed = r.tasks[i].todo
            /\ r.tasks[i].at = "queue" /\ (\A j \in DOMAIN r.tasks : j < i => ~ Load(r, j)) =>
                  r.fed + 1 = r.tasks[i].todo

\* What is played next is buffered or asked for, up to the next chunk to ask
\* for, and no eviction reaches it.
Coming(r) ==
    r.at = "ready" /\ ~ r.timer =>
       /\ r.clear.at = "no" =>
             /\ \A c \in r.playhead..(r.next - 1) :
                   \/ c \in r.buffered
                   \/ \E i \in DOMAIN r.tasks : Load(r, i) /\ c \in r.tasks[i].todo..r.tasks[i].last
             /\ ~ EvictsAhead(r)
       /\ r.clear.at # "no" => r.playhead >= r.clear.to

\* No task waits for the buffer.
NoneWaits(r) == \A i \in DOMAIN r.tasks : Current(r, i) /\ r.tasks[i].at # "wait"

\* Before a stream is ready, and after its end, there is nothing of this.
Quiet(r) ==
    r.at # "ready" =>
       /\ r.tasks = <<>> /\ r.mail = <<>> /\ r.clear = NoClear /\ r.op = Idle
       /\ ~ r.timer /\ r.gen = 0 /\ r.fed = -1 /\ r.playhead = 0

\* All of them, for a stream and what has happened, up to an eviction.
Sane(r, u, seeking) ==
    /\ Typed(r) /\ Quiet(r)
    /\ Working(r, seeking)
    /\ "failed" \notin u => InTurn(r) /\ Feeding(r)
    /\ "failed" \notin u /\ "gap" \notin u => Coming(r)
    /\ "late" \notin u => NoneWaits(r)

Fine(r, u, seeking) == Sane(r, u, seeking) /\ Evicting(r)

-----------------------------------------------------------------------------
(* What of a stream the loads and evictions leave alone.                   *)
Alike(q, r) ==
    /\ q.at = r.at /\ q.gen = r.gen /\ q.clear = r.clear /\ q.timer = r.timer
    /\ q.op = r.op /\ q.buffered = r.buffered /\ q.playhead = r.playhead
    /\ q.fed = r.fed /\ q.mail = r.mail

\* The numbers of a stream and of its tasks.
LEMMA TaskFacts ==
    ASSUME NEW r, Typed(r)
    PROVE  /\ Len(r.tasks) \in Nat /\ DOMAIN r.tasks = 1..Len(r.tasks)
           /\ r.gen \in Nat /\ r.next \in Int /\ r.playhead \in Int /\ r.fed \in Int
           /\ r.op.gen \in Nat
           /\ \A i \in DOMAIN r.tasks :
                 /\ i \in Nat /\ r.tasks[i] \in Task /\ r.tasks[i].gen \in Nat
                 /\ r.tasks[i].todo \in Int /\ r.tasks[i].last \in Int
<1>1. r.tasks \in Seq(Task)
    BY DEF Typed
<1>2. \A t \in Task : t.gen \in Nat /\ t.todo \in Int /\ t.last \in Int
    BY Numbers DEF Task, Times
<1>3. /\ Len(r.tasks) \in Nat /\ DOMAIN r.tasks = 1..Len(r.tasks)
      /\ \A i \in DOMAIN r.tasks : i \in Nat /\ r.tasks[i] \in Task
    BY <1>1, SequenceFacts
<1>4. /\ r.gen \in Nat /\ r.next \in Int /\ r.playhead \in Int /\ r.fed \in Int
      /\ r.op.gen \in Nat
    BY Numbers DEF Typed, Times, Update
<1>. HIDE DEF Task
<1>. QED
    BY <1>2, <1>3, <1>4

\* A stream that is not ready has nothing to break.
LEMMA QuietIsFine ==
    ASSUME NEW r, NEW u, NEW seeking, Typed(r), Quiet(r), r.at # "ready"
    PROVE  Fine(r, u, seeking)
<1>1. /\ r.tasks = <<>> /\ r.mail = <<>> /\ r.clear = NoClear /\ r.op = Idle /\ r.gen = 0
    BY DEF Quiet
<1>2. DOMAIN r.tasks = {} /\ DOMAIN r.mail = {} /\ r.clear.at = "no"
      /\ r.op.by = "none" /\ r.op.gen = 0
    BY <1>1 DEF NoClear, Idle
<1>3. OneAtWork(r) /\ Leftovers(r) /\ InTurn(r) /\ Evicting(r)
    BY <1>2 DEF OneAtWork, Leftovers, InTurn, Evicting
<1>4. Owned(r) /\ Preparing(r, seeking) /\ NoneWaits(r)
    BY <1>1, <1>2 DEF Owned, Preparing, NoneWaits
<1>5. Feeding(r) /\ Coming(r)
    BY DEF Feeding, Coming
<1>. QED
    BY <1>3, <1>4, <1>5 DEF Fine, Sane, Working

\* The more has happened, the less is promised.
LEMMA SaneLater ==
    ASSUME NEW r, NEW u, NEW v, u \subseteq v, NEW seeking, NEW after,
           Sane(r, u, seeking),
           r.clear.at = "no" \/ (seeking => after)
    PROVE  Sane(r, v, after) /\ (Fine(r, u, seeking) => Fine(r, v, after))
<1>1. (Working(r, seeking) => Working(r, after))
    BY DEF Working, Preparing
<1>. QED
    BY <1>1 DEF Sane, Fine

-----------------------------------------------------------------------------
(* Tasks that are dropped.                                                 *)
LEMMA DropsShape ==
    ASSUME NEW r, Typed(r), NEW gone, gone \subseteq DOMAIN r.tasks,
           NEW q, q = Drops(r, gone)
    PROVE  /\ Typed(q) /\ Alike(q, r) /\ q.next = r.next /\ q.from = r.from
           /\ \E h : Embeds(q.tasks, r.tasks, DOMAIN r.tasks \ gone, h)
<1>. DEFINE K == DOMAIN r.tasks \ gone
            p == Kept(r.tasks, K)
<1>1. p \in Seq(Task) /\ \E h : Embeds(p, r.tasks, K, h)
    <2>1. r.tasks \in Seq(Task)
        BY DEF Typed
    <2>. HIDE DEF Task
    <2>. QED
        BY <2>1, KeptOrder
<1>. HIDE DEF p
<1>2. PICK n : q = [r EXCEPT !.tasks = p, !.active = n]
    BY DEF Drops, p
<1>3. /\ Whole(q) /\ Alike(q, r) /\ q.next = r.next /\ q.from = r.from /\ q.tasks = p
    BY <1>2 DEF Typed, Whole, Alike
<1>4. Typed(q)
    BY <1>1, <1>3 DEF Typed, Alike
<1>. QED
    BY <1>1, <1>3, <1>4

\* The places that stay are those before, in their order.
Places(q, r, gone, h) ==
    /\ \A j \in DOMAIN q.tasks : /\ h[j] \in DOMAIN r.tasks /\ h[j] \notin gone
                                /\ q.tasks[j] = r.tasks[h[j]]
    /\ \A j, k \in DOMAIN q.tasks : j < k <=> h[j] < h[k]
    /\ \A i \in DOMAIN r.tasks \ gone : \E j \in DOMAIN q.tasks : h[j] = i

\* Every task that stays comes from one place, and every place that stays has one.
LEMMA DropsPlaces ==
    ASSUME NEW r, Typed(r), NEW gone, gone \subseteq DOMAIN r.tasks,
           NEW q, q = Drops(r, gone)
    PROVE  \E h : Places(q, r, gone, h)
<1>. DEFINE K == DOMAIN r.tasks \ gone
<1>1. K \subseteq DOMAIN r.tasks /\ \A i \in K : i \notin gone
    OBVIOUS
<1>2. PICK h : Embeds(q.tasks, r.tasks, K, h)
    BY DropsShape
<1>. HIDE DEF K
<1>3. Typed(q)
    BY DropsShape
<1>4. \A j \in DOMAIN q.tasks : h[j] \in K /\ q.tasks[j] = r.tasks[h[j]]
    BY <1>2 DEF Embeds
<1>5. \A j, k \in DOMAIN q.tasks : j < k => h[j] < h[k]
    BY <1>2 DEF Embeds
<1>6. \A j \in DOMAIN q.tasks : j \in Nat /\ h[j] \in Nat
    BY <1>1, <1>3, <1>4, TaskFacts
<1>7. ASSUME NEW j \in DOMAIN q.tasks, NEW k \in DOMAIN q.tasks, h[j] < h[k]
      PROVE  j < k
    <2>1. ~ (k < j) /\ j # k
        BY <1>5, <1>6, <1>7
    <2>. QED
        BY <1>6, <2>1
<1>8. \A i \in K : \E j \in DOMAIN q.tasks : h[j] = i
    BY <1>2 DEF Embeds
<1>9. \A i \in DOMAIN r.tasks \ gone : \E j \in DOMAIN q.tasks : h[j] = i
    BY <1>8 DEF K
<1>10. \A j \in DOMAIN q.tasks : h[j] \in DOMAIN r.tasks /\ h[j] \notin gone
    BY <1>1, <1>4
<1>. QED
    BY <1>4, <1>5, <1>7, <1>9, <1>10 DEF Places

\* Tasks may go that the buffer is not at work for.
LEMMA DropsWorking ==
    ASSUME NEW r, Typed(r), NEW gone, gone \subseteq DOMAIN r.tasks,
           NEW q, q = Drops(r, gone), NEW seeking, Working(r, seeking),
           \A i \in gone : r.op.by \in {"load", "room", "evict"} => ~ Owns(r, i)
    PROVE  Working(q, seeking) /\ (NoneWaits(r) => NoneWaits(q))
<1>1. Typed(q) /\ Alike(q, r)
    BY DropsShape
<1>3. PICK h : Places(q, r, gone, h)
    BY DropsPlaces
<1>. USE DEF Places
<1>4. OneAtWork(q)
    BY <1>3 DEF Working, OneAtWork, Foremost
<1>5. Leftovers(q)
    BY <1>1, <1>3 DEF Working, Leftovers, Alike
<1>6. Owned(q)
    <2>1. ASSUME r.op.by \in {"load", "room", "evict"}
          PROVE  \E j \in DOMAIN q.tasks : Owns(q, j)
        <3>1. PICK i \in DOMAIN r.tasks : Owns(r, i)
            BY <2>1 DEF Working, Owned
        <3>2. PICK j \in DOMAIN q.tasks : h[j] = i
            BY <1>3, <2>1, <3>1
        <3>. QED
            BY <1>1, <1>3, <3>1, <3>2 DEF Owns, Alike
    <2>. QED
        BY <1>1, <2>1 DEF Working, Owned, Alike
<1>7. Preparing(q, seeking)
    BY <1>1, <1>3 DEF Working, Preparing, Alike, Current
<1>8. NoneWaits(r) => NoneWaits(q)
    BY <1>1, <1>3 DEF NoneWaits, Alike, Current
<1>. QED
    BY <1>4, <1>5, <1>6, <1>7, <1>8 DEF Working

\* None of the loads that count is dropped.
LEMMA DropsOthers ==
    ASSUME NEW r, Typed(r), NEW gone, gone \subseteq DOMAIN r.tasks,
           NEW q, q = Drops(r, gone), \A i \in gone : ~ Load(r, i)
    PROVE  /\ InTurn(r) => InTurn(q)
           /\ Feeding(r) => Feeding(q)
           /\ Coming(r) => Coming(q)
<1>1. Typed(q) /\ Alike(q, r) /\ q.next = r.next
    BY DropsShape
<1>3. PICK h : Places(q, r, gone, h)
    BY DropsPlaces
<1>. USE DEF Places
<1>4. /\ \A j \in DOMAIN q.tasks : Load(q, j) <=> Load(r, h[j])
      /\ \A i : Load(r, i) => i \in DOMAIN r.tasks
      /\ \A i : Load(r, i) => \E j \in DOMAIN q.tasks : h[j] = i /\ Load(q, j)
    BY <1>1, <1>3 DEF Load, Current, Alike
<1>. HIDE DEF Load
<1>5. InTurn(r) => InTurn(q)
    BY <1>1, <1>3, <1>4 DEF InTurn
<1>6. Coming(r) => Coming(q)
    <2>1. ~ EvictsAhead(r) => ~ EvictsAhead(q)
        BY <1>1, <1>3 DEF EvictsAhead, Alike
    <2>. QED
        BY <1>1, <1>3, <1>4, <2>1 DEF Coming, Alike
<1>7. Feeding(r) => Feeding(q)
    <2>. SUFFICES ASSUME Feeding(r), q.at = "ready", q.clear.at = "no" PROVE Feeding(q)
        BY DEF Feeding
    <2>1. r.at = "ready" /\ r.clear.at = "no" /\ q.mail = r.mail /\ q.fed = r.fed /\ q.gen = r.gen
        BY <1>1 DEF Alike
    <2>2. q.mail # <<>> => \E i \in DOMAIN q.tasks : Load(q, i) /\ q.tasks[i].at = "mux"
        BY <1>3, <1>4, <2>1 DEF Feeding
    <2>3. (\A i \in DOMAIN q.tasks : ~ Load(q, i)) => q.fed + 1 = q.next
        BY <1>1, <1>4, <2>1 DEF Feeding
    <2>4. ASSUME NEW j \in DOMAIN q.tasks, Load(q, j),
                 \A k \in DOMAIN q.tasks : k < j => ~ Load(q, k)
          PROVE  \A i \in DOMAIN r.tasks : i < h[j] => ~ Load(r, i)
        BY <1>3, <1>4, <2>4
    <2>. QED
        BY <1>3, <1>4, <2>1, <2>2, <2>3, <2>4 DEF Feeding
<1>. QED
    BY <1>5, <1>6, <1>7

\* The load i has brought its last chunk.
Done(r, i) ==
    /\ Load(r, i) /\ r.tasks[i].at \notin {"queue", "mux"}
    /\ r.tasks[i].todo = r.tasks[i].last /\ r.tasks[i].todo \in r.buffered

\* After its last chunk the load i may go: the next one is in turn.
LEMMA DropsDone ==
    ASSUME NEW r, Typed(r), r.at = "ready", NEW i \in DOMAIN r.tasks, Done(r, i),
           NEW q, q = Drops(r, {i}), OneAtWork(r), InTurn(r)
    PROVE  /\ InTurn(q)
           /\ Feeding(r) => Feeding(q)
           /\ Coming(r) => Coming(q)
<1>1. Typed(q) /\ Alike(q, r) /\ q.next = r.next
    BY DropsShape
<1>2. PICK h : Places(q, r, {i}, h)
    BY DropsPlaces
<1>3. /\ \A j \in DOMAIN q.tasks : /\ h[j] \in DOMAIN r.tasks /\ h[j] # i
                                   /\ q.tasks[j] = r.tasks[h[j]]
      /\ \A j, k \in DOMAIN q.tasks : j < k <=> h[j] < h[k]
      /\ \A k \in DOMAIN r.tasks : k # i => \E j \in DOMAIN q.tasks : h[j] = k
    BY <1>2 DEF Places
<1>4. /\ \A j \in DOMAIN q.tasks : Load(q, j) <=> Load(r, h[j])
      /\ \A k : Load(r, k) => k \in DOMAIN r.tasks /\ r.tasks[k].gen = r.gen
      /\ \A k : Load(r, k) /\ k # i => \E j \in DOMAIN q.tasks : h[j] = k /\ Load(q, j)
    <2>1. \A j \in DOMAIN q.tasks : Load(q, j) <=> Load(r, h[j])
        BY <1>1, <1>3 DEF Load, Current, Alike
    <2>2. \A k : Load(r, k) => k \in DOMAIN r.tasks /\ r.tasks[k].gen = r.gen
        BY DEF Load, Current
    <2>3. ASSUME NEW k, Load(r, k), k # i
          PROVE  \E j \in DOMAIN q.tasks : h[j] = k /\ Load(q, j)
        <3>1. PICK j \in DOMAIN q.tasks : h[j] = k
            BY <1>3, <2>2, <2>3
        <3>2. Load(q, j)
            BY <2>1, <2>3, <3>1
        <3>. QED
            BY <3>1, <3>2
    <2>. QED
        BY <2>1, <2>2, <2>3
<1>. DEFINE t == r.tasks[i]
<1>5. /\ Load(r, i) /\ t.at \notin {"queue", "mux"} /\ t.todo = t.last
      /\ t.todo \in r.buffered
    BY DEF Done
<1>6. /\ \A k \in DOMAIN r.tasks : k \in Int /\ r.tasks[k].todo \in Int /\ r.tasks[k].last \in Int
      /\ r.next \in Int /\ r.playhead \in Int /\ i \in Int
    BY TaskFacts
<1>. HIDE DEF Load, Done
<1>7. /\ t.last < r.next
      /\ \A c \in t.todo..(r.next - 1) :
              \E j \in DOMAIN r.tasks : Load(r, j) /\ c \in r.tasks[j].todo..r.tasks[j].last
      /\ \A j \in DOMAIN r.tasks : Load(r, j) /\ i < j => t.last < r.tasks[j].todo
    BY <1>5 DEF InTurn
<1>8. \A k \in DOMAIN r.tasks : Load(r, k) /\ k # i => i < k /\ t.last < r.tasks[k].todo
    <2>. SUFFICES ASSUME NEW k \in DOMAIN r.tasks, Load(r, k), k # i PROVE i < k
        BY <1>7
    <2>1. ~ (k < i)
        BY <1>4, <1>5 DEF OneAtWork, Foremost
    <2>. QED
        BY <1>6, <2>1
<1>. HIDE DEF t
\* What comes after the chunk of this load is what the next one begins with.
<1>9. /\ (\A k \in DOMAIN r.tasks : k # i => ~ Load(r, k)) => r.next = t.last + 1
      /\ \A k \in DOMAIN r.tasks :
            Load(r, k) /\ k # i /\ (\A j \in DOMAIN r.tasks : j < k /\ j # i => ~ Load(r, j))
            => r.tasks[k].todo = t.last + 1
    <2>0. t.last \in Int /\ t.todo \in Int
        BY <1>6 DEF t
    <2>1. ASSUME t.last + 1 < r.next
          PROVE  \E j \in DOMAIN r.tasks : /\ Load(r, j) /\ j # i
                                           /\ t.last + 1 \in r.tasks[j].todo..r.tasks[j].last
        <3>1. t.last + 1 \in t.todo..(r.next - 1)
            BY <1>5, <1>6, <2>0, <2>1
        <3>2. PICK j \in DOMAIN r.tasks : /\ Load(r, j)
                                          /\ t.last + 1 \in r.tasks[j].todo..r.tasks[j].last
            BY <1>7, <3>1
        <3>3. j # i
            BY <2>0, <3>2 DEF t
        <3>. QED
            BY <3>2, <3>3
    <2>2. (\A k \in DOMAIN r.tasks : k # i => ~ Load(r, k)) => r.next = t.last + 1
        BY <1>6, <1>7, <2>0, <2>1
    <2>3. ASSUME NEW k \in DOMAIN r.tasks, Load(r, k), k # i,
                 \A j \in DOMAIN r.tasks : j < k /\ j # i => ~ Load(r, j)
          PROVE  r.tasks[k].todo = t.last + 1
        <3>1. /\ t.last < r.tasks[k].todo
              /\ r.tasks[k].todo <= r.tasks[k].last /\ r.tasks[k].last < r.next
            BY <1>8, <2>3 DEF InTurn
        <3>2. PICK j \in DOMAIN r.tasks : /\ Load(r, j) /\ j # i
                                          /\ t.last + 1 \in r.tasks[j].todo..r.tasks[j].last
            BY <1>6, <2>0, <2>1, <3>1
        <3>3. ~ (j < k)
            BY <2>3, <3>2
        <3>4. k < j => r.tasks[k].last < r.tasks[j].todo
            BY <2>3, <3>2 DEF InTurn
        <3>. QED
            BY <1>6, <2>0, <3>1, <3>2, <3>3, <3>4
    <2>. QED
        BY <2>2, <2>3
<1>10. InTurn(q)
    <2>. SUFFICES ASSUME NEW j \in DOMAIN q.tasks, Load(q, j)
                  PROVE  /\ q.tasks[j].todo <= q.tasks[j].last /\ q.tasks[j].last < q.next
                         /\ \A c \in q.tasks[j].todo..(q.next - 1) :
                               \E k \in DOMAIN q.tasks :
                                  Load(q, k) /\ c \in q.tasks[k].todo..q.tasks[k].last
                         /\ \A k \in DOMAIN q.tasks :
                               Load(q, k) /\ j < k => q.tasks[j].last < q.tasks[k].todo
        BY DEF InTurn
    <2>. DEFINE l == h[j]
    <2>1. l \in DOMAIN r.tasks /\ Load(r, l) /\ q.tasks[j] = r.tasks[l] /\ l # i
        BY <1>3, <1>4
    <2>2. /\ r.tasks[l].todo <= r.tasks[l].last /\ r.tasks[l].last < r.next
          /\ \A c \in r.tasks[l].todo..(r.next - 1) :
              \E k \in DOMAIN r.tasks : Load(r, k) /\ c \in r.tasks[k].todo..r.tasks[k].last
          /\ \A k \in DOMAIN r.tasks : Load(r, k) /\ l < k => r.tasks[l].last < r.tasks[k].todo
        BY <2>1 DEF InTurn
    <2>3. ASSUME NEW c \in q.tasks[j].todo..(q.next - 1)
          PROVE  \E k \in DOMAIN q.tasks : Load(q, k) /\ c \in q.tasks[k].todo..q.tasks[k].last
        <3>1. PICK k \in DOMAIN r.tasks : Load(r, k) /\ c \in r.tasks[k].todo..r.tasks[k].last
            BY <1>1, <2>1, <2>2
        <3>2. k # i
            <4>1. t.last < r.tasks[l].todo /\ t.last \in Int
                BY <1>6, <1>8, <2>1 DEF t
            <4>. QED
                BY <1>6, <2>1, <3>1, <4>1 DEF t
        <3>3. PICK m \in DOMAIN q.tasks : h[m] = k /\ Load(q, m)
            BY <1>4, <3>1, <3>2
        <3>. QED
            BY <1>3, <3>1, <3>3
    <2>4. ASSUME NEW k \in DOMAIN q.tasks, Load(q, k), j < k
          PROVE  q.tasks[j].last < q.tasks[k].todo
        <3>1. /\ h[k] \in DOMAIN r.tasks /\ Load(r, h[k]) /\ q.tasks[k] = r.tasks[h[k]]
              /\ l < h[k]
            BY <1>3, <1>4, <2>4
        <3>. QED
            BY <2>1, <2>2, <3>1
    <2>. QED
        BY <1>1, <2>1, <2>2, <2>3, <2>4
<1>11. Feeding(r) => Feeding(q)
    <2>. SUFFICES ASSUME Feeding(r), q.at = "ready", q.clear.at = "no" PROVE Feeding(q)
        BY DEF Feeding
    <2>1. r.at = "ready" /\ r.clear.at = "no" /\ q.mail = r.mail /\ q.fed = r.fed /\ q.gen = r.gen
        BY <1>1 DEF Alike
    <2>2. r.mail = <<>> /\ r.fed = t.last
        BY <1>5, <2>1 DEF Feeding, t
    <2>3. ASSUME NEW j \in DOMAIN q.tasks, Load(q, j) PROVE q.tasks[j].at = "queue"
        <3>1. h[j] \in DOMAIN r.tasks /\ Load(r, h[j]) /\ h[j] # i /\ q.tasks[j] = r.tasks[h[j]]
            BY <1>3, <1>4, <2>3
        <3>2. i < h[j] /\ r.tasks[i].gen = r.tasks[h[j]].gen
            BY <1>4, <1>5, <1>8, <3>1
        <3>. QED
            BY <3>1, <3>2 DEF OneAtWork, Foremost
    <2>4. (\A j \in DOMAIN q.tasks : ~ Load(q, j)) => q.fed + 1 = q.next
        <3>1. (\A j \in DOMAIN q.tasks : ~ Load(q, j)) => \A k \in DOMAIN r.tasks : k # i => ~ Load(r, k)
            BY <1>4
        <3>. QED
            BY <1>1, <1>9, <2>1, <2>2, <3>1
    <2>5. ASSUME NEW j \in DOMAIN q.tasks, Load(q, j),
                 \A k \in DOMAIN q.tasks : k < j => ~ Load(q, k)
          PROVE  q.fed + 1 = q.tasks[j].todo
        <3>1. h[j] \in DOMAIN r.tasks /\ Load(r, h[j]) /\ h[j] # i /\ q.tasks[j] = r.tasks[h[j]]
            BY <1>3, <1>4, <2>5
        <3>2. ASSUME NEW k \in DOMAIN r.tasks, k < h[j], k # i, Load(r, k) PROVE FALSE
            <4>1. PICK l \in DOMAIN q.tasks : h[l] = k /\ Load(q, l)
                BY <1>4, <3>2
            <4>2. l < j
                BY <1>3, <3>2, <4>1
            <4>. QED
                BY <2>5, <4>1, <4>2
        <3>. QED
            BY <1>9, <2>1, <2>2, <3>1, <3>2
    <2>. QED
        BY <2>1, <2>2, <2>3, <2>4, <2>5 DEF Feeding
<1>12. Coming(r) => Coming(q)
    <2>1. ~ EvictsAhead(r) => ~ EvictsAhead(q)
        <3>1. \A j \in DOMAIN q.tasks : h[j] \in DOMAIN r.tasks /\ q.tasks[j] = r.tasks[h[j]]
            BY <1>3
        <3>. QED
            BY <1>1, <3>1 DEF EvictsAhead, Alike
    <2>2. ASSUME NEW c \in Int, NEW k \in DOMAIN r.tasks, Load(r, k),
                 c \in r.tasks[k].todo..r.tasks[k].last
          PROVE  \/ c \in r.buffered
                 \/ \E j \in DOMAIN q.tasks : Load(q, j) /\ c \in q.tasks[j].todo..q.tasks[j].last
        <3>1. CASE k = i
            BY <1>5, <1>6, <2>2, <3>1 DEF t
        <3>2. CASE k # i
            <4>1. PICK j \in DOMAIN q.tasks : h[j] = k /\ Load(q, j)
                BY <1>4, <2>2, <3>2
            <4>2. q.tasks[j] = r.tasks[k]
                BY <1>3, <4>1
            <4>. QED
                BY <2>2, <4>1, <4>2
        <3>. QED
            BY <3>1, <3>2
    <2>3. r.playhead..(r.next - 1) \subseteq Int
        BY <1>6
    <2>. QED
        BY <1>1, <2>1, <2>2, <2>3 DEF Coming, Alike
<1>. QED
    BY <1>10, <1>11, <1>12

\* A stream of which tasks have gone, with what follows from an eviction.
LEMMA DropsFine ==
    ASSUME NEW r, NEW u, NEW seeking, Sane(r, u, seeking), r.at = "ready",
           NEW gone, gone \subseteq DOMAIN r.tasks, NEW q, q = Drops(r, gone),
           \A i \in gone : r.op.by \in {"load", "room", "evict"} => ~ Owns(r, i),
           \A i \in DOMAIN r.tasks \ gone :
                r.tasks[i].at = "evict" => r.op.by = "evict" /\ r.op.gen = r.tasks[i].gen,
           "failed" \notin u =>
                \/ \A i \in gone : ~ Load(r, i)
                \/ \E i \in DOMAIN r.tasks : gone = {i} /\ Done(r, i)
    PROVE  Fine(q, u, seeking) /\ Alike(q, r) /\ q.next = r.next
<1>1. Typed(r) /\ Typed(q) /\ Alike(q, r) /\ q.next = r.next
    BY DropsShape DEF Sane
<1>2. Quiet(q)
    BY <1>1 DEF Quiet, Alike
<1>3. /\ Working(q, seeking) /\ Evicting(q)
      /\ "late" \notin u => NoneWaits(q)
    <2>1. Working(q, seeking) /\ ("late" \notin u => NoneWaits(q))
        BY <1>1, DropsWorking DEF Sane
    <2>2. PICK h : Places(q, r, gone, h)
        BY <1>1, DropsPlaces
    <2>3. Evicting(q)
        BY <1>1, <2>2 DEF Evicting, Places, Alike
    <2>. QED
        BY <2>1, <2>3
<1>4. ASSUME "failed" \notin u
      PROVE  /\ InTurn(q) /\ Feeding(q)
             /\ "gap" \notin u => Coming(q)
    <2>0. Working(r, seeking) /\ InTurn(r) /\ Feeding(r) /\ ("gap" \notin u => Coming(r))
        BY <1>4 DEF Sane
    <2>1. CASE \A i \in gone : ~ Load(r, i)
        BY <1>1, <2>0, <2>1, DropsOthers
    <2>2. CASE \E i \in DOMAIN r.tasks : gone = {i} /\ Done(r, i)
        <3>1. PICK i \in DOMAIN r.tasks : gone = {i} /\ Done(r, i)
            BY <2>2
        <3>2. q = Drops(r, {i}) /\ OneAtWork(r)
            BY <2>0, <3>1 DEF Working
        <3>. QED
            BY <1>1, <2>0, <3>1, <3>2, DropsDone
    <2>. QED
        BY <1>4, <2>1, <2>2
<1>. QED
    BY <1>1, <1>2, <1>3, <1>4 DEF Fine, Sane

-----------------------------------------------------------------------------
(* Tasks that are begun.                                                   *)
Joins(q, r, t) ==
    /\ Typed(r) /\ Typed(q) /\ Alike(q, r)
    /\ q.tasks = Append(r.tasks, t) /\ t \in Task /\ t.at = "queue" /\ t.gen = r.gen

\* Where the tasks are then.
LEMMA JoinPlaces ==
    ASSUME NEW q, NEW r, NEW t, Joins(q, r, t)
    PROVE  \E n \in DOMAIN q.tasks :
              /\ q.tasks[n] = t
              /\ \A i \in DOMAIN q.tasks :
                    i = n \/ (i \in DOMAIN r.tasks /\ q.tasks[i] = r.tasks[i])
              /\ \A i \in DOMAIN r.tasks :
                    i < n /\ i # n /\ i \in DOMAIN q.tasks /\ q.tasks[i] = r.tasks[i]
<1>. DEFINE n == Len(r.tasks) + 1
<1>1. r.tasks \in Seq(Task) /\ q.tasks = Append(r.tasks, t) /\ t \in Task
    BY DEF Joins, Typed
<1>. HIDE DEF Task
<1>2. /\ Len(r.tasks) \in Nat /\ DOMAIN r.tasks = 1..Len(r.tasks) /\ DOMAIN q.tasks = 1..n
      /\ q.tasks[n] = t /\ \A i \in 1..Len(r.tasks) : q.tasks[i] = r.tasks[i]
    BY <1>1
<1>3. n \in DOMAIN q.tasks
    BY <1>2
<1>. QED
    BY <1>2, <1>3

\* It waits for its turn.
LEMMA JoinsWorking ==
    ASSUME NEW q, NEW r, NEW t, Joins(q, r, t), NEW seeking, Working(r, seeking),
           r.clear.at = "no"
    PROVE  /\ Working(q, seeking)
           /\ Evicting(r) => Evicting(q)
           /\ NoneWaits(r) => NoneWaits(q)
<1>1. PICK n \in DOMAIN q.tasks :
              /\ q.tasks[n] = t
              /\ \A i \in DOMAIN q.tasks :
                    i = n \/ (i \in DOMAIN r.tasks /\ q.tasks[i] = r.tasks[i])
              /\ \A i \in DOMAIN r.tasks :
                    i < n /\ i # n /\ i \in DOMAIN q.tasks /\ q.tasks[i] = r.tasks[i]
    BY JoinPlaces
<1>2. t.at = "queue" /\ t.gen = r.gen /\ Typed(r) /\ Alike(q, r) /\ t \in Task
    BY DEF Joins
<1>3. r.gen \in Nat /\ (\A i \in DOMAIN r.tasks : i \in Nat)
    BY <1>2, TaskFacts
<1>4. n \in Nat
    BY TaskFacts DEF Joins
<1>5. OneAtWork(q)
    <2>. SUFFICES ASSUME NEW i \in DOMAIN q.tasks, q.tasks[i].at # "queue",
                         NEW j \in DOMAIN q.tasks, j < i
                  PROVE  q.tasks[j].gen # q.tasks[i].gen
        BY DEF OneAtWork, Foremost
    <2>1. i \in DOMAIN r.tasks /\ q.tasks[i] = r.tasks[i] /\ i < n /\ i \in Nat
        BY <1>1, <1>2, <1>3
    <2>2. j \in DOMAIN r.tasks /\ q.tasks[j] = r.tasks[j]
        BY <1>1, <1>4, <2>1
    <2>. QED
        BY <2>1, <2>2 DEF Working, OneAtWork, Foremost
<1>6. Leftovers(q)
    <2>1. t.gen <= r.gen
        BY <1>2, <1>3
    <2>2. t.kind = "evict" => t.at \in {"queue", "evict"}
        BY <1>2
    <2>. QED
        BY <1>1, <1>2, <2>1, <2>2 DEF Working, Leftovers, Alike
<1>7. Owned(q)
    BY <1>1, <1>2 DEF Working, Owned, Owns, Alike
<1>8. Preparing(q, seeking)
    BY <1>2 DEF Working, Preparing, Alike
<1>9. Evicting(r) => Evicting(q)
    BY <1>1, <1>2 DEF Evicting, Alike
<1>10. NoneWaits(r) => NoneWaits(q)
    BY <1>1, <1>2 DEF NoneWaits, Alike, Current
<1>. QED
    BY <1>5, <1>6, <1>7, <1>8, <1>9, <1>10 DEF Working

\* The load that scheduleNextChunk puts at the end.
LEMMA NextLoad ==
    ASSUME NEW r, Typed(r), r.next < Chunks, NEW t, t = NewLoad(r)
    PROVE  /\ t \in Task /\ t.at = "queue" /\ t.gen = r.gen /\ t.kind = "load"
           /\ t.todo = r.next /\ t.todo <= t.last /\ t.last \in Int
           /\ Min({r.next + PerLoad, Chunks}) = t.last + 1
           /\ Min({r.next + PerLoad, Chunks}) \in Times
<1>. DEFINE m == Min({r.next + PerLoad, Chunks})
<1>1. r.next \in Int /\ r.next >= 0 /\ r.next \in Times /\ r.gen \in Nat
    BY Numbers DEF Typed, Times
<1>2. m = IF r.next + PerLoad <= Chunks THEN r.next + PerLoad ELSE Chunks
    BY <1>1, Numbers, LeastOfTwo
<1>. HIDE DEF m
<1>3. m \in Int /\ m > r.next /\ m <= Chunks
    BY <1>1, <1>2, Numbers
<1>4. m \in Times /\ m - 1 \in Times
    BY <1>1, <1>3, Numbers DEF Times
<1>5. t = [kind |-> "load", gen |-> r.gen, todo |-> r.next, last |-> m - 1,
           seg |-> 0, at |-> "queue"]
    BY DEF NewLoad, m
<1>8. r.next <= m - 1 /\ m - 1 < Chunks
    BY <1>1, <1>3, Numbers
<1>6. t \in Task
    <2>1. t.todo <= t.last /\ t.last < Chunks
        BY <1>5, <1>8
    <2>. QED
        BY <1>1, <1>4, <1>5, <2>1 DEF Task, TaskSteps
<1>7. t.last + 1 = m /\ t.todo <= t.last
    BY <1>1, <1>3, <1>5
<1>. QED
    BY <1>1, <1>3, <1>4, <1>5, <1>6, <1>7 DEF m

\* scheduleNextChunk.
LEMMA SchedulesFine ==
    ASSUME NEW r, NEW u, NEW seeking, Fine(r, u, seeking), r.at = "ready",
           r.clear.at = "no", NEW q, q = ScheduleNextChunk(r)
    PROVE  Fine(q, u, seeking) /\ Alike(q, r)
<1>1. CASE ~ (r.active < Slots /\ r.next < Chunks)
    BY <1>1 DEF ScheduleNextChunk, Alike
<1>2. CASE r.active < Slots /\ r.next < Chunks
    <2>. DEFINE t == NewLoad(r)
                m == Min({r.next + PerLoad, Chunks})
    <2>0. Typed(r) /\ Quiet(r)
        BY DEF Fine, Sane
    <2>1. /\ t \in Task /\ t.at = "queue" /\ t.gen = r.gen /\ t.kind = "load"
          /\ t.todo = r.next /\ t.todo <= t.last /\ t.last \in Int
          /\ m = t.last + 1 /\ m \in Times
        BY <1>2, <2>0, NextLoad
    <2>. HIDE DEF t, m
    <2>2. q = [r EXCEPT !.tasks = Append(r.tasks, t), !.active = @ + 1, !.next = m]
        BY <1>2 DEF ScheduleNextChunk, t, m
    <2>3. /\ Whole(q) /\ Alike(q, r) /\ q.next = m /\ q.from = r.from
          /\ q.tasks = Append(r.tasks, t)
        BY <2>0, <2>2 DEF Typed, Whole, Alike
    <2>4. Append(r.tasks, t) \in Seq(Task)
        <3>1. r.tasks \in Seq(Task)
            BY <2>0 DEF Typed
        <3>. HIDE DEF Task
        <3>. QED
            BY <2>1, <3>1
    <2>5. Typed(q) /\ Quiet(q)
        BY <2>0, <2>1, <2>3, <2>4 DEF Typed, Quiet, Alike
    <2>6. Joins(q, r, t)
        BY <2>0, <2>1, <2>3, <2>5 DEF Joins
    <2>7. /\ Working(q, seeking) /\ Evicting(q)
          /\ "late" \notin u => NoneWaits(q)
        BY <2>6, JoinsWorking DEF Fine, Sane
    <2>8. PICK n \in DOMAIN q.tasks :
              /\ q.tasks[n] = t
              /\ \A i \in DOMAIN q.tasks :
                    i = n \/ (i \in DOMAIN r.tasks /\ q.tasks[i] = r.tasks[i])
              /\ \A i \in DOMAIN r.tasks :
                    i < n /\ i # n /\ i \in DOMAIN q.tasks /\ q.tasks[i] = r.tasks[i]
        BY <2>6, JoinPlaces
    <2>9. /\ Load(q, n)
          /\ \A i \in DOMAIN q.tasks : i # n => (Load(q, i) <=> Load(r, i))
          /\ \A i \in DOMAIN r.tasks : Load(q, i) <=> Load(r, i)
        BY <2>1, <2>3, <2>8 DEF Load, Current, Alike
    <2>10. /\ \A i \in DOMAIN r.tasks : i \in Int /\ r.tasks[i].todo \in Int /\ r.tasks[i].last \in Int
           /\ r.next \in Int /\ r.playhead \in Int /\ n \in Int
           /\ \A i \in DOMAIN q.tasks : i \in Int
        BY <2>0, <2>5, TaskFacts
    <2>. HIDE DEF Load
    <2>11. ASSUME "failed" \notin u
           PROVE  InTurn(q) /\ Feeding(q) /\ ("gap" \notin u => Coming(q))
        <3>1. InTurn(r) /\ Feeding(r) /\ ("gap" \notin u => Coming(r))
            BY <2>11 DEF Fine, Sane
        <3>2. ASSUME NEW i \in DOMAIN q.tasks, Load(q, i)
              PROVE  /\ q.tasks[i].todo <= q.tasks[i].last /\ q.tasks[i].last < q.next
                     /\ \A c \in q.tasks[i].todo..(q.next - 1) :
                           \E j \in DOMAIN q.tasks :
                              Load(q, j) /\ c \in q.tasks[j].todo..q.tasks[j].last
                     /\ \A j \in DOMAIN q.tasks :
                           Load(q, j) /\ i < j => q.tasks[i].last < q.tasks[j].todo
            <4>1. CASE i = n
                <5>1. q.tasks[i].todo <= q.tasks[i].last /\ q.tasks[i].last < q.next
                    BY <2>1, <2>3, <2>8, <4>1
                <5>2. \A c \in q.tasks[i].todo..(q.next - 1) : c \in q.tasks[n].todo..q.tasks[n].last
                    BY <2>1, <2>3, <2>8, <2>10, <4>1
                <5>3. \A j \in DOMAIN q.tasks : ~ (i < j)
                    BY <2>8, <2>10, <4>1
                <5>. QED
                    BY <2>9, <5>1, <5>2, <5>3
            <4>2. CASE i # n
                <5>0. i \in DOMAIN r.tasks /\ q.tasks[i] = r.tasks[i] /\ Load(r, i)
                    BY <2>8, <2>9, <3>2, <4>2
                <5>1. /\ r.tasks[i].todo <= r.tasks[i].last /\ r.tasks[i].last < r.next
                      /\ \A c \in r.tasks[i].todo..(r.next - 1) :
                           \E j \in DOMAIN r.tasks :
                              Load(r, j) /\ c \in r.tasks[j].todo..r.tasks[j].last
                      /\ \A j \in DOMAIN r.tasks :
                           Load(r, j) /\ i < j => r.tasks[i].last < r.tasks[j].todo
                    BY <3>1, <5>0 DEF InTurn
                <5>2. ASSUME NEW c \in q.tasks[i].todo..(q.next - 1)
                      PROVE  \E j \in DOMAIN q.tasks :
                              Load(q, j) /\ c \in q.tasks[j].todo..q.tasks[j].last
                    <6>1. CASE c < r.next
                        <7>1. c \in r.tasks[i].todo..(r.next - 1)
                            BY <2>1, <2>3, <2>10, <5>0, <6>1
                        <7>2. PICK j \in DOMAIN r.tasks :
                                  Load(r, j) /\ c \in r.tasks[j].todo..r.tasks[j].last
                            BY <5>1, <7>1
                        <7>. QED
                            BY <2>8, <2>9, <7>2
                    <6>2. CASE ~ (c < r.next)
                        <7>1. c \in q.tasks[n].todo..q.tasks[n].last
                            BY <2>1, <2>3, <2>8, <2>10, <5>0, <6>2
                        <7>. QED
                            BY <2>9, <7>1
                    <6>. QED
                        BY <6>1, <6>2
                <5>3. ASSUME NEW j \in DOMAIN q.tasks, Load(q, j), i < j
                      PROVE  q.tasks[i].last < q.tasks[j].todo
                    <6>1. CASE j = n
                        BY <2>1, <2>8, <5>0, <5>1, <6>1
                    <6>2. CASE j # n
                        BY <2>8, <2>9, <5>0, <5>1, <5>3, <6>2
                    <6>. QED
                        BY <6>1, <6>2
                <5>4. r.next < q.next
                    BY <2>1, <2>3, <2>10
                <5>. QED
                    BY <2>1, <2>3, <2>10, <5>0, <5>1, <5>2, <5>3, <5>4
            <4>. QED
                BY <4>1, <4>2
        <3>3. InTurn(q)
            BY <3>2 DEF InTurn
        <3>4. Feeding(q)
            <4>. SUFFICES ASSUME q.at = "ready", q.clear.at = "no" PROVE Feeding(q)
                BY DEF Feeding
            <4>1. /\ r.at = "ready" /\ r.clear.at = "no" /\ q.mail = r.mail /\ q.fed = r.fed
                  /\ q.gen = r.gen
                BY <2>3 DEF Alike
            <4>2. q.mail # <<>> => \E i \in DOMAIN q.tasks : Load(q, i) /\ q.tasks[i].at = "mux"
                BY <2>8, <2>9, <3>1, <4>1 DEF Feeding
            <4>3. ASSUME \A j \in DOMAIN q.tasks : j < n => ~ Load(q, j)
                  PROVE  q.fed + 1 = q.tasks[n].todo
                <5>1. \A j \in DOMAIN r.tasks : ~ Load(r, j)
                    BY <2>8, <2>9, <4>3
                <5>. QED
                    BY <2>1, <2>8, <3>1, <4>1, <5>1 DEF Feeding
            <4>4. ASSUME NEW i \in DOMAIN q.tasks, Load(q, i), i # n
                  PROVE  /\ q.tasks[i].at = "mux" =>
                            /\ q.mail = <<[type |-> "CHUNK", to |-> q.tasks[i].todo,
                                           gen |-> q.gen]>>
                            /\ q.fed + 1 = q.tasks[i].todo
                         /\ q.tasks[i].at \notin {"queue", "mux"} =>
                               q.mail = <<>> /\ q.fed = q.tasks[i].todo
                         /\ q.tasks[i].at = "queue"
                              /\ (\A j \in DOMAIN q.tasks : j < i => ~ Load(q, j)) =>
                               q.fed + 1 = q.tasks[i].todo
                <5>1. i \in DOMAIN r.tasks /\ q.tasks[i] = r.tasks[i] /\ Load(r, i)
                    BY <2>8, <2>9, <4>4
                <5>2. (\A j \in DOMAIN q.tasks : j < i => ~ Load(q, j))
                        => (\A j \in DOMAIN r.tasks : j < i => ~ Load(r, j))
                    BY <2>8, <2>9
                <5>. QED
                    BY <3>1, <4>1, <5>1, <5>2 DEF Feeding
            <4>5. q.tasks[n].at = "queue"
                BY <2>1, <2>8
            <4>. QED
                BY <2>9, <4>2, <4>3, <4>4, <4>5 DEF Feeding
        <3>5. ASSUME "gap" \notin u PROVE Coming(q)
            <4>1. ~ EvictsAhead(r) => ~ EvictsAhead(q)
                BY <2>1, <2>3, <2>8 DEF EvictsAhead, Alike
            <4>2. ASSUME NEW c \in q.playhead..(q.next - 1), ~ (c < r.next)
                  PROVE  Load(q, n) /\ c \in q.tasks[n].todo..q.tasks[n].last
                BY <2>1, <2>3, <2>8, <2>9, <2>10, <4>2 DEF Alike
            <4>3. ASSUME NEW c \in q.playhead..(q.next - 1), c < r.next
                  PROVE  c \in r.playhead..(r.next - 1)
                BY <2>1, <2>3, <2>10, <4>3 DEF Alike
            <4>. QED
                BY <2>3, <2>8, <2>9, <3>1, <3>5, <4>1, <4>2, <4>3 DEF Coming, Alike
        <3>. QED
            BY <3>3, <3>4, <3>5
    <2>. QED
        BY <2>3, <2>5, <2>7, <2>11 DEF Fine, Sane
<1>. QED
    BY <1>1, <1>2

\* cleanupOldBuffers: the eviction is of what has been played.
LEMMA EvictsFine ==
    ASSUME NEW r, NEW u, NEW seeking, Fine(r, u, seeking), r.at = "ready",
           r.clear.at = "no", NEW q, q = Evicts(r)
    PROVE  Fine(q, u, seeking) /\ Alike(q, r)
<1>. DEFINE Begun == Stale(r) # {} /\ \A i \in DOMAIN r.tasks : r.tasks[i].kind # "evict"
<1>1. CASE ~ Begun
    BY <1>1 DEF Evicts, Alike
<1>2. CASE Begun
    <2>. DEFINE t == Eviction(r)
    <2>0. Typed(r) /\ Quiet(r)
        BY DEF Fine, Sane
    <2>1. /\ t \in Task /\ t.at = "queue" /\ t.gen = r.gen /\ t.kind = "evict"
          /\ t.todo = r.playhead
        BY <2>0, Numbers DEF Eviction, Typed, Task, TaskSteps, Times
    <2>2. q = [r EXCEPT !.tasks = Append(r.tasks, t)]
        BY <1>2 DEF Evicts
    <2>. HIDE DEF t
    <2>3. /\ Whole(q) /\ Alike(q, r) /\ q.next = r.next /\ q.from = r.from
          /\ q.tasks = Append(r.tasks, t)
        BY <2>0, <2>2 DEF Typed, Whole, Alike
    <2>4. Append(r.tasks, t) \in Seq(Task)
        <3>1. r.tasks \in Seq(Task)
            BY <2>0 DEF Typed
        <3>. HIDE DEF Task
        <3>. QED
            BY <2>1, <3>1
    <2>5. Typed(q) /\ Quiet(q)
        BY <2>0, <2>3, <2>4 DEF Typed, Quiet, Alike
    <2>6. Joins(q, r, t)
        BY <2>0, <2>1, <2>3, <2>5 DEF Joins
    <2>7. /\ Working(q, seeking) /\ Evicting(q)
          /\ "late" \notin u => NoneWaits(q)
        BY <2>6, JoinsWorking DEF Fine, Sane
    <2>8. PICK n \in DOMAIN q.tasks :
              /\ q.tasks[n] = t
              /\ \A i \in DOMAIN q.tasks :
                    i = n \/ (i \in DOMAIN r.tasks /\ q.tasks[i] = r.tasks[i])
              /\ \A i \in DOMAIN r.tasks :
                    i < n /\ i # n /\ i \in DOMAIN q.tasks /\ q.tasks[i] = r.tasks[i]
        BY <2>6, JoinPlaces
    <2>9. /\ \A i \in DOMAIN q.tasks :
                Load(q, i) => i # n /\ i \in DOMAIN r.tasks /\ Load(r, i)
          /\ \A i \in DOMAIN r.tasks : Load(q, i) <=> Load(r, i)
        BY <2>1, <2>3, <2>8 DEF Load, Current, Alike
    <2>. HIDE DEF Load
    <2>10. InTurn(r) => InTurn(q)
        BY <2>3, <2>8, <2>9 DEF InTurn
    <2>11. Feeding(r) => Feeding(q)
        <3>. SUFFICES ASSUME Feeding(r), q.at = "ready", q.clear.at = "no" PROVE Feeding(q)
            BY DEF Feeding
        <3>1. /\ r.at = "ready" /\ r.clear.at = "no" /\ q.mail = r.mail /\ q.fed = r.fed
              /\ q.gen = r.gen /\ q.next = r.next
            BY <2>3 DEF Alike
        <3>2. q.mail # <<>> => \E i \in DOMAIN q.tasks : Load(q, i) /\ q.tasks[i].at = "mux"
            BY <2>8, <2>9, <3>1 DEF Feeding
        <3>3. (\A i \in DOMAIN q.tasks : ~ Load(q, i)) => q.fed + 1 = q.next
            BY <2>8, <2>9, <3>1 DEF Feeding
        <3>4. ASSUME NEW i \in DOMAIN q.tasks, Load(q, i)
              PROVE  /\ i \in DOMAIN r.tasks /\ q.tasks[i] = r.tasks[i] /\ Load(r, i)
                     /\ (\A j \in DOMAIN q.tasks : j < i => ~ Load(q, j))
                          => (\A j \in DOMAIN r.tasks : j < i => ~ Load(r, j))
            BY <2>8, <2>9, <3>4
        <3>. QED
            BY <3>1, <3>2, <3>3, <3>4 DEF Feeding
    <2>12. Coming(r) => Coming(q)
        <3>1. r.playhead \in Int
            BY <2>0, TaskFacts
        <3>2. ~ EvictsAhead(r) => ~ EvictsAhead(q)
            BY <2>1, <2>3, <2>8, <3>1, Numbers DEF EvictsAhead, Alike
        <3>. QED
            BY <2>3, <2>8, <2>9, <3>2 DEF Coming, Alike
    <2>. QED
        BY <2>3, <2>5, <2>7, <2>10, <2>11, <2>12 DEF Fine, Sane
<1>. QED
    BY <1>1, <1>2

\* The loop of SchedulesAhead, as its definition says it, up to n.
Scheduled(r, n, f) ==
    f = [i \in 0..n |-> IF i = 0 THEN r ELSE ScheduleNextChunk(f[i - 1])]

\* There is such a function for every n.
LEMMA ScheduledExists ==
    ASSUME NEW r PROVE \A n \in Nat : \E f : Scheduled(r, n, f)
<1>. DEFINE T == {n \in Nat : \E f : Scheduled(r, n, f)}
<1>1. 0 \in T
    <2>. DEFINE f == [i \in 0..0 |-> r]
    <2>1. Scheduled(r, 0, f)
        BY DEF Scheduled
    <2>. QED
        BY <2>1
<1>2. ASSUME NEW n \in Nat, n \in T PROVE n + 1 \in T
    <2>1. PICK f : Scheduled(r, n, f)
        BY <1>2
    <2>. DEFINE g == [i \in 0..(n + 1) |-> IF i = n + 1 THEN ScheduleNextChunk(f[n]) ELSE f[i]]
    <2>2. \A i \in 0..n : f[i] = IF i = 0 THEN r ELSE ScheduleNextChunk(f[i - 1])
        BY <2>1 DEF Scheduled
    <2>3. ASSUME NEW i \in 0..(n + 1)
          PROVE  g[i] = IF i = 0 THEN r ELSE ScheduleNextChunk(g[i - 1])
        <3>1. CASE i = 0
            BY <2>2, <3>1
        <3>2. CASE i # 0 /\ i # n + 1
            <4>1. i \in 0..n /\ i - 1 \in 0..n /\ g[i] = f[i] /\ g[i - 1] = f[i - 1]
                BY <3>2
            <4>. QED
                BY <2>2, <3>2, <4>1
        <3>3. CASE i = n + 1
            <4>1. g[i] = ScheduleNextChunk(f[n]) /\ i - 1 = n /\ g[n] = f[n] /\ i # 0
                BY <3>3
            <4>. QED
                BY <4>1
        <3>. QED
            BY <3>1, <3>2, <3>3
    <2>4. g = [i \in 0..(n + 1) |-> g[i]]
        OBVIOUS
    <2>. HIDE DEF g
    <2>5. Scheduled(r, n + 1, g)
        BY <2>3, <2>4 DEF Scheduled
    <2>. QED
        BY <2>5
<1>. HIDE DEF T
<1>3. Nat \subseteq T
    BY <1>1, <1>2, SetInduction
<1>. QED
    BY <1>3 DEF T

\* scheduleNextChunk again and again.
LEMMA SchedulesAheadFine ==
    ASSUME NEW r, NEW u, NEW seeking, Fine(r, u, seeking), r.at = "ready",
           r.clear.at = "no", NEW q, q = SchedulesAhead(r)
    PROVE  Fine(q, u, seeking) /\ Alike(q, r)
<1>. DEFINE f == CHOOSE f : Scheduled(r, Slots, f)
            T == {i \in Nat : i <= Slots => Fine(f[i], u, seeking) /\ Alike(f[i], r)}
<1>1. Scheduled(r, Slots, f) /\ (q = f[Slots] \/ q = r)
    <2>1. \E g : Scheduled(r, Slots, g)
        BY Numbers, ScheduledExists
    <2>. QED
        BY <2>1 DEF Scheduled, SchedulesAhead
<1>. HIDE DEF f
<1>2. \A i \in 0..Slots : f[i] = IF i = 0 THEN r ELSE ScheduleNextChunk(f[i - 1])
    BY <1>1 DEF Scheduled
<1>3. 0 \in T
    BY <1>2, Numbers DEF Alike
<1>4. ASSUME NEW i \in Nat, i \in T PROVE i + 1 \in T
    <2>. SUFFICES ASSUME i + 1 <= Slots
                  PROVE  Fine(f[i + 1], u, seeking) /\ Alike(f[i + 1], r)
        OBVIOUS
    <2>1. i <= Slots /\ i + 1 \in 0..Slots
        BY Numbers
    <2>2. Fine(f[i], u, seeking) /\ Alike(f[i], r)
        BY <1>4, <2>1
    <2>3. f[i + 1] = ScheduleNextChunk(f[i])
        BY <1>2, <2>1
    <2>4. f[i].at = "ready" /\ (f[i].clear.at = "no")
        BY <2>2 DEF Alike
    <2>5. Fine(f[i + 1], u, seeking) /\ Alike(f[i + 1], f[i])
        BY <2>2, <2>3, <2>4, SchedulesFine
    <2>. QED
        BY <2>2, <2>5 DEF Alike
<1>. HIDE DEF T
<1>5. Slots \in T
    BY <1>3, <1>4, Numbers, SetInduction
<1>6. Fine(f[Slots], u, seeking) /\ Alike(f[Slots], r)
    BY <1>5, Numbers DEF T
<1>. QED
    BY <1>1, <1>6 DEF Alike

\* What a time update schedules and evicts.
LEMMA TicksFine ==
    ASSUME NEW r, NEW u, NEW seeking, Fine(r, u, seeking), r.at = "ready", NEW told,
           told \/ r.clear.at = "no", NEW q, q = Ticks(r, told)
    PROVE  Fine(q, u, seeking) /\ Alike(q, r)
<1>1. CASE told \/ r.active >= Slots \/ r.next >= Chunks
    BY <1>1 DEF Ticks, Alike
<1>2. CASE ~ (told \/ r.active >= Slots \/ r.next >= Chunks)
    <2>. DEFINE p == SchedulesAhead(r)
    <2>1. q = Evicts(p)
        BY <1>2 DEF Ticks
    <2>2. Fine(p, u, seeking) /\ Alike(p, r)
        BY <1>2, SchedulesAheadFine
    <2>. HIDE DEF p
    <2>3. p.at = "ready" /\ (p.clear.at = "no")
        BY <1>2, <2>2 DEF Alike
    <2>4. Fine(q, u, seeking) /\ Alike(q, p)
        BY <2>1, <2>2, <2>3, EvictsFine
    <2>. QED
        BY <2>2, <2>4 DEF Alike
<1>. QED
    BY <1>1, <1>2

-----------------------------------------------------------------------------
(* What the buffer does.                                                   *)

\* The update of the buffer has ended.
LEMMA OpEnds ==
    ASSUME NEW r, NEW u, NEW seeking, Sane(r, u, seeking), NEW q, q = [r EXCEPT !.op = Idle]
    PROVE  /\ Sane(q, u, seeking)
           /\ Evicting(r) /\ r.op.by # "evict" => Evicting(q)
           /\ q.tasks = r.tasks /\ q.op = Idle /\ q.at = r.at /\ q.clear = r.clear
           /\ q.gen = r.gen /\ q.buffered = r.buffered /\ q.playhead = r.playhead
           /\ q.timer = r.timer /\ q.next = r.next /\ q.mail = r.mail
<1>0. Typed(r) /\ Quiet(r)
    BY DEF Sane
<1>1. /\ Whole(q) /\ q.tasks = r.tasks /\ q.op = Idle /\ q.at = r.at /\ q.clear = r.clear
      /\ q.gen = r.gen /\ q.mail = r.mail /\ q.next = r.next /\ q.fed = r.fed
      /\ q.playhead = r.playhead /\ q.timer = r.timer /\ q.buffered = r.buffered
      /\ q.from = r.from
    BY <1>0 DEF Typed, Whole
<1>2. Idle \in Update /\ Idle.by = "none" /\ Idle.gen = 0
    BY DEF Idle, Update
<1>3. Typed(q) /\ Quiet(q)
    BY <1>0, <1>1, <1>2 DEF Typed, Quiet
<1>4. r.gen \in Nat
    BY <1>0, TaskFacts
<1>5. Working(r, seeking) => Working(q, seeking)
    <2>1. Owned(q)
        BY <1>1, <1>2, <1>4 DEF Owned
    <2>. QED
        BY <1>1, <2>1 DEF Working, OneAtWork, Foremost, Leftovers, Preparing, Current
<1>6. NoneWaits(r) => NoneWaits(q)
    BY <1>1, <1>2 DEF NoneWaits, Current
<1>7. InTurn(r) => InTurn(q)
    BY <1>1 DEF InTurn, Load, Current
<1>8. Feeding(r) => Feeding(q)
    BY <1>1 DEF Feeding, Load, Current
<1>9. Coming(r) => Coming(q)
    BY <1>1 DEF Coming, Load, Current, EvictsAhead
<1>10. Sane(q, u, seeking)
    BY <1>3, <1>5, <1>6, <1>7, <1>8, <1>9 DEF Sane
<1>11. Evicting(r) /\ r.op.by # "evict" => Evicting(q)
    BY <1>1 DEF Evicting
<1>. QED
    BY <1>1, <1>10, <1>11

\* The buffer has more, or less of what is not played next.
LEMMA BufferFine ==
    ASSUME NEW r, NEW u, NEW seeking, Sane(r, u, seeking),
           NEW b, b \subseteq 0..(Chunks - 1),
           \/ r.clear.at # "no"
           \/ \A c \in r.buffered : c >= r.playhead => c \in b
           \/ {"failed", "gap"} \cap u # {} \/ r.timer,
           NEW q, q = [r EXCEPT !.buffered = b]
    PROVE  /\ Sane(q, u, seeking) /\ (Evicting(r) => Evicting(q))
           /\ q.tasks = r.tasks /\ q.op = r.op /\ q.at = r.at /\ q.clear = r.clear
           /\ q.gen = r.gen /\ q.buffered = b /\ q.timer = r.timer /\ q.mail = r.mail
           /\ q.playhead = r.playhead /\ q.next = r.next
<1>0. Typed(r) /\ Quiet(r)
    BY DEF Sane
<1>1. /\ Whole(q) /\ q.tasks = r.tasks /\ q.op = r.op /\ q.at = r.at /\ q.clear = r.clear
      /\ q.gen = r.gen /\ q.mail = r.mail /\ q.next = r.next /\ q.fed = r.fed
      /\ q.playhead = r.playhead /\ q.timer = r.timer /\ q.buffered = b /\ q.from = r.from
    BY <1>0 DEF Typed, Whole
<1>2. Typed(q) /\ Quiet(q)
    BY <1>0, <1>1 DEF Typed, Quiet
<1>3. Working(r, seeking) => Working(q, seeking)
    BY <1>1 DEF Working, OneAtWork, Foremost, Leftovers, Owned, Owns, Preparing, Current
<1>4. NoneWaits(r) => NoneWaits(q)
    BY <1>1 DEF NoneWaits, Current
<1>5. InTurn(r) => InTurn(q)
    BY <1>1 DEF InTurn, Load, Current
<1>6. Feeding(r) => Feeding(q)
    BY <1>1 DEF Feeding, Load, Current
<1>7. ASSUME {"failed", "gap"} \cap u = {}, Coming(r) PROVE Coming(q)
    <2>1. \A c \in r.playhead..(r.next - 1) : c >= r.playhead
        BY <1>0, TaskFacts
    <2>. QED
        BY <1>1, <1>7, <2>1 DEF Coming, Load, Current, EvictsAhead
<1>8. Sane(q, u, seeking)
    BY <1>2, <1>3, <1>4, <1>5, <1>6, <1>7 DEF Sane
<1>9. Evicting(r) => Evicting(q)
    BY <1>1 DEF Evicting
<1>. QED
    BY <1>1, <1>8, <1>9

\* Task i is at w, and all but the buffer's update is as before.
Moves(q, p, i, w) ==
    /\ Typed(p) /\ Typed(q) /\ i \in DOMAIN p.tasks
    /\ DOMAIN q.tasks = DOMAIN p.tasks
    /\ \A j \in DOMAIN p.tasks : j # i => q.tasks[j] = p.tasks[j]
    /\ q.tasks[i].at = w /\ q.tasks[i].kind = p.tasks[i].kind
    /\ q.tasks[i].gen = p.tasks[i].gen
    /\ q.tasks[i].todo = p.tasks[i].todo /\ q.tasks[i].last = p.tasks[i].last
    /\ q.at = p.at /\ q.gen = p.gen /\ q.clear = p.clear /\ q.timer = p.timer
    /\ q.buffered = p.buffered /\ q.playhead = p.playhead /\ q.next = p.next
    /\ q.fed = p.fed /\ q.mail = p.mail

\* The task may append, wait, or make room.
LEMMA MovesFine ==
    ASSUME NEW p, NEW u, NEW seeking, Fine(p, u, seeking), p.at = "ready",
           NEW q, NEW i, NEW w \in {"full", "room", "wait", "append"}, Moves(q, p, i, w),
           p.tasks[i].at \in {"full", "room", "wait", "append"},
           \/ /\ q.op = p.op
              /\ p.op.by \in {"load", "room", "evict"} => ~ Owns(p, i)
           \/ /\ p.op = Idle /\ q.op.by \in {"load", "room"}
              /\ q.op.gen = p.tasks[i].gen /\ w = Place(q.op.by),
           w = "wait" => "late" \in u
    PROVE  Fine(q, u, seeking)
<1>1. Typed(q) /\ Quiet(q)
    BY DEF Moves, Quiet
<1>2. \A j \in DOMAIN p.tasks :
         /\ q.tasks[j].gen = p.tasks[j].gen /\ q.tasks[j].kind = p.tasks[j].kind
         /\ q.tasks[j].todo = p.tasks[j].todo /\ q.tasks[j].last = p.tasks[j].last
         /\ q.tasks[j].at = "queue" <=> p.tasks[j].at = "queue"
         /\ q.tasks[j].at = "mux" <=> p.tasks[j].at = "mux"
         /\ q.tasks[j].at = "evict" <=> p.tasks[j].at = "evict"
         /\ j # i => q.tasks[j] = p.tasks[j]
    BY DEF Moves
<1>3. /\ DOMAIN q.tasks = DOMAIN p.tasks /\ i \in DOMAIN p.tasks /\ q.tasks[i].at = w
      /\ q.at = p.at /\ q.gen = p.gen /\ q.clear = p.clear /\ q.timer = p.timer
      /\ q.buffered = p.buffered /\ q.playhead = p.playhead /\ q.next = p.next
      /\ q.fed = p.fed /\ q.mail = p.mail
    BY DEF Moves
<1>4. \A j : (Load(q, j) <=> Load(p, j)) /\ (Current(q, j) <=> Current(p, j))
    BY <1>2, <1>3 DEF Load, Current
<1>5. /\ Working(q, seeking) /\ Evicting(q)
      /\ "late" \notin u => NoneWaits(q)
    <2>0. /\ Working(p, seeking) /\ Evicting(p)
          /\ "late" \notin u => NoneWaits(p)
        BY DEF Fine, Sane
    <2>1. OneAtWork(q)
        BY <1>2, <1>3, <2>0 DEF Working, OneAtWork, Foremost
    <2>2. Leftovers(q)
        BY <1>2, <1>3, <2>0 DEF Working, Leftovers, GoesOn
    <2>3. Owned(q)
        <3>1. CASE q.op = p.op /\ (p.op.by \in {"load", "room", "evict"} => ~ Owns(p, i))
            <4>1. \A j \in DOMAIN p.tasks : j # i => (Owns(q, j) <=> Owns(p, j))
                BY <1>2, <3>1 DEF Owns
            <4>. HIDE DEF Owns
            <4>. QED
                BY <1>3, <2>0, <3>1, <4>1 DEF Working, Owned
        <3>2. CASE /\ p.op = Idle /\ q.op.by \in {"load", "room"}
                   /\ q.op.gen = p.tasks[i].gen /\ w = Place(q.op.by)
            <4>1. Owns(q, i)
                BY <1>2, <1>3, <3>2 DEF Owns
            <4>2. q.op.gen <= q.gen
                BY <1>3, <2>0, <3>2 DEF Working, Leftovers
            <4>3. q.op # Idle /\ q.op.by # "none" /\ q.op.by # "clear"
                BY <3>2 DEF Idle
            <4>. QED
                BY <1>3, <4>1, <4>2, <4>3 DEF Owned
        <3>. QED
            BY <3>1, <3>2
    <2>4. Preparing(q, seeking)
        BY <1>3, <1>4, <2>0 DEF Working, Preparing
    <2>5. Evicting(q)
        <3>1. q.op = p.op \/ p.op.by = "none"
            BY DEF Idle
        <3>. QED
            BY <1>2, <1>3, <2>0, <3>1 DEF Evicting
    <2>6. ASSUME "late" \notin u PROVE NoneWaits(q)
        <3>1. w # "wait"
            BY <2>6
        <3>. QED
            BY <1>2, <1>3, <1>4, <2>0, <2>6, <3>1 DEF NoneWaits
    <2>. QED
        BY <2>1, <2>2, <2>3, <2>4, <2>5, <2>6 DEF Working
<1>6. InTurn(p) => InTurn(q)
    BY <1>2, <1>3, <1>4 DEF InTurn
<1>7. Feeding(p) => Feeding(q)
    BY <1>2, <1>3, <1>4 DEF Feeding
<1>8. Coming(p) => Coming(q)
    BY <1>2, <1>3, <1>4 DEF Coming, EvictsAhead
<1>. QED
    BY <1>1, <1>5, <1>6, <1>7, <1>8 DEF Fine, Sane

\* Task i of r at w, while the buffer does o.
Put(r, i, w, e, o) == [r EXCEPT !.tasks[i].at = w, !.ended = e, !.op = o]

\* What Put changes.
LEMMA PutFields ==
    ASSUME NEW r, Typed(r), NEW i \in DOMAIN r.tasks, NEW w \in TaskSteps, NEW e,
           NEW o \in Update, NEW q, q = Put(r, i, w, e, o)
    PROVE  /\ Typed(q) /\ q.op = o
           /\ DOMAIN q.tasks = DOMAIN r.tasks
           /\ \A j \in DOMAIN r.tasks : j # i => q.tasks[j] = r.tasks[j]
           /\ q.tasks[i].at = w /\ q.tasks[i].kind = r.tasks[i].kind
           /\ q.tasks[i].gen = r.tasks[i].gen
           /\ q.tasks[i].todo = r.tasks[i].todo /\ q.tasks[i].last = r.tasks[i].last
           /\ q.at = r.at /\ q.gen = r.gen /\ q.clear = r.clear /\ q.timer = r.timer
           /\ q.buffered = r.buffered /\ q.playhead = r.playhead /\ q.next = r.next
           /\ q.fed = r.fed /\ q.mail = r.mail
<1>. DEFINE t == [r.tasks[i] EXCEPT !.at = w]
            z == [r.tasks EXCEPT ![i] = t]
<1>1. q = [r EXCEPT !.tasks = z, !.ended = e, !.op = o]
    BY DEF Put
<1>2. r.tasks \in Seq(Task) /\ r.tasks[i] \in Task
    BY TaskFacts DEF Typed
<1>3. /\ t \in Task /\ t.at = w /\ t.kind = r.tasks[i].kind /\ t.gen = r.tasks[i].gen
      /\ t.todo = r.tasks[i].todo /\ t.last = r.tasks[i].last
    BY <1>2, TaskSet
<1>. HIDE DEF t, Task
<1>4. /\ z \in Seq(Task) /\ DOMAIN z = DOMAIN r.tasks /\ z[i] = t
      /\ \A j \in DOMAIN r.tasks : j # i => z[j] = r.tasks[j]
    BY <1>2, <1>3, PlaceSet
<1>. HIDE DEF z
<1>5. /\ Whole(q) /\ q.op = o /\ q.tasks = z
      /\ q.at = r.at /\ q.gen = r.gen /\ q.clear = r.clear /\ q.timer = r.timer
      /\ q.buffered = r.buffered /\ q.playhead = r.playhead /\ q.next = r.next
      /\ q.fed = r.fed /\ q.mail = r.mail /\ q.from = r.from
    BY <1>1 DEF Typed, Whole
<1>6. Typed(q)
    BY <1>4, <1>5 DEF Typed
<1>. QED
    BY <1>3, <1>4, <1>5, <1>6

\* A task that appends or makes room may go from one to the other.
LEMMA PutFine ==
    ASSUME NEW r, Typed(r), r.at = "ready", NEW i \in DOMAIN r.tasks, NEW u, NEW seeking,
           Fine(Put(r, i, "full", r.ended, r.op), u, seeking),
           NEW w \in {"full", "room", "wait", "append"}, NEW e, NEW o \in Update,
           \/ o = r.op
           \/ /\ r.op = Idle /\ o.by \in {"load", "room"}
              /\ o.gen = r.tasks[i].gen /\ w = Place(o.by),
           w = "wait" => "late" \in u,
           NEW q, q = Put(r, i, w, e, o)
    PROVE  Fine(q, u, seeking)
<1>. DEFINE p == Put(r, i, "full", r.ended, r.op)
<1>1. "full" \in TaskSteps /\ w \in TaskSteps /\ r.op \in Update
    BY DEF TaskSteps, Typed
<1>2. /\ Typed(p) /\ p.op = r.op
      /\ DOMAIN p.tasks = DOMAIN r.tasks
      /\ \A j \in DOMAIN r.tasks : j # i => p.tasks[j] = r.tasks[j]
      /\ p.tasks[i].at = "full" /\ p.tasks[i].kind = r.tasks[i].kind
      /\ p.tasks[i].gen = r.tasks[i].gen
      /\ p.tasks[i].todo = r.tasks[i].todo /\ p.tasks[i].last = r.tasks[i].last
      /\ p.at = r.at /\ p.gen = r.gen /\ p.clear = r.clear /\ p.timer = r.timer
      /\ p.buffered = r.buffered /\ p.playhead = r.playhead /\ p.next = r.next
      /\ p.fed = r.fed /\ p.mail = r.mail
    BY <1>1, PutFields
<1>3. Fine(p, u, seeking)
    OBVIOUS
<1>. HIDE DEF p
<1>4. Moves(q, p, i, w) /\ q.op = o
    <2>1. /\ Typed(q) /\ q.op = o
          /\ DOMAIN q.tasks = DOMAIN r.tasks
          /\ \A j \in DOMAIN r.tasks : j # i => q.tasks[j] = r.tasks[j]
          /\ q.tasks[i].at = w /\ q.tasks[i].kind = r.tasks[i].kind
          /\ q.tasks[i].gen = r.tasks[i].gen
          /\ q.tasks[i].todo = r.tasks[i].todo /\ q.tasks[i].last = r.tasks[i].last
          /\ q.at = r.at /\ q.gen = r.gen /\ q.clear = r.clear /\ q.timer = r.timer
          /\ q.buffered = r.buffered /\ q.playhead = r.playhead /\ q.next = r.next
          /\ q.fed = r.fed /\ q.mail = r.mail
        BY <1>1, PutFields
    <2>. QED
        BY <1>2, <2>1 DEF Moves
<1>5. p.op.by \in {"load", "room", "evict"} => ~ Owns(p, i)
    BY <1>2 DEF Owns, Place
<1>. QED
    BY <1>2, <1>3, <1>4, <1>5, MovesFine

\* What an append, or the making of room for it, leaves alone.
Beside(q, r, i) ==
    /\ DOMAIN q.tasks = DOMAIN r.tasks
    /\ \A j \in DOMAIN r.tasks : j # i => q.tasks[j] = r.tasks[j]
    /\ q.at = r.at /\ q.gen = r.gen /\ q.clear = r.clear /\ q.timer = r.timer
    /\ q.op.by \in {"evict", "clear"} => q.op = r.op

\* Put with all else as it was.
LEMMA PutKeeps ==
    ASSUME NEW r, Typed(r), NEW i \in DOMAIN r.tasks, NEW w,
           NEW q, q = [r EXCEPT !.tasks[i].at = w]
    PROVE  q = Put(r, i, w, r.ended, r.op)
<1>. DEFINE z == [r.tasks EXCEPT ![i] = [r.tasks[i] EXCEPT !.at = w]]
<1>1. q = [r EXCEPT !.tasks = z]
    OBVIOUS
<1>2. Put(r, i, w, r.ended, r.op) = [r EXCEPT !.tasks = z, !.ended = r.ended, !.op = r.op]
    BY DEF Put
<1>. HIDE DEF z
<1>3. [r EXCEPT !.tasks = z, !.ended = r.ended, !.op = r.op] = [r EXCEPT !.tasks = z]
    BY DEF Typed, Whole
<1>. QED
    BY <1>1, <1>2, <1>3

\* An update has its fields.
LEMMA UpdateFacts ==
    ASSUME NEW r, Typed(r), NEW by \in {"none", "load", "evict", "room", "clear"}, NEW g \in Nat
    PROVE  /\ [by |-> by, gen |-> g] \in Update
           /\ [by |-> by, gen |-> g].by = by /\ [by |-> by, gen |-> g].gen = g
           /\ r.op \in Update
    BY DEF Update, Typed

\* makeRoomInBuffer.
LEMMA MakesRoomFine ==
    ASSUME NEW r, Typed(r), r.at = "ready", NEW i \in DOMAIN r.tasks, NEW u, NEW seeking,
           Fine([r EXCEPT !.tasks[i].at = "full"], u, seeking), NEW q, q = MakesRoom(r, i)
    PROVE  Fine(q, u, seeking) /\ Beside(q, r, i)
<1>1. Fine(Put(r, i, "full", r.ended, r.op), u, seeking)
    BY PutKeeps
<1>2. r.tasks[i].gen \in Nat /\ r.op \in Update
    BY TaskFacts DEF Typed
<1>3. PICK w \in {"full", "room"}, e \in {r.ended, FALSE}, o \in Update :
          /\ q = Put(r, i, w, e, o)
          /\ \/ o = r.op
             \/ r.op = Idle /\ o.by = "room" /\ o.gen = r.tasks[i].gen /\ w = "room"
    <2>1. CASE Played(r) = {}
        <3>1. q = Put(r, i, "full", r.ended, r.op)
            BY <2>1, PutKeeps DEF MakesRoom
        <3>. QED
            BY <1>2, <3>1
    <2>2. CASE Played(r) # {} /\ r.op # Idle
        <3>1. q = Put(r, i, "room", r.ended, r.op)
            BY <2>2, PutKeeps DEF MakesRoom
        <3>. QED
            BY <1>2, <3>1
    <2>3. CASE Played(r) # {} /\ r.op = Idle
        <3>. DEFINE o == [by |-> "room", gen |-> r.tasks[i].gen]
        <3>1. q = Put(r, i, "room", FALSE, o)
            BY <2>3 DEF MakesRoom, Put
        <3>2. o \in Update /\ o.by = "room" /\ o.gen = r.tasks[i].gen
            BY <1>2, UpdateFacts
        <3>. HIDE DEF o
        <3>. QED
            BY <2>3, <3>1, <3>2
    <2>. QED
        BY <2>1, <2>2, <2>3
<1>4. w \in {"full", "room", "wait", "append"} /\ w \in TaskSteps /\ w # "wait"
    BY DEF TaskSteps
<1>5. \/ o = r.op
      \/ /\ r.op = Idle /\ o.by \in {"load", "room"}
         /\ o.gen = r.tasks[i].gen /\ w = Place(o.by)
    BY <1>3 DEF Place
<1>6. Fine(q, u, seeking)
    BY <1>1, <1>3, <1>4, <1>5, PutFine
<1>7. Beside(q, r, i)
    BY <1>3, <1>4, PutFields DEF Beside
<1>. QED
    BY <1>6, <1>7

\* What follows from having a segment to append.
LEMMA AppendsFine ==
    ASSUME NEW r, Typed(r), r.at = "ready", NEW i \in DOMAIN r.tasks, NEW u, NEW seeking,
           Fine([r EXCEPT !.tasks[i].at = "full"], u, seeking),
           r.op = Idle \/ "late" \in u, NEW q, q = Appends(r, i)
    PROVE  Fine(q, u, seeking) /\ Beside(q, r, i)
<1>1. Fine(Put(r, i, "full", r.ended, r.op), u, seeking)
    BY PutKeeps
<1>2. r.tasks[i].gen \in Nat /\ r.op \in Update
    BY TaskFacts DEF Typed
<1>3. CASE r.op # Idle
    <2>1. q = Put(r, i, "wait", r.ended, r.op)
        BY <1>3, PutKeeps DEF Appends
    <2>2. "wait" \in {"full", "room", "wait", "append"} /\ "wait" \in TaskSteps
        BY DEF TaskSteps
    <2>3. Fine(q, u, seeking)
        BY <1>1, <1>2, <1>3, <2>1, <2>2, PutFine
    <2>. QED
        BY <1>2, <2>1, <2>2, <2>3, PutFields DEF Beside
<1>4. CASE r.op = Idle /\ Full(r, r.tasks[i].todo)
    BY <1>4, MakesRoomFine DEF Appends
<1>5. CASE r.op = Idle /\ ~ Full(r, r.tasks[i].todo)
    <2>. DEFINE o == [by |-> "load", gen |-> r.tasks[i].gen]
    <2>1. PICK e \in BOOLEAN : q = Put(r, i, "append", e, o)
        BY <1>5 DEF Appends, Put
    <2>2. o \in Update /\ o.by = "load" /\ o.gen = r.tasks[i].gen
        BY <1>2, UpdateFacts
    <2>3. /\ "append" \in {"full", "room", "wait", "append"} /\ "append" \in TaskSteps
          /\ Place("load") = "append"
        BY DEF TaskSteps, Place
    <2>. HIDE DEF o
    <2>4. Fine(q, u, seeking)
        BY <1>1, <1>5, <2>1, <2>2, <2>3, PutFine
    <2>5. /\ DOMAIN q.tasks = DOMAIN r.tasks
          /\ \A j \in DOMAIN r.tasks : j # i => q.tasks[j] = r.tasks[j]
          /\ q.op = o /\ q.at = r.at /\ q.gen = r.gen /\ q.clear = r.clear
          /\ q.timer = r.timer
        BY <2>1, <2>2, <2>3, PutFields
    <2>. QED
        BY <2>2, <2>4, <2>5 DEF Beside
<1>. QED
    BY <1>3, <1>4, <1>5

\* A task that appends, waits or makes room may take any of these steps.
LEMMA AtWorkFull ==
    ASSUME NEW r, NEW u, NEW seeking, Fine(r, u, seeking), r.at = "ready",
           NEW i \in DOMAIN r.tasks, r.tasks[i].at \in {"full", "room", "wait", "append"},
           (r.op.by \in {"load", "room", "evict"} => ~ Owns(r, i))
    PROVE  Fine([r EXCEPT !.tasks[i].at = "full"], u, seeking)
<1>. DEFINE q == [r EXCEPT !.tasks[i].at = "full"]
<1>0. Typed(r) /\ r.op \in Update
    BY DEF Fine, Sane, Typed
<1>1. q = Put(r, i, "full", r.ended, r.op)
    BY <1>0, PutKeeps
<1>. HIDE DEF q
<1>2. "full" \in TaskSteps
    BY DEF TaskSteps
<1>3. Moves(q, r, i, "full") /\ q.op = r.op
    BY <1>0, <1>1, <1>2, PutFields DEF Moves
<1>4. Fine(q, u, seeking)
    BY <1>3, MovesFine
<1>. QED
    BY <1>4 DEF q

\* Whether the end of the stream has been signalled is of no account.
LEMMA EndedFine ==
    ASSUME NEW r, NEW u, NEW seeking, Fine(r, u, seeking), NEW e,
           NEW q, q = [r EXCEPT !.ended = e]
    PROVE  Fine(q, u, seeking) /\ Alike(q, r)
<1>0. Typed(r)
    BY DEF Fine, Sane
<1>1. /\ Whole(q) /\ q.tasks = r.tasks /\ q.op = r.op /\ q.at = r.at /\ q.clear = r.clear
      /\ q.gen = r.gen /\ q.mail = r.mail /\ q.next = r.next /\ q.fed = r.fed
      /\ q.playhead = r.playhead /\ q.timer = r.timer /\ q.buffered = r.buffered
      /\ q.from = r.from
    BY <1>0 DEF Typed, Whole
<1>2. Typed(q)
    BY <1>0, <1>1 DEF Typed
<1>3. Quiet(r) => Quiet(q)
    BY <1>1 DEF Quiet
<1>4. Working(r, seeking) => Working(q, seeking)
    BY <1>1 DEF Working, OneAtWork, Foremost, Leftovers, Owned, Owns, Preparing, Current
<1>5. (NoneWaits(r) => NoneWaits(q)) /\ (Evicting(r) => Evicting(q))
    BY <1>1 DEF NoneWaits, Current, Evicting
<1>6. (InTurn(r) => InTurn(q)) /\ (Feeding(r) => Feeding(q)) /\ (Coming(r) => Coming(q))
    BY <1>1 DEF InTurn, Feeding, Coming, Load, Current, EvictsAhead
<1>. QED
    BY <1>1, <1>2, <1>3, <1>4, <1>5, <1>6 DEF Fine, Sane, Alike

\* The end of a load, from the last of its chunks or from a failure.
LEMMA LoadEndsFine ==
    ASSUME NEW r, NEW u, NEW seeking, Fine(r, u, seeking), r.at = "ready", r.op = Idle,
           NEW i \in DOMAIN r.tasks, "failed" \notin u => ~ Load(r, i) \/ Done(r, i),
           NEW q, q = LoadEnds(r, i, seeking)
    PROVE  Fine(q, u, seeking) /\ Alike(q, r)
<1>. DEFINE d == Drops(r, {i})
<1>1. /\ Sane(r, u, seeking) /\ Evicting(r) /\ Idle.by = "none"
      /\ {i} \subseteq DOMAIN r.tasks
    BY DEF Fine, Idle
<1>2. "failed" \notin u => \/ \A j \in {i} : ~ Load(r, j)
                           \/ \E j \in DOMAIN r.tasks : {i} = {j} /\ Done(r, j)
    OBVIOUS
<1>3. \A j \in DOMAIN r.tasks : r.tasks[j].at # "evict"
    BY <1>1 DEF Evicting
<1>4. Fine(d, u, seeking) /\ Alike(d, r)
    BY <1>1, <1>2, <1>3, DropsFine
<1>. HIDE DEF d
<1>5. CASE r.tasks[i].gen # r.gen
    BY <1>4, <1>5 DEF LoadEnds, d
<1>6. CASE r.tasks[i].gen = r.gen
    <2>1. PICK e : q = Ticks([d EXCEPT !.ended = e], seeking)
        BY <1>6 DEF LoadEnds, d
    <2>. DEFINE b == [d EXCEPT !.ended = e]
    <2>2. Fine(b, u, seeking) /\ Alike(b, d)
        BY <1>4, EndedFine
    <2>. HIDE DEF b
    <2>3. seeking \/ r.clear.at = "no"
        BY <1>1 DEF Sane, Working, Preparing
    <2>4. b.at = "ready" /\ (seeking \/ b.clear.at = "no")
        BY <1>4, <2>2, <2>3 DEF Alike
    <2>5. Fine(q, u, seeking) /\ Alike(q, b)
        BY <2>1, <2>2, <2>4, TicksFine DEF b
    <2>. QED
        BY <1>4, <2>2, <2>5 DEF Alike
<1>. QED
    BY <1>5, <1>6

\* A load goes on to its next chunk.
LEMMA NextChunkFine ==
    ASSUME NEW r, NEW u, NEW seeking, Fine(r, u, seeking), r.at = "ready", r.op = Idle,
           NEW i \in DOMAIN r.tasks, r.tasks[i].at = "append",
           r.tasks[i].gen = r.gen, r.tasks[i].todo \in r.buffered,
           r.tasks[i].todo # r.tasks[i].last,
           NEW q, q = [r EXCEPT !.tasks[i] = [r.tasks[i] EXCEPT !.todo = @ + 1, !.seg = 0,
                                                                !.at = "queue"]]
    PROVE  Fine(q, u, seeking) /\ Alike(q, r)
<1>. DEFINE t == r.tasks[i]
            w == [t EXCEPT !.todo = @ + 1, !.seg = 0, !.at = "queue"]
            z == [r.tasks EXCEPT ![i] = w]
<1>0. Typed(r) /\ Quiet(r) /\ Working(r, seeking) /\ Evicting(r)
    BY DEF Fine, Sane
<1>1. t \in Task /\ t.todo \in Times /\ t.last \in Times /\ r.tasks \in Seq(Task)
    BY <1>0, TaskFacts DEF Typed, Task
<1>2. t.todo < Chunks
    <2>1. t.todo \in 0..(Chunks - 1)
        BY <1>0 DEF Typed
    <2>. QED
        BY <2>1, Numbers
<1>3. /\ w.todo = t.todo + 1 /\ w.at = "queue" /\ w.gen = t.gen /\ w.kind = t.kind
      /\ w.last = t.last /\ w \in Task
    <2>1. PICK n \in Times : n = t.todo + 1
        BY <1>1, <1>2, Numbers DEF Times
    <2>2. w = [t EXCEPT !.todo = n, !.seg = 0, !.at = "queue"]
        BY <2>1
    <2>3. "queue" \in TaskSteps /\ 0 \in Nat
        BY DEF TaskSteps
    <2>. HIDE DEF w, t
    <2>4. w = [kind |-> t.kind, gen |-> t.gen, todo |-> n, last |-> t.last,
               seg |-> 0, at |-> "queue"]
        BY <1>1, <2>2 DEF Task
    <2>5. t.kind = "load" => n <= t.last /\ t.last < Chunks
        <3>1. t.todo \in Int /\ t.last \in Int /\ t.todo # t.last
            BY <1>1, Numbers DEF Times, t
        <3>. QED
            BY <1>1, <2>1, <3>1 DEF Task
    <2>6. w \in Task
        BY <1>1, <2>1, <2>3, <2>4, <2>5 DEF Task
    <2>. QED
        BY <2>1, <2>4, <2>6
<1>4. t.at = "append" /\ t.gen = r.gen /\ t.todo # t.last /\ t.todo \in r.buffered
    OBVIOUS
<1>5. q = [r EXCEPT !.tasks = z]
    OBVIOUS
<1>. HIDE DEF w, t, Task
<1>6. /\ z \in Seq(Task) /\ DOMAIN z = DOMAIN r.tasks /\ z[i] = w
      /\ \A j \in DOMAIN r.tasks : j # i => z[j] = r.tasks[j]
    BY <1>1, <1>3, PlaceSet
<1>. HIDE DEF z
<1>7. Whole(q) /\ Alike(q, r) /\ q.next = r.next /\ q.from = r.from /\ q.tasks = z
    BY <1>0, <1>5 DEF Typed, Whole, Alike
<1>8. Typed(q) /\ Quiet(q)
    BY <1>0, <1>6, <1>7 DEF Typed, Quiet, Alike
<1>9. /\ DOMAIN q.tasks = DOMAIN r.tasks /\ q.tasks[i] = w
      /\ \A j \in DOMAIN r.tasks : j # i => q.tasks[j] = r.tasks[j]
      /\ \A j \in DOMAIN r.tasks :
            /\ q.tasks[j].gen = r.tasks[j].gen /\ q.tasks[j].kind = r.tasks[j].kind
            /\ q.tasks[j].last = r.tasks[j].last
    BY <1>3, <1>6, <1>7 DEF t
<1>10. \A j : (Load(q, j) <=> Load(r, j)) /\ (Current(q, j) <=> Current(r, j))
    BY <1>7, <1>9 DEF Load, Current, Alike
<1>11. Load(r, i) /\ r.tasks[i] = t
    BY <1>0, <1>1, <1>4 DEF Working, Leftovers, Load, Current, Task, t
<1>12. /\ \A k \in DOMAIN r.tasks : k \in Int /\ r.tasks[k].todo \in Int /\ r.tasks[k].last \in Int
       /\ r.next \in Int /\ r.playhead \in Int /\ i \in Int /\ t.todo \in Int /\ t.last \in Int
    BY <1>0, <1>11, TaskFacts
<1>13. \A k \in DOMAIN r.tasks : Load(r, k) /\ k # i => i < k
    <2>1. \A k \in DOMAIN r.tasks : k < i => r.tasks[k].gen # r.gen
        BY <1>0, <1>4, <1>11 DEF Working, OneAtWork, Foremost
    <2>. QED
        BY <1>12, <2>1 DEF Load, Current
<1>14. Working(q, seeking)
    <2>1. OneAtWork(q)
        BY <1>0, <1>3, <1>9 DEF Working, OneAtWork, Foremost
    <2>2. Leftovers(q)
        <3>1. w.gen = r.gen /\ w.kind = "load" /\ w.at # "evict"
            BY <1>3, <1>4, <1>11 DEF Load
        <3>2. r.gen <= r.gen
            BY <1>0, TaskFacts
        <3>. QED
            BY <1>0, <1>7, <1>9, <3>1, <3>2 DEF Working, Leftovers, Alike
    <2>3. Owned(q)
        BY <1>0, <1>7 DEF Working, Owned, Alike, Idle
    <2>4. Preparing(q, seeking)
        BY <1>0, <1>7, <1>9, <1>10 DEF Working, Preparing, Alike
    <2>. QED
        BY <2>1, <2>2, <2>3, <2>4 DEF Working
<1>15. Evicting(q)
    BY <1>0, <1>3, <1>7, <1>9 DEF Evicting, Alike
<1>16. NoneWaits(r) => NoneWaits(q)
    BY <1>3, <1>7, <1>9, <1>10 DEF NoneWaits, Alike
<1>. HIDE DEF Load, Current
<1>17. ASSUME InTurn(r), Feeding(r)
       PROVE  InTurn(q) /\ Feeding(q) /\ (Coming(r) => Coming(q))
    <2>1. /\ t.todo <= t.last /\ t.last < r.next
          /\ \A c \in t.todo..(r.next - 1) :
              \E j \in DOMAIN r.tasks : Load(r, j) /\ c \in r.tasks[j].todo..r.tasks[j].last
          /\ \A j \in DOMAIN r.tasks : Load(r, j) /\ i < j => t.last < r.tasks[j].todo
        BY <1>11, <1>17 DEF InTurn
    \* Only the chunk that is now buffered is no longer asked for.
    <2>2. ASSUME NEW c \in Int, c # t.todo, NEW j \in DOMAIN r.tasks, Load(r, j),
                 c \in r.tasks[j].todo..r.tasks[j].last
          PROVE  Load(q, j) /\ j \in DOMAIN q.tasks /\ c \in q.tasks[j].todo..q.tasks[j].last
        BY <1>3, <1>9, <1>10, <1>11, <1>12, <2>2
    <2>3. InTurn(q)
        <3>. SUFFICES ASSUME NEW k \in DOMAIN r.tasks, Load(r, k)
                      PROVE  /\ q.tasks[k].todo <= q.tasks[k].last /\ q.tasks[k].last < q.next
                             /\ \A c \in q.tasks[k].todo..(q.next - 1) :
                                   \E j \in DOMAIN q.tasks :
                                      Load(q, j) /\ c \in q.tasks[j].todo..q.tasks[j].last
                             /\ \A j \in DOMAIN q.tasks :
                                   Load(q, j) /\ k < j => q.tasks[k].last < q.tasks[j].todo
            BY <1>9, <1>10 DEF InTurn
        <3>1. CASE k = i
            <4>0. /\ q.tasks[k].todo = t.todo + 1 /\ q.tasks[k].last = t.last
                  /\ q.next = r.next
                BY <1>3, <1>7, <1>9, <3>1
            <4>1. q.tasks[k].todo <= q.tasks[k].last /\ q.tasks[k].last < q.next
                BY <1>4, <1>12, <2>1, <4>0
            <4>2. ASSUME NEW c \in q.tasks[k].todo..(q.next - 1)
                  PROVE  \E j \in DOMAIN q.tasks :
                            Load(q, j) /\ c \in q.tasks[j].todo..q.tasks[j].last
                <5>1. c \in t.todo..(r.next - 1) /\ c # t.todo /\ c \in Int
                    BY <1>12, <4>0
                <5>. QED
                    BY <2>1, <2>2, <5>1
            <4>3. ASSUME NEW j \in DOMAIN q.tasks, Load(q, j), k < j
                  PROVE  q.tasks[k].last < q.tasks[j].todo
                <5>1. j # i
                    BY <1>12, <3>1, <4>3
                <5>2. q.tasks[j] = r.tasks[j] /\ Load(r, j) /\ j \in DOMAIN r.tasks
                    BY <1>9, <1>10, <4>3, <5>1
                <5>. QED
                    BY <1>3, <2>1, <3>1, <4>0, <4>3, <5>2
            <4>. QED
                BY <4>1, <4>2, <4>3
        <3>2. CASE k # i
            <4>0. i < k /\ q.tasks[k] = r.tasks[k] /\ t.last < r.tasks[k].todo
                BY <1>9, <1>13, <2>1, <3>2
            <4>1. /\ r.tasks[k].todo <= r.tasks[k].last /\ r.tasks[k].last < r.next
                  /\ \A c \in r.tasks[k].todo..(r.next - 1) :
                      \E j \in DOMAIN r.tasks :
                         Load(r, j) /\ c \in r.tasks[j].todo..r.tasks[j].last
                  /\ \A j \in DOMAIN r.tasks :
                        Load(r, j) /\ k < j => r.tasks[k].last < r.tasks[j].todo
                BY <1>17 DEF InTurn
            <4>2. ASSUME NEW c \in q.tasks[k].todo..(q.next - 1)
                  PROVE  \E j \in DOMAIN q.tasks :
                            Load(q, j) /\ c \in q.tasks[j].todo..q.tasks[j].last
                <5>1. c \in r.tasks[k].todo..(r.next - 1) /\ c # t.todo /\ c \in Int
                    BY <1>7, <1>12, <2>1, <4>0
                <5>. QED
                    BY <2>2, <4>1, <5>1
            <4>3. \A j \in DOMAIN q.tasks : Load(q, j) /\ k < j => j # i
                BY <1>12, <4>0
            <4>. QED
                BY <1>7, <1>9, <1>10, <4>0, <4>1, <4>2, <4>3
        <3>. QED
            BY <3>1, <3>2
    <2>4. Feeding(q)
        <3>. SUFFICES ASSUME q.at = "ready", q.clear.at = "no" PROVE Feeding(q)
            BY DEF Feeding
        <3>1. /\ r.at = "ready" /\ r.clear.at = "no" /\ q.mail = r.mail /\ q.fed = r.fed
              /\ q.gen = r.gen
            BY <1>7 DEF Alike
        <3>2. r.mail = <<>> /\ r.fed = t.todo
            BY <1>4, <1>11, <1>17, <3>1 DEF Feeding
        <3>3. ASSUME NEW k \in DOMAIN r.tasks, Load(r, k), k # i
              PROVE  q.tasks[k].at = "queue" /\ i < k
            <4>1. i < k /\ r.tasks[k].gen = r.tasks[i].gen
                BY <1>4, <1>11, <1>13, <3>3 DEF Load, Current
            <4>2. r.tasks[k].at = "queue"
                BY <1>0, <3>3, <4>1 DEF Working, OneAtWork, Foremost
            <4>. QED
                BY <1>9, <3>3, <4>1, <4>2
        <3>4. q.tasks[i].at = "queue" /\ q.tasks[i].todo = q.fed + 1
            <4>1. q.tasks[i] = w /\ w.at = "queue" /\ w.todo = t.todo + 1
                BY <1>3, <1>9
            <4>2. q.fed = t.todo
                BY <3>1, <3>2
            <4>. QED
                BY <4>1, <4>2
        <3>. QED
            BY <1>9, <1>10, <1>11, <3>1, <3>2, <3>3, <3>4 DEF Feeding
    <2>5. ASSUME Coming(r) PROVE Coming(q)
        <3>1. ~ EvictsAhead(r) => ~ EvictsAhead(q)
            <4>1. q.tasks[i].kind # "evict"
                BY <1>9, <1>11 DEF Load
            <4>. QED
                BY <1>7, <1>9, <4>1 DEF EvictsAhead, Alike
        <3>2. ASSUME NEW c \in Int,
                     \/ c \in r.buffered
                     \/ \E j \in DOMAIN r.tasks :
                           Load(r, j) /\ c \in r.tasks[j].todo..r.tasks[j].last
              PROVE  \/ c \in r.buffered
                     \/ \E j \in DOMAIN q.tasks :
                           Load(q, j) /\ c \in q.tasks[j].todo..q.tasks[j].last
            BY <1>4, <2>2, <3>2
        <3>3. r.playhead..(r.next - 1) \subseteq Int
            BY <1>12
        <3>. QED
            BY <1>7, <2>5, <3>1, <3>2, <3>3 DEF Coming, Alike
    <2>. QED
        BY <2>3, <2>4, <2>5
<1>. QED
    BY <1>7, <1>8, <1>14, <1>15, <1>16, <1>17 DEF Fine, Sane

\* A segment more of a load that appends.
LEMMA NextSegmentFine ==
    ASSUME NEW r, NEW u, NEW seeking, Fine(r, u, seeking), r.at = "ready", r.op = Idle,
           NEW i \in DOMAIN r.tasks, r.tasks[i].at = "append", NEW g \in Nat,
           NEW q, q = [r EXCEPT !.tasks[i].seg = g]
    PROVE  /\ Fine(q, u, seeking) /\ Alike(q, r) /\ DOMAIN q.tasks = DOMAIN r.tasks
           /\ q.tasks[i].at = "append"
<1>. DEFINE t == r.tasks[i]
            w == [t EXCEPT !.seg = g]
            z == [r.tasks EXCEPT ![i] = w]
<1>0. Typed(r) /\ Idle.by = "none"
    BY DEF Fine, Sane, Idle
<1>1. t \in Task /\ r.tasks \in Seq(Task)
    BY <1>0, TaskFacts DEF Typed
<1>2. /\ w \in Task /\ w.at = t.at /\ w.gen = t.gen /\ w.kind = t.kind
      /\ w.todo = t.todo /\ w.last = t.last
    BY <1>1 DEF Task
<1>3. q = [r EXCEPT !.tasks = z]
    OBVIOUS
<1>. HIDE DEF w, t, Task
<1>4. /\ z \in Seq(Task) /\ DOMAIN z = DOMAIN r.tasks /\ z[i] = w
      /\ \A j \in DOMAIN r.tasks : j # i => z[j] = r.tasks[j]
    BY <1>1, <1>2, PlaceSet
<1>. HIDE DEF z
<1>5. /\ Whole(q) /\ Alike(q, r) /\ q.next = r.next /\ q.from = r.from /\ q.tasks = z
    BY <1>0, <1>3 DEF Typed, Whole, Alike
<1>6. Typed(q)
    BY <1>0, <1>4, <1>5 DEF Typed, Alike
<1>7. Moves(q, r, i, "append") /\ q.op = r.op
    BY <1>0, <1>2, <1>4, <1>5, <1>6 DEF Moves, Alike, t
<1>8. Fine(q, u, seeking)
    BY <1>0, <1>7, MovesFine
<1>. QED
    BY <1>5, <1>7, <1>8 DEF Moves

\* The end of an append.
LEMMA AppendedFine ==
    ASSUME NEW r, NEW u, NEW seeking, Fine(r, u, seeking), r.at = "ready",
           r.op.by = "load", NEW i \in DOMAIN r.tasks, Owns(r, i),
           NEW q, q = Appended(r, i, seeking)
    PROVE  /\ Fine(q, u, seeking) /\ q.at = r.at /\ q.gen = r.gen /\ q.timer = r.timer
           /\ q.op.by \notin {"evict", "clear"}
<1>. DEFINE a == [r EXCEPT !.op = Idle]
            b == [a EXCEPT !.buffered = @ \cup {r.tasks[i].todo}]
<1>0. Sane(r, u, seeking) /\ Evicting(r) /\ Typed(r) /\ Idle.by = "none"
    BY DEF Fine, Sane, Idle
<1>1. /\ Sane(a, u, seeking) /\ Evicting(a)
      /\ a.tasks = r.tasks /\ a.op = Idle /\ a.at = r.at /\ a.clear = r.clear
      /\ a.gen = r.gen /\ a.buffered = r.buffered /\ a.timer = r.timer
    BY <1>0, OpEnds
<1>2. Fine(a, u, seeking)
    BY <1>1 DEF Fine
<1>3. r.tasks[i].at = "append"
    BY DEF Owns, Place
<1>4. r.tasks[i].kind = "load"
    BY <1>0, <1>3, TaskFacts DEF Sane, Working, Leftovers, Task
<1>5. CASE r.tasks[i].seg + 1 < Segments
    <2>. DEFINE c == [a EXCEPT !.tasks[i].seg = @ + 1]
    <2>1. q = Appends(c, i)
        BY <1>5 DEF Appended
    <2>2. PICK g \in Nat : c = [a EXCEPT !.tasks[i].seg = g]
        <3>1. r.tasks[i].seg \in Nat
            BY <1>0, TaskFacts DEF Task
        <3>. HIDE DEF a
        <3>2. c = [a EXCEPT !.tasks[i].seg = r.tasks[i].seg + 1]
            BY <1>1
        <3>3. r.tasks[i].seg + 1 \in Nat
            BY <3>1
        <3>. QED
            BY <3>2, <3>3
    <2>. HIDE DEF a, c
    <2>3. /\ Fine(c, u, seeking) /\ Alike(c, a) /\ DOMAIN c.tasks = DOMAIN a.tasks
          /\ c.tasks[i].at = "append"
        BY <1>1, <1>2, <1>3, <2>2, NextSegmentFine
    <2>4. c.op = Idle /\ c.at = "ready" /\ i \in DOMAIN c.tasks
        BY <1>1, <2>3 DEF Alike
    <2>5. Fine([c EXCEPT !.tasks[i].at = "full"], u, seeking)
        BY <1>0, <2>3, <2>4, AtWorkFull
    <2>6. Typed(c)
        BY <2>3 DEF Fine, Sane
    <2>7. Fine(q, u, seeking) /\ Beside(q, c, i)
        BY <2>1, <2>4, <2>5, <2>6, AppendsFine
    <2>. QED
        BY <1>0, <1>1, <2>3, <2>4, <2>7 DEF Alike, Beside
<1>6. CASE ~ (r.tasks[i].seg + 1 < Segments)
    <2>0. r.tasks[i].todo \in Int
        BY <1>0, TaskFacts
    <2>. DEFINE d == a.buffered \cup {r.tasks[i].todo}
    <2>1. b = [a EXCEPT !.buffered = d]
        OBVIOUS
    <2>9. q = IF r.tasks[i].todo = r.tasks[i].last \/ r.tasks[i].gen # r.gen
              THEN LoadEnds(b, i, seeking)
              ELSE [b EXCEPT !.tasks[i] = [r.tasks[i] EXCEPT !.todo = @ + 1, !.seg = 0,
                                                             !.at = "queue"]]
        BY <1>6 DEF Appended
    <2>. HIDE DEF a, b
    <2>2. d \subseteq 0..(Chunks - 1)
        <3>1. r.tasks[i].todo \in 0..(Chunks - 1)
            BY <1>0, <1>4, TaskFacts, Numbers DEF Task, Times
        <3>. QED
            BY <1>0, <1>1, <3>1 DEF Typed
    <2>. HIDE DEF d
    <2>3. \A c \in a.buffered : c >= a.playhead => c \in d
        BY DEF d
    <2>4. /\ Sane(b, u, seeking) /\ (Evicting(a) => Evicting(b))
          /\ b.tasks = a.tasks /\ b.op = a.op /\ b.at = a.at /\ b.clear = a.clear
          /\ b.gen = a.gen /\ b.buffered = d /\ b.timer = a.timer
        BY <1>1, <2>1, <2>2, <2>3, BufferFine
    <2>5. /\ Fine(b, u, seeking) /\ b.at = "ready" /\ b.op = Idle /\ b.tasks = r.tasks
          /\ b.gen = r.gen /\ r.tasks[i].todo \in b.buffered
        BY <1>1, <2>4 DEF Fine, d
    <2>6. CASE r.tasks[i].todo = r.tasks[i].last \/ r.tasks[i].gen # r.gen
        <3>1. q = LoadEnds(b, i, seeking)
            BY <2>6, <2>9
        <3>2. ~ Load(b, i) \/ Done(b, i)
            BY <1>3, <1>4, <2>5, <2>6 DEF Load, Current, Done
        <3>3. Fine(q, u, seeking) /\ Alike(q, b)
            BY <2>5, <3>1, <3>2, LoadEndsFine
        <3>. QED
            BY <1>0, <1>1, <2>4, <3>3 DEF Alike, Beside
    <2>7. CASE ~ (r.tasks[i].todo = r.tasks[i].last \/ r.tasks[i].gen # r.gen)
        <3>1. q = [b EXCEPT !.tasks[i] = [b.tasks[i] EXCEPT !.todo = @ + 1, !.seg = 0,
                                                            !.at = "queue"]]
            BY <2>5, <2>7, <2>9
        <3>2. /\ b.tasks[i].at = "append" /\ b.tasks[i].gen = b.gen
              /\ b.tasks[i].todo \in b.buffered /\ b.tasks[i].todo # b.tasks[i].last
              /\ i \in DOMAIN b.tasks
            BY <1>3, <2>5, <2>7
        <3>3. Fine(q, u, seeking) /\ Alike(q, b)
            BY <2>5, <3>1, <3>2, NextChunkFine
        <3>. QED
            BY <1>0, <1>1, <2>4, <3>3 DEF Alike, Beside
    <2>. QED
        BY <2>6, <2>7
<1>. QED
    BY <1>5, <1>6

-----------------------------------------------------------------------------
(* Seeks out of the buffer.                                                *)

\* A seek out of the buffer that has not asked the transmuxer yet, and for which
\* the buffer is not at work.
Clears(r) ==
    /\ r.clear.at \in {"idle", "behind", "ahead"}
    /\ r.op.by \notin {"evict", "clear"}

\* The transmuxer is told where the seek goes.
LEMMA SyncsFine ==
    ASSUME NEW r, NEW u, NEW seeking, Fine(r, u, seeking), r.at = "ready", Clears(r),
           NEW q, q = Syncs(r)
    PROVE  Fine(q, u, seeking) /\ q.at = r.at /\ q.gen = r.gen /\ q.timer = r.timer
                               /\ q.op = r.op
<1>. DEFINE k == [r.clear EXCEPT !.at = "sync"]
            m == [type |-> "SEEK", to |-> r.clear.to, gen |-> r.gen]
            z == Append(r.mail, m)
<1>0. Typed(r) /\ Quiet(r) /\ Working(r, seeking) /\ Evicting(r)
    BY DEF Fine, Sane
<1>1. r.clear \in Clearing /\ r.mail \in Seq(Message) /\ r.gen \in Nat
    BY <1>0 DEF Typed
<1>2. k \in Clearing /\ k.at = "sync" /\ k.to = r.clear.to
    BY <1>1 DEF Clearing
<1>3. m \in Message /\ m.type = "SEEK" /\ m.to = r.clear.to /\ m.gen = r.gen
    BY <1>1 DEF Message, Clearing
<1>4. q = [r EXCEPT !.clear = k, !.mail = z]
    BY DEF Syncs
<1>. HIDE DEF k, m, Message
<1>5. /\ z \in Seq(Message) /\ Len(r.mail) \in Nat /\ DOMAIN r.mail = 1..Len(r.mail)
      /\ Len(z) = Len(r.mail) + 1 /\ DOMAIN z = 1..(Len(r.mail) + 1)
      /\ z[Len(z)] = m /\ \A j \in 1..Len(r.mail) : z[j] = r.mail[j]
    BY <1>1, <1>3
<1>6. \A j \in DOMAIN z : (j \in DOMAIN r.mail /\ z[j] = r.mail[j]) \/ (j = Len(z) /\ z[j] = m)
    BY <1>5
<1>. HIDE DEF z
<1>7. /\ Whole(q) /\ q.tasks = r.tasks /\ q.op = r.op /\ q.at = r.at /\ q.clear = k
      /\ q.gen = r.gen /\ q.mail = z /\ q.next = r.next /\ q.fed = r.fed
      /\ q.playhead = r.playhead /\ q.timer = r.timer /\ q.buffered = r.buffered
      /\ q.from = r.from
    BY <1>0, <1>4 DEF Typed, Whole
<1>8. Typed(q) /\ Quiet(q)
    BY <1>0, <1>2, <1>5, <1>7 DEF Typed, Quiet
<1>9. Working(q, seeking)
    <2>1. OneAtWork(q)
        BY <1>0, <1>7 DEF Working, OneAtWork, Foremost
    <2>2. Leftovers(q)
        <3>1. \A i \in DOMAIN r.tasks : r.tasks[i].gen # r.gen => r.tasks[i].kind # "evict"
            BY <1>0 DEF Working, Leftovers, GoesOn, Evicting, Clears
        <3>. QED
            BY <1>0, <1>7, <3>1 DEF Working, Leftovers
    <2>3. Owned(q)
        BY <1>0, <1>7 DEF Working, Owned, Owns, Clears
    <2>4. Preparing(q, seeking)
        <3>1. /\ seeking /\ r.clear.to < Chunks
              /\ \A i \in DOMAIN r.tasks : ~ Current(r, i)
              /\ \A j \in DOMAIN r.mail : r.mail[j].type = "CHUNK" => r.mail[j].gen # r.gen
              /\ \A j \in DOMAIN r.mail :
                    r.mail[j].gen <= r.gen /\ ~ (r.mail[j].type = "SEEK" /\ r.mail[j].gen = r.gen)
            BY <1>0 DEF Working, Preparing, Clears
        <3>2. \A j \in DOMAIN z : z[j].type = "CHUNK" => z[j].gen # r.gen
            BY <1>3, <1>6, <3>1
        <3>3. \A j \in DOMAIN z :
                 /\ z[j].gen <= r.gen
                 /\ z[j].type = "SEEK" /\ z[j].gen = r.gen =>
                        z[j].to = k.to /\ j = Len(z)
            BY <1>1, <1>2, <1>3, <1>6, <3>1
        <3>. QED
            BY <1>2, <1>7, <3>1, <3>2, <3>3 DEF Preparing, Current
    <2>. QED
        BY <2>1, <2>2, <2>3, <2>4 DEF Working
<1>10. Evicting(q) /\ (NoneWaits(r) => NoneWaits(q))
    BY <1>0, <1>2, <1>7 DEF Evicting, NoneWaits, Current
<1>11. InTurn(r) => InTurn(q)
    BY <1>7 DEF InTurn, Load, Current
<1>12. Feeding(q)
    BY <1>2, <1>7 DEF Feeding
<1>13. Coming(r) => Coming(q)
    BY <1>2, <1>7 DEF Coming, Clears
<1>. QED
    BY <1>7, <1>8, <1>9, <1>10, <1>11, <1>12, <1>13 DEF Fine, Sane

\* The buffer removes something for a seek.
Removal(r, w) == [r EXCEPT !.clear.at = w, !.op = [by |-> "clear", gen |-> r.gen]]

\* A seek removes what is behind it, or ahead of it.
LEMMA RemovalFine ==
    ASSUME NEW r, NEW u, NEW seeking, Fine(r, u, seeking), r.at = "ready", Clears(r),
           r.op = Idle, NEW w \in {"behind", "ahead"},
           NEW q, q = Removal(r, w)
    PROVE  Fine(q, u, seeking) /\ q.at = r.at /\ q.gen = r.gen /\ q.timer = r.timer
                               /\ q.op.by # "evict"
                               /\ (q.op.by = "clear" => q.clear.at # "idle")
<1>. DEFINE k == [r.clear EXCEPT !.at = w]
            o == [by |-> "clear", gen |-> r.gen]
<1>0. Typed(r) /\ Quiet(r) /\ Working(r, seeking) /\ Evicting(r)
    BY DEF Fine, Sane
<1>1. r.clear \in Clearing /\ r.gen \in Nat
    BY <1>0 DEF Typed
<1>2. k \in Clearing /\ k.at = w /\ k.to = r.clear.to
    BY <1>1 DEF Clearing
<1>3. o \in Update /\ o.by = "clear" /\ o.gen = r.gen
    BY <1>0, <1>1, UpdateFacts
<1>4. q = [r EXCEPT !.clear = k, !.op = o]
    BY DEF Removal
<1>. HIDE DEF k, o
<1>7. /\ Whole(q) /\ q.tasks = r.tasks /\ q.op = o /\ q.at = r.at /\ q.clear = k
      /\ q.gen = r.gen /\ q.mail = r.mail /\ q.next = r.next /\ q.fed = r.fed
      /\ q.playhead = r.playhead /\ q.timer = r.timer /\ q.buffered = r.buffered
      /\ q.from = r.from
    BY <1>0, <1>4 DEF Typed, Whole
<1>8. Typed(q) /\ Quiet(q)
    BY <1>0, <1>2, <1>3, <1>7 DEF Typed, Quiet
<1>9. Working(q, seeking)
    <2>1. OneAtWork(q)
        BY <1>0, <1>7 DEF Working, OneAtWork, Foremost
    <2>2. Leftovers(q)
        <3>1. \A i \in DOMAIN r.tasks : r.tasks[i].gen # r.gen => r.tasks[i].kind # "evict"
            BY <1>0 DEF Working, Leftovers, GoesOn, Evicting, Clears
        <3>. QED
            BY <1>0, <1>7, <3>1 DEF Working, Leftovers
    <2>3. Owned(q)
        <3>1. o # Idle /\ o.gen <= r.gen
            BY <1>1, <1>3 DEF Idle
        <3>. QED
            BY <1>2, <1>3, <1>7, <3>1 DEF Owned
    <2>4. Preparing(q, seeking)
        <3>1. \A j \in DOMAIN r.mail : ~ (r.mail[j].type = "SEEK" /\ r.mail[j].gen = r.gen)
            BY <1>0 DEF Working, Preparing, Clears
        <3>. QED
            BY <1>0, <1>2, <1>7, <3>1 DEF Working, Preparing, Current, Clears
    <2>. QED
        BY <2>1, <2>2, <2>3, <2>4 DEF Working
<1>10. Evicting(q) /\ (NoneWaits(r) => NoneWaits(q))
    BY <1>0, <1>2, <1>3, <1>7 DEF Evicting, NoneWaits, Current, Idle
<1>11. InTurn(r) => InTurn(q)
    BY <1>7 DEF InTurn, Load, Current
<1>12. Feeding(q)
    BY <1>2, <1>7 DEF Feeding
<1>13. Coming(r) => Coming(q)
    BY <1>2, <1>7 DEF Coming, Clears
<1>. QED
    BY <1>2, <1>3, <1>7, <1>8, <1>9, <1>10, <1>11, <1>12, <1>13 DEF Fine, Sane

\* First what is ahead.
LEMMA RemovesAheadFine ==
    ASSUME NEW r, NEW u, NEW seeking, Fine(r, u, seeking), r.at = "ready", Clears(r),
           NEW q, q = RemovesAhead(r)
    PROVE  Fine(q, u, seeking) /\ q.at = r.at /\ q.gen = r.gen /\ q.timer = r.timer
                               /\ q.op.by # "evict"
                               /\ (q.op.by = "clear" => q.clear.at # "idle")
<1>. DEFINE MayBegin == MayRemove(r) /\ \E c \in r.buffered : c >= r.clear.to
<1>1. CASE MayBegin
    <2>1. PICK w \in {"behind", "ahead"} : q = Removal(r, w)
        BY <1>1 DEF RemovesAhead, Removal
    <2>2. r.op = Idle
        BY <1>1 DEF MayRemove
    <2>. QED
        BY <2>1, <2>2, RemovalFine
<1>2. CASE ~ MayBegin
    <2>1. q = Syncs(r)
        BY <1>2 DEF RemovesAhead
    <2>. QED
        BY <2>1, SyncsFine DEF Clears
<1>. QED
    BY <1>1, <1>2

\* What is behind, then what is ahead.
LEMMA RemovesBehindFine ==
    ASSUME NEW r, NEW u, NEW seeking, Fine(r, u, seeking), r.at = "ready", Clears(r),
           NEW q, q = RemovesBehind(r)
    PROVE  Fine(q, u, seeking) /\ q.at = r.at /\ q.gen = r.gen /\ q.timer = r.timer
                               /\ q.op.by # "evict"
                               /\ (q.op.by = "clear" => q.clear.at # "idle")
<1>. DEFINE MayBegin == MayRemove(r) /\ \E c \in r.buffered : c < r.clear.to - Behind
<1>1. CASE MayBegin
    <2>1. PICK w \in {"behind", "ahead"} : q = Removal(r, w)
        BY <1>1 DEF RemovesBehind, Removal
    <2>2. r.op = Idle
        BY <1>1 DEF MayRemove
    <2>. QED
        BY <2>1, <2>2, RemovalFine
<1>2. CASE ~ MayBegin
    <2>1. q = RemovesAhead(r)
        BY <1>2 DEF RemovesBehind
    <2>. QED
        BY <2>1, RemovesAheadFine
<1>. QED
    BY <1>1, <1>2

\* The end of a removal.
LEMMA ClearedFine ==
    ASSUME NEW r, NEW u, NEW seeking, Fine(r, u, seeking), r.at = "ready",
           r.op.by = "clear", NEW q, q = Cleared(r)
    PROVE  Fine(q, u, seeking) /\ q.at = r.at /\ q.gen = r.gen /\ q.timer = r.timer
                               /\ q.op.by # "evict"
                               /\ (q.op.by = "clear" => q.clear.at # "idle")
<1>. DEFINE a == [r EXCEPT !.op = Idle]
<1>0. Sane(r, u, seeking) /\ Evicting(r) /\ Typed(r) /\ Idle.by = "none"
    BY DEF Fine, Sane, Idle
<1>1. /\ Sane(a, u, seeking) /\ Evicting(a)
      /\ a.tasks = r.tasks /\ a.op = Idle /\ a.at = r.at /\ a.clear = r.clear
      /\ a.gen = r.gen /\ a.buffered = r.buffered /\ a.timer = r.timer
    BY <1>0, OpEnds
<1>2. Fine(a, u, seeking)
    BY <1>1 DEF Fine
<1>3. CASE r.op.gen # r.gen
    BY <1>0, <1>1, <1>2, <1>3 DEF Cleared
<1>4. CASE r.op.gen = r.gen
    <2>1. r.clear.at \in {"behind", "ahead"}
        BY <1>0, <1>4 DEF Sane, Working, Owned
    <2>2. PICK b \in SUBSET r.buffered :
             LET c == [a EXCEPT !.buffered = b]
             IN  q = RemovesAhead(c) \/ q = Syncs(c)
        <3>. HIDE DEF a
        <3>1. CASE r.clear.at = "behind"
            <4>. DEFINE b == {c \in r.buffered : c >= r.clear.to - Behind}
            <4>1. q = RemovesAhead([a EXCEPT !.buffered = b])
                BY <1>1, <1>4, <3>1 DEF Cleared, a
            <4>2. b \in SUBSET r.buffered
                OBVIOUS
            <4>. HIDE DEF b
            <4>. QED
                BY <4>1, <4>2
        <3>2. CASE r.clear.at # "behind"
            <4>. DEFINE b == {c \in r.buffered : c < r.clear.to}
            <4>1. q = Syncs([a EXCEPT !.buffered = b])
                BY <1>1, <1>4, <3>2 DEF Cleared, a
            <4>2. b \in SUBSET r.buffered
                OBVIOUS
            <4>. HIDE DEF b
            <4>. QED
                BY <4>1, <4>2
        <3>. QED
            BY <3>1, <3>2
    <2>. DEFINE c == [a EXCEPT !.buffered = b]
    <2>. HIDE DEF a
    <2>3. b \subseteq 0..(Chunks - 1) /\ a.clear.at # "no"
        BY <1>0, <1>1, <2>1 DEF Typed
    <2>4. /\ Sane(c, u, seeking) /\ (Evicting(a) => Evicting(c))
          /\ c.tasks = a.tasks /\ c.op = a.op /\ c.at = a.at /\ c.clear = a.clear
          /\ c.gen = a.gen /\ c.timer = a.timer
        BY <1>1, <2>3, BufferFine
    <2>5. q = RemovesAhead(c) \/ q = Syncs(c)
        BY <2>2
    <2>. HIDE DEF c
    <2>6. Fine(c, u, seeking) /\ c.at = "ready" /\ Clears(c)
        BY <1>0, <1>1, <2>1, <2>4 DEF Fine, Clears
    <2>. QED
        BY <1>0, <1>1, <2>4, <2>5, <2>6, RemovesAheadFine, SyncsFine
<1>. QED
    BY <1>3, <1>4

-----------------------------------------------------------------------------
(* The end of an update.                                                   *)
LEMMA OwnerFacts ==
    ASSUME NEW r, NEW seeking, Working(r, seeking), r.op.by \in {"load", "room", "evict"},
           NEW i, i = Owner(r)
    PROVE  i \in DOMAIN r.tasks /\ Owns(r, i)
<1>1. PICK j \in DOMAIN r.tasks : Owns(r, j)
    BY DEF Working, Owned
<1>2. Place(r.op.by) = CASE r.op.by = "load"  -> "append"
                         [] r.op.by = "room"  -> "room"
                         [] r.op.by = "evict" -> "evict"
    BY DEF Place
<1>3. i = CHOOSE k \in DOMAIN r.tasks : /\ r.tasks[k].gen = r.op.gen
                                        /\ r.tasks[k].at = Place(r.op.by)
    BY <1>2 DEF Owner
<1>. QED
    BY <1>1, <1>3 DEF Owns

\* updateend, for whom the update was.
LEMMA UpdatedFine ==
    ASSUME NEW r, NEW u, NEW seeking, Fine(r, u, seeking), r.at = "ready", r.op # Idle,
           NEW q, q = Updated(r, seeking)
    PROVE  Fine(q, u, seeking) /\ q.at = r.at /\ q.gen = r.gen /\ q.timer = r.timer
                               /\ q.op.by # "evict"
                               /\ (q.op.by = "clear" => q.clear.at # "idle")
<1>. DEFINE i == Owner(r)
            a == [r EXCEPT !.op = Idle]
<1>0. /\ Sane(r, u, seeking) /\ Evicting(r) /\ Typed(r) /\ Working(r, seeking)
      /\ Idle.by = "none"
    BY DEF Fine, Sane, Idle
<1>1. r.op.by \in {"load", "room", "evict", "clear"}
    BY <1>0 DEF Working, Owned, Typed, Update
<1>2. /\ Sane(a, u, seeking) /\ (r.op.by # "evict" => Evicting(a))
      /\ a.tasks = r.tasks /\ a.op = Idle /\ a.at = r.at /\ a.clear = r.clear
      /\ a.gen = r.gen /\ a.buffered = r.buffered /\ a.timer = r.timer
      /\ a.playhead = r.playhead
    BY <1>0, OpEnds
<1>3. r.op.by \in {"load", "room", "evict"} => i \in DOMAIN r.tasks /\ Owns(r, i)
    BY <1>0, OwnerFacts
<1>. HIDE DEF i
<1>4. CASE r.op.by = "load"
    <2>1. q = Appended(r, i, seeking)
        BY <1>4 DEF Updated, i
    <2>. QED
        BY <1>3, <1>4, <2>1, AppendedFine
<1>5. CASE r.op.by = "room"
    <2>. DEFINE d == r.buffered \ Played(r)
                b == [a EXCEPT !.buffered = d]
    <2>1. q = Appends(b, i)
        BY <1>2, <1>5 DEF Updated, i
    <2>. HIDE DEF a
    <2>2. d \subseteq 0..(Chunks - 1)
        BY <1>0 DEF Typed
    <2>3. \A c \in a.buffered : c >= a.playhead => c \in d
        <3>1. \A c \in r.buffered : c \in Int /\ r.playhead \in Int
            BY <1>0, TaskFacts DEF Typed
        <3>. QED
            BY <1>2, <3>1 DEF Played
    <2>. HIDE DEF d
    <2>4. /\ Sane(b, u, seeking) /\ (Evicting(a) => Evicting(b))
          /\ b.tasks = a.tasks /\ b.op = a.op /\ b.at = a.at /\ b.clear = a.clear
          /\ b.gen = a.gen /\ b.timer = a.timer
        BY <1>2, <2>2, <2>3, BufferFine
    <2>. HIDE DEF b
    <2>5. Fine(b, u, seeking) /\ b.at = "ready" /\ b.op = Idle /\ b.tasks = r.tasks
        BY <1>2, <1>5, <2>4 DEF Fine
    <2>6. i \in DOMAIN b.tasks /\ b.tasks[i].at = "room"
        BY <1>3, <1>5, <2>5 DEF Owns, Place
    <2>7. Fine([b EXCEPT !.tasks[i].at = "full"], u, seeking)
        BY <1>0, <2>5, <2>6, AtWorkFull
    <2>8. Fine(q, u, seeking) /\ Beside(q, b, i)
        BY <2>1, <2>5, <2>6, <2>7, AppendsFine DEF Fine, Sane
    <2>. QED
        BY <1>0, <1>2, <2>4, <2>5, <2>8 DEF Beside
<1>6. CASE r.op.by = "evict"
    <2>. DEFINE d == {c \in r.buffered : c >= r.tasks[i].todo - Behind}
                b == [a EXCEPT !.buffered = d]
    <2>1. q = Drops(b, {i})
        BY <1>2, <1>6 DEF Updated, i
    <2>. HIDE DEF a
    <2>2. d \subseteq 0..(Chunks - 1)
        BY <1>0 DEF Typed
    <2>3. r.tasks[i].kind = "evict" /\ r.tasks[i].at = "evict" /\ i \in DOMAIN r.tasks
        BY <1>0, <1>3, <1>6 DEF Working, Leftovers, Owns, Place
    <2>4. \/ a.clear.at # "no"
          \/ \A c \in a.buffered : c >= a.playhead => c \in d
          \/ {"failed", "gap"} \cap u # {} \/ a.timer
        <3>. SUFFICES ASSUME r.clear.at = "no", {"failed", "gap"} \cap u = {}, ~ r.timer,
                             NEW c \in r.buffered, c >= r.playhead
                      PROVE  c >= r.tasks[i].todo - Behind
            BY <1>2
        <3>1. ~ EvictsAhead(r)
            BY <1>0 DEF Sane, Coming
        <3>2. ~ (r.tasks[i].todo - Behind > r.playhead)
            BY <2>3, <3>1 DEF EvictsAhead
        <3>3. c \in Int /\ r.playhead \in Int /\ r.tasks[i].todo \in Int
            BY <1>0, <2>3, TaskFacts DEF Typed
        <3>. QED
            BY <3>2, <3>3, Numbers
    <2>. HIDE DEF d
    <2>5. /\ Sane(b, u, seeking)
          /\ b.tasks = a.tasks /\ b.op = a.op /\ b.at = a.at /\ b.clear = a.clear
          /\ b.gen = a.gen /\ b.timer = a.timer
        BY <1>2, <2>2, <2>4, BufferFine
    <2>. HIDE DEF b
    <2>6. b.at = "ready" /\ b.op = Idle /\ b.tasks = r.tasks /\ {i} \subseteq DOMAIN b.tasks
        BY <1>2, <2>3, <2>5
    <2>7. \A j \in DOMAIN b.tasks \ {i} : b.tasks[j].at # "evict"
        <3>. SUFFICES ASSUME NEW j \in DOMAIN r.tasks, r.tasks[j].at = "evict", j # i
                      PROVE  FALSE
            BY <2>6
        <3>1. r.tasks[j].gen = r.tasks[i].gen
            BY <1>0, <2>3 DEF Evicting
        <3>2. ~ (i < j) /\ ~ (j < i)
            BY <1>0, <2>3, <3>1 DEF Working, OneAtWork, Foremost
        <3>3. i \in Int /\ j \in Int
            BY <1>0, <2>3, TaskFacts
        <3>. QED
            BY <3>2, <3>3
    <2>8. \A j \in {i} : ~ Load(b, j)
        BY <2>3, <2>6 DEF Load
    <2>9. Fine(q, u, seeking) /\ Alike(q, b)
        BY <1>0, <2>1, <2>5, <2>6, <2>7, <2>8, DropsFine
    <2>. QED
        BY <1>0, <1>2, <2>5, <2>6, <2>9 DEF Alike
<1>7. CASE r.op.by = "clear"
    <2>1. q = Cleared(r)
        BY <1>7 DEF Updated
    <2>. QED
        BY <1>7, <2>1, ClearedFine
<1>. QED
    BY <1>1, <1>4, <1>5, <1>6, <1>7

\* updateend, for the seek that has waited for it.
LEMMA ReleasedFine ==
    ASSUME NEW r, NEW u, NEW seeking, Fine(r, u, seeking), r.at = "ready",
           r.op.by # "evict", r.op.by = "clear" => r.clear.at # "idle",
           NEW q, q = Released(r)
    PROVE  Fine(q, u, seeking) /\ q.at = r.at /\ q.gen = r.gen /\ q.timer = r.timer
<1>1. CASE r.clear.at = "idle"
    <2>1. q = RemovesBehind(r) /\ Clears(r)
        BY <1>1 DEF Released, Clears
    <2>. QED
        BY <2>1, RemovesBehindFine
<1>2. CASE r.clear.at # "idle"
    BY <1>2 DEF Released
<1>. QED
    BY <1>1, <1>2

-----------------------------------------------------------------------------
(* The events of one stream.                                               *)

\* Only a stream that is ready has tasks, mail, updates and seeks.
LEMMA ReadyFacts ==
    ASSUME NEW r, Quiet(r),
           r.tasks # <<>> \/ r.mail # <<>> \/ r.op # Idle \/ r.timer
    PROVE  r.at = "ready"
    BY DEF Quiet

\* Two tasks of a generation are not at work at a time.
LEMMA OneOnly ==
    ASSUME NEW r, Typed(r), OneAtWork(r), NEW i \in DOMAIN r.tasks, NEW j \in DOMAIN r.tasks,
           r.tasks[i].gen = r.tasks[j].gen, Foremost(r, i),
           r.tasks[j].at # "queue"
    PROVE  i = j
<1>1. ~ (i < j) /\ ~ (j < i)
    BY DEF OneAtWork, Foremost
<1>2. i \in Int /\ j \in Int
    BY TaskFacts
<1>. QED
    BY <1>1, <1>2

\* A task whose turn it is is the first of its generation.
LEMMA TurnFacts ==
    ASSUME NEW r, Typed(r), NEW i, Turn(r, i)
    PROVE  i \in DOMAIN r.tasks /\ r.tasks[i].gen = r.gen /\ Foremost(r, i) /\ Current(r, i)
<1>1. i \in DOMAIN r.tasks /\ r.tasks[i].gen = r.gen
    BY DEF Turn
<1>2. \A j \in DOMAIN r.tasks : j < i => j \in 1..(i - 1)
    BY <1>1, TaskFacts
<1>3. Foremost(r, i)
    BY <1>1, <1>2 DEF Turn, Foremost
<1>. QED
    BY <1>1, <1>3 DEF Current

\* The chunk of task i is given to the transmuxer.
Given(r, i) ==
    [r EXCEPT !.tasks[i].at = "mux",
              !.mail = Append(@, [type |-> "CHUNK", to |-> r.tasks[i].todo, gen |-> r.gen])]

\* A load asks the transmuxer for its chunk: nothing else is in the mail.
LEMMA GivenFine ==
    ASSUME NEW r, NEW u, NEW seeking, Fine(r, u, seeking), NEW i, Turn(r, i),
           r.tasks[i].kind = "load", r.tasks[i].at = "queue", NEW q, q = Given(r, i)
    PROVE  Fine(q, u, seeking) /\ q.at = "ready" /\ r.at = "ready"
<1>. DEFINE t == r.tasks[i]
            w == [t EXCEPT !.at = "mux"]
            y == [r.tasks EXCEPT ![i] = w]
            m == [type |-> "CHUNK", to |-> t.todo, gen |-> r.gen]
            z == Append(r.mail, m)
<1>0. Typed(r) /\ Quiet(r) /\ Working(r, seeking) /\ Evicting(r)
    BY DEF Fine, Sane
<1>1. i \in DOMAIN r.tasks /\ t.gen = r.gen /\ Foremost(r, i) /\ Current(r, i)
    BY <1>0, TurnFacts
<1>2. r.at = "ready"
    BY <1>0, <1>1, ReadyFacts
<1>3. /\ t \in Task /\ t.todo \in Times /\ r.tasks \in Seq(Task) /\ r.mail \in Seq(Message)
      /\ r.gen \in Nat /\ "mux" \in TaskSteps
    BY <1>0, <1>1, TaskFacts DEF Typed, Task, TaskSteps
<1>4. /\ w \in Task /\ w.at = "mux" /\ w.kind = t.kind /\ w.gen = t.gen
      /\ w.todo = t.todo /\ w.last = t.last
    <2>. HIDE DEF t, Task
    <2>. QED
        BY <1>3, TaskSet
<1>5. m \in Message /\ m.type = "CHUNK" /\ m.to = t.todo /\ m.gen = r.gen
    <2>. HIDE DEF t
    <2>. QED
        BY <1>3 DEF Message
<1>6. q = [r EXCEPT !.tasks = y, !.mail = z]
    BY DEF Given
<1>7. t.kind = "load" /\ t.at = "queue" /\ t = r.tasks[i]
    OBVIOUS
<1>. HIDE DEF w, m, t, Task, Message
<1>8. /\ y \in Seq(Task) /\ DOMAIN y = DOMAIN r.tasks /\ y[i] = w
      /\ \A j \in DOMAIN r.tasks : j # i => y[j] = r.tasks[j]
    BY <1>1, <1>3, <1>4, PlaceSet
<1>9. /\ z \in Seq(Message) /\ Len(r.mail) \in Nat /\ DOMAIN r.mail = 1..Len(r.mail)
      /\ DOMAIN z = 1..(Len(r.mail) + 1) /\ Len(z) = Len(r.mail) + 1
      /\ z[Len(z)] = m /\ \A j \in 1..Len(r.mail) : z[j] = r.mail[j]
    BY <1>3, <1>5
<1>10. \A j \in DOMAIN z : (j \in DOMAIN r.mail /\ z[j] = r.mail[j]) \/ (j = Len(z) /\ z[j] = m)
    BY <1>9
<1>11. r.mail = <<>> => z = <<m>>
    BY DEF z
<1>. HIDE DEF y, z
<1>12. /\ Whole(q) /\ q.tasks = y /\ q.op = r.op /\ q.at = r.at /\ q.clear = r.clear
       /\ q.gen = r.gen /\ q.mail = z /\ q.next = r.next /\ q.fed = r.fed
       /\ q.playhead = r.playhead /\ q.timer = r.timer /\ q.buffered = r.buffered
       /\ q.from = r.from
    BY <1>0, <1>6 DEF Typed, Whole
<1>13. Typed(q) /\ Quiet(q)
    BY <1>0, <1>2, <1>8, <1>9, <1>12 DEF Typed, Quiet
<1>14. /\ DOMAIN q.tasks = DOMAIN r.tasks /\ q.tasks[i].at = "mux"
       /\ \A j \in DOMAIN r.tasks : j # i => q.tasks[j] = r.tasks[j]
       /\ \A j \in DOMAIN r.tasks :
            /\ q.tasks[j].gen = r.tasks[j].gen /\ q.tasks[j].kind = r.tasks[j].kind
            /\ q.tasks[j].last = r.tasks[j].last /\ q.tasks[j].todo = r.tasks[j].todo
    BY <1>4, <1>7, <1>8, <1>12
<1>15. \A j : (Load(q, j) <=> Load(r, j)) /\ (Current(q, j) <=> Current(r, j))
    BY <1>12, <1>14 DEF Load, Current
<1>16. r.clear.at = "no"
    BY <1>0, <1>1 DEF Working, Preparing
<1>17. Working(q, seeking)
    <2>1. OneAtWork(q)
        <3>1. Foremost(q, i)
            BY <1>1, <1>14 DEF Foremost
        <3>2. \A j \in DOMAIN q.tasks : j # i /\ q.tasks[j].at # "queue" => Foremost(q, j)
            BY <1>0, <1>14 DEF Working, OneAtWork, Foremost
        <3>. QED
            BY <3>1, <3>2 DEF OneAtWork
    <2>2. Leftovers(q)
        <3>1. q.tasks[i].gen = q.gen /\ q.tasks[i].gen <= q.gen /\ q.tasks[i].kind = "load"
            BY <1>1, <1>3, <1>7, <1>12, <1>14
        <3>. QED
            BY <1>0, <1>12, <1>14, <3>1 DEF Working, Leftovers
    <2>3. Owned(q)
        <3>1. \A j \in DOMAIN r.tasks : Owns(r, j) /\ r.op.by \in {"load", "room", "evict"}
                                        => j # i /\ Owns(q, j)
            BY <1>7, <1>12, <1>14 DEF Owns, Place
        <3>. HIDE DEF Owns
        <3>. QED
            BY <1>0, <1>12, <1>14, <3>1 DEF Working, Owned
    <2>4. Preparing(q, seeking)
        <3>1. \A k \in DOMAIN r.mail :
                r.mail[k].gen <= r.gen /\ ~ (r.mail[k].type = "SEEK" /\ r.mail[k].gen = r.gen)
            BY <1>0, <1>16 DEF Working, Preparing
        <3>2. \A k \in DOMAIN z :
                z[k].gen <= r.gen /\ ~ (z[k].type = "SEEK" /\ z[k].gen = r.gen)
            BY <1>3, <1>5, <1>10, <3>1
        <3>. QED
            BY <1>12, <1>16, <3>2 DEF Preparing
    <2>. QED
        BY <2>1, <2>2, <2>3, <2>4 DEF Working
<1>18. Evicting(q) /\ (NoneWaits(r) => NoneWaits(q))
    BY <1>0, <1>12, <1>14, <1>15 DEF Evicting, NoneWaits
<1>19. InTurn(r) => InTurn(q)
    BY <1>12, <1>14, <1>15 DEF InTurn
<1>20. Coming(r) => Coming(q)
    BY <1>12, <1>14, <1>15 DEF Coming, EvictsAhead
<1>21. ASSUME Feeding(r) PROVE Feeding(q)
    <2>1. Load(r, i)
        BY <1>1, <1>7 DEF Load
    <2>2. \A j \in DOMAIN r.tasks : j < i => ~ Load(r, j)
        BY <1>1 DEF Foremost, Load, Current
    <2>3. \A j \in DOMAIN r.tasks : Load(r, j) => r.tasks[j].at = "queue"
        <3>. SUFFICES ASSUME NEW j \in DOMAIN r.tasks, Load(r, j), r.tasks[j].at # "queue"
                      PROVE  FALSE
            OBVIOUS
        <3>1. i = j
            BY <1>0, <1>1, <1>7, OneOnly DEF Working, Load, Current
        <3>. QED
            BY <1>7, <3>1
    <2>4. r.mail = <<>> /\ r.fed + 1 = t.todo
        <3>1. /\ r.mail # <<>> =>
                    \E j \in DOMAIN r.tasks : Load(r, j) /\ r.tasks[j].at = "mux"
              /\ r.tasks[i].at = "queue" /\ (\A j \in DOMAIN r.tasks : j < i => ~ Load(r, j)) =>
                    r.fed + 1 = r.tasks[i].todo
            BY <1>1, <1>2, <1>16, <1>21, <2>1 DEF Feeding
        <3>2. r.mail = <<>>
            BY <2>3, <3>1
        <3>. QED
            BY <1>7, <2>2, <3>1, <3>2
    <2>5. q.mail = <<[type |-> "CHUNK", to |-> q.tasks[i].todo, gen |-> q.gen]>>
        <3>1. q.mail = <<m>> /\ q.tasks[i].todo = t.todo
            BY <1>1, <1>7, <1>11, <1>12, <1>14, <2>4
        <3>. QED
            BY <1>12, <3>1 DEF m
    <2>7. \A j \in DOMAIN q.tasks : Load(q, j) /\ j # i =>
             q.tasks[j].at = "queue" /\ i < j
        <3>1. \A j \in DOMAIN r.tasks : j \in Int /\ i \in Int
            BY <1>0, <1>1, TaskFacts
        <3>. QED
            BY <1>14, <1>15, <2>2, <2>3, <3>1
    <2>8. q.fed + 1 = q.tasks[i].todo
        BY <1>1, <1>7, <1>12, <1>14, <2>4
    <2>. QED
        BY <1>1, <1>14, <1>15, <2>1, <2>5, <2>7, <2>8 DEF Feeding
<1>. QED
    BY <1>2, <1>12, <1>13, <1>17, <1>18, <1>19, <1>20, <1>21 DEF Fine, Sane

\* A sequence without its first element.
LEMMA TailFacts ==
    ASSUME NEW S, NEW q \in Seq(S), q # <<>>
    PROVE  /\ Tail(q) \in Seq(S) /\ Head(q) = q[1] /\ 1 \in DOMAIN q /\ Head(q) \in S
           /\ Len(q) = 1 => Tail(q) = <<>>
           /\ \A k \in DOMAIN Tail(q) :
                 /\ k + 1 \in DOMAIN q /\ Tail(q)[k] = q[k + 1]
                 /\ k + 1 = Len(q) => k = Len(Tail(q))
<1>1. /\ Len(q) \in Nat /\ Len(q) > 0 /\ DOMAIN q = 1..Len(q)
      /\ Tail(q) \in Seq(S) /\ Len(Tail(q)) = Len(q) - 1 /\ Head(q) = q[1]
      /\ DOMAIN Tail(q) = 1..(Len(q) - 1)
      /\ \A k \in 1..(Len(q) - 1) : Tail(q)[k] = q[k + 1]
    OBVIOUS
<1>2. 1 \in DOMAIN q /\ q[1] \in S
    BY <1>1
<1>3. Len(q) = 1 => Tail(q) = <<>>
    BY <1>1
<1>4. ASSUME NEW k \in DOMAIN Tail(q)
      PROVE  /\ k + 1 \in DOMAIN q /\ Tail(q)[k] = q[k + 1]
             /\ k + 1 = Len(q) => k = Len(Tail(q))
    BY <1>1
<1>. QED
    BY <1>1, <1>2, <1>3, <1>4

\* The transmuxer has read a message.
Read(r, n) == [r EXCEPT !.mail = Tail(@), !.fed = n]

\* Messages of older generations are read and have no effect.
LEMMA ReadFine ==
    ASSUME NEW r, NEW u, NEW seeking, Fine(r, u, seeking), r.mail # <<>>,
           NEW n \in Int, NEW a, a = Read(r, n)
    PROVE  /\ Typed(a) /\ Quiet(a) /\ Working(a, seeking) /\ Evicting(a)
           /\ NoneWaits(r) => NoneWaits(a)
           /\ InTurn(r) => InTurn(a)
           /\ Coming(r) => Coming(a)
           /\ r.at = "ready" /\ a.at = "ready"
           /\ a.tasks = r.tasks /\ a.op = r.op /\ a.clear = r.clear /\ a.gen = r.gen
           /\ a.mail = Tail(r.mail) /\ a.next = r.next /\ a.fed = n
           /\ a.playhead = r.playhead /\ a.timer = r.timer /\ a.buffered = r.buffered
<1>0. Typed(r) /\ Quiet(r) /\ Working(r, seeking) /\ Evicting(r)
    BY DEF Fine, Sane
<1>1. r.at = "ready"
    BY <1>0, ReadyFacts
<1>2. /\ Whole(a) /\ a.tasks = r.tasks /\ a.op = r.op /\ a.at = r.at /\ a.clear = r.clear
      /\ a.gen = r.gen /\ a.mail = Tail(r.mail) /\ a.next = r.next /\ a.fed = n
      /\ a.playhead = r.playhead /\ a.timer = r.timer /\ a.buffered = r.buffered
      /\ a.from = r.from
    BY <1>0 DEF Typed, Whole, Read
<1>3. /\ Tail(r.mail) \in Seq(Message)
      /\ \A k \in DOMAIN Tail(r.mail) :
            /\ k + 1 \in DOMAIN r.mail /\ Tail(r.mail)[k] = r.mail[k + 1]
            /\ k + 1 = Len(r.mail) => k = Len(Tail(r.mail))
    <2>1. r.mail \in Seq(Message)
        BY <1>0 DEF Typed
    <2>. HIDE DEF Message
    <2>. QED
        BY <2>1, TailFacts
<1>4. Typed(a) /\ Quiet(a)
    BY <1>0, <1>1, <1>2, <1>3 DEF Typed, Quiet
<1>5. Working(a, seeking)
    <2>1. OneAtWork(a) /\ Leftovers(a) /\ Owned(a)
        BY <1>0, <1>2 DEF Working, OneAtWork, Foremost, Leftovers, Owned, Owns
    <2>2. Preparing(a, seeking)
        BY <1>0, <1>2, <1>3 DEF Working, Preparing, Current
    <2>. QED
        BY <2>1, <2>2 DEF Working
<1>6. Evicting(a) /\ (NoneWaits(r) => NoneWaits(a))
    BY <1>0, <1>2 DEF Evicting, NoneWaits, Current
<1>7. (InTurn(r) => InTurn(a)) /\ (Coming(r) => Coming(a))
    BY <1>2 DEF InTurn, Coming, Load, Current, EvictsAhead
<1>. QED
    BY <1>1, <1>2, <1>4, <1>5, <1>6, <1>7

\* The message that the transmuxer reads next.
LEMMA HeadFacts ==
    ASSUME NEW r, Typed(r), r.mail # <<>>
    PROVE  /\ Head(r.mail) = r.mail[1] /\ 1 \in DOMAIN r.mail
           /\ Head(r.mail).to \in Times /\ Head(r.mail).to \in Int
           /\ Len(r.mail) = 1 => Tail(r.mail) = <<>>
<1>1. r.mail \in Seq(Message)
    BY DEF Typed
<1>2. /\ Head(r.mail) = r.mail[1] /\ 1 \in DOMAIN r.mail /\ Head(r.mail) \in Message
      /\ Len(r.mail) = 1 => Tail(r.mail) = <<>>
    <2>. HIDE DEF Message
    <2>. QED
        BY <1>1, TailFacts
<1>3. Head(r.mail).to \in Times
    BY <1>2 DEF Message
<1>. QED
    BY <1>2, <1>3, Numbers DEF Times

\* A load takes the chunk that the transmuxer has read for it.
LEMMA HeardFine ==
    ASSUME NEW r, NEW u, NEW seeking, Fine(r, u, seeking), r.mail # <<>>,
           NEW c, c = Head(r.mail).to,
           NEW i \in DOMAIN r.tasks, r.tasks[i].at = "mux", r.tasks[i].todo = c,
           Load(r, i), Foremost(r, i), r.clear.at = "no", r.at = "ready",
           NEW a, a.tasks = r.tasks, Typed(a), Working(a, seeking), Evicting(a),
           a.op = r.op, a.at = r.at, a.clear = r.clear, a.gen = r.gen,
           a.mail = Tail(r.mail), a.next = r.next, a.fed = c,
           a.playhead = r.playhead, a.timer = r.timer, a.buffered = r.buffered,
           NEW p, p = [a EXCEPT !.tasks[i].at = "full"]
    PROVE  Fine(p, u, seeking)
<1>0. Typed(r) /\ Quiet(r) /\ Working(r, seeking) /\ Evicting(r) /\ Sane(r, u, seeking)
    BY DEF Fine, Sane
<1>1. i \in DOMAIN a.tasks /\ Typed(a)
    OBVIOUS
<1>2. p = Put(a, i, "full", a.ended, a.op)
    BY <1>1, PutKeeps
<1>3. "full" \in TaskSteps /\ a.op \in Update
    BY DEF TaskSteps, Typed
<1>4. /\ Typed(p) /\ p.op = a.op
      /\ DOMAIN p.tasks = DOMAIN a.tasks
      /\ \A j \in DOMAIN a.tasks : j # i => p.tasks[j] = a.tasks[j]
      /\ p.tasks[i].at = "full" /\ p.tasks[i].kind = a.tasks[i].kind
      /\ p.tasks[i].gen = a.tasks[i].gen
      /\ p.tasks[i].todo = a.tasks[i].todo /\ p.tasks[i].last = a.tasks[i].last
      /\ p.at = a.at /\ p.gen = a.gen /\ p.clear = a.clear /\ p.timer = a.timer
      /\ p.buffered = a.buffered /\ p.playhead = a.playhead /\ p.next = a.next
      /\ p.fed = a.fed /\ p.mail = a.mail
    <2>. HIDE DEF Put
    <2>. DEFINE e == a.ended
                o == a.op
    <2>1. p = Put(a, i, "full", e, o) /\ o \in Update
        BY <1>2, <1>3
    <2>. HIDE DEF e
    <2>. QED
        BY <1>1, <1>3, <2>1, PutFields
<1>5. \A j \in DOMAIN a.tasks :
          /\ p.tasks[j].gen = a.tasks[j].gen /\ p.tasks[j].kind = a.tasks[j].kind
          /\ p.tasks[j].todo = a.tasks[j].todo /\ p.tasks[j].last = a.tasks[j].last
          /\ (p.tasks[j].at = "queue") <=> (a.tasks[j].at = "queue")
          /\ (p.tasks[j].at = "evict") <=> (a.tasks[j].at = "evict")
          /\ (p.tasks[j].at = "wait") <=> (a.tasks[j].at = "wait")
    BY <1>4
<1>6. \A j : (Load(p, j) <=> Load(a, j)) /\ (Current(p, j) <=> Current(a, j))
    BY <1>4, <1>5 DEF Load, Current
<1>7. Working(p, seeking)
    <2>1. OneAtWork(p)
        BY <1>4, <1>5 DEF Working, OneAtWork, Foremost
    <2>2. Leftovers(p)
        <3>1. \A j \in DOMAIN a.tasks : p.tasks[j].at # a.tasks[j].at => p.tasks[j].gen = a.gen
            BY <1>4 DEF Load, Current
        <3>2. \A j \in DOMAIN a.tasks : p.tasks[j].at # a.tasks[j].at => p.tasks[j].kind = "load"
            BY <1>4 DEF Load, Current
        <3>. QED
            BY <1>4, <1>5, <3>1, <3>2 DEF Working, Leftovers, GoesOn
    <2>3. Owned(p)
        <3>1. \A j \in DOMAIN a.tasks : Owns(a, j) /\ a.op.by \in {"load", "room", "evict"}
                                        => Owns(p, j)
            BY <1>4 DEF Owns, Place
        <3>. HIDE DEF Owns
        <3>. QED
            BY <1>4, <3>1 DEF Working, Owned
    <2>4. Preparing(p, seeking)
        <3>1. \A j : Current(p, j) <=> Current(a, j)
            BY <1>6
        <3>2. p.clear = a.clear /\ p.mail = a.mail /\ p.gen = a.gen
              /\ DOMAIN p.tasks = DOMAIN a.tasks
            BY <1>4
        <3>3. Preparing(a, seeking)
            BY DEF Working
        <3>. HIDE DEF Current
        <3>. QED
            BY <3>1, <3>2, <3>3 DEF Preparing
    <2>. QED
        BY <2>1, <2>2, <2>3, <2>4 DEF Working
<1>8. Evicting(p) /\ (NoneWaits(r) => NoneWaits(p))
    BY <1>4, <1>5, <1>6 DEF Evicting, NoneWaits, Current
<1>9. (InTurn(r) => InTurn(p)) /\ (Coming(r) => Coming(p))
    <2>1. \A j : Load(p, j) <=> Load(r, j)
        BY <1>6 DEF Load, Current
    <2>. HIDE DEF Load
    <2>2. InTurn(r) => InTurn(p)
        BY <1>4, <1>5, <2>1 DEF InTurn
    <2>3. Coming(r) => Coming(p)
        BY <1>4, <1>5, <2>1 DEF Coming, EvictsAhead
    <2>. QED
        BY <2>2, <2>3
<1>10. ASSUME Feeding(r) PROVE Feeding(p)
    <2>1. r.mail = <<[type |-> "CHUNK", to |-> r.tasks[i].todo, gen |-> r.gen]>>
        BY <1>10 DEF Feeding
    <2>2. p.mail = <<>>
        <3>1. Len(r.mail) = 1
            BY <2>1
        <3>. QED
            BY <1>0, <1>4, <3>1, HeadFacts
    <2>3. p.fed = p.tasks[i].todo /\ p.tasks[i].at = "full" /\ i \in DOMAIN p.tasks
        BY <1>4
    <2>4. Load(p, i)
        BY <1>4, <1>5 DEF Load, Current
    <2>5. ASSUME NEW j \in DOMAIN p.tasks, Load(p, j), j # i
          PROVE  p.tasks[j].at = "queue" /\ i < j
        <3>1. Load(r, j) /\ j \in DOMAIN r.tasks /\ r.tasks[j].gen = r.tasks[i].gen
            BY <1>4, <1>5, <2>5 DEF Load, Current
        <3>2. r.tasks[j].at = "queue"
            BY <1>0, <2>5, <3>1, OneOnly DEF Working
        <3>3. ~ (j < i)
            BY <3>1 DEF Foremost
        <3>4. j \in Nat /\ i \in Nat
            BY <1>0, <3>1, TaskFacts
        <3>. QED
            BY <1>4, <2>5, <3>1, <3>2, <3>3, <3>4
    <2>. QED
        BY <2>2, <2>3, <2>4, <2>5 DEF Feeding
<1>. QED
    BY <1>0, <1>4, <1>7, <1>8, <1>9, <1>10 DEF Fine, Sane, Quiet

\* A load that has waited for the chunk takes it, if there is one.
Heard(q, r, c) ==
    \/ Listening(r, c) = {} /\ q = Read(r, c)
    \/ \E i \in Listening(r, c) : q = Appends(Read(r, c), i)

\* The transmuxer answers a load.
LEMMA TransmuxedFine ==
    ASSUME NEW r, NEW u, NEW seeking, Fine(r, u, seeking), r.mail # <<>>,
           Head(r.mail).type = "CHUNK", NEW q, Heard(q, r, Head(r.mail).to)
    PROVE  Fine(q, u, seeking) /\ q.at = "ready" /\ r.at = "ready"
<1>1. PICK c, a : /\ c = Head(r.mail).to /\ a = Read(r, c)
                  /\ \/ Listening(r, c) = {} /\ q = a
                     \/ \E i \in Listening(r, c) : q = Appends(a, i)
    BY DEF Heard
<1>0. Typed(r) /\ Quiet(r) /\ Working(r, seeking) /\ Evicting(r) /\ Sane(r, u, seeking)
    BY DEF Fine, Sane
<1>2. c \in Int /\ Head(r.mail) = r.mail[1] /\ 1 \in DOMAIN r.mail
    BY <1>0, <1>1, HeadFacts
<1>3. /\ Typed(a) /\ Quiet(a) /\ Working(a, seeking) /\ Evicting(a)
      /\ NoneWaits(r) => NoneWaits(a)
      /\ InTurn(r) => InTurn(a)
      /\ Coming(r) => Coming(a)
    BY <1>1, <1>2, ReadFine
<1>4. /\ r.at = "ready" /\ a.at = r.at
      /\ a.tasks = r.tasks /\ a.op = r.op /\ a.clear = r.clear /\ a.gen = r.gen
      /\ a.mail = Tail(r.mail) /\ a.next = r.next /\ a.fed = c
      /\ a.playhead = r.playhead /\ a.timer = r.timer /\ a.buffered = r.buffered
    BY <1>1, <1>2, ReadFine
<1>5. CASE Listening(r, c) = {}
    <2>1. Feeding(r) => a.clear.at # "no"
        <3>. SUFFICES ASSUME Feeding(r), r.clear.at = "no" PROVE FALSE
            BY <1>4
        <3>1. PICK i \in DOMAIN r.tasks : Load(r, i) /\ r.tasks[i].at = "mux"
            BY <1>4 DEF Feeding
        <3>2. r.mail = <<[type |-> "CHUNK", to |-> r.tasks[i].todo, gen |-> r.gen]>>
            BY <1>4, <3>1 DEF Feeding
        <3>3. r.tasks[i].todo = c
            BY <1>1, <1>2, <3>2
        <3>. QED
            BY <1>5, <3>1, <3>3 DEF Listening
    <2>2. Feeding(r) => Feeding(a)
        BY <2>1 DEF Feeding
    <2>3. q = a
        BY <1>1, <1>5
    <2>. QED
        BY <1>0, <1>3, <1>4, <2>2, <2>3 DEF Fine, Sane
<1>6. CASE Listening(r, c) # {}
    <2>1. PICK i \in Listening(r, c) : q = Appends(a, i)
        BY <1>1, <1>6
    <2>3. i \in DOMAIN r.tasks /\ r.tasks[i].at = "mux" /\ r.tasks[i].todo = c
        BY <2>1 DEF Listening
    <2>4. r.tasks[i].gen = r.gen /\ Foremost(r, i) /\ Current(r, i)
        BY <1>0, <2>3 DEF Working, Leftovers, OneAtWork, GoesOn, Current
    <2>5. Load(r, i)
        <3>1. r.tasks[i] \in Task /\ r.tasks[i].kind # "evict"
            BY <1>0, <2>3, TaskFacts DEF Working, Leftovers
        <3>2. r.tasks[i].kind = "load"
            BY <3>1 DEF Task
        <3>. QED
            BY <2>4, <3>2 DEF Load
    <2>6. r.clear.at = "no"
        BY <1>0, <2>4 DEF Working, Preparing, Current
    <2>7. a.op = Idle \/ "late" \in u
        <3>. SUFFICES ASSUME NoneWaits(r), r.op # Idle PROVE FALSE
            BY <1>0, <1>4 DEF Sane
        <3>1. r.op.by \in {"load", "room", "evict"}
            BY <1>0, <2>6 DEF Working, Owned, Typed, Update
        <3>2. PICK j \in DOMAIN r.tasks : Owns(r, j)
            BY <1>0, <3>1 DEF Working, Owned
        <3>3. r.tasks[j].at \notin {"queue", "mux"} /\ r.tasks[j].gen = r.gen
            BY <3>1, <3>2 DEF Owns, Place, NoneWaits, Current
        <3>4. i = j
            BY <1>0, <2>3, <2>4, <3>3, OneOnly DEF Working
        <3>. QED
            BY <2>3, <3>3, <3>4
    <2>8. PICK p : p = [a EXCEPT !.tasks[i].at = "full"]
        OBVIOUS
    <2>9. i \in DOMAIN a.tasks /\ a.at = "ready" /\ Typed(a)
        BY <1>3, <1>4, <2>3
    <2>10. Fine(p, u, seeking)
        BY <1>3, <1>4, <2>3, <2>4, <2>5, <2>6, <2>8, <1>1, HeardFine
    <2>11. Fine([a EXCEPT !.tasks[i].at = "full"], u, seeking)
        BY <2>8, <2>10
    <2>12. Fine(q, u, seeking) /\ Beside(q, a, i)
        BY <2>1, <2>7, <2>9, <2>11, AppendsFine
    <2>. QED
        BY <1>4, <2>12 DEF Beside
<1>. QED
    BY <1>5, <1>6

\* A seek of the transmuxer that is no longer wanted changes nothing else.
LEMMA SeekDroppedFine ==
    ASSUME NEW r, NEW u, NEW seeking, Fine(r, u, seeking), r.mail # <<>>,
           Head(r.mail).type = "SEEK", NEW n \in Int, NEW a, a = Read(r, n)
    PROVE  /\ "failed" \notin u => r.clear.at # "no"
           /\ Fine(a, u, seeking) /\ a.at = "ready" /\ r.at = "ready"
<1>0. Typed(r) /\ Sane(r, u, seeking)
    BY DEF Fine, Sane
<1>1. /\ Typed(a) /\ Quiet(a) /\ Working(a, seeking) /\ Evicting(a)
      /\ NoneWaits(r) => NoneWaits(a)
      /\ InTurn(r) => InTurn(a)
      /\ Coming(r) => Coming(a)
    BY ReadFine
<1>2. r.at = "ready" /\ a.at = r.at /\ a.clear = r.clear
    BY ReadFine
<1>3. ASSUME Feeding(r) PROVE r.clear.at # "no"
    <2>. SUFFICES ASSUME r.clear.at = "no" PROVE FALSE
        OBVIOUS
    <2>1. PICK i \in DOMAIN r.tasks : Load(r, i) /\ r.tasks[i].at = "mux"
        BY <1>2, <1>3 DEF Feeding
    <2>2. r.mail = <<[type |-> "CHUNK", to |-> r.tasks[i].todo, gen |-> r.gen]>>
        BY <1>2, <1>3, <2>1 DEF Feeding
    <2>. QED
        BY <2>2
<1>4. Feeding(r) => Feeding(a)
    BY <1>2, <1>3 DEF Feeding
<1>5. "failed" \notin u => r.clear.at # "no"
    BY <1>0, <1>3 DEF Sane
<1>. QED
    BY <1>0, <1>1, <1>2, <1>4, <1>5 DEF Fine, Sane

\* The transmuxer is ready where the seek has asked for.
Sought(a, n) == [a EXCEPT !.clear = NoClear, !.next = n]

\* What Sought changes.
LEMMA SoughtFields ==
    ASSUME NEW a, Typed(a), NEW n \in Times, NEW q, q = Sought(a, n)
    PROVE  /\ Typed(q) /\ q.clear = NoClear /\ q.clear.at = "no" /\ q.next = n
           /\ q.at = a.at /\ q.tasks = a.tasks /\ q.op = a.op /\ q.gen = a.gen
           /\ q.mail = a.mail /\ q.fed = a.fed /\ q.playhead = a.playhead
           /\ q.timer = a.timer /\ q.buffered = a.buffered
<1>1. /\ Whole(q) /\ q.clear = NoClear /\ q.next = n /\ q.from = a.from
      /\ q.at = a.at /\ q.tasks = a.tasks /\ q.op = a.op /\ q.gen = a.gen
      /\ q.mail = a.mail /\ q.fed = a.fed /\ q.playhead = a.playhead
      /\ q.timer = a.timer /\ q.buffered = a.buffered
    BY DEF Typed, Whole, Sought
<1>2. NoClear \in Clearing /\ NoClear.at = "no"
    BY Numbers DEF NoClear, Clearing, Times
<1>3. Typed(q)
    BY <1>1, <1>2 DEF Typed
<1>. QED
    BY <1>1, <1>2, <1>3

\* Then the loads that follow begin there.
LEMMA SoughtFine ==
    ASSUME NEW r, NEW u, NEW seeking, Fine(r, u, seeking), NEW to, to \in Times, to \in Int,
           r.clear.at = "sync", to = r.clear.to, r.at = "ready",
           \A i \in DOMAIN r.tasks : ~ Current(r, i),
           NEW b, Typed(b), b.clear = NoClear, b.clear.at = "no", b.next = to,
           b.at = "ready", b.tasks = r.tasks, b.op = r.op, b.gen = r.gen,
           b.mail = <<>>, b.fed = to - 1, b.playhead = r.playhead,
           b.timer = r.timer, b.buffered = r.buffered
    PROVE  Fine(b, u, FALSE)
<1>0. Typed(r) /\ Quiet(r) /\ Working(r, seeking) /\ Evicting(r) /\ Sane(r, u, seeking)
    BY DEF Fine, Sane
<1>8. /\ \A i \in DOMAIN b.tasks : ~ Current(b, i)
      /\ \A i \in DOMAIN b.tasks : ~ Load(b, i)
      /\ \A i \in DOMAIN b.tasks : b.tasks[i].kind # "evict"
    <2>1. \A i \in DOMAIN r.tasks : r.tasks[i].gen # r.gen
        BY DEF Current
    <2>2. \A i \in DOMAIN r.tasks : r.tasks[i].kind # "evict"
        BY <1>0, <2>1 DEF Working, Leftovers
    <2>. QED
        BY <2>1, <2>2 DEF Current, Load
<1>9. Working(b, FALSE)
    <2>1. OneAtWork(b)
        BY <1>0 DEF Working, OneAtWork, Foremost
    <2>2. Leftovers(b)
        BY <1>0, <1>8 DEF Working, Leftovers
    <2>3. Owned(b)
        <3>1. r.op.by # "clear"
            BY <1>0 DEF Working, Owned
        <3>. QED
            BY <1>0, <3>1 DEF Working, Owned, Owns
    <2>4. Preparing(b, FALSE)
        BY DEF Preparing
    <2>. QED
        BY <2>1, <2>2, <2>3, <2>4 DEF Working
<1>10. Evicting(b) /\ (NoneWaits(r) => NoneWaits(b))
    BY <1>0 DEF Evicting, NoneWaits, Current
<1>11. InTurn(b)
    BY <1>8 DEF InTurn
<1>12. Feeding(b)
    <2>1. b.fed + 1 = b.next
        OBVIOUS
    <2>. QED
        BY <1>8, <2>1 DEF Feeding
<1>13. Coming(r) => Coming(b)
    <2>. SUFFICES ASSUME Coming(r), ~ b.timer PROVE Coming(b)
        BY DEF Coming
    <2>1. b.playhead >= to
        BY DEF Coming
    <2>2. b.playhead \in Int
        BY TaskFacts
    <2>3. b.playhead..(b.next - 1) = {}
        BY <2>1, <2>2
    <2>4. ~ EvictsAhead(b)
        BY <1>8 DEF EvictsAhead
    <2>. QED
        BY <2>3, <2>4 DEF Coming
<1>. QED
    BY <1>0, <1>9, <1>10, <1>11, <1>12, <1>13 DEF Fine, Sane, Quiet

\* The transmuxer answers a seek.
LEMMA SeekDoneFine ==
    ASSUME NEW r, NEW u, NEW seeking, Fine(r, u, seeking), r.mail # <<>>,
           Head(r.mail).type = "SEEK", Head(r.mail).gen = r.gen,
           NEW to, to = Head(r.mail).to, NEW a, a = Read(r, to - 1),
           NEW b, b = Sought(a, Min({to, Chunks - 1})),
           NEW q, q = ScheduleNextChunk(b)
    PROVE  Fine(q, u, FALSE) /\ q.at = "ready" /\ r.at = "ready"
<1>0. Typed(r) /\ Quiet(r) /\ Working(r, seeking) /\ Evicting(r) /\ Sane(r, u, seeking)
    BY DEF Fine, Sane
<1>1. /\ to \in Int /\ to \in Times /\ Head(r.mail) = r.mail[1] /\ 1 \in DOMAIN r.mail
      /\ Len(r.mail) = 1 => Tail(r.mail) = <<>>
    BY <1>0, HeadFacts
<1>2. /\ r.clear.at = "sync" /\ to = r.clear.to /\ 1 = Len(r.mail) /\ to < Chunks
      /\ \A i \in DOMAIN r.tasks : ~ Current(r, i)
    BY <1>0, <1>1 DEF Working, Preparing
<1>3. to - 1 \in Int /\ Min({to, Chunks - 1}) = to
    <2>1. to \in Int /\ to <= Chunks - 1 /\ Chunks - 1 \in Int
        BY <1>1, <1>2, Numbers
    <2>. QED
        BY <2>1, LeastOfTwo
<1>4. /\ Typed(a) /\ Quiet(a) /\ Working(a, seeking) /\ Evicting(a)
      /\ NoneWaits(r) => NoneWaits(a)
      /\ InTurn(r) => InTurn(a)
      /\ Coming(r) => Coming(a)
    BY <1>3, ReadFine
<1>5. /\ r.at = "ready" /\ a.at = r.at
      /\ a.tasks = r.tasks /\ a.op = r.op /\ a.clear = r.clear /\ a.gen = r.gen
      /\ a.mail = Tail(r.mail) /\ a.next = r.next /\ a.fed = to - 1
      /\ a.playhead = r.playhead /\ a.timer = r.timer /\ a.buffered = r.buffered
    BY <1>3, ReadFine
<1>6. b = Sought(a, to)
    BY <1>3
<1>7. /\ Typed(b) /\ b.clear = NoClear /\ b.clear.at = "no" /\ b.next = to
      /\ b.at = "ready" /\ b.tasks = r.tasks /\ b.op = r.op /\ b.gen = r.gen
      /\ b.mail = <<>> /\ b.fed = to - 1 /\ b.playhead = r.playhead
      /\ b.timer = r.timer /\ b.buffered = r.buffered
    <2>1. Typed(a) /\ to \in Times /\ b = Sought(a, to) /\ Tail(r.mail) = <<>>
        BY <1>1, <1>2, <1>4, <1>6
    <2>. HIDE DEF Sought
    <2>2. /\ Typed(b) /\ b.clear = NoClear /\ b.clear.at = "no" /\ b.next = to
          /\ b.at = a.at /\ b.tasks = a.tasks /\ b.op = a.op /\ b.gen = a.gen
          /\ b.mail = a.mail /\ b.fed = a.fed /\ b.playhead = a.playhead
          /\ b.timer = a.timer /\ b.buffered = a.buffered
        BY <2>1, SoughtFields
    <2>. QED
        BY <1>5, <2>1, <2>2
<1>14. Fine(b, u, FALSE)
    BY <1>1, <1>2, <1>5, <1>7, SoughtFine
<1>15. Fine(q, u, FALSE) /\ Alike(q, b)
    BY <1>7, <1>14, SchedulesFine
<1>. QED
    BY <1>5, <1>7, <1>15 DEF Alike

\* Who waited for the buffer appends, or meets another update of it.
Yields(q, a, lost) ==
    \E first : /\ first \in Waiting(a) \/ first = 0
              /\ lost = Waiting(a) \ {first}
              /\ q = Drops(IF first = 0 THEN a ELSE Appends(a, first), lost)

\* updateend, and who waited for it.
LEMMA UpdateEndsFine ==
    ASSUME NEW r, NEW u, NEW seeking, Fine(r, u, seeking), r.op # Idle,
           NEW a, a = Released(Updated(r, seeking)),
           NEW q, NEW lost, Yields(q, a, lost),
           NEW v, u \subseteq v,
           (\E i \in lost : a.tasks[i].gen = a.gen) => "failed" \in v
    PROVE  /\ Fine(q, v, seeking) /\ q.at = "ready" /\ r.at = "ready"
           /\ "late" \notin u => lost = {}
<1>0. PICK first, b : /\ first \in Waiting(a) \/ first = 0
                      /\ lost = Waiting(a) \ {first}
                      /\ b = (IF first = 0 THEN a ELSE Appends(a, first))
                      /\ q = Drops(b, lost)
    BY DEF Yields
<1>1. r.at = "ready"
    BY ReadyFacts DEF Fine, Sane
<1>2. PICK c : c = Updated(r, seeking)
    OBVIOUS
<1>3. Fine(c, u, seeking) /\ c.at = r.at /\ c.gen = r.gen
      /\ c.op.by # "evict" /\ (c.op.by = "clear" => c.clear.at # "idle")
    BY <1>1, <1>2, UpdatedFine
<1>4. Fine(a, u, seeking) /\ a.at = "ready" /\ a.gen = r.gen
    BY <1>1, <1>2, <1>3, ReleasedFine
<1>5. Typed(a) /\ Working(a, seeking) /\ Evicting(a)
    BY <1>4 DEF Fine, Sane
<1>6. "late" \notin u => Waiting(a) = {}
    BY <1>4 DEF Fine, Sane, NoneWaits, Waiting
<1>7. ASSUME NEW i \in Waiting(a)
      PROVE  /\ i \in DOMAIN a.tasks /\ a.tasks[i].at = "wait" /\ i \in Nat /\ i # 0
             /\ (a.op.by \in {"load", "room", "evict"} => ~ Owns(a, i))
             /\ "late" \in u
    <2>1. i \in DOMAIN a.tasks /\ a.tasks[i].at = "wait"
        BY DEF Waiting
    <2>2. i \in Nat /\ i # 0
        BY <1>5, <2>1, TaskFacts
    <2>3. a.op.by \in {"load", "room", "evict"} => ~ Owns(a, i)
        BY <2>1 DEF Owns, Place
    <2>. QED
        BY <1>6, <2>1, <2>2, <2>3
<1>8. /\ Fine(b, u, seeking) /\ b.at = "ready" /\ b.gen = a.gen /\ b.clear = a.clear
      /\ DOMAIN b.tasks = DOMAIN a.tasks
      /\ \A i \in lost : i \in DOMAIN a.tasks /\ b.tasks[i] = a.tasks[i]
    <2>1. CASE first = 0
        BY <1>0, <1>4, <1>7, <2>1
    <2>2. CASE first # 0
        <3>1. first \in Waiting(a)
            BY <1>0, <2>2
        <3>2. first \in DOMAIN a.tasks /\ Fine([a EXCEPT !.tasks[first].at = "full"], u, seeking)
            BY <1>4, <1>7, <3>1, AtWorkFull
        <3>3. b = Appends(a, first) /\ "late" \in u
            BY <1>0, <1>7, <2>2, <3>1
        <3>4. Fine(b, u, seeking) /\ Beside(b, a, first)
            BY <1>4, <1>5, <3>2, <3>3, AppendsFine
        <3>. QED
            BY <1>0, <1>4, <1>7, <3>4 DEF Beside
    <2>. QED
        BY <2>1, <2>2
<1>9. Sane(b, v, seeking) /\ Fine(b, v, seeking)
    <2>1. Sane(b, u, seeking)
        BY <1>8 DEF Fine
    <2>. QED
        BY <1>8, <2>1, SaneLater
<1>10. lost \subseteq DOMAIN b.tasks
    BY <1>8
<1>11. \A i \in lost : b.op.by \in {"load", "room", "evict"} => ~ Owns(b, i)
    <2>. SUFFICES ASSUME NEW i \in lost, b.op.by \in {"load", "room", "evict"}
         PROVE  ~ Owns(b, i)
        OBVIOUS
    <2>1. b.tasks[i].at = "wait"
        BY <1>0, <1>7, <1>8
    <2>. QED
        BY <2>1 DEF Owns, Place
<1>12. \A i \in DOMAIN b.tasks \ lost :
           b.tasks[i].at = "evict" => b.op.by = "evict" /\ b.op.gen = b.tasks[i].gen
    BY <1>9 DEF Fine, Evicting
<1>13. "failed" \notin v => \A i \in lost : ~ Load(b, i)
    BY <1>8 DEF Load, Current
<1>14. Fine(q, v, seeking) /\ Alike(q, b)
    BY <1>0, <1>8, <1>9, <1>10, <1>11, <1>12, <1>13, DropsFine
<1>. QED
    BY <1>0, <1>1, <1>6, <1>8, <1>14 DEF Alike

\* An eviction whose turn it is has begun.
LEMMA EvictionBegins ==
    ASSUME NEW r, NEW u, NEW seeking, Fine(r, u, seeking), NEW i, Turn(r, i),
           r.tasks[i].kind = "evict", r.tasks[i].at = "queue", r.op = Idle,
           NEW o \in Update, o.by = "evict", o.gen = r.gen,
           NEW q, q = Put(r, i, "evict", r.ended, o)
    PROVE  Fine(q, u, seeking) /\ q.at = "ready"
<1>0. Typed(r) /\ Quiet(r) /\ Working(r, seeking) /\ Evicting(r) /\ Sane(r, u, seeking)
    BY DEF Fine, Sane
<1>1. i \in DOMAIN r.tasks /\ r.tasks[i].gen = r.gen /\ Foremost(r, i) /\ Current(r, i)
    BY <1>0, TurnFacts
<1>2. r.at = "ready"
    BY <1>0, <1>1, ReadyFacts
<1>3. "evict" \in TaskSteps
    BY DEF TaskSteps
<1>4. /\ Typed(q) /\ q.op = o
      /\ DOMAIN q.tasks = DOMAIN r.tasks
      /\ \A j \in DOMAIN r.tasks : j # i => q.tasks[j] = r.tasks[j]
      /\ q.tasks[i].at = "evict" /\ q.tasks[i].kind = r.tasks[i].kind
      /\ q.tasks[i].gen = r.tasks[i].gen
      /\ q.tasks[i].todo = r.tasks[i].todo /\ q.tasks[i].last = r.tasks[i].last
      /\ q.at = r.at /\ q.gen = r.gen /\ q.clear = r.clear /\ q.timer = r.timer
      /\ q.buffered = r.buffered /\ q.playhead = r.playhead /\ q.next = r.next
      /\ q.fed = r.fed /\ q.mail = r.mail
    <2>. DEFINE e == r.ended
    <2>1. q = Put(r, i, "evict", e, o)
        OBVIOUS
    <2>. HIDE DEF e
    <2>. QED
        BY <1>0, <1>1, <1>3, <2>1, PutFields
<1>5. \A j \in DOMAIN r.tasks :
          /\ q.tasks[j].gen = r.tasks[j].gen /\ q.tasks[j].kind = r.tasks[j].kind
          /\ q.tasks[j].last = r.tasks[j].last /\ q.tasks[j].todo = r.tasks[j].todo
    BY <1>4
<1>6. \A j : (Current(q, j) <=> Current(r, j)) /\ (Load(q, j) <=> Load(r, j))
    BY <1>4, <1>5 DEF Load, Current
<1>7. r.clear.at = "no"
    BY <1>0, <1>1 DEF Working, Preparing
<1>8. \A j \in DOMAIN r.tasks : r.tasks[j].at # "evict"
    BY <1>0 DEF Evicting, Idle
<1>9. Working(q, seeking)
    <2>1. OneAtWork(q)
        BY <1>0, <1>1, <1>4, <1>5 DEF Working, OneAtWork, Foremost
    <2>2. Leftovers(q)
        <3>1. \A j \in DOMAIN r.tasks : j = i => q.tasks[j].gen = q.gen /\ q.tasks[j].kind = "evict"
            BY <1>1, <1>4
        <3>2. \A j \in DOMAIN r.tasks : q.tasks[j].gen <= q.gen
            BY <1>0, <1>4, <1>5 DEF Working, Leftovers
        <3>. QED
            BY <1>0, <1>4, <1>5, <3>1, <3>2 DEF Working, Leftovers, GoesOn
    <2>3. Owned(q)
        <3>1. Owns(q, i) /\ i \in DOMAIN q.tasks
            BY <1>1, <1>4 DEF Owns, Place
        <3>2. q.op.gen <= q.gen /\ q.op # Idle
            BY <1>0, <1>4, TaskFacts DEF Idle
        <3>. QED
            BY <1>4, <3>1, <3>2 DEF Owned
    <2>4. Preparing(q, seeking)
        BY <1>0, <1>4, <1>7 DEF Working, Preparing
    <2>. QED
        BY <2>1, <2>2, <2>3, <2>4 DEF Working
<1>10. Evicting(q)
    BY <1>1, <1>4, <1>8 DEF Evicting
<1>11. NoneWaits(r) => NoneWaits(q)
    BY <1>4, <1>6 DEF NoneWaits
<1>. HIDE DEF Load, Current
<1>12. InTurn(r) => InTurn(q)
    BY <1>4, <1>5, <1>6 DEF InTurn
<1>13. Feeding(r) => Feeding(q)
    <2>1. \A j \in DOMAIN r.tasks : Load(r, j) => q.tasks[j] = r.tasks[j]
        BY <1>4 DEF Load
    <2>. QED
        BY <1>4, <1>6, <2>1 DEF Feeding
<1>14. Coming(r) => Coming(q)
    BY <1>4, <1>5, <1>6 DEF Coming, EvictsAhead
<1>. QED
    BY <1>0, <1>2, <1>4, <1>9, <1>10, <1>11, <1>12, <1>13, <1>14 DEF Fine, Sane, Quiet

\* The eviction i has begun, with update o.
Begun(r, i, o) == [r EXCEPT !.tasks[i].at = "evict", !.op = o]

\* An eviction begins, is put off, or finds nothing.
LEMMA EvictStaleFine ==
    ASSUME NEW r, NEW u, NEW seeking, Fine(r, u, seeking), NEW i, Turn(r, i),
           r.tasks[i].kind = "evict", r.tasks[i].at = "queue", NEW o,
           o = [by |-> "evict", gen |-> r.gen], NEW q,
           \/ r.op = Idle /\ q = Begun(r, i, o)
           \/ q = Drops(r, {i})
    PROVE  Fine(q, u, seeking) /\ q.at = "ready" /\ r.at = "ready"
<1>0. Typed(r) /\ Quiet(r) /\ Working(r, seeking) /\ Evicting(r) /\ Sane(r, u, seeking)
    BY DEF Fine, Sane
<1>1. i \in DOMAIN r.tasks /\ r.tasks[i].gen = r.gen /\ Foremost(r, i) /\ Current(r, i)
    BY <1>0, TurnFacts
<1>2. r.at = "ready"
    BY <1>0, <1>1, ReadyFacts
<1>3. CASE r.op = Idle /\ q = Begun(r, i, o)
    <2>1. o \in Update /\ o.by = "evict" /\ o.gen = r.gen
        BY <1>0, TaskFacts, UpdateFacts
    <2>2. q = Put(r, i, "evict", r.ended, o)
        <3>. DEFINE z == [r.tasks EXCEPT ![i] = [r.tasks[i] EXCEPT !.at = "evict"]]
        <3>1. q = [r EXCEPT !.tasks = z, !.op = o]
            BY <1>3 DEF Begun
        <3>2. Put(r, i, "evict", r.ended, o) = [r EXCEPT !.tasks = z, !.ended = r.ended, !.op = o]
            BY DEF Put
        <3>. HIDE DEF z
        <3>3. [r EXCEPT !.tasks = z, !.ended = r.ended, !.op = o] = [r EXCEPT !.tasks = z, !.op = o]
            BY <1>0 DEF Typed, Whole
        <3>. QED
            BY <3>1, <3>2, <3>3
    <2>. QED
        BY <1>2, <1>3, <2>1, <2>2, EvictionBegins
<1>4. CASE q = Drops(r, {i})
    <2>2. ~ Load(r, i)
        BY DEF Load
    <2>3. \A j \in {i} : r.op.by \in {"load", "room", "evict"} => ~ Owns(r, j)
        BY DEF Owns, Place
    <2>4. {i} \subseteq DOMAIN r.tasks /\ \A j \in {i} : ~ Load(r, j)
        BY <1>1, <2>2
    <2>5. \A j \in DOMAIN r.tasks \ {i} :
              r.tasks[j].at = "evict" => r.op.by = "evict" /\ r.op.gen = r.tasks[j].gen
        BY <1>0 DEF Evicting
    <2>6. Fine(q, u, seeking) /\ Alike(q, r)
        BY <1>0, <1>2, <1>4, <2>3, <2>4, <2>5, DropsFine
    <2>. QED
        BY <1>2, <2>6 DEF Alike
<1>. QED
    BY <1>3, <1>4

\* The buffer has made room.
LEMMA RoomFoundFine ==
    ASSUME NEW r, NEW u, NEW seeking, Fine(r, u, seeking), NEW i \in DOMAIN r.tasks,
           r.tasks[i].at \in {"full", "room"}, r.op = Idle, NEW q,
           q = IF Played(r) = {} THEN Appends(r, i) ELSE MakesRoom(r, i)
    PROVE  Fine(q, u, seeking) /\ q.at = "ready" /\ r.at = "ready"
<1>0. Typed(r) /\ Quiet(r)
    BY DEF Fine, Sane
<1>1. r.at = "ready"
    BY <1>0, ReadyFacts
<1>2. Fine([r EXCEPT !.tasks[i].at = "full"], u, seeking)
    BY <1>1, AtWorkFull DEF Idle
<1>3. CASE Played(r) = {}
    <2>1. q = Appends(r, i)
        BY <1>3
    <2>2. Fine(q, u, seeking) /\ Beside(q, r, i)
        BY <1>0, <1>1, <1>2, <2>1, AppendsFine
    <2>. QED
        BY <1>1, <2>2 DEF Beside
<1>4. CASE Played(r) # {}
    <2>1. q = MakesRoom(r, i)
        BY <1>4
    <2>2. Fine(q, u, seeking) /\ Beside(q, r, i)
        BY <1>0, <1>1, <1>2, <2>1, MakesRoomFine
    <2>. QED
        BY <1>1, <2>2 DEF Beside
<1>. QED
    BY <1>3, <1>4

\* A load fails.
LEMMA LoadFailsFine ==
    ASSUME NEW r, NEW u, NEW seeking, Fine(r, u, seeking), NEW i, Turn(r, i),
           r.tasks[i].at = "queue", NEW v, u \subseteq v, "failed" \in v,
           NEW q, q = Drops(r, {i})
    PROVE  Fine(q, v, seeking) /\ q.at = "ready" /\ r.at = "ready"
<1>0. Typed(r) /\ Quiet(r) /\ Sane(r, u, seeking)
    BY DEF Fine, Sane
<1>1. {i} \subseteq DOMAIN r.tasks
    BY <1>0, TurnFacts
<1>2. r.at = "ready"
    BY <1>0, <1>1, ReadyFacts
<1>3. Sane(r, v, seeking) /\ Fine(r, v, seeking)
    BY <1>0, SaneLater
<1>4. \A j \in {i} : r.op.by \in {"load", "room", "evict"} => ~ Owns(r, j)
    BY DEF Owns, Place
<1>5. \A j \in DOMAIN r.tasks \ {i} :
          r.tasks[j].at = "evict" => r.op.by = "evict" /\ r.op.gen = r.tasks[j].gen
    BY DEF Fine, Evicting
<1>6. Fine(q, v, seeking) /\ Alike(q, r)
    BY <1>1, <1>2, <1>3, <1>4, <1>5, DropsFine
<1>. QED
    BY <1>2, <1>6 DEF Alike

-----------------------------------------------------------------------------
(* Playing and seeking.                                                    *)

\* The playhead is set, and perhaps the timer of a seek.
Placed(q, r) ==
    /\ Whole(q) /\ q.tasks = r.tasks /\ q.op = r.op /\ q.at = r.at /\ q.clear = r.clear
    /\ q.gen = r.gen /\ q.mail = r.mail /\ q.next = r.next /\ q.fed = r.fed
    /\ q.buffered = r.buffered /\ q.from = r.from
    /\ q.playhead \in Times
    /\ ~ q.timer => ~ r.timer /\ q.playhead >= r.playhead

\* The playhead may go on as far as the buffer reaches.
LEMMA PlacedFine ==
    ASSUME NEW r, NEW u, NEW seeking, Fine(r, u, seeking), r.at = "ready",
           NEW after, seeking => after, NEW q, Placed(q, r)
    PROVE  /\ Fine(q, u, after) /\ q.at = "ready" /\ q.clear = r.clear
<1>0. Typed(r) /\ Sane(r, u, seeking)
    BY DEF Fine, Sane
<1>1. Fine(r, u, after)
    BY <1>0, SaneLater
<1>2. Working(r, after) /\ Evicting(r)
    BY <1>1 DEF Fine, Sane
<1>3. /\ Whole(q) /\ q.tasks = r.tasks /\ q.op = r.op /\ q.at = r.at /\ q.clear = r.clear
      /\ q.gen = r.gen /\ q.mail = r.mail /\ q.next = r.next /\ q.fed = r.fed
      /\ q.buffered = r.buffered /\ q.from = r.from /\ q.playhead \in Times
    BY DEF Placed
<1>4. Typed(q)
    BY <1>0, <1>3 DEF Typed
<1>5. Working(q, after)
    BY <1>2, <1>3 DEF Working, OneAtWork, Foremost, Leftovers, Owned, Owns, Preparing, Current
<1>6. (NoneWaits(r) => NoneWaits(q)) /\ Evicting(q)
    BY <1>2, <1>3 DEF NoneWaits, Current, Evicting
<1>7. (InTurn(r) => InTurn(q)) /\ (Feeding(r) => Feeding(q))
    BY <1>3 DEF InTurn, Feeding, Load, Current
<1>8. Coming(r) => Coming(q)
    <2>. SUFFICES ASSUME Coming(r), ~ q.timer PROVE Coming(q)
        BY DEF Coming
    <2>. DEFINE t == q.playhead
    <2>0. ~ r.timer /\ t >= r.playhead /\ t \in Times
        BY DEF Placed
    <2>1. /\ t >= r.playhead /\ t \in Int /\ r.playhead \in Int /\ r.next \in Int
          /\ r.clear.to \in Int
        BY <1>0, <2>0, Numbers, TaskFacts DEF Times, Typed, Clearing
    <2>2. ASSUME r.clear.at = "no"
          PROVE  /\ \A c \in t..(r.next - 1) :
                       c \in r.buffered \/ \E i \in DOMAIN r.tasks :
                                 Load(r, i) /\ c \in r.tasks[i].todo..r.tasks[i].last
                 /\ ~ EvictsAhead(r)
        <3>1. \A c \in t..(r.next - 1) : c \in r.playhead..(r.next - 1)
            BY <2>1
        <3>. QED
            BY <2>0, <2>2, <3>1 DEF Coming
    <2>3. r.clear.at = "no" => ~ EvictsAhead(q)
        <3>1. \A i \in DOMAIN r.tasks : r.tasks[i].todo - Behind \in Int
            BY <1>0, Numbers, TaskFacts
        <3>. QED
            BY <1>3, <2>1, <2>2, <3>1 DEF EvictsAhead
    <2>4. r.clear.at # "no" => t >= r.clear.to
        BY <2>0, <2>1 DEF Coming
    <2>5. \A i : Load(q, i) <=> Load(r, i)
        BY <1>3 DEF Load, Current
    <2>. HIDE DEF Load
    <2>. QED
        BY <1>3, <2>2, <2>3, <2>4, <2>5 DEF Coming
<1>. QED
    BY <1>0, <1>3, <1>4, <1>5, <1>6, <1>7, <1>8 DEF Fine, Sane, Quiet

\* The video plays a chunk.
LEMMA PlaysFine ==
    ASSUME NEW r, NEW u, NEW seeking, Fine(r, u, seeking), r.at = "ready",
           r.playhead \in r.buffered,
           NEW a, a = [r EXCEPT !.playhead = @ + 1], NEW q, q = Ticks(a, seeking)
    PROVE  Fine(q, u, seeking) /\ q.at = "ready"
<1>0. Typed(r) /\ Working(r, seeking)
    BY DEF Fine, Sane
<1>1. r.playhead + 1 \in Times /\ r.playhead + 1 >= r.playhead
    <2>1. r.playhead \in 0..(Chunks - 1)
        BY <1>0 DEF Typed
    <2>. QED
        BY <2>1, Numbers DEF Times
<1>2. /\ Whole(a) /\ a.tasks = r.tasks /\ a.op = r.op /\ a.at = r.at /\ a.clear = r.clear
      /\ a.gen = r.gen /\ a.mail = r.mail /\ a.next = r.next /\ a.fed = r.fed
      /\ a.buffered = r.buffered /\ a.from = r.from
      /\ a.playhead = r.playhead + 1 /\ a.timer = r.timer
    BY <1>0 DEF Typed, Whole
<1>3. Placed(a, r)
    BY <1>1, <1>2 DEF Placed
<1>4. Fine(a, u, seeking) /\ a.at = "ready" /\ a.clear = r.clear
    BY <1>3, PlacedFine
<1>5. seeking \/ a.clear.at = "no"
    BY <1>0, <1>4 DEF Working, Preparing
<1>6. Fine(q, u, seeking) /\ Alike(q, a)
    BY <1>4, <1>5, TicksFine
<1>. QED
    BY <1>4, <1>6 DEF Alike

\* The playhead after a seek of the user, or of a stream that resumes.
Resumed(r, t) == [r EXCEPT !.playhead = t, !.timer = TRUE]

\* The user seeks.
LEMMA SeekToFine ==
    ASSUME NEW r, NEW u, NEW seeking, Fine(r, u, seeking), r.at = "ready", NEW t \in Times,
           NEW q, q = Resumed(r, t)
    PROVE  Fine(q, u, TRUE) /\ q.at = "ready"
<1>0. Typed(r)
    BY DEF Fine, Sane
<1>1. Placed(q, r)
    BY <1>0 DEF Placed, Resumed, Typed, Whole
<1>. QED
    BY <1>1, PlacedFine

\* A time update.
LEMMA TimeUpdateFine ==
    ASSUME NEW r, NEW u, NEW seeking, Fine(r, u, seeking), r.at = "ready",
           NEW q, q = Ticks(r, seeking)
    PROVE  Fine(q, u, seeking) /\ q.at = "ready"
<1>1. seeking \/ r.clear.at = "no"
    BY DEF Fine, Sane, Working, Preparing
<1>2. Fine(q, u, seeking) /\ Alike(q, r)
    BY <1>1, TicksFine
<1>. QED
    BY <1>2 DEF Alike

\* A set of natural numbers has a least one.
LEMMA Least ==
    ASSUME NEW S, S \subseteq Nat, S # {}
    PROVE  \E m \in S : \A k \in S : m <= k
<1>. DEFINE R == {ss \in Nat \X Nat : ss[1] < ss[2]}
<1>1. IsWellFoundedOn(R, Nat)
    BY NatLessThanWellFounded DEF OpToRel
<1>2. \A j, k \in Nat : j < k => <<j, k>> \in R
    OBVIOUS
<1>. HIDE DEF R
<1>3. PICK m \in S : \A k \in S : ~ (<<k, m>> \in R)
    BY <1>1, WFMin
<1>4. ASSUME NEW k \in S PROVE m <= k
    <2>1. m \in Nat /\ k \in Nat /\ ~(k < m)
        BY <1>2, <1>3
    <2>. QED
        BY <2>1
<1>. QED
    BY <1>4

\* BufferedTo is the first chunk from the playhead on that is not buffered.
LEMMA BufferedFacts ==
    ASSUME NEW r, Typed(r)
    PROVE  /\ BufferedTo(r) \in r.playhead..Chunks /\ BufferedTo(r) \notin r.buffered
           /\ \A c \in r.playhead..(BufferedTo(r) - 1) : c \in r.buffered
<1>. DEFINE S == {c \in r.playhead..Chunks : c \notin r.buffered}
<1>1. r.playhead \in Nat /\ r.playhead <= Chunks /\ Chunks \in Nat
    BY Numbers DEF Typed, Times
<1>2. S \subseteq Nat
    BY <1>1
<1>3. Chunks \in S
    BY <1>1 DEF Typed
<1>4. PICK m \in S : \A k \in S : m <= k
    BY <1>2, <1>3, Least
<1>5. Min(S) \in S /\ \A k \in S : Min(S) <= k
    BY <1>4 DEF Min
<1>6. BufferedTo(r) = Min(S)
    BY DEF BufferedTo
<1>7. ASSUME NEW c \in r.playhead..(Min(S) - 1) PROVE c \in r.buffered
    <2>1. Min(S) \in r.playhead..Chunks
        BY <1>5
    <2>2. c \in r.playhead..Chunks /\ ~ (Min(S) <= c)
        BY <1>1, <2>1
    <2>. QED
        BY <1>5, <2>2
<1>. QED
    BY <1>5, <1>6, <1>7

\* What will come covers all that is played up to the next chunk to ask for.
LEMMA WillComeCovers ==
    ASSUME NEW r, Typed(r), InTurn(r), WillCome(r)
    PROVE  \A c \in r.playhead..(r.next - 1) :
              \/ c \in r.buffered
              \/ \E i \in DOMAIN r.tasks : Load(r, i) /\ c \in r.tasks[i].todo..r.tasks[i].last
<1>. DEFINE b == BufferedTo(r)
<1>1. b \in r.playhead..Chunks /\ \A c \in r.playhead..(b - 1) : c \in r.buffered
    BY BufferedFacts
<1>2. r.playhead \in Int /\ r.next \in Int /\ r.next <= Chunks /\ Chunks \in Nat
    BY Numbers DEF Typed, Times
<1>3. b = Chunks \/ b \in Asked(r) \/ b \in r.next..Chunks
    BY DEF WillCome
<1>. HIDE DEF b
<1>. SUFFICES ASSUME NEW c \in r.playhead..(r.next - 1), c \notin r.buffered
     PROVE  \E i \in DOMAIN r.tasks : Load(r, i) /\ c \in r.tasks[i].todo..r.tasks[i].last
    OBVIOUS
<1>4. b <= c /\ b \in Int /\ c \in Int /\ c < r.next
    BY <1>1, <1>2
<1>5. b \in Asked(r)
    BY <1>2, <1>3, <1>4
<1>6. PICK i \in DOMAIN r.tasks : Load(r, i) /\ b \in r.tasks[i].todo..r.tasks[i].last
    BY <1>5 DEF Asked, Load, Current
<1>7. r.tasks[i].todo \in Int /\ r.tasks[i].last \in Int
    BY TaskFacts
<1>8. c \in r.tasks[i].todo..(r.next - 1)
    BY <1>2, <1>4, <1>6, <1>7
<1>. QED
    BY <1>6, <1>8 DEF InTurn

\* And the other way round.
LEMMA CoveredWillCome ==
    ASSUME NEW r, Typed(r),
           \A c \in r.playhead..(r.next - 1) :
              \/ c \in r.buffered
              \/ \E i \in DOMAIN r.tasks : Load(r, i) /\ c \in r.tasks[i].todo..r.tasks[i].last
    PROVE  WillCome(r)
<1>. DEFINE b == BufferedTo(r)
<1>1. b \in r.playhead..Chunks /\ b \notin r.buffered
    BY BufferedFacts
<1>2. r.playhead \in Int /\ r.next \in Int /\ r.next <= Chunks /\ Chunks \in Nat
    BY Numbers DEF Typed, Times
<1>. HIDE DEF b
<1>3. CASE b >= r.next
    <2>1. b \in r.next..Chunks
        BY <1>1, <1>2, <1>3
    <2>. QED
        BY <2>1 DEF WillCome, b
<1>4. CASE b < r.next
    <2>1. b \in r.playhead..(r.next - 1)
        BY <1>1, <1>2, <1>4
    <2>2. PICK i \in DOMAIN r.tasks : Load(r, i) /\ b \in r.tasks[i].todo..r.tasks[i].last
        BY <1>1, <2>1
    <2>3. b \in Asked(r)
        BY <2>2 DEF Asked, Load, Current
    <2>. QED
        BY <2>3 DEF WillCome, b
<1>. QED
    BY <1>1, <1>2, <1>3, <1>4

\* The timer of a seek has gone off.
Untimed(r) == [r EXCEPT !.timer = FALSE]

\* A gap ahead of a seek within the buffer is noted.
Noted(a, v) == ~ (WillCome(a) /\ ~ EvictsAhead(a)) => "gap" \in v

\* A seek within the buffer.
Stays(q, r) == q = Ticks(Untimed(r), FALSE)

\* A seek within the buffer ends, and notes a gap where there is one.
LEMMA SeekWithinFine ==
    ASSUME NEW r, NEW u, NEW seeking, Fine(r, u, seeking), r.timer,
           NEW a, a = Untimed(r), NEW v, u \subseteq v, r.clear.at = "no",
           Noted(a, v), NEW q, Stays(q, r)
    PROVE  Fine(q, v, FALSE) /\ q.at = "ready" /\ r.at = "ready"
<1>0. Typed(r) /\ Quiet(r) /\ Sane(r, u, seeking)
    BY DEF Fine, Sane
<1>1. r.at = "ready"
    BY <1>0, ReadyFacts
<1>2. Fine(r, v, FALSE)
    BY <1>0, SaneLater
<1>3. Sane(r, v, FALSE) /\ Evicting(r)
    BY <1>2 DEF Fine
<1>4. /\ Whole(a) /\ a.tasks = r.tasks /\ a.op = r.op /\ a.at = r.at /\ a.clear = r.clear
      /\ a.gen = r.gen /\ a.mail = r.mail /\ a.next = r.next /\ a.fed = r.fed
      /\ a.playhead = r.playhead /\ a.timer = FALSE /\ a.buffered = r.buffered
      /\ a.from = r.from
    BY <1>0 DEF Typed, Whole, Untimed
<1>5. Typed(a) /\ Quiet(a)
    BY <1>0, <1>1, <1>4 DEF Typed, Quiet
<1>6. Working(a, FALSE)
    BY <1>3, <1>4 DEF Sane, Working, OneAtWork, Foremost, Leftovers, Owned, Owns, Preparing, Current
<1>7. (NoneWaits(r) => NoneWaits(a)) /\ Evicting(a)
    BY <1>3, <1>4 DEF NoneWaits, Current, Evicting
<1>8. (InTurn(r) => InTurn(a)) /\ (Feeding(r) => Feeding(a))
    BY <1>4 DEF InTurn, Feeding, Load, Current
<1>9. ASSUME "failed" \notin v, "gap" \notin v PROVE Coming(a)
    <2>1. InTurn(a) /\ WillCome(a) /\ ~ EvictsAhead(a)
        BY <1>3, <1>8, <1>9 DEF Sane, Noted
    <2>2. \A c \in a.playhead..(a.next - 1) :
              \/ c \in a.buffered
              \/ \E i \in DOMAIN a.tasks : Load(a, i) /\ c \in a.tasks[i].todo..a.tasks[i].last
        BY <1>5, <2>1, WillComeCovers
    <2>. QED
        BY <1>4, <2>1, <2>2 DEF Coming
<1>10. Fine(a, v, FALSE) /\ a.at = "ready" /\ a.clear.at = "no"
    BY <1>1, <1>3, <1>4, <1>5, <1>6, <1>7, <1>8, <1>9 DEF Fine, Sane
<1>11. Fine(q, v, FALSE) /\ Alike(q, a)
    BY <1>10, TicksFine DEF Stays
<1>. QED
    BY <1>1, <1>10, <1>11 DEF Alike

\* A new generation, which only the tasks at the places in K outlive.
NewGeneration(r, K, to) ==
    [r EXCEPT !.tasks = Kept(@, K), !.gen = @ + 1, !.active = 0, !.timer = FALSE,
              !.clear = [at |-> "idle", to |-> to]]

\* What NewGeneration changes.
LEMMA GenerationFields ==
    ASSUME NEW r, Typed(r), NEW K, K \subseteq DOMAIN r.tasks, NEW to \in Times,
           NEW a, a = NewGeneration(r, K, to)
    PROVE  /\ Typed(a) /\ a.gen = r.gen + 1 /\ ~ a.timer /\ a.clear.at = "idle" /\ a.clear.to = to
           /\ a.at = r.at /\ a.op = r.op /\ a.mail = r.mail /\ a.playhead = r.playhead
           /\ a.fed = r.fed
           /\ \E h : Embeds(a.tasks, r.tasks, K, h)
<1>. DEFINE T == Kept(r.tasks, K)
            c == [at |-> "idle", to |-> to]
<1>0. T \in Seq(Task) /\ \E h : Embeds(T, r.tasks, K, h)
    <2>1. r.tasks \in Seq(Task)
        BY DEF Typed
    <2>. HIDE DEF Task
    <2>. QED
        BY <2>1, KeptOrder
<1>1. c \in Clearing /\ c.at = "idle" /\ c.to = to
    BY DEF Clearing
<1>2. a = [r EXCEPT !.tasks = T, !.gen = @ + 1, !.active = 0, !.timer = FALSE, !.clear = c]
    BY DEF NewGeneration
<1>. HIDE DEF T, c
<1>3. /\ Whole(a) /\ a.tasks = T /\ a.op = r.op /\ a.at = r.at /\ a.clear = c
      /\ a.gen = r.gen + 1 /\ a.mail = r.mail /\ a.next = r.next /\ a.fed = r.fed
      /\ a.playhead = r.playhead /\ a.timer = FALSE /\ a.buffered = r.buffered
      /\ a.from = r.from
    BY <1>2 DEF Typed, Whole
<1>4. Typed(a)
    BY <1>0, <1>1, <1>3 DEF Typed
<1>. QED
    BY <1>0, <1>1, <1>3, <1>4

\* The chunk that a seek asks for.
LEMMA SeekTarget ==
    ASSUME NEW r, Typed(r)
    PROVE  /\ Min({r.playhead, Chunks - 1}) \in Times
           /\ Min({r.playhead, Chunks - 1}) < Chunks
           /\ Min({r.playhead, Chunks - 1}) <= r.playhead
<1>1. r.playhead \in Nat /\ r.playhead <= Chunks /\ Chunks - 1 \in Nat /\ Chunks \in Nat
    BY Numbers DEF Typed, Times
<1>2. Min({r.playhead, Chunks - 1}) = IF r.playhead <= Chunks - 1 THEN r.playhead ELSE Chunks - 1
    BY <1>1, LeastOfTwo
<1>. QED
    BY <1>1, <1>2 DEF Times

\* A new generation begins, with the tasks that are past stopping.
LEMMA GenerationFine ==
    ASSUME NEW r, NEW u, NEW seeking, Fine(r, u, seeking), r.at = "ready",
           NEW K, K \subseteq DOMAIN r.tasks,
           \A i \in DOMAIN r.tasks : i \in K <=> GoesOn(r.tasks[i]),
           NEW to \in Times, to < Chunks, to <= r.playhead,
           NEW v, u \subseteq v, K # {} => "late" \in v,
           NEW a, a = NewGeneration(r, K, to)
    PROVE  Fine(a, v, TRUE) /\ a.at = "ready"
<1>0. Typed(r) /\ Quiet(r) /\ Working(r, seeking) /\ Evicting(r) /\ Sane(r, u, seeking)
    BY DEF Fine, Sane
<1>1. /\ Typed(a) /\ a.gen = r.gen + 1 /\ ~ a.timer /\ a.clear.at = "idle" /\ a.clear.to = to
      /\ a.at = r.at /\ a.op = r.op /\ a.mail = r.mail /\ a.playhead = r.playhead
      /\ \E h : Embeds(a.tasks, r.tasks, K, h)
    BY <1>0, GenerationFields
<1>2. PICK h : Embeds(a.tasks, r.tasks, K, h)
    BY <1>1
<1>3. /\ \A j \in DOMAIN a.tasks :
            /\ h[j] \in DOMAIN r.tasks /\ GoesOn(r.tasks[h[j]])
            /\ a.tasks[j] = r.tasks[h[j]]
      /\ \A j, k \in DOMAIN a.tasks : j < k => h[j] < h[k]
      /\ \A i \in DOMAIN r.tasks : GoesOn(r.tasks[i]) => \E j \in DOMAIN a.tasks : h[j] = i
    BY <1>2 DEF Embeds
<1>4. \A j \in DOMAIN a.tasks : a.tasks[j].gen <= r.gen
    BY <1>0, <1>3 DEF Working, Leftovers
<1>5. r.gen \in Nat /\ \A j \in DOMAIN a.tasks : a.tasks[j].gen \in Nat
    BY <1>0, <1>1, TaskFacts
<1>6. \A j \in DOMAIN a.tasks : ~ Current(a, j) /\ ~ Load(a, j)
    BY <1>1, <1>4, <1>5 DEF Current, Load
<1>7. OneAtWork(a)
    <2>. SUFFICES ASSUME NEW j \in DOMAIN a.tasks, NEW k \in DOMAIN a.tasks, k < j
         PROVE  a.tasks[k].gen # a.tasks[j].gen
        BY DEF OneAtWork, Foremost
    <2>1. r.tasks[h[j]].at # "queue" /\ h[k] < h[j] /\ h[k] \in DOMAIN r.tasks
          /\ h[j] \in DOMAIN r.tasks
        BY <1>3 DEF GoesOn
    <2>2. r.tasks[h[k]].gen # r.tasks[h[j]].gen
        BY <1>0, <2>1 DEF Working, OneAtWork, Foremost
    <2>. QED
        BY <1>3, <2>2
<1>8. Leftovers(a)
    <2>1. \A j \in DOMAIN a.tasks :
             /\ a.tasks[j].gen <= a.gen /\ GoesOn(a.tasks[j])
             /\ a.tasks[j].kind = "evict" => a.tasks[j].at \in {"queue", "evict"}
             /\ a.tasks[j].at = "evict" => a.tasks[j].kind = "evict"
        BY <1>0, <1>1, <1>3, <1>4, <1>5 DEF Working, Leftovers
    <2>. QED
        BY <1>1, <2>1 DEF Leftovers
<1>9. Owned(a)
    <2>1. a.op.gen <= r.gen /\ a.op.gen \in Nat
        BY <1>0, <1>1, TaskFacts DEF Working, Owned
    <2>2. a.op.gen <= a.gen /\ a.op.gen # a.gen
        BY <1>1, <1>5, <2>1
    <2>3. ASSUME a.op.by \in {"load", "room", "evict"} PROVE \E j \in DOMAIN a.tasks : Owns(a, j)
        <3>1. PICK i \in DOMAIN r.tasks : Owns(r, i)
            BY <1>0, <1>1, <2>3 DEF Working, Owned
        <3>2. GoesOn(r.tasks[i])
            BY <1>1, <2>3, <3>1 DEF GoesOn, Owns, Place
        <3>3. PICK j \in DOMAIN a.tasks : h[j] = i
            BY <1>3, <3>2
        <3>4. a.tasks[j] = r.tasks[i]
            BY <1>3, <3>3
        <3>5. Owns(a, j)
            BY <1>1, <3>1, <3>4 DEF Owns
        <3>. QED
            BY <3>5
    <2>4. a.op.by = "none" <=> a.op = Idle
        BY <1>0, <1>1 DEF Working, Owned
    <2>. QED
        BY <1>1, <2>2, <2>3, <2>4 DEF Owned
<1>10. Preparing(a, TRUE)
    <2>1. \A k \in DOMAIN a.mail : a.mail[k].gen <= r.gen /\ a.mail[k].gen \in Nat
        <3>1. a.mail \in Seq(Message)
            BY <1>1 DEF Typed
        <3>2. \A k \in DOMAIN a.mail : a.mail[k] \in Message
            <4>. HIDE DEF Message
            <4>. QED
                BY <3>1, SequenceFacts
        <3>. QED
            BY <1>0, <1>1, <3>2 DEF Working, Preparing, Message
    <2>2. \A k \in DOMAIN a.mail : a.mail[k].gen <= a.gen /\ a.mail[k].gen # a.gen
        BY <1>1, <1>5, <2>1
    <2>. QED
        BY <1>1, <1>6, <2>2 DEF Preparing
<1>11. Evicting(a)
    BY <1>0, <1>1, <1>3 DEF Evicting
<1>12. InTurn(a)
    BY <1>6 DEF InTurn
<1>13. Feeding(a) /\ Coming(a)
    <2>1. a.playhead >= to
        BY <1>0, <1>1, TaskFacts DEF Times
    <2>. QED
        BY <1>1, <2>1 DEF Feeding, Coming
<1>14. "late" \notin v => NoneWaits(a)
    BY <1>3 DEF NoneWaits
<1>. QED
    BY <1>0, <1>1, <1>7, <1>8, <1>9, <1>10, <1>11, <1>12, <1>13, <1>14
       DEF Fine, Sane, Quiet, Working

\* A seek out of the buffer, which notes what goes on.
Leaves(q, r, v) ==
    \E K \in SUBSET DOMAIN r.tasks : \E to, a :
        /\ \A i \in DOMAIN r.tasks : i \in K <=> GoesOn(r.tasks[i])
        /\ K # {} => "late" \in v
        /\ to = Min({r.playhead, Chunks - 1})
        /\ a = NewGeneration(r, K, to)
        /\ q = IF r.op = Idle THEN RemovesBehind(a) ELSE a

\* A seek out of the buffer begins, with the update that goes on or without one.
LEMMA SeekOutFine ==
    ASSUME NEW r, NEW u, NEW seeking, Fine(r, u, seeking), r.timer,
           NEW v, u \subseteq v, NEW q, Leaves(q, r, v)
    PROVE  Fine(q, v, TRUE) /\ q.at = "ready" /\ r.at = "ready"
<1>0. Typed(r) /\ Quiet(r)
    BY DEF Fine, Sane
<1>1. r.at = "ready"
    BY <1>0, ReadyFacts
<1>2. PICK K, to, a :
          /\ K \subseteq DOMAIN r.tasks
          /\ \A i \in DOMAIN r.tasks : i \in K <=> GoesOn(r.tasks[i])
          /\ K # {} => "late" \in v
          /\ to = Min({r.playhead, Chunks - 1})
          /\ a = NewGeneration(r, K, to)
          /\ q = IF r.op = Idle THEN RemovesBehind(a) ELSE a
    BY DEF Leaves
<1>3. to \in Times /\ to < Chunks /\ to <= r.playhead
    BY <1>0, <1>2, SeekTarget
<1>5. Fine(a, v, TRUE) /\ a.at = "ready"
    BY <1>1, <1>2, <1>3, GenerationFine
<1>6. a.clear.at = "idle" /\ a.op = r.op
    BY <1>0, <1>2, <1>3, GenerationFields
<1>7. CASE r.op = Idle
    <2>1. Clears(a)
        BY <1>6, <1>7 DEF Clears, Idle
    <2>2. q = RemovesBehind(a)
        BY <1>2, <1>7
    <2>. QED
        BY <1>1, <1>5, <2>1, <2>2, RemovesBehindFine
<1>8. CASE r.op # Idle
    BY <1>1, <1>2, <1>5, <1>8
<1>. QED
    BY <1>7, <1>8

\* The header, the layout and the first chunk are there.
LEMMA BootstrapFine ==
    ASSUME NEW r, Typed(r), Quiet(r), r.at # "ready", NEW u, NEW seeking,
           NEW z, z = [r EXCEPT !.at = "ready"], NEW q, q = Bootstrap(z)
    PROVE  Fine(q, u, seeking) /\ q.at = "ready" /\ q.clear.at = "no" /\ q.from = r.from
<1>1. /\ Whole(z) /\ z.tasks = <<>> /\ z.mail = <<>> /\ z.clear = NoClear /\ z.op = Idle
      /\ ~ z.timer /\ z.gen = 0 /\ z.fed = -1 /\ z.playhead = 0 /\ z.at = "ready"
      /\ z.next = r.next /\ z.buffered = r.buffered /\ z.from = r.from
    BY DEF Quiet, Typed, Whole
<1>2. {0} \subseteq 0..(Chunks - 1) /\ 1 \in Times /\ 0 \in Times
    BY Numbers DEF Times
<1>3. /\ Whole(q) /\ q.tasks = <<>> /\ q.mail = <<>> /\ q.clear = NoClear /\ q.op = Idle
      /\ ~ q.timer /\ q.gen = 0 /\ q.playhead = 0 /\ q.at = "ready" /\ q.from = r.from
      /\ \/ q.fed = 0 /\ q.next = 1 /\ q.buffered = {0}
         \/ q.fed = -1 /\ q.next = 0 /\ q.buffered = r.buffered
    BY <1>1 DEF Bootstrap, Prefetched, Whole
<1>4. Typed(q)
    <2>1. r.tasks \in Seq(Task) /\ r.mail \in Seq(Message) /\ r.tasks = <<>> /\ r.mail = <<>>
          /\ r.clear = NoClear /\ r.op = Idle
        BY DEF Typed, Quiet
    <2>2. q.tasks \in Seq(Task) /\ q.mail \in Seq(Message) /\ q.clear \in Clearing
          /\ q.op \in Update
        <3>1. r.clear \in Clearing /\ r.op \in Update
            BY DEF Typed
        <3>. QED
            BY <1>3, <2>1, <3>1
    <2>3. q.from \in Times /\ q.next \in Times /\ q.playhead \in Times /\ q.gen \in Nat
          /\ q.fed \in Int /\ q.buffered \subseteq 0..(Chunks - 1)
        BY <1>2, <1>3 DEF Typed
    <2>. QED
        BY <1>3, <2>2, <2>3 DEF Typed
<1>5. DOMAIN q.tasks = {} /\ DOMAIN q.mail = {} /\ q.clear.at = "no" /\ q.op.by = "none"
      /\ q.op.gen = 0
    BY <1>3 DEF NoClear, Idle
<1>6. Working(q, seeking) /\ Evicting(q) /\ NoneWaits(q) /\ InTurn(q)
    BY <1>3, <1>5 DEF Working, OneAtWork, Leftovers, Owned, Preparing, Evicting, NoneWaits, InTurn
<1>7. Feeding(q)
    BY <1>3, <1>5 DEF Feeding
<1>8. Coming(q)
    <2>1. \A c \in q.playhead..(q.next - 1) : c \in q.buffered
        BY <1>3
    <2>2. ~ EvictsAhead(q)
        BY <1>5 DEF EvictsAhead
    <2>. QED
        BY <1>5, <2>1, <2>2 DEF Coming
<1>. QED
    BY <1>3, <1>4, <1>5, <1>6, <1>7, <1>8 DEF Fine, Sane, Quiet

\* What Bootstrapped makes of r: a is ready, q has its first load.
Readied(r, a, q) ==
    /\ a = Bootstrap([r EXCEPT !.at = "ready"])
    /\ q = IF a.from > 0 THEN Resumed(a, a.from) ELSE ScheduleNextChunk(a)

\* A stream is ready and has its first load.
LEMMA BootstrappedFine ==
    ASSUME NEW r, Typed(r), Quiet(r), r.at # "ready", NEW u,
           NEW a, NEW q, Readied(r, a, q), NEW after, a.from > 0 => after
    PROVE  Fine(q, u, after) /\ q.at = "ready" /\ a.from = r.from
<1>0. PICK z : z = [r EXCEPT !.at = "ready"] /\ a = Bootstrap(z)
    BY DEF Readied
<1>1. Fine(a, u, after) /\ a.at = "ready" /\ a.clear.at = "no" /\ a.from = r.from
    BY <1>0, BootstrapFine
<1>2. a.from \in Times
    BY <1>1 DEF Typed
<1>3. CASE a.from > 0
    <2>1. PICK t \in Times : t = a.from
        BY <1>2
    <2>2. q = Resumed(a, t)
        BY <1>3, <2>1 DEF Readied
    <2>3. Fine(q, u, TRUE) /\ q.at = "ready"
        BY <1>1, <2>2, SeekToFine
    <2>4. Sane(q, u, TRUE) /\ (TRUE => after)
        BY <1>3, <2>3 DEF Fine
    <2>5. Fine(q, u, after)
        BY <2>3, <2>4, SaneLater
    <2>. QED
        BY <1>1, <2>3, <2>5
<1>4. CASE ~ (a.from > 0)
    <2>1. q = ScheduleNextChunk(a)
        BY <1>4 DEF Readied
    <2>2. Fine(q, u, after) /\ Alike(q, a)
        BY <1>1, <2>1, SchedulesFine
    <2>. QED
        BY <1>1, <2>2 DEF Alike
<1>. QED
    BY <1>3, <1>4

-----------------------------------------------------------------------------
(***************************************************************************)
(* The invariant of the specification. One stream is live at a time, which *)
(* the service has from when its source is open, until two overlap.        *)
(***************************************************************************)
Sole ==
    \A s \in Streams :
        Live(stream[s]) =>
            /\ s = begun
            /\ state = IF stream[s].at \in {"header", "open"} THEN NoStream ELSE s
            /\ "overlap" \notin upset =>
                  /\ player # NoStream
                  /\ stream[s].at # "ready" => error = "no"

\* Each stream and all of them.
AllFine ==
    /\ stream = [s \in Streams |-> stream[s]]
    /\ begun \in 0..MaxStreams /\ state \in Streams \cup {NoStream}
    /\ Sole
    /\ \A s \in Streams : Fine(stream[s], upset, isSeeking)
    /\ error = "busy" => "late" \in upset

\* The inductive invariant: a seek within the buffer that ends one out of it
\* leaves nothing of this.
IInv == "early" \notin upset => AllFine

\* Only one stream is live, and the others stay as they are.
LEMMA OneMoves ==
    ASSUME AllFine, "early" \notin upset', upset \subseteq upset',
           NEW s \in Streams, Live(stream[s]), NEW q, stream' = [stream EXCEPT ![s] = q],
           begun' = begun, player' = player, Fine(q, upset', isSeeking'),
           Live(q), state' = IF q.at \in {"header", "open"} THEN NoStream ELSE s,
           "overlap" \in upset' <=> "overlap" \in upset,
           q.at # "ready" => error' = error /\ stream[s].at # "ready",
           error' = "busy" => error = "busy" \/ "late" \in upset'
    PROVE  IInv'
<1>1. /\ stream'[s] = q /\ stream' = [t \in Streams |-> stream'[t]]
      /\ \A t \in Streams : t # s => stream'[t] = stream[t]
    BY DEF AllFine
<1>2. s = begun /\ ("overlap" \notin upset => player # NoStream /\ (stream[s].at # "ready" => error = "no"))
    BY DEF AllFine, Sole
<1>3. \A t \in Streams : t # s => ~ Live(stream[t])
    BY <1>2 DEF AllFine, Sole
<1>4. Sole'
    BY <1>1, <1>2, <1>3 DEF Sole
<1>5. ASSUME NEW t \in Streams PROVE Fine(stream'[t], upset', isSeeking')
    <2>1. CASE t = s
        BY <1>1, <2>1
    <2>2. CASE t # s
        <3>1. PICK r : r = stream[t]
            OBVIOUS
        <3>2. Typed(r) /\ Quiet(r) /\ r.at # "ready"
            BY <1>3, <2>2, <3>1 DEF AllFine, Fine, Sane, Live
        <3>3. PICK u : u = upset'
            OBVIOUS
        <3>4. PICK w : w <=> isSeeking'
            OBVIOUS
        <3>5. Fine(r, u, isSeeking')
            BY <3>2, QuietIsFine
        <3>. QED
            BY <1>1, <2>2, <3>1, <3>3, <3>5
    <2>. QED
        BY <2>1, <2>2
<1>. QED
    BY <1>1, <1>4, <1>5 DEF IInv, AllFine

\* A step of a stream that plays.
LEMMA OneWorks ==
    ASSUME AllFine, "early" \notin upset', upset \subseteq upset',
           NEW s \in Streams, stream[s].at = "ready", NEW q, stream' = [stream EXCEPT ![s] = q],
           begun' = begun, player' = player, state' = state,
           Fine(q, upset', isSeeking'), q.at = "ready",
           "overlap" \in upset' <=> "overlap" \in upset,
           error' = "busy" => error = "busy" \/ "late" \in upset'
    PROVE  IInv'
<1>1. Live(stream[s]) /\ Live(q)
    BY DEF Live
<1>2. state = s
    BY <1>1 DEF AllFine, Sole
<1>. QED
    BY <1>1, <1>2, OneMoves

\* A stream that is not ready yet moves on.
Nearer(r, w, f) == [r EXCEPT !.at = w, !.fast = f]

\* It has nothing to break yet.
LEMMA NearerFine ==
    ASSUME NEW r, Typed(r), Quiet(r), r.at # "ready", NEW w, w # "ready", NEW f,
           NEW q, q = Nearer(r, w, f), NEW u, NEW seeking
    PROVE  Fine(q, u, seeking) /\ q.at = w
<1>1. /\ Whole(q) /\ q.tasks = r.tasks /\ q.op = r.op /\ q.at = w /\ q.clear = r.clear
      /\ q.gen = r.gen /\ q.mail = r.mail /\ q.next = r.next /\ q.fed = r.fed
      /\ q.playhead = r.playhead /\ q.timer = r.timer /\ q.buffered = r.buffered
      /\ q.from = r.from
    BY DEF Typed, Whole, Nearer
<1>2. Typed(q) /\ Quiet(q)
    BY <1>1 DEF Typed, Quiet
<1>. QED
    BY <1>1, <1>2, QuietIsFine

\* The others stay as they are.
LEMMA OneNearer ==
    ASSUME AllFine, "early" \notin upset', upset' = upset, isSeeking' = isSeeking,
           NEW s \in Streams, stream[s].at \in {"header", "open", "first", "last"},
           NEW w \in {"open", "first", "last", "mux"}, NEW f,
           stream' = [stream EXCEPT ![s] = Nearer(stream[s], w, f)],
           begun' = begun, player' = player, error' = error,
           state' = IF w = "open" THEN NoStream ELSE s
    PROVE  IInv'
<1>1. PICK r : r = stream[s]
    OBVIOUS
<1>2. Typed(r) /\ Quiet(r) /\ r.at # "ready" /\ Live(r)
    BY <1>1 DEF AllFine, Fine, Sane, Live
<1>3. PICK q : q = Nearer(r, w, f)
    OBVIOUS
<1>4. q.at = w /\ Live(q)
    <2>1. q.at = w
        BY <1>2, <1>3 DEF Nearer, Typed, Whole
    <2>. QED
        BY <2>1 DEF Live
<1>5. Fine(q, upset', isSeeking')
    <2>1. PICK u, seeking : u = upset' /\ (seeking <=> isSeeking')
        OBVIOUS
    <2>2. Fine(q, u, isSeeking')
        BY <1>2, <1>3, NearerFine
    <2>. QED
        BY <2>1, <2>2
<1>6. stream' = [stream EXCEPT ![s] = q]
    BY <1>1, <1>3
<1>. QED
    BY <1>1, <1>2, <1>4, <1>5, <1>6, OneMoves

\* One action after another keeps the invariant.
LEMMA HeaderKeeps ==
    ASSUME IInv, NEW s \in Streams, HeaderRead(s), "early" \notin upset'
    PROVE  IInv'
<1>1. AllFine /\ upset' = upset /\ isSeeking' = isSeeking /\ begun' = begun /\ player' = player
      /\ error' = error /\ state' = state /\ stream[s].at = "header"
    BY DEF IInv, HeaderRead, service, user
<1>2. stream' = [stream EXCEPT ![s] = Nearer(stream[s], "open", stream[s].fast)]
    <2>1. PICK r : r = stream[s]
        OBVIOUS
    <2>2. Whole(r)
        BY <1>1, <2>1 DEF AllFine, Fine, Sane, Typed
    <2>3. [r EXCEPT !.at = "open"] = Nearer(r, "open", r.fast)
        BY <2>2 DEF Nearer, Whole
    <2>. QED
        BY <2>1, <2>3 DEF HeaderRead
<1>3. state = NoStream
    BY <1>1 DEF AllFine, Sole, Live
<1>4. PICK w \in {"open", "first", "last", "mux"} : w = "open"
    OBVIOUS
<1>5. PICK f : f = stream[s].fast
    OBVIOUS
<1>6. stream' = [stream EXCEPT ![s] = Nearer(stream[s], w, f)]
    BY <1>2, <1>4, <1>5
<1>. QED
    BY <1>1, <1>3, <1>4, <1>6, OneNearer

LEMMA SourceKeeps ==
    ASSUME IInv, NEW s \in Streams, SourceOpened(s), "early" \notin upset'
    PROVE  IInv'
<1>1. AllFine /\ upset' = upset /\ isSeeking' = isSeeking /\ begun' = begun /\ player' = player
      /\ error' = error /\ state' = s /\ stream[s].at = "open"
    BY DEF IInv, SourceOpened, user
<1>2. stream' = [stream EXCEPT ![s] = Nearer(stream[s], "first", stream[s].fast)]
    <2>1. PICK r : r = stream[s]
        OBVIOUS
    <2>2. Whole(r)
        BY <1>1, <2>1 DEF AllFine, Fine, Sane, Typed
    <2>3. [r EXCEPT !.at = "first"] = Nearer(r, "first", r.fast)
        BY <2>2 DEF Nearer, Whole
    <2>. QED
        BY <2>1, <2>3 DEF SourceOpened
<1>4. PICK w \in {"open", "first", "last", "mux"} : w = "first"
    OBVIOUS
<1>5. PICK f : f = stream[s].fast
    OBVIOUS
<1>6. stream' = [stream EXCEPT ![s] = Nearer(stream[s], w, f)]
    BY <1>2, <1>4, <1>5
<1>. QED
    BY <1>1, <1>4, <1>6, OneNearer

LEMMA FirstKeeps ==
    ASSUME IInv, NEW s \in Streams, FirstRead(s), "early" \notin upset'
    PROVE  IInv'
<1>1. AllFine /\ upset' = upset /\ isSeeking' = isSeeking /\ begun' = begun /\ player' = player
      /\ error' = error /\ state' = state /\ stream[s].at = "first"
    BY DEF IInv, FirstRead, service, user
<1>2. PICK f \in Layouts :
          stream' = [stream EXCEPT ![s].at = IF f THEN "mux" ELSE "last", ![s].fast = f]
    BY DEF FirstRead
<1>3. PICK w \in {"open", "first", "last", "mux"} : w # "open" /\ w = IF f THEN "mux" ELSE "last"
    OBVIOUS
<1>4. stream' = [stream EXCEPT ![s] = Nearer(stream[s], w, f)]
    BY <1>1, <1>2, <1>3 DEF AllFine, Nearer
<1>5. state = s
    BY <1>1 DEF AllFine, Sole, Live
<1>. QED
    BY <1>1, <1>3, <1>4, <1>5, OneNearer

LEMMA LastKeeps ==
    ASSUME IInv, NEW s \in Streams, LastRead(s), "early" \notin upset'
    PROVE  IInv'
<1>1. AllFine /\ upset' = upset /\ isSeeking' = isSeeking /\ begun' = begun /\ player' = player
      /\ error' = error /\ state' = state /\ stream[s].at = "last"
    BY DEF IInv, LastRead, service, user
<1>2. stream' = [stream EXCEPT ![s] = Nearer(stream[s], "mux", stream[s].fast)]
    <2>1. PICK r : r = stream[s]
        OBVIOUS
    <2>2. Whole(r)
        BY <1>1, <2>1 DEF AllFine, Fine, Sane, Typed
    <2>3. [r EXCEPT !.at = "mux"] = Nearer(r, "mux", r.fast)
        BY <2>2 DEF Nearer, Whole
    <2>. QED
        BY <2>1, <2>3 DEF LastRead
<1>3. state = s
    BY <1>1 DEF AllFine, Sole, Live
<1>4. PICK w \in {"open", "first", "last", "mux"} : w = "mux"
    OBVIOUS
<1>5. PICK f : f = stream[s].fast
    OBVIOUS
<1>6. stream' = [stream EXCEPT ![s] = Nearer(stream[s], w, f)]
    BY <1>2, <1>4, <1>5
<1>. QED
    BY <1>1, <1>3, <1>4, <1>6, OneNearer

LEMMA BootstrappedKeeps ==
    ASSUME IInv, NEW s \in Streams, Bootstrapped(s), "early" \notin upset'
    PROVE  IInv'
<1>1. /\ AllFine /\ upset' = upset /\ begun' = begun /\ player' = player
      /\ error' = error /\ state' = state /\ stream[s].at = "mux"
    BY DEF IInv, Bootstrapped, user
<1>2. PICK r, a, q, u : r = stream[s] /\ u = upset /\ Readied(r, a, q)
    BY DEF Readied
<1>3. PICK after : after <=> isSeeking'
    OBVIOUS
<1>4. /\ stream' = [stream EXCEPT ![s] = q]
      /\ isSeeking' = (isSeeking \/ a.from > 0)
    BY <1>2 DEF Bootstrapped, Readied, Resumed
<1>5. Typed(r) /\ Quiet(r) /\ r.at # "ready"
    BY <1>1, <1>2 DEF AllFine, Fine, Sane
<1>6. Fine(q, u, after) /\ q.at = "ready"
    <2>1. a.from > 0 => after
        BY <1>3, <1>4
    <2>. QED
        BY <1>2, <1>5, <2>1, BootstrappedFine
<1>7. Fine(q, upset', isSeeking')
    BY <1>1, <1>2, <1>3, <1>6
<1>8. state = s /\ Live(stream[s]) /\ Live(q)
    BY <1>1, <1>6 DEF AllFine, Sole, Live
<1>. QED
    BY <1>1, <1>4, <1>6, <1>7, <1>8, OneMoves

LEMMA DecryptedKeeps ==
    ASSUME IInv, NEW s \in Streams, NEW i, Decrypted(s, i), "early" \notin upset'
    PROVE  IInv'
<1>1. /\ AllFine /\ upset' = upset /\ begun' = begun /\ player' = player
      /\ error' = error /\ state' = state /\ isSeeking' = isSeeking
    BY DEF IInv, Decrypted, service, user
<1>2. PICK r, q, u : r = stream[s] /\ q = Given(r, i) /\ u = upset
    OBVIOUS
<1>3. Turn(r, i) /\ r.tasks[i].kind = "load" /\ r.tasks[i].at = "queue"
    BY <1>2 DEF Decrypted
<1>4. stream' = [stream EXCEPT ![s] = q]
    BY <1>1, <1>2 DEF Decrypted, Given, AllFine
<1>5. Fine(r, u, isSeeking)
    BY <1>1, <1>2 DEF AllFine
<1>6. Fine(q, u, isSeeking) /\ q.at = "ready" /\ r.at = "ready"
    BY <1>2, <1>3, <1>5, GivenFine
<1>. QED
    BY <1>1, <1>2, <1>4, <1>6, OneWorks

LEMMA TransmuxedKeeps ==
    ASSUME IInv, NEW s \in Streams, ChunkTransmuxed(s), "early" \notin upset'
    PROVE  IInv'
<1>1. /\ AllFine /\ upset' = upset /\ begun' = begun /\ player' = player
      /\ error' = error /\ state' = state /\ isSeeking' = isSeeking
    BY DEF IInv, ChunkTransmuxed, service, user
<1>2. PICK r, q, u :
          /\ r = stream[s] /\ u = upset
          /\ Heard(q, r, Head(r.mail).to) /\ stream' = [stream EXCEPT ![s] = q]
    <2>. DEFINE x == stream[s]
                c == Head(x.mail).to
                q == IF Listening(x, c) = {} THEN Read(x, c)
                     ELSE Appends(Read(x, c), CHOOSE i \in Listening(x, c) : TRUE)
    <2>1. stream' = [stream EXCEPT ![s] = q]
        BY DEF ChunkTransmuxed, Read
    <2>2. Heard(q, x, c)
        BY DEF Heard
    <2>. HIDE DEF q
    <2>. QED
        BY <2>1, <2>2
<1>3. r.mail # <<>> /\ Head(r.mail).type = "CHUNK"
    BY <1>2 DEF ChunkTransmuxed
<1>5. Fine(r, u, isSeeking)
    BY <1>1, <1>2 DEF AllFine
<1>6. Fine(q, u, isSeeking) /\ q.at = "ready" /\ r.at = "ready"
    BY <1>2, <1>3, <1>5, TransmuxedFine
<1>. QED
    BY <1>1, <1>2, <1>6, OneWorks

LEMMA SeekAnsweredKeeps ==
    ASSUME IInv, NEW s \in Streams, SeekAnswered(s), "early" \notin upset'
    PROVE  IInv'
<1>1. /\ AllFine /\ upset' = upset /\ begun' = begun /\ player' = player
      /\ error' = error /\ state' = state
    BY DEF IInv, SeekAnswered, service, user
<1>2. PICK r, to, a, b, q, u :
          /\ r = stream[s] /\ to = Head(r.mail).to /\ a = Read(r, to - 1) /\ u = upset
          /\ b = Sought(a, Min({to, Chunks - 1})) /\ q = ScheduleNextChunk(b)
    OBVIOUS
<1>3. r.mail # <<>> /\ Head(r.mail).type = "SEEK"
    BY <1>2 DEF SeekAnswered
<1>4. Fine(r, u, isSeeking) /\ Typed(r)
    BY <1>1, <1>2 DEF AllFine, Fine, Sane
<1>5. CASE Head(r.mail).gen # r.gen
    <2>1. stream' = [stream EXCEPT ![s] = a] /\ isSeeking' = isSeeking
        BY <1>2, <1>5 DEF SeekAnswered, Read
    <2>2. to - 1 \in Int
        BY <1>2, <1>3, <1>4, HeadFacts
    <2>3. Fine(a, u, isSeeking) /\ a.at = "ready" /\ r.at = "ready"
        BY <1>2, <1>3, <1>4, <2>2, SeekDroppedFine
    <2>. QED
        BY <1>1, <1>2, <2>1, <2>3, OneWorks
<1>6. CASE Head(r.mail).gen = r.gen
    <2>1. stream' = [stream EXCEPT ![s] = q] /\ isSeeking' = FALSE
        BY <1>2, <1>6 DEF SeekAnswered, Read, Sought
    <2>2. Fine(q, u, FALSE) /\ q.at = "ready" /\ r.at = "ready"
        BY <1>2, <1>3, <1>4, <1>6, SeekDoneFine
    <2>3. Fine(q, upset', isSeeking')
        BY <1>1, <1>2, <2>1, <2>2
    <2>. QED
        BY <1>1, <1>2, <2>1, <2>2, <2>3, OneWorks
<1>. QED
    BY <1>5, <1>6

LEMMA UpdateEndsKeeps ==
    ASSUME IInv, NEW s \in Streams, UpdateEnds(s), "early" \notin upset'
    PROVE  IInv'
<1>1. /\ AllFine /\ upset \subseteq upset' /\ begun' = begun /\ player' = player
      /\ state' = state /\ isSeeking' = isSeeking
      /\ "overlap" \in upset' <=> "overlap" \in upset
    BY DEF IInv, UpdateEnds, user
<1>. DEFINE x == Released(Updated(stream[s], isSeeking))
<1>2. PICK r, a, u, v : /\ r = stream[s] /\ a = x /\ a = Released(Updated(r, isSeeking))
                        /\ u = upset /\ v = upset'
    OBVIOUS
<1>3. r.op # Idle
    BY <1>2 DEF UpdateEnds
<1>4. PICK first :
          /\ first \in Waiting(a) \/ first = 0
          /\ stream' = [stream EXCEPT ![s] =
                 Drops(IF first = 0 THEN a ELSE Appends(a, first), Waiting(a) \ {first})]
          /\ error' = IF \E i \in Waiting(a) \ {first} : a.tasks[i].gen = a.gen
                      THEN "busy" ELSE error
          /\ upset' = upset \cup (IF \E i \in Waiting(a) \ {first} : a.tasks[i].gen = a.gen
                                  THEN {"failed"} ELSE {})
    <2>1. PICK first \in IF x.op = Idle /\ Waiting(x) # {} THEN Waiting(x) ELSE {0} :
          /\ stream' = [stream EXCEPT ![s] =
                 Drops(IF first = 0 THEN x ELSE Appends(x, first), Waiting(x) \ {first})]
          /\ error' = IF \E i \in Waiting(x) \ {first} : x.tasks[i].gen = x.gen
                      THEN "busy" ELSE error
          /\ upset' = upset \cup (IF \E i \in Waiting(x) \ {first} : x.tasks[i].gen = x.gen
                                  THEN {"failed"} ELSE {})
        BY DEF UpdateEnds
    <2>. HIDE DEF x
    <2>2. first \in Waiting(x) \/ first = 0
        BY <2>1
    <2>. QED
        BY <1>2, <2>1, <2>2
<1>. HIDE DEF x
<1>5. PICK lost, q : /\ lost = Waiting(a) \ {first}
                     /\ q = Drops(IF first = 0 THEN a ELSE Appends(a, first), lost)
    OBVIOUS
<1>6. Fine(r, u, isSeeking)
    BY <1>1, <1>2 DEF AllFine
<1>7. u \subseteq v /\ ((\E i \in lost : a.tasks[i].gen = a.gen) => "failed" \in v)
    BY <1>1, <1>2, <1>4, <1>5
<1>8. /\ Fine(q, v, isSeeking) /\ q.at = "ready" /\ r.at = "ready"
      /\ "late" \notin u => lost = {}
    <2>1. a = Released(Updated(r, isSeeking)) /\ Yields(q, a, lost)
        BY <1>2, <1>4, <1>5 DEF Yields
    <2>. QED
        BY <1>3, <1>6, <1>7, <2>1, UpdateEndsFine
<1>9. stream' = [stream EXCEPT ![s] = q]
    BY <1>4, <1>5
<1>10. error' = "busy" => error = "busy" \/ "late" \in upset'
    BY <1>1, <1>2, <1>4, <1>5, <1>8
<1>. QED
    BY <1>1, <1>2, <1>8, <1>9, <1>10, OneWorks

LEMMA RoomFoundKeeps ==
    ASSUME IInv, NEW s \in Streams, NEW i, RoomFound(s, i), "early" \notin upset'
    PROVE  IInv'
<1>1. /\ AllFine /\ upset' = upset /\ begun' = begun /\ player' = player
      /\ error' = error /\ state' = state /\ isSeeking' = isSeeking
    BY DEF IInv, RoomFound, service, user
<1>2. PICK r, q, u : /\ r = stream[s] /\ u = upset
                     /\ q = IF Played(r) = {} THEN Appends(r, i) ELSE MakesRoom(r, i)
    OBVIOUS
<1>3. i \in DOMAIN r.tasks /\ r.tasks[i].at \in {"full", "room"} /\ r.op = Idle
    BY <1>2 DEF RoomFound
<1>4. stream' = [stream EXCEPT ![s] = q]
    BY <1>2 DEF RoomFound
<1>5. Fine(r, u, isSeeking)
    BY <1>1, <1>2 DEF AllFine
<1>6. Fine(q, u, isSeeking) /\ q.at = "ready" /\ r.at = "ready"
    BY <1>2, <1>3, <1>5, RoomFoundFine
<1>. QED
    BY <1>1, <1>2, <1>4, <1>6, OneWorks

LEMMA EvictStaleKeeps ==
    ASSUME IInv, NEW s \in Streams, NEW i, EvictStaleRanges(s, i), "early" \notin upset'
    PROVE  IInv'
<1>1. /\ AllFine /\ upset' = upset /\ begun' = begun /\ player' = player
      /\ error' = error /\ state' = state /\ isSeeking' = isSeeking
    BY DEF IInv, EvictStaleRanges, service, user
<1>2. PICK r, u, o : r = stream[s] /\ u = upset /\ o = [by |-> "evict", gen |-> r.gen]
    OBVIOUS
<1>3. Turn(r, i) /\ r.tasks[i].kind = "evict" /\ r.tasks[i].at = "queue"
    BY <1>2 DEF EvictStaleRanges
<1>4. PICK q : /\ stream' = [stream EXCEPT ![s] = q]
               /\ \/ r.op = Idle /\ q = Begun(r, i, o)
                  \/ q = Drops(r, {i})
    BY <1>2 DEF EvictStaleRanges, MayRemove, Begun
<1>5. Fine(r, u, isSeeking)
    BY <1>1, <1>2 DEF AllFine
<1>6. Fine(q, u, isSeeking) /\ q.at = "ready" /\ r.at = "ready"
    BY <1>2, <1>3, <1>4, <1>5, EvictStaleFine
<1>. QED
    BY <1>1, <1>2, <1>4, <1>6, OneWorks

LEMMA LoadFailsKeeps ==
    ASSUME IInv, NEW s \in Streams, NEW i, LoadFails(s, i), "early" \notin upset'
    PROVE  IInv'
<1>1. /\ AllFine /\ upset' = upset \cup {"failed"} /\ begun' = begun /\ player' = player
      /\ error' = "failed" /\ state' = state /\ isSeeking' = isSeeking
    BY DEF IInv, LoadFails, user
<1>2. PICK r, q, u, v : r = stream[s] /\ q = Drops(r, {i}) /\ u = upset /\ v = upset'
    OBVIOUS
<1>3. Turn(r, i) /\ r.tasks[i].at = "queue" /\ u \subseteq v /\ "failed" \in v
    BY <1>1, <1>2 DEF LoadFails
<1>4. stream' = [stream EXCEPT ![s] = q]
    BY <1>2 DEF LoadFails
<1>5. Fine(r, u, isSeeking)
    BY <1>1, <1>2 DEF AllFine
<1>6. Fine(q, v, isSeeking) /\ q.at = "ready" /\ r.at = "ready"
    BY <1>2, <1>3, <1>5, LoadFailsFine
<1>. QED
    BY <1>1, <1>2, <1>4, <1>6, OneWorks

LEMMA PlaysKeeps ==
    ASSUME IInv, NEW s \in Streams, Plays(s), "early" \notin upset'
    PROVE  IInv'
<1>1. /\ AllFine /\ upset' = upset /\ begun' = begun /\ player' = player
      /\ error' = error /\ state' = state /\ isSeeking' = isSeeking
    BY DEF IInv, Plays, service
<1>2. PICK r, a, q, u : /\ r = stream[s] /\ a = [r EXCEPT !.playhead = @ + 1]
                        /\ q = Ticks(a, isSeeking) /\ u = upset
    OBVIOUS
<1>3. r.at = "ready" /\ r.playhead \in r.buffered
    BY <1>2 DEF Plays, Attached
<1>4. stream' = [stream EXCEPT ![s] = q]
    BY <1>2 DEF Plays
<1>5. Fine(r, u, isSeeking)
    BY <1>1, <1>2 DEF AllFine
<1>6. Fine(q, u, isSeeking) /\ q.at = "ready"
    BY <1>2, <1>3, <1>5, PlaysFine
<1>. QED
    BY <1>1, <1>2, <1>3, <1>4, <1>6, OneWorks

LEMMA TimeUpdateKeeps ==
    ASSUME IInv, NEW s \in Streams, TimeUpdate(s), "early" \notin upset'
    PROVE  IInv'
<1>1. /\ AllFine /\ upset' = upset /\ begun' = begun /\ player' = player
      /\ error' = error /\ state' = state /\ isSeeking' = isSeeking
    BY DEF IInv, TimeUpdate, service, user
<1>2. PICK r, q, u : r = stream[s] /\ q = Ticks(r, isSeeking) /\ u = upset
    OBVIOUS
<1>3. r.at = "ready"
    BY <1>2 DEF TimeUpdate, Attached
<1>4. stream' = [stream EXCEPT ![s] = q]
    BY <1>2 DEF TimeUpdate
<1>5. Fine(r, u, isSeeking)
    BY <1>1, <1>2 DEF AllFine
<1>6. Fine(q, u, isSeeking) /\ q.at = "ready"
    BY <1>2, <1>3, <1>5, TimeUpdateFine
<1>. QED
    BY <1>1, <1>2, <1>3, <1>4, <1>6, OneWorks

LEMMA SeekToKeeps ==
    ASSUME IInv, NEW s \in Streams, NEW t \in Times, SeekTo(s, t), "early" \notin upset'
    PROVE  IInv'
<1>1. /\ AllFine /\ upset' = upset /\ begun' = begun /\ player' = player
      /\ error' = error /\ state' = state /\ isSeeking' = TRUE
    BY DEF IInv, SeekTo
<1>2. PICK r, q, u : r = stream[s] /\ q = Resumed(r, t) /\ u = upset
    OBVIOUS
<1>3. r.at = "ready"
    BY <1>2 DEF SeekTo, Attached
<1>4. stream' = [stream EXCEPT ![s] = q]
    BY <1>1, <1>2 DEF SeekTo, Resumed, AllFine
<1>5. Fine(r, u, isSeeking)
    BY <1>1, <1>2 DEF AllFine
<1>6. Fine(q, u, TRUE) /\ q.at = "ready"
    BY <1>2, <1>3, <1>5, SeekToFine
<1>7. Fine(q, upset', isSeeking')
    BY <1>1, <1>2, <1>6
<1>. QED
    BY <1>1, <1>2, <1>3, <1>4, <1>6, <1>7, OneWorks

LEMMA SeekedKeeps ==
    ASSUME IInv, NEW s \in Streams, Seeked(s), "early" \notin upset'
    PROVE  IInv'
<1>1. /\ AllFine /\ begun' = begun /\ player' = player
      /\ error' = error /\ state' = state /\ isSeeking' = FALSE
      /\ upset' = upset \cup Early(stream[s])
    BY DEF IInv, Seeked, user
<1>2. PICK r, u : r = stream[s] /\ u = upset
    OBVIOUS
<1>3. r.at = "ready"
    BY <1>2 DEF Seeked, Attached
<1>4. r.clear.at = "no" /\ upset' = upset
    BY <1>1, <1>2 DEF Early
<1>5. stream' = [stream EXCEPT ![s] = r]
    BY <1>1, <1>2 DEF Seeked, AllFine
<1>6. Fine(r, u, isSeeking) /\ Sane(r, u, isSeeking)
    BY <1>1, <1>2 DEF AllFine, Fine
<1>7. Fine(r, u, FALSE)
    BY <1>4, <1>6, SaneLater
<1>8. Fine(r, upset', isSeeking')
    BY <1>1, <1>2, <1>4, <1>7
<1>. QED
    BY <1>1, <1>2, <1>3, <1>4, <1>5, <1>8, OneWorks

LEMMA SeekWithinKeeps ==
    ASSUME IInv, NEW s \in Streams, SeekWithin(s), "early" \notin upset'
    PROVE  IInv'
<1>1. /\ AllFine /\ begun' = begun /\ player' = player
      /\ error' = error /\ state' = state /\ isSeeking' = FALSE
    BY DEF IInv, SeekWithin, user
<1>2. PICK r, a, q, u, v : /\ r = stream[s] /\ a = Untimed(r)
                           /\ q = Ticks(a, FALSE) /\ u = upset /\ v = upset'
    OBVIOUS
<1>3. /\ r.timer
      /\ upset' = upset \cup (IF WillCome(a) /\ ~ EvictsAhead(a) THEN {} ELSE {"gap"})
                       \cup Early(a)
      /\ stream' = [stream EXCEPT ![s] = q]
    BY <1>2 DEF SeekWithin, Untimed
<1>4. /\ u \subseteq v /\ "overlap" \in upset' <=> "overlap" \in upset
      /\ Noted(a, v)
      /\ a.clear.at = "no"
    BY <1>2, <1>3 DEF Early, Noted
<1>5. Fine(r, u, isSeeking)
    BY <1>1, <1>2 DEF AllFine
<1>6. r.clear.at = "no"
    BY <1>2, <1>4, <1>5 DEF Fine, Sane, Typed, Whole, Untimed
<1>7. Fine(q, v, FALSE) /\ q.at = "ready" /\ r.at = "ready"
    <2>1. /\ r.timer /\ u \subseteq v /\ r.clear.at = "no" /\ Noted(a, v)
          /\ a = Untimed(r) /\ Stays(q, r)
        BY <1>2, <1>3, <1>4, <1>6 DEF Stays
    <2>. QED
        BY <1>5, <2>1, SeekWithinFine
<1>8. Fine(q, upset', isSeeking')
    BY <1>1, <1>2, <1>7
<1>. QED
    BY <1>1, <1>2, <1>3, <1>4, <1>7, <1>8, OneWorks

LEMMA SeekOutKeeps ==
    ASSUME IInv, NEW s \in Streams, SeekOut(s), "early" \notin upset'
    PROVE  IInv'
<1>1. /\ AllFine /\ begun' = begun /\ player' = player
      /\ error' = error /\ state' = state /\ isSeeking' = TRUE
    BY DEF IInv, SeekOut, user
<1>. DEFINE x == stream[s]
            ka == {i \in DOMAIN x.tasks : GoesOn(x.tasks[i])}
            ta == Min({x.playhead, Chunks - 1})
            na == NewGeneration(x, ka, ta)
<1>2. /\ x.timer
      /\ stream' = [stream EXCEPT ![s] = IF x.op = Idle THEN RemovesBehind(na) ELSE na]
      /\ upset' = upset \cup (IF \E i \in DOMAIN x.tasks : GoesOn(x.tasks[i])
                              THEN {"late"} ELSE {})
    BY DEF SeekOut, NewGeneration
<1>3. /\ ka \subseteq DOMAIN x.tasks
      /\ \A i \in DOMAIN x.tasks : i \in ka <=> GoesOn(x.tasks[i])
      /\ ka # {} => "late" \in upset'
    BY <1>2
<1>4. PICK r, q, u, v :
          /\ r = stream[s] /\ u = upset /\ v = upset'
          /\ q = IF x.op = Idle THEN RemovesBehind(na) ELSE na
    OBVIOUS
<1>5. Leaves(q, r, v)
    <2>. HIDE DEF ka, ta
    <2>1. /\ ta = Min({r.playhead, Chunks - 1}) /\ ka \in SUBSET DOMAIN r.tasks
          /\ \A i \in DOMAIN r.tasks : i \in ka <=> GoesOn(r.tasks[i])
          /\ ka # {} => "late" \in v
        BY <1>3, <1>4 DEF ta
    <2>2. PICK a : a = NewGeneration(r, ka, ta)
        OBVIOUS
    <2>3. q = IF r.op = Idle THEN RemovesBehind(a) ELSE a
        BY <1>4, <2>2
    <2>. QED
        BY <2>1, <2>2, <2>3 DEF Leaves
<1>. HIDE DEF ka, ta
<1>6. /\ u \subseteq v /\ r.timer
      /\ stream' = [stream EXCEPT ![s] = q]
      /\ "overlap" \in upset' <=> "overlap" \in upset
    BY <1>2, <1>4
<1>7. Fine(r, u, isSeeking)
    BY <1>1, <1>4 DEF AllFine
<1>8. Fine(q, v, TRUE) /\ q.at = "ready" /\ r.at = "ready"
    BY <1>5, <1>6, <1>7, SeekOutFine
<1>9. Fine(q, upset', isSeeking')
    BY <1>1, <1>4, <1>8
<1>. QED
    BY <1>1, <1>4, <1>6, <1>8, <1>9, OneWorks

\* A stream that has not begun, is about to, or has ended.
Made(w, p, from) == [Fresh EXCEPT !.at = w, !.for = p, !.from = from]

\* They have nothing.
LEMMA FreshTyped ==
    ASSUME NEW w, w # "ready", NEW p, NEW from \in Times, NEW q, q = Made(w, p, from)
    PROVE  Typed(q) /\ Quiet(q) /\ q.at = w
<1>1. /\ Whole(q) /\ q.tasks = <<>> /\ q.mail = <<>> /\ q.clear = NoClear /\ q.op = Idle
      /\ q.timer = FALSE /\ q.gen = 0 /\ q.fed = -1 /\ q.playhead = 0 /\ q.at = w
      /\ q.next = 0 /\ q.buffered = {} /\ q.from = from
    BY DEF Fresh, Whole, Made
<1>2. 0 \in Times /\ NoClear \in Clearing /\ Idle \in Update /\ -1 \in Int
    BY Numbers DEF Times, NoClear, Clearing, Idle, Update
<1>3. <<>> \in Seq(Task) /\ <<>> \in Seq(Message)
    <2>. HIDE DEF Task, Message
    <2>. QED
        OBVIOUS
<1>. QED
    BY <1>1, <1>2, <1>3 DEF Typed, Quiet

\* A stream that has ended.
LEMMA EndTyped ==
    ASSUME NEW w, w # "ready", NEW q, q = [Fresh EXCEPT !.at = w]
    PROVE  Typed(q) /\ Quiet(q) /\ q.at = w
<1>1. PICK p, from : p = NoStream /\ from = 0
    OBVIOUS
<1>2. q = Made(w, p, from)
    <2>1. PICK z : z = Fresh
        OBVIOUS
    <2>2. Whole(z) /\ z.for = p /\ z.from = from
        BY <1>1, <2>1 DEF Fresh, Whole
    <2>3. [z EXCEPT !.at = w] = [z EXCEPT !.at = w, !.for = p, !.from = from]
        BY <2>2 DEF Whole
    <2>. QED
        BY <2>1, <2>3 DEF Made
<1>3. from \in Times
    BY <1>1, Numbers DEF Times
<1>. QED
    BY <1>2, <1>3, FreshTyped

\* What is left when the service ends its stream: one that has no source yet.
LEMMA DestroyedFacts ==
    ASSUME AllFine
    PROVE  /\ Destroyed = [t \in Streams |-> Destroyed[t]]
           /\ \A t \in Streams :
                /\ Typed(Destroyed[t]) /\ Quiet(Destroyed[t]) /\ Destroyed[t].at # "ready"
                /\ Live(Destroyed[t]) =>
                      /\ Live(stream[t]) /\ stream[t].at \in {"header", "open"}
                      /\ state = NoStream /\ Destroyed[t] = stream[t]
<1>1. stream = [t \in Streams |-> stream[t]] /\ \A t \in Streams : NoStream # t
    BY DEF AllFine, Streams, NoStream
<1>2. \A t \in Streams : Typed(stream[t]) /\ Quiet(stream[t])
    BY DEF AllFine, Fine, Sane
<1>3. \A t \in Streams : Live(stream[t]) =>
          state = IF stream[t].at \in {"header", "open"} THEN NoStream ELSE t
    BY DEF AllFine, Sole
<1>4. CASE state = NoStream
    <2>1. Destroyed = stream
        BY <1>4 DEF Destroyed
    <2>2. ASSUME NEW t \in Streams
          PROVE  stream[t].at # "ready" /\ (Live(stream[t]) => stream[t].at \in {"header", "open"})
        BY <1>1, <1>3, <1>4 DEF Live
    <2>. QED
        BY <1>1, <1>2, <1>4, <2>1, <2>2
<1>5. CASE state # NoStream
    <2>1. PICK q : q = [Fresh EXCEPT !.at = "gone"]
        OBVIOUS
    <2>2. Typed(q) /\ Quiet(q) /\ q.at = "gone"
        BY <2>1, EndTyped
    <2>3. Destroyed = [stream EXCEPT ![state] = q]
        BY <1>5, <2>1 DEF Destroyed
    <2>4. /\ Destroyed = [t \in Streams |-> Destroyed[t]]
          /\ \A t \in Streams : Destroyed[t] = IF t = state THEN q ELSE stream[t]
        BY <1>1, <2>3
    <2>5. ASSUME NEW t \in Streams, t # state PROVE ~ Live(stream[t]) /\ stream[t].at # "ready"
        BY <1>3, <1>5, <2>5 DEF Live
    <2>. QED
        BY <1>2, <2>2, <2>4, <2>5 DEF Live
<1>. QED
    BY <1>4, <1>5

\* From streams none of which plays.
LEMMA NonePlays ==
    ASSUME stream' = [t \in Streams |-> stream'[t]], begun' \in 0..MaxStreams,
           state' \in Streams \cup {NoStream}, Sole', error' # "busy" \/ "late" \in upset',
           \A t \in Streams : Typed(stream'[t]) /\ Quiet(stream'[t]) /\ stream'[t].at # "ready"
    PROVE  IInv'
<1>1. ASSUME NEW t \in Streams PROVE Fine(stream'[t], upset', isSeeking')
    <2>1. PICK r, u : r = stream'[t] /\ u = upset'
        OBVIOUS
    <2>2. Typed(r) /\ Quiet(r) /\ r.at # "ready"
        BY <2>1
    <2>3. Fine(r, u, isSeeking')
        BY <2>2, QuietIsFine
    <2>. QED
        BY <2>1, <2>3
<1>. QED
    BY <1>1 DEF IInv, AllFine

\* A stream begins: from then on the one before it has ended.
LEMMA BeginsKeeps ==
    ASSUME AllFine, NEW p, NEW from \in Times, Begins(p, from), "early" \notin upset',
           \A t \in Streams : ~ Live(Destroyed[t]), ~ AbortShows,
           "overlap" \notin upset' => player' # NoStream
    PROVE  IInv'
<1>1. /\ begun < MaxStreams /\ begun' = begun + 1 /\ state' = NoStream
    BY DEF Begins
<1>2. begun' \in Streams /\ begun' \in 0..MaxStreams /\ state' \in Streams \cup {NoStream}
    BY <1>1, Numbers DEF AllFine, Streams
<1>3. PICK q, w : w = "header" /\ q = Made(w, p, from)
    OBVIOUS
<1>4. Typed(q) /\ Quiet(q) /\ q.at = "header"
    BY <1>3, FreshTyped
<1>5. /\ \/ stream' = [Destroyed EXCEPT ![begun'] = q] /\ error' = "no"
         \/ stream' = Destroyed /\ error' = "locked"
    BY <1>3 DEF Begins, Made
<1>6. /\ Destroyed = [t \in Streams |-> Destroyed[t]]
      /\ \A t \in Streams : Typed(Destroyed[t]) /\ Quiet(Destroyed[t]) /\ Destroyed[t].at # "ready"
    BY DestroyedFacts
<1>7. /\ stream' = [t \in Streams |-> stream'[t]]
      /\ \A t \in Streams : \/ stream'[t] = Destroyed[t]
                            \/ t = begun' /\ stream'[t] = q /\ error' = "no"
    <2>. DEFINE D == Destroyed
    <2>1. \/ stream' = [D EXCEPT ![begun'] = q] /\ error' = "no"
          \/ stream' = D
        BY <1>5
    <2>2. D = [t \in Streams |-> D[t]]
        BY <1>6
    <2>. HIDE DEF D
    <2>3. /\ stream' = [t \in Streams |-> stream'[t]]
          /\ \A t \in Streams : \/ stream'[t] = D[t]
                                \/ t = begun' /\ stream'[t] = q /\ error' = "no"
        BY <2>1, <2>2
    <2>. QED
        BY <2>3 DEF D
<1>8. \A t \in Streams : Typed(stream'[t]) /\ Quiet(stream'[t]) /\ stream'[t].at # "ready"
    BY <1>4, <1>6, <1>7
<1>9. Sole'
    BY <1>1, <1>4, <1>7 DEF Sole
<1>10. error' # "busy"
    BY <1>5
<1>. QED
    BY <1>2, <1>7, <1>8, <1>9, <1>10, NonePlays

LEMMA OpenKeeps ==
    ASSUME IInv, MayAct, Open, "early" \notin upset'
    PROVE  IInv'
<1>1. AllFine /\ player = NoStream /\ Begins(begun + 1, 0) /\ player' = begun + 1
      /\ "overlap" \notin upset
    BY DEF IInv, Open, MayAct, Begins, Overlaps
<1>2. \A t \in Streams : ~ Live(stream[t])
    BY <1>1 DEF AllFine, Sole
<1>3. \A t \in Streams : ~ Live(Destroyed[t])
    BY <1>1, <1>2, DestroyedFacts
<1>4. ~ AbortShows
    BY <1>1, <1>2 DEF AbortShows, AllFine, Fetching, Live
<1>5. player' # NoStream
    BY <1>1, Numbers DEF AllFine, NoStream
<1>6. 0 \in Times
    BY Numbers DEF Times
<1>7. PICK p, from : p = begun + 1 /\ from = 0
    OBVIOUS
<1>. QED
    BY <1>1, <1>3, <1>4, <1>5, <1>6, <1>7, BeginsKeeps

LEMMA RetryKeeps ==
    ASSUME IInv, MayAct, RetryPlayback, "early" \notin upset'
    PROVE  IInv'
<1>1. AllFine /\ player # NoStream /\ error # "no" /\ Begins(player, 0) /\ player' = player
      /\ "overlap" \notin upset
    BY DEF IInv, RetryPlayback, MayAct, Begins, Overlaps
<1>2. \A t \in Streams : Live(stream[t]) => stream[t].at = "ready"
    BY <1>1 DEF AllFine, Sole
<1>3. \A t \in Streams : ~ Live(Destroyed[t])
    BY <1>1, <1>2, DestroyedFacts
<1>4. ~ AbortShows
    BY <1>1, <1>2 DEF AbortShows, AllFine, Fetching, Live
<1>6. 0 \in Times
    BY Numbers DEF Times
<1>7. PICK p, from : p = player /\ from = 0
    OBVIOUS
<1>. QED
    BY <1>1, <1>3, <1>4, <1>6, <1>7, BeginsKeeps

LEMMA AppendFailsKeeps ==
    ASSUME IInv, NEW s \in Streams, AppendFails(s), "early" \notin upset'
    PROVE  IInv'
<1>1. AllFine /\ s = state /\ player' = player /\ upset \subseteq upset'
      /\ Begins(player, Min({stream[s].playhead + 1, Chunks})) /\ stream[s].op.by = "load"
    BY DEF IInv, AppendFails, Begins, Overlaps
<1>2. Typed(stream[s]) /\ Quiet(stream[s])
    BY <1>1 DEF AllFine, Fine, Sane
<1>3. stream[s].at = "ready"
    BY <1>1, <1>2 DEF Quiet, Idle
<1>4. state # NoStream
    BY <1>1 DEF Streams, NoStream
<1>5. \A t \in Streams : ~ Live(Destroyed[t])
    BY <1>1, <1>4, DestroyedFacts
<1>6. ~ AbortShows
    BY <1>1, <1>3 DEF AbortShows, Fetching
<1>7. "overlap" \notin upset' => player' # NoStream
    BY <1>1, <1>3 DEF AllFine, Sole, Live
<1>8. PICK p, from : p = player /\ from = Min({stream[s].playhead + 1, Chunks})
    OBVIOUS
<1>9. from \in Times
    <2>1. stream[s].playhead \in Nat /\ Chunks \in Nat
        BY <1>2, Numbers DEF Typed, Times
    <2>2. from = IF stream[s].playhead + 1 <= Chunks THEN stream[s].playhead + 1 ELSE Chunks
        BY <1>8, <2>1, LeastOfTwo
    <2>. QED
        BY <2>1, <2>2 DEF Times
<1>10. Begins(p, from)
    BY <1>1, <1>8
<1>. QED
    BY <1>1, <1>5, <1>6, <1>7, <1>9, <1>10, BeginsKeeps

LEMMA DestroyKeeps ==
    ASSUME IInv, DestroyStream, "early" \notin upset'
    PROVE  IInv'
<1>1. /\ AllFine /\ stream' = Destroyed /\ state' = NoStream /\ begun' = begun
      /\ error' = "aborted" \/ error' = error
      /\ upset \subseteq upset'
      /\ (\E t \in Streams \ {state} : Live(stream[t])) => "overlap" \in upset'
    BY DEF IInv, DestroyStream, Overlaps
<1>2. /\ stream' = [t \in Streams |-> stream'[t]]
      /\ \A t \in Streams :
           /\ Typed(stream'[t]) /\ Quiet(stream'[t]) /\ stream'[t].at # "ready"
           /\ Live(stream'[t]) =>
                 /\ Live(stream[t]) /\ stream[t].at \in {"header", "open"}
                 /\ state = NoStream /\ stream'[t] = stream[t]
    BY <1>1, DestroyedFacts
<1>3. \A t \in Streams : NoStream # t
    BY DEF Streams, NoStream
<1>4. Sole'
    BY <1>1, <1>2, <1>3 DEF AllFine, Sole
<1>5. begun' \in 0..MaxStreams /\ (error' # "busy" \/ "late" \in upset')
      /\ state' \in Streams \cup {NoStream}
    BY <1>1 DEF AllFine
<1>. QED
    BY <1>2, <1>4, <1>5, NonePlays

LEMMA InitializeFailsKeeps ==
    ASSUME IInv, NEW s \in Streams, InitializeFails(s), "early" \notin upset'
    PROVE  IInv'
<1>1. /\ AllFine /\ begun' = begun /\ state' = state /\ error' = "failed"
      /\ Live(stream[s])
    BY DEF IInv, InitializeFails, user, Live
<1>2. PICK q : q = [Fresh EXCEPT !.at = "failed"]
    OBVIOUS
<1>3. Typed(q) /\ Quiet(q) /\ q.at = "failed"
    BY <1>2, EndTyped
<1>4. stream' = [t \in Streams |->
                    IF t = s THEN q
                    ELSE IF t = state THEN [stream[t] EXCEPT !.workers = FALSE]
                    ELSE stream[t]]
    BY <1>2 DEF InitializeFails
<1>5. ASSUME NEW t \in Streams, t # s
      PROVE  /\ Typed(stream'[t]) /\ Quiet(stream'[t]) /\ stream'[t].at # "ready"
             /\ ~ Live(stream'[t])
    <2>1. ~ Live(stream[t]) /\ Typed(stream[t]) /\ Quiet(stream[t])
        BY <1>1, <1>5 DEF AllFine, Sole, Fine, Sane
    <2>2. PICK r, z : r = stream[t] /\ z = [r EXCEPT !.workers = FALSE]
        OBVIOUS
    <2>3. stream'[t] = z \/ stream'[t] = r
        BY <1>4, <1>5, <2>2
    <2>4. /\ Whole(z) /\ z.tasks = r.tasks /\ z.op = r.op /\ z.at = r.at /\ z.clear = r.clear
          /\ z.gen = r.gen /\ z.mail = r.mail /\ z.next = r.next /\ z.fed = r.fed
          /\ z.playhead = r.playhead /\ z.timer = r.timer /\ z.buffered = r.buffered
          /\ z.from = r.from
        BY <2>1, <2>2 DEF Typed, Whole
    <2>5. Typed(z) /\ Quiet(z)
        BY <2>1, <2>2, <2>4 DEF Typed, Quiet
    <2>. QED
        BY <2>1, <2>2, <2>3, <2>4, <2>5 DEF Live
<1>6. stream'[s] = q /\ stream' = [t \in Streams |-> stream'[t]]
    BY <1>4
<1>7. Sole'
    BY <1>3, <1>5, <1>6 DEF Sole, Live
<1>8. \A t \in Streams : Typed(stream'[t]) /\ Quiet(stream'[t]) /\ stream'[t].at # "ready"
    BY <1>3, <1>5, <1>6
<1>9. begun' \in 0..MaxStreams /\ state' \in Streams \cup {NoStream}
    BY <1>1 DEF AllFine
<1>. QED
    BY <1>1, <1>6, <1>7, <1>8, <1>9, NonePlays

\* The invariant holds at first.
LEMMA InitFine ==
    ASSUME Init PROVE IInv
<1>1. PICK q, w : q = Fresh /\ w = "no"
    OBVIOUS
<1>2. q = [Fresh EXCEPT !.at = w] /\ q.at = "no"
    <2>1. Whole(q) /\ q.at = w
        BY <1>1 DEF Fresh, Whole
    <2>2. q = [q EXCEPT !.at = w]
        BY <2>1 DEF Whole
    <2>. QED
        BY <1>1, <2>1, <2>2
<1>3. Typed(q) /\ Quiet(q)
    BY <1>1, <1>2, EndTyped
<1>4. stream = [s \in Streams |-> q] /\ error = "no" /\ begun = 0 /\ state = NoStream
    BY <1>1 DEF Init
<1>5. ASSUME NEW s \in Streams PROVE Fine(stream[s], upset, isSeeking)
    <2>1. PICK u : u = upset
        OBVIOUS
    <2>2. Fine(q, u, isSeeking)
        BY <1>2, <1>3, QuietIsFine
    <2>. QED
        BY <1>4, <2>1, <2>2
<1>6. Sole
    BY <1>2, <1>4 DEF Sole, Live
<1>. QED
    BY <1>4, <1>5, <1>6, Numbers DEF IInv, AllFine

\* So it does when nothing that it speaks of changes.
LEMMA NothingMoves ==
    ASSUME IInv, stream' = stream, state' = state, isSeeking' = isSeeking, error' = error,
           player' = player, begun' = begun, upset' = upset
    PROVE  IInv'
    BY DEF IInv, AllFine, Sole

\* Every step keeps it.
LEMMA NextKeeps ==
    ASSUME IInv, [Next]_vars PROVE IInv'
<1>. SUFFICES ASSUME "early" \notin upset' PROVE IInv'
    BY DEF IInv
<1>1. CASE MayAct /\ Acts
    <2>1. CASE Open
        BY <1>1, <2>1, OpenKeeps
    <2>2. CASE RetryPlayback
        BY <1>1, <2>2, RetryKeeps
    <2>3. CASE DestroyStream
        BY <2>3, DestroyKeeps
    <2>4. ASSUME NEW s \in Streams, TogglePlay(s) PROVE IInv'
        BY <2>4, NothingMoves DEF TogglePlay, service
    <2>5. ASSUME NEW s \in Streams, NEW t \in Times, SeekTo(s, t) PROVE IInv'
        BY <2>5, SeekToKeeps
    <2>. QED
        BY <1>1, <2>1, <2>2, <2>3, <2>4, <2>5 DEF Acts
<1>2. ASSUME NEW s \in Streams, Works(s) PROVE IInv'
    <2>1. CASE HeaderRead(s)
        BY <2>1, HeaderKeeps
    <2>2. CASE SourceOpened(s)
        BY <2>2, SourceKeeps
    <2>3. CASE FirstRead(s)
        BY <2>3, FirstKeeps
    <2>4. CASE LastRead(s)
        BY <2>4, LastKeeps
    <2>5. CASE Bootstrapped(s)
        BY <2>5, BootstrappedKeeps
    <2>6. CASE ChunkTransmuxed(s)
        BY <2>6, TransmuxedKeeps
    <2>7. CASE SeekAnswered(s)
        BY <2>7, SeekAnsweredKeeps
    <2>8. CASE UpdateEnds(s)
        BY <2>8, UpdateEndsKeeps
    <2>9. CASE SeekWithin(s)
        BY <2>9, SeekWithinKeeps
    <2>10. CASE SeekOut(s)
        BY <2>10, SeekOutKeeps
    <2>11. ASSUME NEW i, Decrypted(s, i) \/ RoomFound(s, i) \/ EvictStaleRanges(s, i)
           PROVE  IInv'
        BY <2>11, DecryptedKeeps, RoomFoundKeeps, EvictStaleKeeps
    <2>. QED
        BY <1>2, <2>1, <2>2, <2>3, <2>4, <2>5, <2>6, <2>7, <2>8, <2>9, <2>10, <2>11 DEF Works
<1>3. ASSUME NEW s \in Streams, Watches(s) PROVE IInv'
    <2>1. CASE FirstPlay(s)
        BY <2>1, NothingMoves DEF FirstPlay, service
    <2>2. CASE Plays(s)
        BY <2>2, PlaysKeeps
    <2>3. CASE TimeUpdate(s)
        BY <2>3, TimeUpdateKeeps
    <2>4. CASE Seeked(s)
        BY <2>4, SeekedKeeps
    <2>. QED
        BY <1>3, <2>1, <2>2, <2>3, <2>4 DEF Watches
<1>4. ASSUME NEW s \in Streams, Breaks(s) PROVE IInv'
    <2>1. CASE InitializeFails(s)
        BY <2>1, InitializeFailsKeeps
    <2>2. CASE AppendFails(s)
        BY <2>2, AppendFailsKeeps
    <2>3. ASSUME NEW i, LoadFails(s, i) PROVE IInv'
        BY <2>3, LoadFailsKeeps
    <2>. QED
        BY <1>4, <2>1, <2>2, <2>3 DEF Breaks
<1>5. CASE UNCHANGED vars
    BY <1>5, NothingMoves DEF vars, service, user
<1>. QED
    BY <1>1, <1>2, <1>3, <1>4, <1>5 DEF Next

\* The invariant holds throughout: until a seek within the buffer has ended one
\* out of it, one stream plays at a time, its tasks run one after another behind
\* the processLock, the update of the SourceBuffer has its owner, and, until a
\* load has failed, the loads in line are of consecutive chunks.
THEOREM StreamsFine == Spec => []IInv
<1>1. Init => IInv
    BY InitFine
<1>2. IInv /\ [Next]_vars => IInv'
    BY NextKeeps
<1>. QED
    BY <1>1, <1>2, PTL DEF Spec

\* NothingSkipped: what the video plays next is buffered, on its way, or yet to
\* be asked for by scheduleNextChunk, with any number of loads at a time, of
\* chunks per load, and of streams and seeks.
THEOREM ComesToPlay == Spec => []NothingSkipped
<1>1. IInv => NothingSkipped
    <2>. SUFFICES ASSUME IInv, NEW s \in Streams, stream[s].at = "ready", ~ stream[s].timer,
                         stream[s].clear.at = "no",
                         upset \cap {"failed", "gap", "early", "overlap"} = {}
         PROVE  WillCome(stream[s])
        BY DEF NothingSkipped
    <2>1. Typed(stream[s]) /\ Coming(stream[s])
        BY DEF IInv, AllFine, Fine, Sane
    <2>2. PICK r : r = stream[s]
        OBVIOUS
    <2>3. \A c \in r.playhead..(r.next - 1) :
              \/ c \in r.buffered
              \/ \E i \in DOMAIN r.tasks : Load(r, i) /\ c \in r.tasks[i].todo..r.tasks[i].last
        BY <2>1, <2>2 DEF Coming
    <2>. QED
        BY <2>1, <2>2, <2>3, CoveredWillCome
<1>. QED
    BY <1>1, StreamsFine, PTL

\* BufferNotBusy: while no seek has met an append, no update of the SourceBuffer
\* begins before the one that is at work has ended: appendRaw and removeRange
\* find it idle, or wait for it.
THEOREM UpdatesOneByOne == Spec => []BufferNotBusy
<1>1. IInv => BufferNotBusy
    BY DEF IInv, AllFine, BufferNotBusy
<1>. QED
    BY <1>1, StreamsFine, PTL

-----------------------------------------------------------------------------
(***************************************************************************)
(* The mail of a stream while a seek is prepared. The functions on streams *)
(* leave it as it is, but that a seek may be added at its end.             *)
(***************************************************************************)
\* Of the chunks that the transmuxer has still to read, there is only the one
\* that comes next, before all seeks.
Held(r) ==
    r.at = "ready" /\ r.clear.at # "no" =>
       \A k \in DOMAIN r.mail : r.mail[k].type = "CHUNK" => k = 1 /\ r.mail[k].to = r.fed + 1

\* What of the type of a stream this needs.
Lettered(r) ==
    Whole(r) /\ r.mail \in Seq(Message) /\ r.clear \in Clearing /\ r.gen \in Nat

\* From r to q, no chunk is added to the mail, none is moved or read, and no
\* seek begins.
Posted(q, r) ==
    /\ Lettered(q) /\ q.at = r.at /\ q.fed = r.fed
    /\ q.clear.at # "no" => r.clear.at # "no"
    /\ \A k \in DOMAIN q.mail : q.mail[k].type = "CHUNK" =>
          k \in DOMAIN r.mail /\ q.mail[k] = r.mail[k]

\* Nothing of this changes.
LEMMA PostedSame ==
    ASSUME NEW r, Lettered(r), NEW q, Whole(q), q.at = r.at, q.fed = r.fed, q.mail = r.mail,
           q.gen = r.gen, q.clear \in Clearing, q.clear.at # "no" => r.clear.at # "no"
    PROVE  Posted(q, r)
    BY DEF Posted, Lettered

\* One such change after another.
LEMMA PostedTwice ==
    ASSUME NEW r, NEW p, NEW q, Posted(p, r), Posted(q, p)
    PROVE  Posted(q, r)
    BY DEF Posted

\* The fields that loads and evictions leave alone are enough.
LEMMA PostedAlike ==
    ASSUME NEW r, Lettered(r), NEW q, Whole(q), Alike(q, r)
    PROVE  Posted(q, r)
    BY PostedSame DEF Alike, Lettered

\* The functions that leave it alone altogether.
LEMMA PostedSimple ==
    ASSUME NEW r, Lettered(r)
    PROVE  /\ \A gone : Posted(Drops(r, gone), r)
           /\ Posted(ScheduleNextChunk(r), r) /\ Posted(Evicts(r), r)
           /\ \A i : Posted(Appends(r, i), r) /\ Posted(MakesRoom(r, i), r)
<1>1. ASSUME NEW gone PROVE Posted(Drops(r, gone), r)
    <2>1. PICK q : q = Drops(r, gone)
        OBVIOUS
    <2>2. Whole(q) /\ Alike(q, r)
        BY <2>1 DEF Lettered, Whole, Alike, Drops
    <2>. QED
        BY <2>1, <2>2, PostedAlike
<1>2. Posted(ScheduleNextChunk(r), r)
    <2>1. PICK q : q = ScheduleNextChunk(r)
        OBVIOUS
    <2>2. Whole(q) /\ Alike(q, r)
        BY <2>1 DEF Lettered, Whole, Alike, ScheduleNextChunk
    <2>. QED
        BY <2>1, <2>2, PostedAlike
<1>3. Posted(Evicts(r), r)
    <2>1. PICK q : q = Evicts(r)
        OBVIOUS
    <2>2. Whole(q) /\ Alike(q, r)
        BY <2>1 DEF Lettered, Whole, Alike, Evicts
    <2>. QED
        BY <2>1, <2>2, PostedAlike
<1>4. ASSUME NEW i PROVE Posted(MakesRoom(r, i), r)
    <2>1. PICK q : q = MakesRoom(r, i)
        OBVIOUS
    <2>2. /\ Whole(q) /\ q.at = r.at /\ q.fed = r.fed /\ q.mail = r.mail /\ q.gen = r.gen
          /\ q.clear = r.clear
        BY <2>1 DEF Lettered, Whole, MakesRoom
    <2>. QED
        BY <2>1, <2>2, PostedSame DEF Lettered
<1>5. ASSUME NEW i PROVE Posted(Appends(r, i), r)
    <2>1. PICK q : q = Appends(r, i)
        OBVIOUS
    <2>2. CASE q = MakesRoom(r, i)
        BY <1>4, <2>1, <2>2
    <2>3. CASE q # MakesRoom(r, i)
        <3>1. /\ Whole(q) /\ q.at = r.at /\ q.fed = r.fed /\ q.mail = r.mail /\ q.gen = r.gen
              /\ q.clear = r.clear
            BY <2>1, <2>3 DEF Lettered, Whole, Appends
        <3>. QED
            BY <2>1, <3>1, PostedSame DEF Lettered
    <2>. QED
        BY <2>2, <2>3
<1>. QED
    BY <1>1, <1>2, <1>3, <1>4, <1>5

\* scheduleNextChunk again and again.
LEMMA PostedAhead ==
    ASSUME NEW r, Lettered(r) PROVE Posted(SchedulesAhead(r), r)
<1>. DEFINE f == CHOOSE f : Scheduled(r, Slots, f)
            T == {i \in Nat : i <= Slots => Posted(f[i], r)}
<1>0. Posted(r, r)
    BY DEF Posted
<1>1. Scheduled(r, Slots, f) /\ (SchedulesAhead(r) = f[Slots] \/ SchedulesAhead(r) = r)
    <2>1. \E g : Scheduled(r, Slots, g)
        BY Numbers, ScheduledExists
    <2>. QED
        BY <2>1 DEF Scheduled, SchedulesAhead
<1>. HIDE DEF f
<1>2. \A i \in 0..Slots : f[i] = IF i = 0 THEN r ELSE ScheduleNextChunk(f[i - 1])
    BY <1>1 DEF Scheduled
<1>3. 0 \in T
    BY <1>0, <1>2, Numbers
<1>4. ASSUME NEW i \in Nat, i \in T PROVE i + 1 \in T
    <2>. SUFFICES ASSUME i + 1 <= Slots PROVE Posted(f[i + 1], r)
        OBVIOUS
    <2>1. i <= Slots /\ i + 1 \in 0..Slots
        BY Numbers
    <2>2. Posted(f[i], r) /\ f[i + 1] = ScheduleNextChunk(f[i])
        BY <1>2, <1>4, <2>1
    <2>3. Posted(f[i + 1], f[i])
        BY <2>2, PostedSimple DEF Posted
    <2>. QED
        BY <2>2, <2>3, PostedTwice
<1>. HIDE DEF T
<1>5. Slots \in T
    BY <1>3, <1>4, Numbers, SetInduction
<1>6. Posted(f[Slots], r)
    BY <1>5, Numbers DEF T
<1>. QED
    BY <1>0, <1>1, <1>6

\* onTimeupdateTick.
LEMMA PostedTicks ==
    ASSUME NEW r, Lettered(r), NEW told PROVE Posted(Ticks(r, told), r)
<1>1. CASE Ticks(r, told) = r
    BY <1>1 DEF Posted
<1>2. CASE Ticks(r, told) # r
    <2>1. PICK p : p = SchedulesAhead(r)
        OBVIOUS
    <2>2. Posted(p, r)
        BY <2>1, PostedAhead
    <2>3. Posted(Evicts(p), p)
        BY <2>2, PostedSimple DEF Posted
    <2>4. Ticks(r, told) = Evicts(p)
        BY <1>2, <2>1 DEF Ticks
    <2>. QED
        BY <2>2, <2>3, <2>4, PostedTwice
<1>. QED
    BY <1>1, <1>2

\* The end of a load, and of an append.
LEMMA PostedLoads ==
    ASSUME NEW r, Lettered(r), NEW i, NEW seeking
    PROVE  Posted(LoadEnds(r, i, seeking), r) /\ Posted(Appended(r, i, seeking), r)
<1>1. ASSUME NEW b, Lettered(b) PROVE Posted(LoadEnds(b, i, seeking), b)
    <2>1. PICK d : d = Drops(b, {i})
        OBVIOUS
    <2>2. Posted(d, b)
        BY <1>1, <2>1, PostedSimple
    <2>3. CASE LoadEnds(b, i, seeking) = d
        BY <2>2, <2>3
    <2>4. CASE LoadEnds(b, i, seeking) # d
        <3>1. PICK e : e = [d EXCEPT !.ended = @ \/ (d.next >= Chunks /\ d.active = 0)]
            OBVIOUS
        <3>2. LoadEnds(b, i, seeking) = Ticks(e, seeking)
            BY <2>1, <2>4, <3>1 DEF LoadEnds
        <3>3. Lettered(d)
            BY <2>2 DEF Posted
        <3>4. /\ Whole(e) /\ e.at = d.at /\ e.fed = d.fed /\ e.mail = d.mail /\ e.gen = d.gen
              /\ e.clear = d.clear
            BY <3>1, <3>3 DEF Lettered, Whole
        <3>5. Posted(e, d)
            BY <3>3, <3>4, PostedSame DEF Lettered
        <3>6. Posted(Ticks(e, seeking), e)
            BY <3>5, PostedTicks DEF Posted
        <3>. QED
            BY <2>2, <3>2, <3>5, <3>6, PostedTwice
    <2>. QED
        BY <2>3, <2>4
<1>2. Posted(Appended(r, i, seeking), r)
    <2>1. PICK a : a = [r EXCEPT !.op = Idle]
        OBVIOUS
    <2>2. /\ Whole(a) /\ a.at = r.at /\ a.fed = r.fed /\ a.mail = r.mail /\ a.gen = r.gen
          /\ a.clear = r.clear
        BY <2>1 DEF Lettered, Whole
    <2>3. Posted(a, r) /\ Lettered(a)
        BY <2>2, PostedSame DEF Lettered
    <2>4. CASE r.tasks[i].seg + 1 < Segments
        <3>1. PICK c : c = [a EXCEPT !.tasks[i].seg = @ + 1]
            OBVIOUS
        <3>2. /\ Whole(c) /\ c.at = a.at /\ c.fed = a.fed /\ c.mail = a.mail /\ c.gen = a.gen
              /\ c.clear = a.clear
            BY <2>3, <3>1 DEF Lettered, Whole
        <3>3. Posted(c, a)
            BY <2>3, <3>2, PostedSame DEF Lettered
        <3>4. Posted(Appends(c, i), c)
            BY <3>3, PostedSimple DEF Posted
        <3>5. Appended(r, i, seeking) = Appends(c, i)
            BY <2>1, <2>4, <3>1 DEF Appended
        <3>. QED
            BY <2>3, <3>3, <3>4, <3>5, PostedTwice
    <2>5. CASE ~ (r.tasks[i].seg + 1 < Segments)
        <3>1. PICK b : b = [a EXCEPT !.buffered = @ \cup {r.tasks[i].todo}]
            OBVIOUS
        <3>2. /\ Whole(b) /\ b.at = a.at /\ b.fed = a.fed /\ b.mail = a.mail /\ b.gen = a.gen
              /\ b.clear = a.clear
            BY <2>3, <3>1 DEF Lettered, Whole
        <3>3. Posted(b, a) /\ Lettered(b)
            BY <2>3, <3>2, PostedSame DEF Lettered
        <3>4. Posted(LoadEnds(b, i, seeking), b)
            BY <1>1, <3>3
        <3>5. PICK c : c = [b EXCEPT !.tasks[i] = [r.tasks[i] EXCEPT !.todo = @ + 1, !.seg = 0,
                                                                     !.at = "queue"]]
            OBVIOUS
        <3>6. /\ Whole(c) /\ c.at = b.at /\ c.fed = b.fed /\ c.mail = b.mail /\ c.gen = b.gen
              /\ c.clear = b.clear
            BY <3>3, <3>5 DEF Lettered, Whole
        <3>7. Posted(c, b)
            BY <3>3, <3>6, PostedSame DEF Lettered
        <3>8. Appended(r, i, seeking) \in {LoadEnds(b, i, seeking), c}
            BY <2>1, <2>5, <3>1, <3>5 DEF Appended
        <3>. QED
            BY <2>3, <3>3, <3>4, <3>7, <3>8, PostedTwice
    <2>. QED
        BY <2>4, <2>5
<1>. QED
    BY <1>1, <1>2

\* clearAndResume, step by step.
LEMMA PostedClears ==
    ASSUME NEW r, Lettered(r), r.clear.at # "no"
    PROVE  /\ Posted(Syncs(r), r) /\ Posted(RemovesAhead(r), r) /\ Posted(RemovesBehind(r), r)
<1>. DEFINE m == [type |-> "SEEK", to |-> r.clear.to, gen |-> r.gen]
            z == Append(r.mail, m)
<1>1. Posted(Syncs(r), r)
    <2>1. PICK q : q = Syncs(r)
        OBVIOUS
    <2>2. PICK k : k = [r.clear EXCEPT !.at = "sync"]
        OBVIOUS
    <2>3. k \in Clearing
        BY <2>2 DEF Lettered, Clearing
    <2>4. m \in Message /\ m.type = "SEEK"
        BY DEF Lettered, Message, Clearing
    <2>5. q = [r EXCEPT !.clear = k, !.mail = z]
        BY <2>1, <2>2 DEF Syncs
    <2>. HIDE DEF m
    <2>6. /\ z \in Seq(Message) /\ DOMAIN r.mail = 1..Len(r.mail) /\ Len(r.mail) \in Nat
          /\ DOMAIN z = 1..(Len(r.mail) + 1) /\ z[Len(r.mail) + 1] = m
          /\ \A i \in DOMAIN r.mail : z[i] = r.mail[i]
        <3>1. r.mail \in Seq(Message)
            BY DEF Lettered
        <3>. HIDE DEF Message
        <3>. QED
            BY <2>4, <3>1
    <2>. HIDE DEF z
    <2>7. /\ Whole(q) /\ q.at = r.at /\ q.fed = r.fed /\ q.mail = z /\ q.gen = r.gen
          /\ q.clear = k
        BY <2>5 DEF Lettered, Whole
    <2>8. ASSUME NEW i \in DOMAIN q.mail, q.mail[i].type = "CHUNK"
          PROVE  i \in DOMAIN r.mail /\ q.mail[i] = r.mail[i]
        <3>1. i # Len(r.mail) + 1
            BY <2>4, <2>6, <2>7, <2>8
        <3>2. i \in DOMAIN r.mail
            BY <2>6, <2>7, <2>8, <3>1
        <3>. QED
            BY <2>6, <2>7, <3>2
    <2>9. Lettered(q)
        BY <2>3, <2>6, <2>7 DEF Lettered
    <2>. QED
        BY <2>1, <2>7, <2>8, <2>9 DEF Posted
<1>2. ASSUME NEW w \in {"behind", "ahead"}, NEW o, NEW q,
             q = [r EXCEPT !.clear.at = w, !.op = o]
      PROVE  Posted(q, r)
    <2>1. PICK k : k = [r.clear EXCEPT !.at = w]
        OBVIOUS
    <2>2. k \in Clearing
        BY <2>1 DEF Lettered, Clearing
    <2>3. /\ Whole(q) /\ q.at = r.at /\ q.fed = r.fed /\ q.mail = r.mail /\ q.gen = r.gen
          /\ q.clear = k
        BY <1>2, <2>1 DEF Lettered, Whole
    <2>. QED
        BY <2>2, <2>3, PostedSame
<1>3. PICK ahead, behind :
          /\ ahead = [r EXCEPT !.clear.at = "ahead", !.op = [by |-> "clear", gen |-> r.gen]]
          /\ behind = [r EXCEPT !.clear.at = "behind", !.op = [by |-> "clear", gen |-> r.gen]]
    OBVIOUS
<1>4. Posted(ahead, r) /\ Posted(behind, r)
    <2>1. PICK o : o = [by |-> "clear", gen |-> r.gen]
        OBVIOUS
    <2>2. /\ ahead = [r EXCEPT !.clear.at = "ahead", !.op = o]
          /\ behind = [r EXCEPT !.clear.at = "behind", !.op = o]
        BY <1>3, <2>1
    <2>. QED
        BY <1>2, <2>2, Zenon
<1>5. RemovesAhead(r) \in {Syncs(r), ahead}
    BY <1>3, Zenon DEF RemovesAhead
<1>6. RemovesBehind(r) \in {RemovesAhead(r), behind}
    BY <1>3, Zenon DEF RemovesBehind
<1>. QED
    BY <1>1, <1>4, <1>5, <1>6

\* A clearAndResume that has waited for the buffer.
LEMMA PostedReleased ==
    ASSUME NEW r, Lettered(r) PROVE Posted(Released(r), r)
<1>1. CASE r.clear.at = "idle"
    BY <1>1, PostedClears DEF Released
<1>2. CASE r.clear.at # "idle"
    BY <1>2 DEF Released, Posted
<1>. QED
    BY <1>1, <1>2

\* The end of a removal of clearAndResume.
LEMMA PostedCleared ==
    ASSUME NEW r, Lettered(r), r.op.gen = r.gen => r.clear.at # "no"
    PROVE  Posted(Cleared(r), r)
<1>1. PICK a : a = [r EXCEPT !.op = Idle]
    OBVIOUS
<1>2. /\ Whole(a) /\ a.at = r.at /\ a.fed = r.fed /\ a.mail = r.mail /\ a.gen = r.gen
      /\ a.clear = r.clear
    BY <1>1 DEF Lettered, Whole
<1>3. Posted(a, r) /\ Lettered(a)
    BY <1>2, PostedSame DEF Lettered
<1>4. ASSUME NEW B, NEW b, b = [a EXCEPT !.buffered = B], r.clear.at # "no"
      PROVE  Posted(RemovesAhead(b), r) /\ Posted(Syncs(b), r)
    <2>1. /\ Whole(b) /\ b.at = a.at /\ b.fed = a.fed /\ b.mail = a.mail /\ b.gen = a.gen
          /\ b.clear = a.clear
        BY <1>3, <1>4 DEF Lettered, Whole
    <2>2. Posted(b, a) /\ Lettered(b) /\ b.clear.at # "no"
        BY <1>2, <1>3, <1>4, <2>1, PostedSame DEF Lettered
    <2>3. Posted(RemovesAhead(b), b) /\ Posted(Syncs(b), b)
        BY <2>2, PostedClears
    <2>. QED
        BY <1>3, <2>2, <2>3, PostedTwice
<1>5. CASE r.op.gen # r.gen
    BY <1>1, <1>3, <1>5 DEF Cleared
<1>6. CASE r.op.gen = r.gen
    <2>1. r.clear.at # "no"
        BY <1>6
    <2>2. PICK b, e : /\ b = [a EXCEPT !.buffered = {c \in @ : c >= r.clear.to - Behind}]
                      /\ e = [a EXCEPT !.buffered = {c \in @ : c < r.clear.to}]
        OBVIOUS
    <2>3. Cleared(r) = RemovesAhead(b) \/ Cleared(r) = Syncs(e)
        BY <1>1, <1>6, <2>2 DEF Cleared
    <2>4. b = [a EXCEPT !.buffered = b.buffered] /\ e = [a EXCEPT !.buffered = e.buffered]
        BY <1>3, <2>2 DEF Lettered, Whole
    <2>. QED
        BY <1>4, <2>1, <2>3, <2>4
<1>. QED
    BY <1>5, <1>6

\* updateend.
LEMMA PostedUpdated ==
    ASSUME NEW r, NEW seeking, Typed(r), Working(r, seeking), r.op # Idle
    PROVE  Lettered(r) /\ Posted(Updated(r, seeking), r)
<1>0. Lettered(r) /\ r.op.by \in {"load", "room", "evict", "clear"}
    BY DEF Typed, Lettered, Working, Owned, Update
<1>. DEFINE i == Owner(r)
<1>1. CASE r.op.by = "load"
    BY <1>0, <1>1, PostedLoads DEF Updated
<1>2. CASE r.op.by = "room"
    <2>1. PICK b : b = [r EXCEPT !.op = Idle, !.buffered = @ \ Played(r)]
        OBVIOUS
    <2>2. /\ Whole(b) /\ b.at = r.at /\ b.fed = r.fed /\ b.mail = r.mail /\ b.gen = r.gen
          /\ b.clear = r.clear
        BY <1>0, <2>1 DEF Lettered, Whole
    <2>3. Posted(b, r) /\ Lettered(b)
        BY <1>0, <2>2, PostedSame DEF Lettered
    <2>4. Posted(Appends(b, i), b)
        BY <2>3, PostedSimple
    <2>5. Updated(r, seeking) = Appends(b, i)
        BY <1>2, <2>1 DEF Updated
    <2>. QED
        BY <1>0, <2>3, <2>4, <2>5, PostedTwice
<1>3. CASE r.op.by = "evict"
    <2>1. PICK j, B, b : /\ j = Owner(r) /\ B = {c \in r.buffered : c >= r.tasks[j].todo - Behind}
                        /\ b = [r EXCEPT !.op = Idle, !.buffered = B]
        OBVIOUS
    <2>2. /\ Whole(b) /\ b.at = r.at /\ b.fed = r.fed /\ b.mail = r.mail /\ b.gen = r.gen
          /\ b.clear = r.clear
        BY <1>0, <2>1 DEF Lettered, Whole
    <2>3. Posted(b, r) /\ Lettered(b)
        BY <1>0, <2>2, PostedSame DEF Lettered
    <2>4. Posted(Drops(b, {j}), b)
        BY <2>3, PostedSimple
    <2>5. Updated(r, seeking) = Drops(b, {j})
        <3>1. Updated(r, seeking) =
                  Drops([r EXCEPT !.op = Idle,
                           !.buffered = {c \in r.buffered : c >= r.tasks[j].todo - Behind}], {j})
            BY <1>3, <2>1, Zenon DEF Updated
        <3>. QED
            BY <2>1, <3>1, Zenon
    <2>. QED
        BY <1>0, <2>3, <2>4, <2>5, PostedTwice
<1>4. CASE r.op.by = "clear"
    <2>1. r.op.gen = r.gen => r.clear.at # "no"
        BY <1>4 DEF Working, Owned
    <2>2. Updated(r, seeking) = Cleared(r)
        BY <1>4 DEF Updated
    <2>. QED
        BY <1>0, <2>1, <2>2, PostedCleared
<1>. QED
    BY <1>0, <1>1, <1>2, <1>3, <1>4

\* Such a change keeps what is held.
LEMMA PostedHeld ==
    ASSUME NEW r, NEW q, Held(r), Posted(q, r) PROVE Held(q)
    BY DEF Held, Posted

\* What is in the mail of a stream that has its load.
LEMMA FeedingHeld ==
    ASSUME NEW r, Typed(r), Feeding(r), r.at = "ready", r.clear.at = "no",
           NEW k \in DOMAIN r.mail
    PROVE  k = 1 /\ r.mail[k].to = r.fed + 1
<1>1. r.mail # <<>>
    OBVIOUS
<1>2. PICK i \in DOMAIN r.tasks : Load(r, i) /\ r.tasks[i].at = "mux"
    BY <1>1 DEF Feeding
<1>3. PICK m : /\ r.mail = <<m>> /\ m.to = r.tasks[i].todo /\ r.fed + 1 = r.tasks[i].todo
    BY <1>2 DEF Feeding
<1>. QED
    BY <1>3

\* The transmuxer has read the message before the others.
LEMMA ReadHeld ==
    ASSUME NEW r, Typed(r), Held(r), r.mail # <<>>, NEW n, NEW a, a = Read(r, n)
    PROVE  Held(a)
<1>1. Whole(a) /\ a.mail = Tail(r.mail) /\ a.at = r.at /\ a.clear = r.clear
    BY DEF Typed, Whole, Read
<1>2. \A k \in DOMAIN Tail(r.mail) :
          k \in Nat /\ k > 0 /\ k + 1 \in DOMAIN r.mail /\ Tail(r.mail)[k] = r.mail[k + 1]
    <2>1. r.mail \in Seq(Message)
        BY DEF Typed
    <2>. HIDE DEF Message
    <2>2. Tail(r.mail) \in Seq(Message)
        BY <2>1, TailFacts
    <2>3. \A k \in DOMAIN Tail(r.mail) : k \in 1..Len(Tail(r.mail))
        BY <2>2
    <2>. QED
        BY <2>1, <2>3, TailFacts
<1>. QED
    BY <1>1, <1>2 DEF Held

\* What the invariant says of the mails, while nothing is lost.
HInv == upset \cap {"early", "failed"} = {} => \A s \in Streams : Held(stream[s])

\* Only one stream changes.
LEMMA OneHeld ==
    ASSUME \A t \in Streams : Held(stream[t]), AllFine, NEW s \in Streams, NEW q, Held(q),
           stream' = [stream EXCEPT ![s] = q]
    PROVE  \A t \in Streams : Held(stream'[t])
    BY DEF AllFine

\* A stream that is not preparing a seek has nothing to hold.
LEMMA CalmHeld ==
    ASSUME NEW r, r.at # "ready" \/ r.clear.at = "no" PROVE Held(r)
    BY DEF Held

\* What a seek out of the buffer finds in the mail.
LEMMA MailFound ==
    ASSUME IInv, HInv, upset \cap {"early", "failed"} = {}, NEW s \in Streams,
           stream[s].at = "ready", NEW k \in DOMAIN stream[s].mail,
           stream[s].mail[k].type = "CHUNK"
    PROVE  k = 1 /\ stream[s].mail[k].to = stream[s].fed + 1
<1>1. PICK r : r = stream[s]
    OBVIOUS
<1>2. Typed(r) /\ Feeding(r) /\ Held(r)
    BY <1>1 DEF IInv, HInv, AllFine, Fine, Sane
<1>3. CASE r.clear.at = "no"
    BY <1>1, <1>2, <1>3, FeedingHeld
<1>4. CASE r.clear.at # "no"
    BY <1>1, <1>2, <1>4 DEF Held
<1>. QED
    BY <1>3, <1>4

\* Another seek out of the buffer: what is in the mail is the chunk that comes
\* next, if any.
LEMMA SeekOutHeld ==
    ASSUME NEW r, NEW v, NEW q, Typed(r), Leaves(q, r, v),
           \A k \in DOMAIN r.mail : r.mail[k].type = "CHUNK" => k = 1 /\ r.mail[k].to = r.fed + 1
    PROVE  Held(q)
<1>1. PICK K, to, a :
          /\ K \subseteq DOMAIN r.tasks
          /\ to = Min({r.playhead, Chunks - 1})
          /\ a = NewGeneration(r, K, to)
          /\ q = IF r.op = Idle THEN RemovesBehind(a) ELSE a
    BY DEF Leaves
<1>2. to \in Times
    BY <1>1, SeekTarget
<1>3. Typed(a) /\ a.clear.at = "idle" /\ a.mail = r.mail /\ a.fed = r.fed
    BY <1>1, <1>2, GenerationFields
<1>4. Held(a) /\ Lettered(a)
    BY <1>3 DEF Held, Typed, Lettered
<1>5. Posted(RemovesBehind(a), a)
    BY <1>3, <1>4, PostedClears
<1>6. Held(RemovesBehind(a))
    BY <1>4, <1>5, PostedHeld
<1>. QED
    BY <1>1, <1>4, <1>6

\* The end of an update, and who waited for it.
LEMMA UpdateEndsHeld ==
    ASSUME NEW r, NEW seeking, Typed(r), Working(r, seeking), Held(r), r.op # Idle,
           NEW a, a = Released(Updated(r, seeking)), NEW lost, NEW q, Yields(q, a, lost)
    PROVE  Held(q)
<1>1. PICK b : b = Updated(r, seeking)
    OBVIOUS
<1>2. Posted(b, r) /\ Lettered(b)
    BY <1>1, PostedUpdated DEF Posted
<1>3. Posted(a, b) /\ Lettered(a)
    BY <1>1, <1>2, PostedReleased DEF Posted
<1>4. PICK first, c : c = (IF first = 0 THEN a ELSE Appends(a, first)) /\ q = Drops(c, lost)
    BY DEF Yields
<1>5. Posted(c, a) /\ Lettered(c)
    <2>1. CASE first = 0
        BY <1>3, <1>4, <2>1 DEF Posted
    <2>2. CASE first # 0
        BY <1>3, <1>4, <2>2, PostedSimple DEF Posted
    <2>. QED
        BY <2>1, <2>2
<1>6. Posted(q, c)
    BY <1>4, <1>5, PostedSimple
<1>. QED
    BY <1>2, <1>3, <1>5, <1>6, PostedHeld

\* The transmuxer has read a chunk, and the load it was for appends.
LEMMA HeardHeld ==
    ASSUME NEW r, Typed(r), Held(r), r.mail # <<>>, NEW c \in Int, NEW q, Heard(q, r, c)
    PROVE  Held(q)
<1>1. PICK a : a = Read(r, c)
    OBVIOUS
<1>2. Held(a)
    BY <1>1, ReadHeld
<1>3. Tail(r.mail) \in Seq(Message)
    <2>1. r.mail \in Seq(Message)
        BY DEF Typed
    <2>. HIDE DEF Message
    <2>. QED
        BY <2>1, TailFacts
<1>4. Lettered(a)
    BY <1>1, <1>3 DEF Typed, Whole, Read, Lettered
<1>5. \A i : Held(Appends(a, i))
    BY <1>2, <1>4, PostedSimple, PostedHeld
<1>. QED
    BY <1>1, <1>2, <1>5 DEF Heard

\* A stream that goes on in the way of Posted.
LEMMA TicksHeld ==
    ASSUME NEW r, Typed(r), Held(r), NEW a, Whole(a), a.at = r.at, a.fed = r.fed,
           a.mail = r.mail, a.gen = r.gen, a.clear = r.clear, NEW told
    PROVE  Held(Ticks(a, told))
<1>1. Lettered(r)
    BY DEF Typed, Lettered
<1>2. Posted(a, r) /\ Lettered(a)
    BY <1>1, PostedSame DEF Lettered
<1>3. Posted(Ticks(a, told), a)
    BY <1>2, PostedTicks
<1>. QED
    BY <1>2, <1>3, PostedHeld

\* The step of one stream.
LEMMA StreamHeld ==
    ASSUME IInv, HInv, upset \cap {"early", "failed"} = {}, upset' \cap {"early", "failed"} = {},
           NEW s \in Streams, Works(s) \/ Watches(s)
    PROVE  \E q : Held(q) /\ stream' = [stream EXCEPT ![s] = q]
<1>1. PICK r : r = stream[s]
    OBVIOUS
<1>2. AllFine /\ Held(r) /\ Typed(r) /\ Quiet(r) /\ Working(r, isSeeking)
    BY <1>1 DEF IInv, HInv, AllFine, Fine, Sane
<1>3. Lettered(r)
    BY <1>2 DEF Typed, Lettered
<1>4. CASE stream' = stream
    BY <1>1, <1>2, <1>4 DEF AllFine
<1>5. CASE HeaderRead(s) \/ SourceOpened(s) \/ FirstRead(s) \/ LastRead(s)
    <2>1. PICK w, f : /\ w # "ready"
                      /\ stream' = [stream EXCEPT ![s] = Nearer(r, w, f)]
        <3>1. CASE HeaderRead(s)
            <4>1. [r EXCEPT !.at = "open"] = Nearer(r, "open", r.fast)
                BY <1>2 DEF Nearer, Typed, Whole
            <4>. QED
                BY <1>1, <3>1, <4>1 DEF HeaderRead
        <3>2. CASE SourceOpened(s)
            <4>1. [r EXCEPT !.at = "first"] = Nearer(r, "first", r.fast)
                BY <1>2 DEF Nearer, Typed, Whole
            <4>. QED
                BY <1>1, <3>2, <4>1 DEF SourceOpened
        <3>3. CASE LastRead(s)
            <4>1. [r EXCEPT !.at = "mux"] = Nearer(r, "mux", r.fast)
                BY <1>2 DEF Nearer, Typed, Whole
            <4>. QED
                BY <1>1, <3>3, <4>1 DEF LastRead
        <3>4. CASE FirstRead(s)
            <4>1. PICK f : stream' = [stream EXCEPT ![s].at = IF f THEN "mux" ELSE "last",
                                                    ![s].fast = f]
                BY <3>4 DEF FirstRead
            <4>2. PICK w : w # "ready" /\ w = IF f THEN "mux" ELSE "last"
                OBVIOUS
            <4>3. stream' = [stream EXCEPT ![s] = Nearer(r, w, f)]
                BY <1>1, <1>2, <4>1, <4>2 DEF AllFine, Nearer
            <4>. QED
                BY <4>2, <4>3
        <3>. QED
            BY <1>5, <3>1, <3>2, <3>3, <3>4
    <2>2. Nearer(r, w, f).at = w
        BY <1>2 DEF Nearer, Typed, Whole
    <2>. QED
        BY <2>1, <2>2, CalmHeld
<1>6. CASE Bootstrapped(s)
    <2>1. PICK a, q : Readied(r, a, q)
        BY DEF Readied
    <2>2. stream' = [stream EXCEPT ![s] = q] /\ r.at = "mux"
        BY <1>1, <1>6, <2>1 DEF Bootstrapped, Readied, Resumed
    <2>3. PICK z : z = [r EXCEPT !.at = "ready"]
        OBVIOUS
    <2>4. Typed(a) /\ a.clear.at = "no"
        <3>1. Fine(a, upset, isSeeking) /\ a.clear.at = "no"
            BY <1>2, <2>1, <2>2, <2>3, BootstrapFine DEF Readied
        <3>. QED
            BY <3>1 DEF Fine, Sane
    <2>5. q.clear.at = "no"
        <3>1. Resumed(a, a.from).clear = a.clear
            BY <2>4 DEF Resumed, Typed, Whole
        <3>2. Posted(ScheduleNextChunk(a), a)
            BY <2>4, PostedSimple DEF Typed, Lettered
        <3>. QED
            BY <2>1, <2>4, <3>1, <3>2 DEF Readied, Posted
    <2>. QED
        BY <2>2, <2>5, CalmHeld
<1>7. CASE ChunkTransmuxed(s)
    <2>1. PICK q : Heard(q, r, Head(r.mail).to) /\ stream' = [stream EXCEPT ![s] = q]
        <3>. DEFINE c == Head(r.mail).to
                    q == IF Listening(r, c) = {} THEN Read(r, c)
                         ELSE Appends(Read(r, c), CHOOSE i \in Listening(r, c) : TRUE)
        <3>1. stream' = [stream EXCEPT ![s] = q]
            BY <1>1, <1>7 DEF ChunkTransmuxed, Read
        <3>2. Heard(q, r, c)
            BY DEF Heard
        <3>. HIDE DEF q
        <3>. QED
            BY <3>1, <3>2
    <2>2. r.mail # <<>>
        BY <1>1, <1>7 DEF ChunkTransmuxed
    <2>3. Head(r.mail).to \in Int
        BY <1>2, <2>2, HeadFacts
    <2>. QED
        BY <1>2, <2>1, <2>2, <2>3, HeardHeld
<1>8. CASE SeekAnswered(s)
    <2>1. PICK to, a, b, q :
              /\ to = Head(r.mail).to /\ a = Read(r, to - 1)
              /\ b = Sought(a, Min({to, Chunks - 1})) /\ q = ScheduleNextChunk(b)
        OBVIOUS
    <2>2. /\ r.mail # <<>>
          /\ stream' = [stream EXCEPT ![s] = a] \/ stream' = [stream EXCEPT ![s] = q]
        BY <1>1, <1>8, <2>1 DEF SeekAnswered, Read, Sought
    <2>3. Held(a)
        BY <1>2, <2>1, <2>2, ReadHeld
    <2>4. Held(q)
        <3>1. to \in Times /\ to \in Int
            BY <1>2, <2>1, <2>2, HeadFacts
        <3>2. Typed(a)
            <4>1. Fine(r, upset, isSeeking) /\ to - 1 \in Int
                BY <1>1, <1>2, <3>1 DEF AllFine
            <4>. QED
                BY <2>1, <2>2, <4>1, ReadFine
        <3>3. Min({to, Chunks - 1}) \in Times
            <4>1. to \in Nat /\ to <= Chunks /\ Chunks - 1 \in Nat /\ Chunks \in Nat
                BY <3>1, Numbers DEF Times
            <4>2. Min({to, Chunks - 1}) = IF to <= Chunks - 1 THEN to ELSE Chunks - 1
                BY <4>1, LeastOfTwo
            <4>. QED
                BY <4>1, <4>2 DEF Times
        <3>4. Typed(b) /\ b.clear.at = "no"
            BY <2>1, <3>2, <3>3, SoughtFields
        <3>5. Posted(q, b)
            BY <2>1, <3>4, PostedSimple DEF Typed, Lettered
        <3>. QED
            BY <3>4, <3>5, CalmHeld DEF Posted
    <2>. QED
        BY <2>2, <2>3, <2>4
<1>9. CASE UpdateEnds(s)
    <2>1. PICK x : x = Released(Updated(r, isSeeking))
        OBVIOUS
    <2>2. r.op # Idle
        BY <1>1, <1>9 DEF UpdateEnds
    <2>3. PICK first \in IF x.op = Idle /\ Waiting(x) # {} THEN Waiting(x) ELSE {0} :
              stream' = [stream EXCEPT ![s] =
                 Drops(IF first = 0 THEN x ELSE Appends(x, first), Waiting(x) \ {first})]
        BY <1>1, <1>9, <2>1 DEF UpdateEnds
    <2>4. PICK lost, q : /\ lost = Waiting(x) \ {first}
                         /\ q = Drops(IF first = 0 THEN x ELSE Appends(x, first), lost)
        OBVIOUS
    <2>5. Yields(q, x, lost)
        BY <2>3, <2>4 DEF Yields
    <2>6. Held(q)
        BY <1>2, <2>1, <2>2, <2>5, UpdateEndsHeld
    <2>. QED
        BY <2>3, <2>4, <2>6
<1>10. CASE SeekWithin(s)
    <2>1. PICK a : a = Untimed(r)
        OBVIOUS
    <2>2. stream' = [stream EXCEPT ![s] = Ticks(a, FALSE)]
        BY <1>1, <1>10, <2>1 DEF SeekWithin, Untimed
    <2>3. /\ Whole(a) /\ a.at = r.at /\ a.fed = r.fed /\ a.mail = r.mail /\ a.gen = r.gen
          /\ a.clear = r.clear
        BY <1>2, <2>1 DEF Typed, Whole, Untimed
    <2>. QED
        BY <1>2, <2>2, <2>3, TicksHeld
<1>11. CASE SeekOut(s)
    <2>. DEFINE K == {i \in DOMAIN r.tasks : GoesOn(r.tasks[i])}
                to == Min({r.playhead, Chunks - 1})
                n == NewGeneration(r, K, to)
    <2>1. /\ r.timer
          /\ stream' = [stream EXCEPT ![s] = IF r.op = Idle THEN RemovesBehind(n) ELSE n]
        BY <1>1, <1>11 DEF SeekOut, NewGeneration
    <2>2. K \subseteq DOMAIN r.tasks /\ \A i \in DOMAIN r.tasks : i \in K <=> GoesOn(r.tasks[i])
        OBVIOUS
    <2>. HIDE DEF K
    <2>3. PICK q : q = IF r.op = Idle THEN RemovesBehind(n) ELSE n
        OBVIOUS
    <2>4. PICK v : v = {"late"}
        OBVIOUS
    <2>5. Leaves(q, r, v)
        BY <2>2, <2>3, <2>4 DEF Leaves
    <2>6. r.at = "ready"
        BY <1>2, <2>1, ReadyFacts
    <2>7. \A k \in DOMAIN r.mail : r.mail[k].type = "CHUNK" => k = 1 /\ r.mail[k].to = r.fed + 1
        BY <1>1, <2>6, MailFound
    <2>8. Held(q)
        BY <1>2, <2>5, <2>7, SeekOutHeld
    <2>. QED
        BY <2>1, <2>3, <2>8
<1>12. ASSUME NEW i, Decrypted(s, i) PROVE \E q : Held(q) /\ stream' = [stream EXCEPT ![s] = q]
    <2>1. Turn(r, i)
        BY <1>1, <1>12 DEF Decrypted
    <2>2. r.clear.at = "no"
        BY <1>2, <2>1, TurnFacts DEF Working, Preparing
    <2>3. PICK q : q = Given(r, i)
        OBVIOUS
    <2>4. stream' = [stream EXCEPT ![s] = q]
        BY <1>1, <1>2, <1>12, <2>3 DEF Decrypted, Given, AllFine
    <2>5. q.clear = r.clear
        BY <1>2, <2>3 DEF Given, Typed, Whole
    <2>. QED
        BY <2>2, <2>4, <2>5, CalmHeld
<1>13. ASSUME NEW i, RoomFound(s, i) PROVE \E q : Held(q) /\ stream' = [stream EXCEPT ![s] = q]
    <2>1. stream' = [stream EXCEPT ![s] = IF Played(r) = {} THEN Appends(r, i)
                                          ELSE MakesRoom(r, i)]
        BY <1>1, <1>13 DEF RoomFound
    <2>2. Held(Appends(r, i)) /\ Held(MakesRoom(r, i))
        BY <1>2, <1>3, PostedSimple, PostedHeld
    <2>. QED
        BY <2>1, <2>2
<1>14. ASSUME NEW i, EvictStaleRanges(s, i)
       PROVE  \E q : Held(q) /\ stream' = [stream EXCEPT ![s] = q]
    <2>1. Turn(r, i)
        BY <1>1, <1>14 DEF EvictStaleRanges
    <2>2. r.clear.at = "no"
        BY <1>2, <2>1, TurnFacts DEF Working, Preparing
    <2>3. PICK o, b : o = [by |-> "evict", gen |-> r.gen] /\ b = Begun(r, i, o)
        OBVIOUS
    <2>4. \/ stream' = [stream EXCEPT ![s] = b]
          \/ stream' = [stream EXCEPT ![s] = Drops(r, {i})]
        BY <1>1, <1>14, <2>3 DEF EvictStaleRanges, Begun
    <2>5. b.clear = r.clear
        BY <1>2, <2>3 DEF Begun, Typed, Whole
    <2>6. Held(b) /\ Held(Drops(r, {i}))
        BY <1>2, <1>3, <2>2, <2>5, CalmHeld, PostedSimple, PostedHeld
    <2>. QED
        BY <2>4, <2>6
<1>15. CASE Watches(s)
    <2>1. CASE Plays(s)
        <3>1. PICK a : a = [r EXCEPT !.playhead = @ + 1]
            OBVIOUS
        <3>2. stream' = [stream EXCEPT ![s] = Ticks(a, isSeeking)]
            BY <1>1, <2>1, <3>1 DEF Plays
        <3>3. /\ Whole(a) /\ a.at = r.at /\ a.fed = r.fed /\ a.mail = r.mail /\ a.gen = r.gen
              /\ a.clear = r.clear
            BY <1>2, <3>1 DEF Typed, Whole
        <3>. QED
            BY <1>2, <3>2, <3>3, TicksHeld
    <2>2. CASE TimeUpdate(s)
        <3>1. stream' = [stream EXCEPT ![s] = Ticks(r, isSeeking)]
            BY <1>1, <2>2 DEF TimeUpdate
        <3>2. Whole(r)
            BY <1>2 DEF Typed
        <3>. QED
            BY <1>2, <3>1, <3>2, TicksHeld
    <2>. QED
        BY <1>4, <1>15, <2>1, <2>2 DEF Watches, FirstPlay, Seeked
<1>. QED
    BY <1>5, <1>6, <1>7, <1>8, <1>9, <1>10, <1>11, <1>12, <1>13, <1>14, <1>15 DEF Works

\* A stream begins, or ends.
LEMMA BeginsHeld ==
    ASSUME IInv, HInv, upset \cap {"early", "failed"} = {},
           \/ stream' = Destroyed
           \/ \E p, from : Begins(p, from)
    PROVE  \A t \in Streams : Held(stream'[t])
<1>1. /\ AllFine /\ \A t \in Streams : Held(stream[t])
      /\ Destroyed = [t \in Streams |-> Destroyed[t]]
      /\ \A t \in Streams : Destroyed[t].at # "ready"
    BY DestroyedFacts DEF IInv, HInv
<1>2. CASE stream' = Destroyed
    BY <1>1, <1>2, CalmHeld
<1>3. ASSUME NEW p, NEW from, Begins(p, from), stream' # Destroyed
      PROVE  \A t \in Streams : Held(stream'[t])
    <2>1. PICK q : q = Made("header", p, from)
        OBVIOUS
    <2>2. q.at = "header"
        BY <2>1 DEF Made, Fresh
    <2>3. stream' = [Destroyed EXCEPT ![begun'] = q]
        BY <1>3, <2>1 DEF Begins, Made
    <2>4. PICK D : D = Destroyed
        OBVIOUS
    <2>5. \A t \in Streams : stream'[t] = q \/ stream'[t] = D[t]
        BY <1>1, <2>3, <2>4
    <2>. QED
        BY <1>1, <2>2, <2>4, <2>5, CalmHeld
<1>. QED
    BY <1>2, <1>3

\* Every step keeps it.
LEMMA NextHeld ==
    ASSUME IInv, HInv, [Next]_vars PROVE HInv'
<1>. SUFFICES ASSUME upset' \cap {"early", "failed"} = {} PROVE \A t \in Streams : Held(stream'[t])
    BY DEF HInv
<1>1. upset \subseteq upset'
    <2>1. ASSUME NEW s \in Streams, Works(s) PROVE upset \subseteq upset'
        <3>1. CASE UpdateEnds(s)
            BY <3>1 DEF UpdateEnds
        <3>2. CASE SeekWithin(s) \/ SeekOut(s)
            BY <3>2 DEF SeekWithin, SeekOut
        <3>3. CASE \E i : Decrypted(s, i) \/ RoomFound(s, i) \/ EvictStaleRanges(s, i)
            BY <3>3 DEF Decrypted, RoomFound, EvictStaleRanges
        <3>4. CASE \/ HeaderRead(s) \/ SourceOpened(s) \/ FirstRead(s) \/ LastRead(s)
                   \/ Bootstrapped(s) \/ ChunkTransmuxed(s) \/ SeekAnswered(s)
            BY <3>4 DEF HeaderRead, SourceOpened, FirstRead, LastRead, Bootstrapped,
                        ChunkTransmuxed, SeekAnswered
        <3>. QED
            BY <2>1, <3>1, <3>2, <3>3, <3>4 DEF Works
    <2>2. ASSUME NEW s \in Streams, Watches(s) PROVE upset \subseteq upset'
        BY <2>2 DEF Watches, FirstPlay, Plays, TimeUpdate, Seeked
    <2>3. ASSUME NEW s \in Streams, Breaks(s) PROVE upset \subseteq upset'
        BY <2>3 DEF Breaks, InitializeFails, AppendFails, LoadFails, Begins, Overlaps
    <2>4. ASSUME Acts PROVE upset \subseteq upset'
        BY <2>4 DEF Acts, Open, RetryPlayback, DestroyStream, TogglePlay, SeekTo, Begins, Overlaps
    <2>. QED
        BY <2>1, <2>2, <2>3, <2>4 DEF Next, vars
<1>2. /\ upset \cap {"early", "failed"} = {} /\ AllFine
      /\ \A t \in Streams : Held(stream[t])
    BY <1>1 DEF IInv, HInv
<1>3. CASE stream' = stream
    BY <1>2, <1>3
<1>4. ASSUME NEW s \in Streams, Works(s) \/ Watches(s) PROVE \A t \in Streams : Held(stream'[t])
    BY <1>2, <1>4, StreamHeld, OneHeld
<1>5. ASSUME NEW s \in Streams, NEW t \in Times, SeekTo(s, t)
      PROVE  \A u \in Streams : Held(stream'[u])
    <2>1. PICK r, q : r = stream[s] /\ q = Resumed(r, t)
        OBVIOUS
    <2>2. stream' = [stream EXCEPT ![s] = q]
        BY <1>2, <1>5, <2>1 DEF SeekTo, Resumed, AllFine
    <2>3. Typed(r) /\ Held(r)
        BY <1>2, <2>1 DEF AllFine, Fine, Sane
    <2>4. q.at = r.at /\ q.clear = r.clear /\ q.mail = r.mail /\ q.fed = r.fed
        BY <2>1, <2>3 DEF Typed, Whole, Resumed
    <2>5. Held(q)
        BY <2>3, <2>4 DEF Held
    <2>. QED
        BY <1>2, <2>2, <2>5, OneHeld
<1>6. ASSUME Open \/ RetryPlayback \/ DestroyStream \/ \E s \in Streams : AppendFails(s)
      PROVE  \A t \in Streams : Held(stream'[t])
    BY <1>2, <1>6, BeginsHeld DEF Open, RetryPlayback, DestroyStream, AppendFails
<1>7. ASSUME NEW s \in Streams, InitializeFails(s) \/ \E i : LoadFails(s, i) PROVE FALSE
    BY <1>7 DEF InitializeFails, LoadFails
<1>8. \A s \in Streams : TogglePlay(s) => stream' = stream
    BY DEF TogglePlay
<1>9. CASE UNCHANGED vars
    BY <1>3, <1>9 DEF vars
<1>. QED
    BY <1>3, <1>4, <1>5, <1>6, <1>7, <1>8, <1>9 DEF Next, Acts, Breaks

\* While no load has failed and no seek that is being prepared is given up, a
\* stream that prepares a seek has no other chunk in the mail than the one that
\* comes next, whichever generation has asked for it.
THEOREM MailHeld == Spec => []HInv
<1>1. Init => HInv
    BY CalmHeld DEF Init, HInv, Fresh
<1>2. IInv /\ HInv /\ [Next]_vars => HInv'
    BY NextHeld
<1>. QED
    BY <1>1, <1>2, StreamsFine, PTL DEF Spec

\* FedInOrder: the transmuxer is given one chunk after another, whatever seeks
\* come in between, the chunks asked for in an older generation included, until
\* a load has failed or a seek that is being prepared is given up.
THEOREM ChunksInOrder == Spec => FedInOrder
<1>. DEFINE Fed == \A s \in Streams :
          LET r == stream[s]
          IN  /\ r.mail # <<>> /\ Live(stream'[s]) /\ stream'[s].mail = Tail(r.mail)
              /\ Head(r.mail).type = "CHUNK"
              /\ upset \cap {"failed", "early"} = {}
              => Head(r.mail).to = r.fed + 1
<1>1. IInv /\ HInv => Fed
    <2>. SUFFICES ASSUME IInv, HInv, NEW s \in Streams, NEW r, r = stream[s], r.mail # <<>>,
                         Head(r.mail).type = "CHUNK", upset \cap {"failed", "early"} = {}
         PROVE  Head(r.mail).to = r.fed + 1
        OBVIOUS
    <2>1. Typed(r) /\ Quiet(r)
        BY DEF IInv, AllFine, Fine, Sane
    <2>2. r.at = "ready"
        BY <2>1, ReadyFacts
    <2>3. Head(r.mail) = r.mail[1] /\ 1 \in DOMAIN r.mail
        BY <2>1, HeadFacts
    <2>. QED
        BY <2>2, <2>3, MailFound
<1>2. IInv /\ HInv => [Fed]_vars
    BY <1>1
<1>. HIDE DEF Fed
<1>3. [][Fed]_vars => FedInOrder
    BY PTL DEF FedInOrder, Fed
<1>. QED
    BY <1>2, <1>3, StreamsFine, MailHeld, PTL

=============================================================================
