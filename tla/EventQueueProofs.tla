-------------------------- MODULE EventQueueProofs --------------------------
(***************************************************************************)
(* Proofs about EventQueue for any number of tasks, pings and connections: *)
(* the queue keeps the promise of EventDelivery whatever is queued while   *)
(* events are pushed or polled, a long poll sleeps through nothing, and an *)
(* event runs once while the agent remembers it.                           *)
(***************************************************************************)
EXTENDS EventQueue, SequenceLemmas

-----------------------------------------------------------------------------
(* Filtering a queue *)

\* g[n] is what is left of the first n events of q when those in es go.
Filters(g, q, es, m) ==
  g = [n \in 0..m |-> IF n = 0 THEN <<>>
                      ELSE IF q[n] \in es THEN g[n-1] ELSE Append(g[n-1], q[n])]

\* There is such a function: the recursion of Without is well defined.
LEMMA FilterExists ==
  ASSUME NEW q, NEW es, NEW m \in Nat
  PROVE  \E g : Filters(g, q, es, m)
<1> DEFINE T == {n \in Nat : ~ \E g : Filters(g, q, es, n)}
<1>1. SUFFICES ASSUME T # {}
               PROVE  FALSE
  OBVIOUS
<1>2. PICK n \in T : \A k \in T : n <= k
  <2>1. T \in SUBSET Nat
    OBVIOUS
  <2> HIDE DEF T
  <2> QED
    BY <1>1, <2>1, LeastNat
<1>3. n \in Nat /\ ~ \E g : Filters(g, q, es, n)
  OBVIOUS
<1>4. CASE n = 0
  <2> DEFINE g == [i \in 0..0 |-> <<>>]
  <2>1. Filters(g, q, es, 0)
    BY DEF Filters
  <2> QED
    BY <1>3, <1>4, <2>1
<1>5. CASE n # 0
  <2>1. n - 1 \in Nat /\ ~(n <= n - 1)
    BY <1>3, <1>5
  <2>2. PICK g : Filters(g, q, es, n - 1)
    BY <1>2, <2>1
  <2> DEFINE h == [i \in 0..n |-> IF i = n
                                  THEN IF q[n] \in es THEN g[n-1] ELSE Append(g[n-1], q[n])
                                  ELSE g[i]]
  <2>3. ASSUME NEW i \in 0..n
        PROVE  h[i] = IF i = 0 THEN <<>>
                      ELSE IF q[i] \in es THEN h[i-1] ELSE Append(h[i-1], q[i])
    <3>1. CASE i = n
      <4>1. h[i-1] = g[n-1]
        BY <1>3, <1>5, <3>1
      <4> QED
        BY <1>5, <3>1, <4>1
    <3>2. CASE i # n
      <4>1. i \in 0..(n - 1) /\ h[i] = g[i]
        BY <1>3, <3>2
      <4>2. i # 0 => h[i-1] = g[i-1]
        BY <1>3, <4>1
      <4>3. g[i] = IF i = 0 THEN <<>>
                   ELSE IF q[i] \in es THEN g[i-1] ELSE Append(g[i-1], q[i])
        BY <2>2, <4>1 DEF Filters
      <4> QED
        BY <4>1, <4>2, <4>3
    <3> QED
      BY <3>1, <3>2
  <2>4. h = [i \in 0..n |-> h[i]]
    OBVIOUS
  <2> HIDE DEF h
  <2>5. h = [i \in 0..n |-> IF i = 0 THEN <<>>
                            ELSE IF q[i] \in es THEN h[i-1] ELSE Append(h[i-1], q[i])]
    BY <2>3, <2>4
  <2>6. Filters(h, q, es, n)
    BY <2>5 DEF Filters
  <2> QED
    BY <1>3, <2>6
<1> QED
  BY <1>4, <1>5

\* Without is the last value of that function.
LEMMA WithoutIs ==
  ASSUME NEW S, NEW q \in Seq(S), NEW es
  PROVE  \E g : Filters(g, q, es, Len(q)) /\ Without(q, es) = g[Len(q)]
<1> DEFINE G == CHOOSE g : Filters(g, q, es, Len(q))
<1>1. Filters(G, q, es, Len(q))
  <2>1. Len(q) \in Nat
    OBVIOUS
  <2>2. \E g : Filters(g, q, es, Len(q))
    BY <2>1, FilterExists
  <2> QED
    BY <2>2
<1>2. Without(q, es) = G[Len(q)]
  BY DEF Without, Filters
<1> QED
  BY <1>1, <1>2

\* It holds the events of the queue that do not go, none of them twice, and
\* is no longer than the queue.
LEMMA WithoutFacts ==
  ASSUME NEW S, NEW q \in Seq(S), NEW es
  PROVE  /\ Without(q, es) \in Seq(S)
         /\ Range(Without(q, es)) = Range(q) \ es
         /\ IsInjective(q) => IsInjective(Without(q, es))
<1>1. PICK g : Filters(g, q, es, Len(q)) /\ Without(q, es) = g[Len(q)]
  BY WithoutIs
<1> DEFINE First(n) == {q[i] : i \in 1..n}
           P(n) == /\ g[n] \in Seq(S)
                   /\ Range(g[n]) = First(n) \ es
                   /\ IsInjective(q) => IsInjective(g[n])
           T == {n \in 0..Len(q) : ~P(n)}
<1>2. SUFFICES P(Len(q))
  <2>1. First(Len(q)) = Range(q)
    BY DEF Range
  <2> QED
    BY <1>1, <2>1
<1>3. SUFFICES ASSUME T # {}
               PROVE  FALSE
  <2>1. Len(q) \in 0..Len(q)
    OBVIOUS
  <2> HIDE DEF P
  <2> QED
    BY <2>1
<1>4. PICK n \in T : \A k \in T : n <= k
  <2>1. T \in SUBSET Nat
    OBVIOUS
  <2> HIDE DEF T
  <2> QED
    BY <1>3, <2>1, LeastNat
<1>5. n \in 0..Len(q) /\ ~P(n)
  OBVIOUS
<1>6. CASE n = 0
  <2>1. g[0] = <<>>
    BY <1>1 DEF Filters
  <2>2. Range(<<>>) = {} /\ First(0) = {} /\ IsInjective(<<>>) /\ <<>> \in Seq(S)
    BY DEF Range, IsInjective
  <2> QED
    BY <1>5, <1>6, <2>1, <2>2
<1>7. CASE n # 0
  <2>1. n - 1 \in 0..Len(q) /\ ~(n <= n - 1) /\ n \in 1..Len(q) /\ q[n] \in S
    BY <1>5, <1>7
  <2>2. P(n - 1)
    BY <1>4, <2>1
  <2>3. g[n] = IF q[n] \in es THEN g[n-1] ELSE Append(g[n-1], q[n])
    <3> HIDE DEF P, T
    <3>1. n \in 0..Len(q) /\ n # 0
      BY <1>7, <2>1
    <3> QED
      BY <1>1, <3>1 DEF Filters
  <2>4. First(n) = First(n - 1) \cup {q[n]}
    BY <2>1
  <2>5. CASE q[n] \in es
    BY <1>5, <2>2, <2>3, <2>4, <2>5
  <2>6. CASE q[n] \notin es
    <3> DEFINE r == g[n-1]
    <3>1. g[n] = Append(r, q[n]) /\ r \in Seq(S) /\ Range(r) = First(n - 1) \ es
      BY <2>2, <2>3, <2>6
    <3> HIDE DEF r
    <3>2. g[n] \in Seq(S) /\ Range(g[n]) = First(n) \ es
      BY <2>1, <2>4, <2>6, <3>1, AppendAdds
    <3>3. IsInjective(q) => IsInjective(g[n])
      <4>1. ASSUME IsInjective(q)
            PROVE  IsInjective(g[n])
        <5>1. IsInjective(r)
          BY <2>2, <4>1 DEF r
        <5>2. q[n] \notin Range(r)
          <6>1. \A i \in 1..(n - 1) : q[i] # q[n]
            BY <2>1, <4>1 DEF IsInjective
          <6> QED
            BY <3>1, <6>1
        <5> QED
          BY <3>1, <5>1, <5>2 DEF IsInjective, Range
      <4> QED
        BY <4>1
    <3> QED
      BY <1>5, <3>2, <3>3
  <2> QED
    BY <2>5, <2>6
<1> QED
  BY <1>6, <1>7

\* A queue without repetitions has as many events as positions.
LEMMA QueueSize ==
  ASSUME NEW S, NEW q \in Seq(S), IsInjective(q)
  PROVE  Cardinality(Range(q)) = Len(q)
<1>1. Len(q) \in Nat /\ DOMAIN q = 1..Len(q) /\ q \in [1..Len(q) -> Range(q)]
  BY DEF Range
<1>2. q \in Bijection(1..Len(q), Range(q))
  BY <1>1 DEF Bijection, Injection, Surjection, IsInjective, Range
<1> QED
  BY <1>1, <1>2, FS_CountingElements DEF ExistsBijection

\* What the constants are in the code: tasks are numbered by the database,
\* and the limits are positive.
ConstantsTyped ==
  /\ EventTasks \subseteq Nat \ {0}
  /\ MaxPings \in Nat /\ MaxConns \in Nat /\ ReportTake \in Nat
  /\ QueueLimit \in Nat \ {0} /\ SeenLimit \in Nat \ {0}

\* The newest events of a queue that is too long; the last one stays.
LEMMA LimitedFacts ==
  ASSUME ConstantsTyped, NEW S, NEW q \in Seq(S), IsInjective(q), q # <<>>
  PROVE  /\ Limited(q) \in Seq(S) /\ IsInjective(Limited(q))
         /\ Range(Limited(q)) \subseteq Range(q)
         /\ q[Len(q)] \in Range(Limited(q))
         /\ Limited(q) = q \/ Len(Limited(q)) = QueueLimit
<1>1. CASE Len(q) <= QueueLimit
  <2>1. Limited(q) = q
    BY <1>1 DEF Limited, ConstantsTyped
  <2>2. Len(q) \in DOMAIN q
    OBVIOUS
  <2> QED
    BY <2>1, <2>2 DEF Range
<1>2. CASE Len(q) > QueueLimit
  <2> DEFINE m == Len(q) - QueueLimit
             r == Limited(q)
  <2>1. m \in Nat /\ m + 1 \in Int /\ Len(q) \in Int /\ Len(q) = m + QueueLimit
        /\ QueueLimit \in Nat \ {0}
    BY <1>2 DEF ConstantsTyped
  <2>2. r = SubSeq(q, m + 1, Len(q))
    BY <1>2 DEF Limited, ConstantsTyped
  <2> HIDE DEF m, r
  <2>3. \A i \in (m + 1)..Len(q) : q[i] \in S
    BY <2>1
  <2>4. r \in Seq(S) /\ Len(r) = QueueLimit /\ \A i \in 1..QueueLimit : r[i] = q[m + i]
    <3>1. /\ r \in Seq(S)
          /\ Len(r) = IF m + 1 <= Len(q) THEN Len(q) - (m + 1) + 1 ELSE 0
          /\ \A i \in 1..(Len(q) - (m + 1) + 1) : r[i] = q[(m + 1) + i - 1]
      BY <2>1, <2>2, <2>3, SubSeqProperties
    <3>2. Len(q) - (m + 1) + 1 = QueueLimit /\ m + 1 <= Len(q)
      BY <2>1
    <3>3. \A i \in 1..QueueLimit : (m + 1) + i - 1 = m + i
      BY <2>1
    <3> QED
      BY <3>1, <3>2, <3>3
  <2>5. DOMAIN r = 1..QueueLimit /\ DOMAIN q = 1..Len(q)
        /\ \A i \in 1..QueueLimit : m + i \in 1..Len(q)
    BY <2>1, <2>4
  <2>6. IsInjective(r)
    <3>1. SUFFICES ASSUME NEW i \in 1..QueueLimit, NEW j \in 1..QueueLimit, r[i] = r[j]
                   PROVE  i = j
      BY <2>5 DEF IsInjective
    <3>2. m + i = m + j
      BY <2>4, <2>5, <3>1 DEF IsInjective
    <3> QED
      BY <2>1, <3>2
  <2>7. Range(r) \subseteq Range(q)
    BY <2>4, <2>5 DEF Range
  <2>8. q[Len(q)] \in Range(r)
    <3>1. QueueLimit \in 1..QueueLimit /\ m + QueueLimit = Len(q)
      BY <2>1
    <3> QED
      BY <2>4, <2>5, <3>1 DEF Range
  <2> QED
    BY <2>4, <2>6, <2>7, <2>8 DEF r
<1> QED
  BY <1>1, <1>2 DEF ConstantsTyped

\* What is handed out is a queue of events, from its beginning.
LEMMA TakenFacts ==
  ASSUME NEW S, NEW q \in Seq(S), NEW n \in Int
  PROVE  /\ Taken(q, n) \in Seq(S)
         /\ Range(Taken(q, n)) \subseteq Range(q)
<1>1. CASE n <= 0 \/ n > Len(q)
  BY <1>1 DEF Taken
<1>2. CASE ~(n <= 0 \/ n > Len(q))
  <2>1. Taken(q, n) = SubSeq(q, 1, n) /\ n \in 1..Len(q)
    BY <1>2 DEF Taken
  <2>2. q \in Seq(Range(q)) /\ \A i \in 1..n : q[i] \in S /\ q[i] \in Range(q)
    BY <2>1, SeqOfRange DEF Range
  <2>3. SubSeq(q, 1, n) \in Seq(S) /\ SubSeq(q, 1, n) \in Seq(Range(q))
    BY <2>2, SubSeqProperties
  <2> QED
    BY <2>1, <2>3, RangeOfSeq
<1> QED
  BY <1>1, <1>2

-----------------------------------------------------------------------------
(* The inductive invariant *)

Dispatches == [pc : {"idle", "write", "flag", "enqueue"}, ping : Pings \cup {0}, conn : Conns \cup {0}]
Requests == [pc : {"idle", "sent", "waiting", "answered", "received"},
             acks : SUBSET Pings, events : Seq(Pings), woken : BOOLEAN]

\* The variables that the argument is about have their types.
TypeOK ==
  /\ queue \in Seq(Pings) /\ conn \in Conns \cup {0}
  /\ task \in [Pings -> EventTasks \cup {0}]
  /\ toPush \in [Conns -> Seq(Pings)] /\ pushed \in [Conns -> SUBSET Pings]
  /\ disp \in [EventTasks -> Dispatches]
  /\ poll \in [Polls -> Requests]
  /\ acks \subseteq Pings /\ seen \in Seq(Pings) /\ runs \in [Pings -> Nat]
  /\ written \subseteq Pings /\ queued \subseteq Pings

\* What is in the queue, or out of date, has entered it, once.
QueueSound ==
  /\ expired \cup Range(queue) \subseteq queued
  /\ IsInjective(queue)
  /\ \A e \in queued : task[e] # 0

\* Pings are dispatched in the order of their numbers, and a task's newest one
\* is the one that is under way and not yet queued.
InOrder ==
  /\ \A e, f \in Pings : e < f /\ task[f] # 0 => task[e] # 0
  /\ \A t \in EventTasks : disp[t].pc # "idle" =>
       /\ disp[t].ping \in Pings \ queued /\ task[disp[t].ping] = t
       /\ \A f \in Pings : task[f] = t => f <= disp[t].ping

Ran == {e \in Pings : runs[e] > 0}

\* The agent acknowledges only what it ran, and the server only what it wrote.
Owed ==
  /\ acks \cup Range(seen) \subseteq Ran
  /\ \A p \in Polls : poll[p].acks \subseteq Ran
  /\ \A p \in Polls : poll[p].pc = "received" => poll[p].events # <<>>
  /\ \A c \in Conns : pushed[c] \subseteq written

IInv == TypeOK /\ QueueSound /\ InOrder /\ Owed /\ NoMissedSignal

-----------------------------------------------------------------------------
(* What the actions make of the queue *)

\* Filtering a queue of pings.
LEMMA FilteredQueue ==
  ASSUME TypeOK, NEW es
  PROVE  /\ Without(queue, es) \in Seq(Pings)
         /\ Range(Without(queue, es)) = Range(queue) \ es
         /\ IsInjective(queue) => IsInjective(Without(queue, es))
  BY WithoutFacts DEF TypeOK

\* The same, for what is pruned once it is acknowledged.
LEMMA PrunedQueue ==
  ASSUME TypeOK, NEW ids
  PROVE  LET q == Pruned(Acked(queue, ids)) IN
         /\ q \in Seq(Pings) /\ Range(q) = (Range(queue) \ ids) \ expired
         /\ IsInjective(queue) => IsInjective(q)
<1> DEFINE r == Acked(queue, ids)
<1>1. r \in Seq(Pings) /\ Range(r) = Range(queue) \ ids /\ (IsInjective(queue) => IsInjective(r))
  BY FilteredQueue DEF Acked
<1> HIDE DEF r
<1>2. /\ Pruned(r) \in Seq(Pings) /\ Range(Pruned(r)) = Range(r) \ expired
      /\ IsInjective(r) => IsInjective(Pruned(r))
  BY <1>1, WithoutFacts DEF Pruned
<1> QED
  BY <1>1, <1>2 DEF r

\* A new event goes to the end of the queue, in place of what is out of date;
\* when there are too many the oldest go.
LEMMA EnqueuedQueue ==
  ASSUME ConstantsTyped, TypeOK, IsInjective(queue), NEW e \in Pings, e \notin Range(queue), NEW t
  PROVE  LET q == Enqueued(e, t)
             due == {f \in Range(queue) \ expired : task[f] # t}
         IN
         /\ q \in Seq(Pings) /\ IsInjective(q) /\ e \in Range(q)
         /\ Range(q) \subseteq due \cup {e}
         /\ Range(q) = due \cup {e} \/ Cardinality(Range(q)) = QueueLimit
<1> DEFINE a == Pruned(queue)
           b == Coalesced(a, t)
           c == Append(b, e)
           due == {f \in Range(queue) \ expired : task[f] # t}
<1>1. a \in Seq(Pings) /\ Range(a) = Range(queue) \ expired /\ IsInjective(a)
  BY FilteredQueue DEF Pruned
<1>2. b \in Seq(Pings) /\ Range(b) = due /\ IsInjective(b)
  <2> HIDE DEF a
  <2>1. /\ b \in Seq(Pings) /\ IsInjective(b)
        /\ Range(b) = Range(a) \ {f \in Pings : task[f] = t}
    BY <1>1, WithoutFacts DEF Coalesced
  <2>2. Range(queue) \subseteq Pings
    BY RangeOfSeq DEF TypeOK
  <2> QED
    BY <1>1, <2>1, <2>2
<1> HIDE DEF a, b
<1>3. c \in Seq(Pings) /\ Range(c) = due \cup {e} /\ Len(c) = Len(b) + 1 /\ c[Len(c)] = e /\ c # <<>>
  BY <1>2, AppendAdds
<1>4. IsInjective(c)
  <2>1. DOMAIN b = 1..Len(b) /\ DOMAIN c = 1..(Len(b) + 1) /\ Len(b) \in Nat
    BY <1>2, <1>3
  <2>2. \A i \in 1..Len(b) : c[i] = b[i] /\ b[i] # e
    BY <1>2, <2>1 DEF Range
  <2>3. c[Len(b) + 1] = e
    BY <1>3
  <2> HIDE DEF c
  <2>4. SUFFICES ASSUME NEW i \in 1..(Len(b) + 1), NEW j \in 1..(Len(b) + 1), c[i] = c[j]
                 PROVE  i = j
    BY <2>1 DEF IsInjective
  <2>5. CASE i \in 1..Len(b) /\ j \in 1..Len(b)
    BY <1>2, <2>1, <2>2, <2>4, <2>5 DEF IsInjective
  <2>6. CASE i \notin 1..Len(b) /\ j \notin 1..Len(b)
    BY <2>1, <2>6
  <2>7. CASE i \in 1..Len(b) /\ j \notin 1..Len(b)
    BY <2>1, <2>2, <2>3, <2>4, <2>7
  <2>8. CASE i \notin 1..Len(b) /\ j \in 1..Len(b)
    BY <2>1, <2>2, <2>3, <2>4, <2>8
  <2> QED
    BY <2>5, <2>6, <2>7, <2>8
<1>5. Enqueued(e, t) = Limited(c)
  BY DEF Enqueued, a, b
<1> HIDE DEF c, due
<1>6. /\ Limited(c) \in Seq(Pings) /\ IsInjective(Limited(c))
      /\ Range(Limited(c)) \subseteq Range(c)
      /\ c[Len(c)] \in Range(Limited(c))
      /\ Limited(c) = c \/ Len(Limited(c)) = QueueLimit
  BY <1>3, <1>4, LimitedFacts
<1>7. Cardinality(Range(Limited(c))) = Len(Limited(c))
  BY <1>6, QueueSize
<1> QED
  BY <1>3, <1>5, <1>6, <1>7 DEF due

-----------------------------------------------------------------------------
(* Types *)

\* The variables have their types initially.
LEMMA TypeInit == ConstantsTyped /\ Init => TypeOK
  BY DEF ConstantsTyped, Init, TypeOK, Dispatches, Requests, Idle, NoRequest

\* The agent's memory holds what it held and the new event.
LEMMA RememberedFacts ==
  ASSUME ConstantsTyped, NEW S, NEW s \in Seq(S), NEW e \in S
  PROVE  /\ Remembered(s, e) \in Seq(S)
         /\ Range(Remembered(s, e)) \subseteq Range(s) \cup {e}
<1>1. CASE Len(s) >= SeenLimit
  <2>1. s # <<>> /\ s \in Seq(Range(s)) /\ Range(s) \subseteq S
    BY <1>1, SeqOfRange, RangeOfSeq DEF ConstantsTyped
  <2>2. Tail(s) \in Seq(Range(s)) /\ Tail(s) \in Seq(S)
    BY <2>1, HeadTailProperties
  <2>3. Range(Tail(s)) \subseteq Range(s)
    BY <2>2, RangeOfSeq
  <2>4. Remembered(s, e) = Append(Tail(s), e)
    BY <1>1 DEF Remembered
  <2>5. Append(Tail(s), e) \in Seq(S) /\ Range(Append(Tail(s), e)) = Range(Tail(s)) \cup {e}
    <3> DEFINE r == Tail(s)
    <3>1. r \in Seq(S)
      BY <2>2
    <3> HIDE DEF r
    <3>2. Append(r, e) \in Seq(S) /\ Range(Append(r, e)) = Range(r) \cup {e}
      BY <3>1, AppendAdds
    <3> QED
      BY <3>2 DEF r
  <2> QED
    BY <2>3, <2>4, <2>5
<1>2. CASE ~(Len(s) >= SeenLimit)
  BY <1>2, AppendAdds DEF Remembered
<1> QED
  BY <1>1, <1>2

\* Every step keeps the types.
LEMMA TypeStep ==
  ASSUME ConstantsTyped, IInv, [Next]_vars
  PROVE  TypeOK'
<1> USE DEF IInv
<1>0. /\ \A t \in EventTasks : disp[t] \in Dispatches
      /\ \A p \in Polls : poll[p] \in Requests
      /\ \A c \in Conns : toPush[c] \in Seq(Pings) /\ pushed[c] \in SUBSET Pings
  BY DEF TypeOK
<1>1. ASSUME NEW e \in Pings, Expire(e)
      PROVE  TypeOK'
  BY <1>1 DEF Expire, TypeOK, server, socket, client
<1>2. ASSUME NEW t \in EventTasks, Dispatch(t)
      PROVE  TypeOK'
  <2>1. PICK e \in Pings :
          /\ task' = [task EXCEPT ![e] = t]
          /\ disp' = [disp EXCEPT ![t] = [pc |-> IF conn # 0 THEN "write" ELSE "flag", ping |-> e, conn |-> conn]]
    BY <1>2 DEF Dispatch
  <2>2. task' \in [Pings -> EventTasks \cup {0}] /\ disp' \in [EventTasks -> Dispatches]
    BY <2>1 DEF TypeOK, Dispatches
  <2> QED
    BY <1>2, <2>2 DEF Dispatch, TypeOK, server, socket, client
<1>3. ASSUME NEW t \in EventTasks, DispatchWrite(t)
      PROVE  TypeOK'
  <2>1. disp' \in [EventTasks -> Dispatches]
    <3>1. Idle \in Dispatches /\ [disp[t] EXCEPT !.pc = "flag"] \in Dispatches
      BY <1>0 DEF Idle, Dispatches
    <3> QED
      BY <1>3, <3>1 DEF DispatchWrite, TypeOK
  <2>2. disp[t].ping \in Pings
    BY <1>3 DEF DispatchWrite, InOrder
  <2>3. written' \subseteq Pings
    BY <1>3, <2>2 DEF DispatchWrite, TypeOK
  <2> QED
    BY <1>3, <2>1, <2>3 DEF DispatchWrite, TypeOK, server, socket, client
<1>4. ASSUME NEW t \in EventTasks, DispatchFlag(t)
      PROVE  TypeOK'
  <2>1. disp' \in [EventTasks -> Dispatches]
    <3>1. Idle \in Dispatches /\ [disp[t] EXCEPT !.pc = "enqueue"] \in Dispatches
      BY <1>0 DEF Idle, Dispatches
    <3> QED
      BY <1>4, <3>1 DEF DispatchFlag, TypeOK
  <2> QED
    BY <1>4, <2>1 DEF DispatchFlag, TypeOK, server, socket, client
<1>5. ASSUME NEW t \in EventTasks, Enqueue(t)
      PROVE  TypeOK'
  <2>1. disp[t].ping \in Pings \ queued
    BY <1>5 DEF Enqueue, InOrder
  <2>2. queue' \in Seq(Pings)
    BY <1>5, <2>1, EnqueuedQueue DEF Enqueue, QueueSound
  <2>3. disp' \in [EventTasks -> Dispatches]
    BY <1>5 DEF Enqueue, TypeOK, Idle, Dispatches
  <2>4. poll' \in [Polls -> Requests]
    <3>1. \A p \in Polls : [poll[p] EXCEPT !.woken = TRUE] \in Requests
      BY <1>0 DEF Requests
    <3> QED
      BY <1>0, <1>5, <3>1 DEF Enqueue, Woken
  <2> QED
    BY <1>5, <2>1, <2>2, <2>3, <2>4 DEF Enqueue, TypeOK, socket, client
<1>6. ASSUME NEW c \in Conns, Connect(c) \/ Register(c) \/ Flag(c) \/ SocketBreaks(c) \/ HandlerEnds(c)
      PROVE  TypeOK'
  BY <1>6 DEF Connect, Register, Flag, SocketBreaks, HandlerEnds, TypeOK, server, socket, client
<1>7. ASSUME NEW c \in Conns, TakeAll(c)
      PROVE  TypeOK'
  <2>1. Pruned(queue) \in Seq(Pings)
    BY FilteredQueue DEF Pruned
  <2>2. Taken(Pruned(queue), 0) \in Seq(Pings)
    BY <2>1, TakenFacts
  <2> QED
    BY <1>7, <2>1, <2>2 DEF TakeAll, TypeOK, socket, client
<1>8. ASSUME NEW c \in Conns, PushOne(c)
      PROVE  TypeOK'
  <2>1. toPush[c] \in Seq(Pings) /\ toPush[c] # <<>>
    BY <1>0, <1>8 DEF PushOne
  <2>2. Head(toPush[c]) \in Pings /\ Tail(toPush[c]) \in Seq(Pings)
    BY <2>1, HeadTailProperties
  <2>3. toPush' \in [Conns -> Seq(Pings)] /\ written' \subseteq Pings
    BY <1>8, <2>2 DEF PushOne, TypeOK
  <2>4. pushed' \in [Conns -> SUBSET Pings]
    BY <1>0, <1>8, <2>2 DEF PushOne, TypeOK
  <2> QED
    BY <1>8, <2>3, <2>4 DEF PushOne, TypeOK, server, client
<1>9. ASSUME NEW c \in Conns, PushEnds(c)
      PROVE  TypeOK'
  <2>1. queue' \in Seq(Pings)
    BY <1>9, FilteredQueue DEF PushEnds, AfterPush, Acked
  <2> QED
    BY <1>9, <2>1 DEF PushEnds, TypeOK, client
<1>10. ASSUME NEW c \in Conns, WsReport(c)
       PROVE  TypeOK'
  <2>1. queue' \in Seq(Pings)
    BY <1>10, FilteredQueue DEF WsReport, Pruned
  <2> QED
    BY <1>10, <2>1 DEF WsReport, TypeOK, socket, client
<1>11. CASE SessionExpires \/ FallBack
  BY <1>11 DEF SessionExpires, FallBack, TypeOK, server, socket, client
<1>12. CASE WaitEnds
  <2>1. queue' \in Seq(Pings) /\ queue' = Pruned(queue)
    BY <1>12, FilteredQueue DEF WaitEnds, Pruned
  <2>2. Taken(queue', QueueLimit) \in Seq(Pings)
    BY <2>1, TakenFacts DEF ConstantsTyped
  <2>3. poll' \in [Polls -> Requests]
    BY <1>0, <1>12, <2>1, <2>2 DEF WaitEnds, TypeOK, Requests
  <2> QED
    BY <1>12, <2>1, <2>3 DEF WaitEnds, TypeOK, socket, client
<1>13. ASSUME NEW p \in Polls, Send(p)
       PROVE  TypeOK'
  <2>1. [poll[p] EXCEPT !.pc = "sent", !.acks = acks] \in Requests
    BY <1>0 DEF Requests, TypeOK
  <2> QED
    BY <1>13, <2>1 DEF Send, TypeOK, server, socket, client
<1>14. ASSUME NEW p \in Polls, Arrive(p)
       PROVE  TypeOK'
  <2> DEFINE q == Pruned(Acked(queue, poll[p].acks))
             n == IF p = "report" THEN ReportTake ELSE QueueLimit
  <2>1. q \in Seq(Pings)
    BY PrunedQueue
  <2> HIDE DEF q
  <2>a. n \in Int
    BY DEF ConstantsTyped
  <2> HIDE DEF n
  <2>2. Taken(q, n) \in Seq(Pings)
    BY <2>1, <2>a, TakenFacts
  <2>3. /\ [poll[p] EXCEPT !.pc = "waiting"] \in Requests
        /\ [poll[p] EXCEPT !.pc = "answered", !.events = Taken(q, n)] \in Requests
    BY <1>0, <2>2 DEF Requests
  <2>4. poll' \in [Polls -> Requests]
    BY <1>14, <2>3 DEF Arrive, TypeOK, q, n
  <2>5. queue' = q
    BY <1>14 DEF Arrive, q
  <2> QED
    BY <1>14, <2>1, <2>4, <2>5 DEF Arrive, TypeOK, socket, client
<1>15. ASSUME NEW p \in Polls, Answer(p)
       PROVE  TypeOK'
  <2>1. NoRequest \in Requests /\ [poll[p] EXCEPT !.pc = "received"] \in Requests
    BY <1>0 DEF NoRequest, Requests
  <2>2. poll' \in [Polls -> Requests]
    BY <1>15, <2>1 DEF Answer, TypeOK
  <2> QED
    BY <1>15, <2>2 DEF Answer, TypeOK, server, socket
<1>16. ASSUME NEW p \in Polls, Process(p)
       PROVE  TypeOK'
  <2> DEFINE e == Head(poll[p].events)
  <2>1. poll[p].events \in Seq(Pings) /\ poll[p].events # <<>>
    BY <1>0, <1>16 DEF Process, Owed, Requests
  <2>2. e \in Pings /\ Tail(poll[p].events) \in Seq(Pings)
    BY <2>1, HeadTailProperties
  <2> DEFINE rest == [poll[p] EXCEPT !.events = Tail(poll[p].events)]
  <2> HIDE DEF e
  <2>s. rest \in Requests
    BY <1>0, <2>2 DEF Requests
  <2>3. NoRequest \in Requests
    BY DEF NoRequest, Requests
  <2>r. poll' = [poll EXCEPT ![p] = IF Len(poll[p].events) = 1 THEN NoRequest ELSE rest]
    BY <1>16 DEF Process
  <2> HIDE DEF rest
  <2>4. poll' \in [Polls -> Requests]
    BY <2>3, <2>r, <2>s DEF TypeOK
  <2>5. Remembered(seen, e) \in Seq(Pings)
    BY <2>2, RememberedFacts DEF TypeOK
  <2>6. /\ IF Fresh(e) THEN runs' = [runs EXCEPT ![e] = @ + 1] /\ seen' = Remembered(seen, e)
                       ELSE UNCHANGED <<runs, seen>>
        /\ acks' = acks \cup {e}
    BY <1>16 DEF Process, e
  <2>7. runs' \in [Pings -> Nat] /\ seen' \in Seq(Pings) /\ acks' \subseteq Pings
    <3>1. runs \in [Pings -> Nat] /\ seen \in Seq(Pings) /\ acks \subseteq Pings
      BY DEF TypeOK
    <3>2. CASE Fresh(e)
      BY <2>2, <2>5, <2>6, <3>1, <3>2
    <3>3. CASE ~Fresh(e)
      BY <2>2, <2>6, <3>1, <3>3
    <3> QED
      BY <3>2, <3>3
  <2> QED
    BY <1>16, <2>4, <2>7 DEF Process, TypeOK, server, socket
<1>17. ASSUME NEW p \in Polls, Lost(p)
       PROVE  TypeOK'
  <2>1. NoRequest \in Requests
    BY DEF NoRequest, Requests
  <2> QED
    BY <1>17, <2>1 DEF Lost, TypeOK, server, socket, client
<1>18. CASE UNCHANGED vars
  BY <1>18 DEF vars, TypeOK, server, socket, client
<1> QED
  BY <1>1, <1>2, <1>3, <1>4, <1>5, <1>6, <1>7, <1>8, <1>9, <1>10, <1>11, <1>12, <1>13, <1>14,
     <1>15, <1>16, <1>17, <1>18 DEF Next

-----------------------------------------------------------------------------
(* What leaves the queue *)

\* What a step other than Enqueue does to the queue: an event leaves it when
\* the agent has run it, it was written, or it is past its time.
OnlySettledLeave ==
  /\ queued' = queued /\ \A e \in queued : task'[e] = task[e]
  /\ expired \subseteq expired' /\ expired' \subseteq expired \cup Range(queue)
  /\ Range(queue') \subseteq Range(queue) /\ IsInjective(queue')
  /\ Range(queue) \ Range(queue') \subseteq expired' \cup Ran' \cup written'
  /\ Ran \subseteq Ran' /\ written \subseteq written'

\* Pruning is such a step.
LEMMA PruningSettles ==
  ASSUME TypeOK, QueueSound, queue' = Pruned(queue),
         UNCHANGED <<queued, task, expired, runs, written>>
  PROVE  OnlySettledLeave
<1>1. Range(queue') = Range(queue) \ expired /\ IsInjective(queue')
  BY FilteredQueue DEF Pruned, QueueSound
<1> QED
  BY <1>1 DEF OnlySettledLeave, Ran

\* Every step but Enqueue removes settled events only.
LEMMA Settling ==
  ASSUME ConstantsTyped, IInv, [Next]_vars, ~ \E t \in EventTasks : Enqueue(t)
  PROVE  OnlySettledLeave
<1> USE DEF IInv
<1>0. IsInjective(queue)
  BY DEF QueueSound
<1>1. ASSUME NEW e \in Pings, Expire(e)
      PROVE  OnlySettledLeave
  BY <1>0, <1>1 DEF Expire, OnlySettledLeave, Ran, server, client
<1>2. ASSUME NEW t \in EventTasks, Dispatch(t)
      PROVE  OnlySettledLeave
  <2>1. PICK e \in Pings : task[e] = 0 /\ task' = [task EXCEPT ![e] = t]
    BY <1>2 DEF Dispatch
  <2>2. \A f \in queued : task'[f] = task[f]
    BY <2>1 DEF QueueSound, TypeOK
  <2> QED
    BY <1>0, <1>2, <2>2 DEF Dispatch, OnlySettledLeave, Ran, server, client
<1>3. ASSUME NEW t \in EventTasks, DispatchWrite(t) \/ DispatchFlag(t)
      PROVE  OnlySettledLeave
  BY <1>0, <1>3 DEF DispatchWrite, DispatchFlag, OnlySettledLeave, Ran, server, client
<1>4. ASSUME NEW c \in Conns,
             Connect(c) \/ Register(c) \/ Flag(c) \/ PushOne(c) \/ SocketBreaks(c) \/ HandlerEnds(c)
      PROVE  OnlySettledLeave
  BY <1>0, <1>4 DEF Connect, Register, Flag, PushOne, SocketBreaks, HandlerEnds, OnlySettledLeave, Ran,
                    server, client
<1>5. ASSUME NEW c \in Conns, TakeAll(c) \/ WsReport(c)
      PROVE  OnlySettledLeave
  BY <1>5, PruningSettles DEF TakeAll, WsReport, client
<1>6. ASSUME NEW c \in Conns, PushEnds(c)
      PROVE  OnlySettledLeave
  <2>1. Range(queue') = Range(queue) \ pushed[c] /\ IsInjective(queue')
    BY <1>0, <1>6, FilteredQueue DEF PushEnds, AfterPush, Acked
  <2>2. pushed[c] \subseteq written
    BY DEF Owed
  <2> QED
    BY <1>6, <2>1, <2>2 DEF PushEnds, OnlySettledLeave, Ran, client
<1>7. CASE WaitEnds
  BY <1>7, PruningSettles DEF WaitEnds, client
<1>8. ASSUME NEW p \in Polls, Arrive(p)
      PROVE  OnlySettledLeave
  <2>1. Range(queue') = (Range(queue) \ poll[p].acks) \ expired /\ IsInjective(queue')
    BY <1>0, <1>8, PrunedQueue DEF Arrive
  <2>2. poll[p].acks \subseteq Ran
    BY DEF Owed
  <2> QED
    BY <1>8, <2>1, <2>2 DEF Arrive, OnlySettledLeave, Ran, client
<1>9. ASSUME NEW p \in Polls, Process(p)
      PROVE  OnlySettledLeave
  <2>1. runs' = runs \/ \E e : runs' = [runs EXCEPT ![e] = @ + 1]
    BY <1>9 DEF Process
  <2>2. Ran \subseteq Ran'
    <3>1. ASSUME NEW f \in Pings, runs[f] > 0
          PROVE  runs'[f] > 0
      <4>1. runs'[f] = runs[f] \/ runs'[f] = runs[f] + 1
        BY <2>1 DEF TypeOK
      <4> QED
        BY <3>1, <4>1 DEF TypeOK
    <3> QED
      BY <3>1 DEF Ran
  <2> QED
    BY <1>0, <1>9, <2>2 DEF Process, OnlySettledLeave, server
<1>10. ASSUME NEW p \in Polls, Send(p) \/ Answer(p) \/ Lost(p)
       PROVE  OnlySettledLeave
  BY <1>0, <1>10 DEF Send, Answer, Lost, OnlySettledLeave, Ran, server, client
<1>11. CASE SessionExpires \/ FallBack \/ UNCHANGED vars
  BY <1>0, <1>11 DEF SessionExpires, FallBack, vars, OnlySettledLeave, Ran, server, client
<1> QED
  BY <1>1, <1>2, <1>3, <1>4, <1>5, <1>6, <1>7, <1>8, <1>9, <1>10, <1>11 DEF Next

\* What is queued is the newest ping of its task, and takes the place of what
\* is out of date, or of the oldest events of a full queue.
LEMMA Enqueueing ==
  ASSUME ConstantsTyped, IInv, NEW t \in EventTasks, Enqueue(t)
  PROVE  LET e == disp[t].ping
             due == {f \in Range(queue) \ expired : task[f] # t}
         IN
         /\ e \in Pings \ queued /\ task[e] = t /\ queued' = queued \cup {e}
         /\ \A f \in Pings : task[f] = t => f <= e
         /\ IsInjective(queue') /\ e \in Range(queue')
         /\ Range(queue') \subseteq due \cup {e}
         /\ Range(queue') = due \cup {e} \/ Cardinality(Range(queue')) = QueueLimit
         /\ UNCHANGED <<task, expired, runs, written>>
<1> DEFINE e == disp[t].ping
<1>1. /\ e \in Pings \ queued /\ task[e] = t
      /\ \A f \in Pings : task[f] = t => f <= e
  BY DEF IInv, InOrder, Enqueue
<1>2. queue' = Enqueued(e, t) /\ queued' = queued \cup {e} /\ UNCHANGED <<task, expired, runs, written>>
  BY DEF Enqueue, client
<1>3. e \notin Range(queue) /\ IsInjective(queue) /\ TypeOK
  BY <1>1 DEF IInv, QueueSound
<1> HIDE DEF e
<1>4. LET due == {f \in Range(queue) \ expired : task[f] # t} IN
      /\ IsInjective(queue') /\ e \in Range(queue')
      /\ Range(queue') \subseteq due \cup {e}
      /\ Range(queue') = due \cup {e} \/ Cardinality(Range(queue')) = QueueLimit
  BY <1>1, <1>2, <1>3, EnqueuedQueue
<1> QED
  BY <1>1, <1>2, <1>4 DEF e

-----------------------------------------------------------------------------
(* The invariant is kept *)

\* Every step keeps the queue sound.
LEMMA QueueStep ==
  ASSUME ConstantsTyped, IInv, [Next]_vars
  PROVE  QueueSound'
<1>1. ASSUME NEW t \in EventTasks, Enqueue(t)
      PROVE  QueueSound'
  BY <1>1, Enqueueing DEF QueueSound, IInv, ConstantsTyped
<1>2. CASE ~ \E t \in EventTasks : Enqueue(t)
  BY <1>2, Settling DEF QueueSound, IInv, OnlySettledLeave
<1> QED
  BY <1>1, <1>2

\* Every step keeps the pings in order.
LEMMA OrderStep ==
  ASSUME ConstantsTyped, IInv, [Next]_vars
  PROVE  InOrder'
<1> USE DEF IInv
<1>1. ASSUME NEW t \in EventTasks, Dispatch(t)
      PROVE  InOrder'
  <2>1. PICK e \in Pings :
          /\ task[e] = 0 /\ \A f \in Pings : f < e => task[f] # 0
          /\ task' = [task EXCEPT ![e] = t]
          /\ disp' = [disp EXCEPT ![t] = [pc |-> IF conn # 0 THEN "write" ELSE "flag", ping |-> e, conn |-> conn]]
    BY <1>1 DEF Dispatch
  <2>2. t # 0 /\ e \in Nat /\ Pings \subseteq Nat /\ 0 \notin EventTasks
    BY DEF ConstantsTyped, Pings
  <2>3. \A f \in Pings : task'[f] = IF f = e THEN t ELSE task[f]
    BY <2>1 DEF TypeOK
  <2>4. \A f \in Pings : f > e => task[f] = 0
    BY <2>1, <2>2 DEF InOrder
  <2>5. \A f, g \in Pings : f < g /\ task'[g] # 0 => task'[f] # 0
    BY <2>1, <2>2, <2>3 DEF InOrder
  <2>6. queued' = queued /\ e \notin queued
    BY <1>1, <2>1 DEF Dispatch, QueueSound
  <2>7. ASSUME NEW s \in EventTasks, disp'[s].pc # "idle"
        PROVE  /\ disp'[s].ping \in Pings \ queued' /\ task'[disp'[s].ping] = s
               /\ \A f \in Pings : task'[f] = s => f <= disp'[s].ping
    <3>1. CASE s = t
      <4>1. disp'[s].ping = e
        BY <2>1, <3>1 DEF TypeOK
      <4>2. \A f \in Pings : task'[f] = s => f <= e
        BY <2>2, <2>3, <2>4, <3>1
      <4> QED
        BY <2>3, <2>6, <3>1, <4>1, <4>2
    <3>2. CASE s # t
      <4>1. disp'[s] = disp[s]
        BY <2>1, <3>2 DEF TypeOK
      <4>2. disp[s].ping \in Pings \ queued /\ task[disp[s].ping] = s
            /\ \A f \in Pings : task[f] = s => f <= disp[s].ping
        BY <2>7, <4>1 DEF InOrder
      <4> QED
        BY <2>1, <2>2, <2>3, <2>6, <3>2, <4>1, <4>2
    <3> QED
      BY <3>1, <3>2
  <2> QED
    BY <2>5, <2>7 DEF InOrder
<1>2. ASSUME NEW t \in EventTasks, DispatchWrite(t) \/ DispatchFlag(t)
      PROVE  InOrder'
  <2>1. UNCHANGED <<task, queued>>
    BY <1>2 DEF DispatchWrite, DispatchFlag
  <2>2. ASSUME NEW s \in EventTasks, disp'[s].pc # "idle"
        PROVE  disp[s].pc # "idle" /\ disp'[s].ping = disp[s].ping
    <3>1. \E d : disp' = [disp EXCEPT ![t] = d] /\ (d.pc = "idle" \/ d.ping = disp[t].ping)
      <4>1. CASE DispatchWrite(t)
        <5>1. disp' = [disp EXCEPT ![t] = Idle] \/ disp' = [disp EXCEPT ![t] = [disp[t] EXCEPT !.pc = "flag"]]
          BY <4>1 DEF DispatchWrite
        <5> QED
          BY <5>1 DEF Idle, TypeOK, Dispatches
      <4>2. CASE DispatchFlag(t)
        <5>1. disp' = [disp EXCEPT ![t] = Idle] \/ disp' = [disp EXCEPT ![t] = [disp[t] EXCEPT !.pc = "enqueue"]]
          BY <4>2 DEF DispatchFlag
        <5> QED
          BY <5>1 DEF Idle, TypeOK, Dispatches
      <4> QED
        BY <1>2, <4>1, <4>2
    <3>2. disp[t].pc # "idle"
      BY <1>2 DEF DispatchWrite, DispatchFlag
    <3> QED
      BY <2>2, <3>1, <3>2 DEF TypeOK
  <2> QED
    BY <2>1, <2>2 DEF InOrder
<1>3. ASSUME NEW t \in EventTasks, Enqueue(t)
      PROVE  InOrder'
  <2>1. task' = task /\ queued' = queued \cup {disp[t].ping} /\ task[disp[t].ping] = t
    BY <1>3, Enqueueing
  <2>2. ASSUME NEW s \in EventTasks, disp'[s].pc # "idle"
        PROVE  s # t /\ disp'[s] = disp[s]
    BY <1>3, <2>2 DEF Enqueue, Idle, TypeOK
  <2> QED
    BY <2>1, <2>2 DEF InOrder
<1>4. CASE UNCHANGED <<task, disp, queued>>
  BY <1>4 DEF InOrder
<1>5. ASSUME NEW c \in Conns,
             \/ Connect(c) \/ Register(c) \/ Flag(c) \/ TakeAll(c) \/ PushOne(c) \/ PushEnds(c)
             \/ WsReport(c) \/ SocketBreaks(c) \/ HandlerEnds(c)
      PROVE  UNCHANGED <<task, disp, queued>>
  BY <1>5 DEF Connect, Register, Flag, TakeAll, PushOne, PushEnds, WsReport, SocketBreaks, HandlerEnds
<1>6. ASSUME NEW p \in Polls, Send(p) \/ Arrive(p) \/ Answer(p) \/ Process(p) \/ Lost(p)
      PROVE  UNCHANGED <<task, disp, queued>>
  BY <1>6 DEF Send, Arrive, Answer, Process, Lost
<1>7. CASE \/ \E e \in Pings : Expire(e)
           \/ SessionExpires \/ FallBack \/ WaitEnds \/ UNCHANGED vars
  BY <1>4, <1>7 DEF Expire, SessionExpires, FallBack, WaitEnds, vars
<1> QED
  BY <1>1, <1>2, <1>3, <1>4, <1>5, <1>6, <1>7 DEF Next

\* Changing one request leaves the other alone.
LEMMA OneRequest ==
  ASSUME TypeOK, NEW p \in Polls, NEW x, poll' = [poll EXCEPT ![p] = x]
  PROVE  poll'[p] = x /\ \A r \in Polls : r # p => poll'[r] = poll[r]
  BY DEF TypeOK

\* Every step keeps what is owed within what was done.
LEMMA OwedStep ==
  ASSUME ConstantsTyped, IInv, [Next]_vars
  PROVE  Owed'
<1> USE DEF IInv
<1>0. /\ acks \cup Range(seen) \subseteq Ran
      /\ \A p \in Polls : poll[p].acks \subseteq Ran /\ (poll[p].pc = "received" => poll[p].events # <<>>)
      /\ \A c \in Conns : pushed[c] \subseteq written
      /\ \A p \in Polls : poll[p] \in Requests
  BY DEF Owed, TypeOK
<1>1. ASSUME NEW t \in EventTasks, Enqueue(t)
      PROVE  Owed'
  <2>1. \A p \in Polls : poll'[p].acks = poll[p].acks /\ poll'[p].pc = poll[p].pc
                         /\ poll'[p].events = poll[p].events
    BY <1>0, <1>1 DEF Enqueue, Woken, Requests
  <2> QED
    BY <1>0, <1>1, <2>1 DEF Enqueue, Owed, Ran, socket, client
<1>2. ASSUME NEW c \in Conns, PushOne(c) \/ PushEnds(c)
      PROVE  Owed'
  <2>1. \A d \in Conns : pushed'[d] \subseteq written'
    BY <1>0, <1>2 DEF PushOne, PushEnds, TypeOK
  <2> QED
    BY <1>0, <1>2, <2>1 DEF PushOne, PushEnds, Owed, Ran, client
<1>3. CASE WaitEnds
  <2>1. \A p \in Polls : poll'[p].acks = poll[p].acks /\ (poll'[p].pc = "received" => poll'[p] = poll[p])
    BY <1>0, <1>3 DEF WaitEnds, TypeOK, Requests
  <2> QED
    BY <1>0, <1>3, <2>1 DEF WaitEnds, Owed, Ran, socket, client
<1>4. ASSUME NEW p \in Polls, Send(p)
      PROVE  Owed'
  <2>1. \A r \in Polls : IF r = p THEN poll'[r].acks = acks /\ poll'[r].pc = "sent" ELSE poll'[r] = poll[r]
    BY <1>0, <1>4 DEF Send, TypeOK, Requests
  <2> QED
    BY <1>0, <1>4, <2>1 DEF Send, Owed, Ran, socket, client
<1>5. ASSUME NEW p \in Polls, Arrive(p)
      PROVE  Owed'
  <2>1. \A r \in Polls : IF r = p THEN poll'[r].acks = poll[r].acks /\ poll'[r].pc # "received"
                         ELSE poll'[r] = poll[r]
    <3>1. PICK x, es : /\ poll' = [poll EXCEPT ![p] = x]
                       /\ \/ x = [poll[p] EXCEPT !.pc = "waiting"]
                          \/ x = [poll[p] EXCEPT !.pc = "answered", !.events = es]
      BY <1>5 DEF Arrive
    <3>2. x.acks = poll[p].acks /\ x.pc # "received"
      BY <1>0, <3>1 DEF Requests
    <3> QED
      BY <3>1, <3>2, OneRequest
  <2> QED
    BY <1>0, <1>5, <2>1 DEF Arrive, Owed, Ran, socket, client
<1>6. ASSUME NEW p \in Polls, Answer(p)
      PROVE  Owed'
  <2>1. \A r \in Polls : /\ poll'[r].acks \in {{}, poll[r].acks}
                         /\ poll'[r].pc = "received" => poll'[r].events # <<>>
    <3>1. PICK x : /\ poll' = [poll EXCEPT ![p] = x]
                   /\ \/ x = NoRequest
                      \/ poll[p].events # <<>> /\ x = [poll[p] EXCEPT !.pc = "received"]
      BY <1>6 DEF Answer
    <3>2. x.acks \in {{}, poll[p].acks} /\ (x.pc = "received" => x.events # <<>>)
      BY <1>0, <3>1 DEF NoRequest, Requests
    <3> QED
      BY <1>0, <3>1, <3>2, OneRequest
  <2> QED
    BY <1>0, <1>6, <2>1 DEF Answer, Owed, Ran, socket
<1>7. ASSUME NEW p \in Polls, Process(p)
      PROVE  Owed'
  <2> DEFINE e == Head(poll[p].events)
             rest == [poll[p] EXCEPT !.events = Tail(poll[p].events)]
  <2>1. poll[p].events \in Seq(Pings) /\ poll[p].events # <<>>
    BY <1>0, <1>7 DEF Process, Requests
  <2>2. /\ e \in Pings /\ Tail(poll[p].events) \in Seq(Pings)
        /\ Len(Tail(poll[p].events)) = Len(poll[p].events) - 1 /\ Len(poll[p].events) \in Nat
    BY <2>1, HeadTailProperties
  <2>3. Len(poll[p].events) # 1 => Tail(poll[p].events) # <<>>
    <3>1. ASSUME Tail(poll[p].events) = <<>>
          PROVE  Len(poll[p].events) = 1
      <4> DEFINE u == Tail(poll[p].events)
      <4>1. u = <<>> /\ (u = <<>> => Len(u) = 0)
        <5>1. u = <<>>
          BY <3>1
        <5> HIDE DEF u
        <5> QED
          BY <5>1
      <4> QED
        BY <2>2, <4>1
    <3> QED
      BY <3>1
  <2>4. \/ poll' = [poll EXCEPT ![p] = NoRequest]
        \/ Len(poll[p].events) # 1 /\ poll' = [poll EXCEPT ![p] = rest]
    BY <1>7 DEF Process
  <2>5. /\ IF Fresh(e) THEN runs' = [runs EXCEPT ![e] = runs[e] + 1] /\ seen' = Remembered(seen, e)
                       ELSE UNCHANGED <<runs, seen>>
        /\ acks' = acks \cup {e} /\ UNCHANGED <<pushed, written>>
    BY <1>7 DEF Process, socket
  <2>6. \A r \in Polls : /\ poll'[r].acks \in {{}, poll[r].acks}
                         /\ poll'[r].pc = "received" => poll'[r].events # <<>>
    <3>1. PICK x : /\ poll' = [poll EXCEPT ![p] = x]
                   /\ x = NoRequest \/ (Len(poll[p].events) # 1 /\ x = rest)
      BY <2>4
    <3>2. x.acks \in {{}, poll[p].acks} /\ (x.pc = "received" => x.events # <<>>)
      BY <1>0, <2>3, <3>1 DEF NoRequest, Requests
    <3> QED
      BY <1>0, <3>1, <3>2, OneRequest
  <2> HIDE DEF e, rest
  <2>7. acks' \cup Range(seen') \subseteq Ran' /\ Ran \subseteq Ran'
    <3>1. CASE Fresh(e)
      <4>1. \A f \in Pings : runs'[f] = IF f = e THEN runs[f] + 1 ELSE runs[f]
        BY <2>5, <3>1 DEF TypeOK
      <4>2. Ran \cup {e} \subseteq Ran'
        BY <2>2, <4>1 DEF Ran, TypeOK
      <4>3. Range(seen') \subseteq Range(seen) \cup {e}
        BY <2>2, <2>5, <3>1, RememberedFacts DEF TypeOK
      <4> QED
        BY <1>0, <2>5, <4>2, <4>3
    <3>2. CASE ~Fresh(e)
      <4>1. e \in Range(seen)
        BY <3>2 DEF Fresh, Contains, Range, TypeOK
      <4> QED
        BY <1>0, <2>5, <3>2, <4>1 DEF Ran
    <3> QED
      BY <3>1, <3>2
  <2> QED
    BY <1>0, <2>5, <2>6, <2>7 DEF Owed
<1>8. ASSUME NEW p \in Polls, Lost(p)
      PROVE  Owed'
  <2>1. \A r \in Polls : /\ poll'[r].acks \in {{}, poll[r].acks}
                         /\ poll'[r].pc = "received" => poll'[r] = poll[r]
    BY <1>0, <1>8 DEF Lost, TypeOK, Requests, NoRequest
  <2> QED
    BY <1>0, <1>8, <2>1 DEF Lost, Owed, Ran, socket, client
<1>9. ASSUME NEW t \in EventTasks, Dispatch(t) \/ DispatchWrite(t) \/ DispatchFlag(t)
      PROVE  Owed'
  <2>1. UNCHANGED <<client, socket, poll>> /\ written \subseteq written'
    BY <1>9 DEF Dispatch, DispatchWrite, DispatchFlag
  <2> QED
    BY <1>0, <2>1 DEF Owed, Ran, socket, client
<1>10. ASSUME NEW c \in Conns,
              \/ Connect(c) \/ Register(c) \/ Flag(c) \/ TakeAll(c)
              \/ WsReport(c) \/ SocketBreaks(c) \/ HandlerEnds(c)
       PROVE  Owed'
  <2>1. UNCHANGED <<pushed, acks, seen, runs, poll, written>>
    BY <1>10 DEF Connect, Register, Flag, TakeAll, WsReport, SocketBreaks, HandlerEnds, client, socket
  <2> QED
    BY <1>0, <2>1 DEF Owed, Ran
<1>11. CASE \/ \E e \in Pings : Expire(e)
            \/ SessionExpires \/ FallBack \/ UNCHANGED vars
  <2>1. UNCHANGED <<pushed, acks, seen, runs, poll, written>>
    BY <1>11 DEF Expire, SessionExpires, FallBack, vars, client, socket
  <2> QED
    BY <1>0, <2>1 DEF Owed, Ran
<1> QED
  BY <1>1, <1>2, <1>3, <1>4, <1>5, <1>6, <1>7, <1>8, <1>9, <1>10, <1>11 DEF Next

\* A queue is empty when there is nothing in it.
LEMMA NothingPruned ==
  ASSUME TypeOK
  PROVE  Pruned(queue) = <<>> <=> Range(queue) \subseteq expired
<1>1. Pruned(queue) \in Seq(Pings) /\ Range(Pruned(queue)) = Range(queue) \ expired
  BY FilteredQueue DEF Pruned
<1>2. \A q \in Seq(Pings) : q = <<>> <=> Range(q) = {}
  <2>1. \A q \in Seq(Pings) : q # <<>> => 1 \in DOMAIN q
    OBVIOUS
  <2>2. Range(<<>>) = {}
    BY DEF Range
  <2> QED
    BY <2>1, <2>2 DEF Range
<1> QED
  BY <1>1, <1>2

\* A long poll that waits has been woken, or there is nothing for it.
LEMMA SignalStep ==
  ASSUME ConstantsTyped, IInv, [Next]_vars
  PROVE  NoMissedSignal'
<1> USE DEF IInv
<1>0. TypeOK' /\ poll["pull"] \in Requests /\ "pull" \in Polls
  BY TypeStep DEF TypeOK, Polls
<1> SUFFICES ASSUME poll'["pull"].pc = "waiting", ~poll'["pull"].woken
             PROVE  Range(queue') \subseteq expired'
  <2>1. (Pruned(queue) = <<>> <=> Range(queue) \subseteq expired)'
    BY <1>0, NothingPruned, PTL
  <2> QED
    BY <2>1 DEF NoMissedSignal
<1>1. CASE poll["pull"].pc = "waiting" /\ ~poll["pull"].woken
  <2>1. Range(queue) \subseteq expired
    BY <1>1, NothingPruned DEF NoMissedSignal
  <2>2. ASSUME NEW t \in EventTasks, Enqueue(t)
        PROVE  FALSE
    BY <1>0, <1>1, <2>2 DEF Enqueue, Woken, Requests
  <2> QED
    BY <2>1, <2>2, Settling DEF OnlySettledLeave
<1>2. ASSUME NEW p \in Polls, Arrive(p), p = "pull"
      PROVE  Range(queue') \subseteq expired'
  <2> DEFINE q == Pruned(Acked(queue, poll[p].acks))
  <2>1. q = <<>>
    <3>1. q # <<>> => \E es : poll' = [poll EXCEPT ![p] = [poll[p] EXCEPT !.pc = "answered", !.events = es]]
      BY <1>2 DEF Arrive
    <3> HIDE DEF q
    <3>2. ASSUME q # <<>>
          PROVE  FALSE
      <4>1. PICK x, es : poll' = [poll EXCEPT ![p] = x] /\ x = [poll[p] EXCEPT !.pc = "answered", !.events = es]
        BY <3>1, <3>2
      <4>2. x.pc = "answered"
        BY <1>0, <1>2, <4>1 DEF Requests
      <4>3. poll'[p] = x
        BY <1>2, <4>1, OneRequest
      <4> QED
        BY <1>2, <4>2, <4>3
    <3> QED
      BY <3>2
  <2>2. queue' = q
    BY <1>2 DEF Arrive
  <2> QED
    BY <2>1, <2>2 DEF Range
<1>3. ASSUME ~(poll["pull"].pc = "waiting" /\ ~poll["pull"].woken), ~Arrive("pull")
      PROVE  FALSE
  <2>1. ASSUME NEW p \in Polls, p # "pull", Send(p) \/ Arrive(p) \/ Answer(p) \/ Process(p) \/ Lost(p)
        PROVE  poll'["pull"] = poll["pull"]
    <3>1. \E x : poll' = [poll EXCEPT ![p] = x]
      BY <2>1 DEF Send, Arrive, Answer, Process, Lost
    <3> QED
      BY <1>0, <2>1, <3>1, OneRequest
  <2>2. CASE Send("pull") \/ Answer("pull") \/ Process("pull") \/ Lost("pull")
    <3>1. PICK x : /\ poll' = [poll EXCEPT !["pull"] = x]
                   /\ \/ x = NoRequest
                      \/ x = [poll["pull"] EXCEPT !.pc = "sent", !.acks = acks]
                      \/ x = [poll["pull"] EXCEPT !.pc = "received"]
                      \/ /\ poll["pull"].pc = "received"
                         /\ \E es : x = [poll["pull"] EXCEPT !.events = es]
      BY <2>2 DEF Send, Answer, Process, Lost
    <3>2. x.pc # "waiting"
      <4>1. CASE x = NoRequest
        BY <4>1 DEF NoRequest
      <4>2. CASE \/ x = [poll["pull"] EXCEPT !.pc = "sent", !.acks = acks]
                 \/ x = [poll["pull"] EXCEPT !.pc = "received"]
        BY <1>0, <4>2 DEF Requests
      <4>3. CASE poll["pull"].pc = "received" /\ \E es : x = [poll["pull"] EXCEPT !.events = es]
        BY <1>0, <4>3 DEF Requests
      <4> QED
        BY <3>1, <4>1, <4>2, <4>3
    <3>3. poll'["pull"] = x
      BY <1>0, <3>1, OneRequest
    <3> QED
      BY <3>2, <3>3
  <2>3. ASSUME NEW t \in EventTasks, Dispatch(t) \/ DispatchWrite(t) \/ DispatchFlag(t)
        PROVE  poll' = poll
    BY <2>3 DEF Dispatch, DispatchWrite, DispatchFlag
  <2>4. ASSUME NEW t \in EventTasks, Enqueue(t)
        PROVE  FALSE
    BY <1>0, <2>4 DEF Enqueue, Woken, Requests
  <2>5. ASSUME NEW c \in Conns,
               \/ Connect(c) \/ Register(c) \/ Flag(c) \/ TakeAll(c) \/ PushOne(c) \/ PushEnds(c)
               \/ WsReport(c) \/ SocketBreaks(c) \/ HandlerEnds(c)
        PROVE  poll' = poll
    BY <2>5 DEF Connect, Register, Flag, TakeAll, PushOne, PushEnds, WsReport, SocketBreaks, HandlerEnds
  <2>6. CASE WaitEnds
    BY <1>0, <2>6 DEF WaitEnds, TypeOK, Requests
  <2>7. CASE \/ \E e \in Pings : Expire(e)
             \/ SessionExpires \/ FallBack \/ UNCHANGED vars
    BY <1>3, <2>7 DEF Expire, SessionExpires, FallBack, vars
  <2> QED
    BY <1>3, <2>1, <2>2, <2>3, <2>4, <2>5, <2>6, <2>7 DEF Next
<1> QED
  BY <1>0, <1>1, <1>2, <1>3

-----------------------------------------------------------------------------
(* What the invariant gives *)

\* The inductive invariant holds initially and every step keeps it.
LEMMA InvInit == ConstantsTyped /\ Init => IInv
<1> SUFFICES ASSUME ConstantsTyped, Init
             PROVE  IInv
  OBVIOUS
<1>1. TypeOK
  BY TypeInit
<1>2. QueueSound
  BY DEF Init, QueueSound, Range, IsInjective
<1>3. InOrder
  BY DEF Init, InOrder, Idle
<1>4. Owed
  BY DEF Init, Owed, NoRequest, Range
<1>5. NoMissedSignal
  BY DEF Init, NoMissedSignal, NoRequest, Polls
<1> QED
  BY <1>1, <1>2, <1>3, <1>4, <1>5 DEF IInv

\* Every step keeps the inductive invariant.
LEMMA InvStep == ConstantsTyped /\ IInv /\ [Next]_vars => IInv'
  BY TypeStep, QueueStep, OrderStep, OwedStep, SignalStep DEF IInv

\* Every step is a step that EventDelivery allows.
LEMMA DeliveryStep ==
  ASSUME ConstantsTyped, IInv, [Next]_vars
  PROVE  [Delivery!Next]_Delivery!vars
<1> DEFINE kept == Range(queue) \ expired
<1>1. ASSUME NEW t \in EventTasks, Enqueue(t)
      PROVE  Delivery!Next
  <2> DEFINE e == disp[t].ping
             due == {f \in Range(queue) \ expired : task[f] # t}
  <2>1. /\ e \in Pings \ queued /\ task[e] = t /\ queued' = queued \cup {e}
        /\ \A f \in Pings : task[f] = t => f <= e
        /\ e \in Range(queue') /\ Range(queue') \subseteq due \cup {e}
        /\ Range(queue') = due \cup {e} \/ Cardinality(Range(queue')) = QueueLimit
        /\ UNCHANGED <<task, expired, runs, written>>
    BY <1>1, Enqueueing
  <2>2. expired \cup Range(queue) \subseteq queued /\ queued \subseteq Pings
    BY DEF IInv, QueueSound, TypeOK
  <2> HIDE DEF e
  <2>3. kept' = Range(queue')
    BY <2>1, <2>2
  <2>4. e \notin kept \cup (expired \cup Superseded) /\ e \in kept' \ kept
    BY <2>1, <2>2, <2>3 DEF Superseded
  <2>5. Received \subseteq Received' /\ expired \cup Superseded \subseteq expired' \cup Superseded'
    BY <2>1 DEF Received, Superseded
  <2>6. kept' \subseteq kept \cup {e}
    BY <2>1, <2>3
  <2>7. (kept \ kept') \subseteq expired' \cup Superseded' \/ Cardinality(kept') = QueueLimit
    <3>1. ASSUME NEW f \in kept, f \notin due
          PROVE  f \in Superseded'
      <4>1. f \in queued /\ task[f] = t /\ f \in Pings /\ f # e
        BY <2>1, <2>2, <3>1
      <4>2. f < e
        <5>1. f <= e /\ f \in Int /\ e \in Int
          BY <2>1, <4>1 DEF Pings, ConstantsTyped
        <5> QED
          BY <4>1, <5>1
      <4> QED
        BY <2>1, <4>1, <4>2 DEF Superseded
    <3> QED
      BY <2>1, <2>3, <3>1
  <2> HIDE DEF due
  <2>8. Delivery!Grow
    BY <2>5 DEF Delivery!Grow
  <2>9. Delivery!Accept(e)
    <3>1. e \notin (Range(queue) \ expired) \cup (expired \cup Superseded)
      BY <2>4
    <3>2. (Range(queue') \ expired') \subseteq (Range(queue) \ expired) \cup {e}
      BY <2>6
    <3>3. \/ (Range(queue) \ expired) \ (Range(queue') \ expired') \subseteq expired' \cup Superseded'
          \/ Cardinality(Range(queue') \ expired') = QueueLimit
      BY <2>7
    <3>4. Delivery!Cardinality(Range(queue') \ expired') = Cardinality(Range(queue') \ expired')
      BY Zenon DEF Delivery!Cardinality, Cardinality
    <3> QED
      BY <3>1, <3>2, <3>3, <3>4, <2>8 DEF Delivery!Accept
  <2>10. e \in (Range(queue') \ expired') \ (Range(queue) \ expired)
    BY <2>4
  <2> QED
    BY <2>9, <2>10 DEF Delivery!Next
<1>2. CASE ~ \E t \in EventTasks : Enqueue(t)
  <2>1. OnlySettledLeave
    BY <1>2, Settling
  <2>2. Received = Ran \cup written
    BY DEF Received, Ran
  <2>3. Received' = Ran' \cup written'
    BY DEF Received, Ran
  <2>4. Superseded \subseteq Superseded' /\ expired \subseteq expired'
    BY <2>1 DEF Superseded, OnlySettledLeave
  <2>5. kept' \subseteq kept /\ (kept \ kept') \subseteq Received' \cup (expired' \cup Superseded')
    BY <2>1, <2>3 DEF OnlySettledLeave
  <2>6. Received \subseteq Received'
    BY <2>1, <2>2, <2>3 DEF OnlySettledLeave
  <2> QED
    BY <2>4, <2>5, <2>6 DEF Delivery!Next, Delivery!Retire, Delivery!Grow
<1> QED
  BY <1>1, <1>2

\* The queue implements EventDelivery: no event is lost but by its age, by a
\* newer one of its task, or by the limit, and none comes back.
THEOREM QueueImplementsDelivery ==
  ASSUME ConstantsTyped
  PROVE  Spec => DeliveryRefined
<1>1. Init => Delivery!Init
  BY DEF Init, Delivery!Init, Received, Superseded, Range
<1>2. IInv /\ [Next]_vars => [Delivery!Next]_Delivery!vars
  BY DeliveryStep
<1>3. Init => IInv
  BY InvInit
<1>4. IInv /\ [Next]_vars => IInv'
  BY InvStep
<1> QED
  BY <1>1, <1>2, <1>3, <1>4, PTL DEF Spec, DeliveryRefined, Delivery!Spec

\* A long poll never sleeps through an event.
THEOREM LongPollsWake ==
  ASSUME ConstantsTyped
  PROVE  Spec => []NoMissedSignal
<1>1. Init => IInv
  BY InvInit
<1>2. IInv /\ [Next]_vars => IInv'
  BY InvStep
<1>3. IInv => NoMissedSignal
  BY DEF IInv
<1> QED
  BY <1>1, <1>2, <1>3, PTL DEF Spec

-----------------------------------------------------------------------------
(* What the agent remembers *)

\* While the memory has room for every ping, the agent has run exactly what it
\* remembers, and that once.
RanAsSeen ==
  /\ IsInjective(seen)
  /\ \A e \in Pings : runs[e] = IF e \in Range(seen) THEN 1 ELSE 0

\* A memory without repetitions that lacks an event is not full.
LEMMA RoomForFresh ==
  ASSUME ConstantsTyped, SeenLimit >= MaxPings, NEW s \in Seq(Pings), IsInjective(s),
         NEW e \in Pings, e \notin Range(s)
  PROVE  Remembered(s, e) = Append(s, e)
<1>1. Range(s) \subseteq Pings \ {e} /\ IsFiniteSet(Pings) /\ Cardinality(Pings) = MaxPings
  BY RangeOfSeq, FS_Interval DEF Pings, ConstantsTyped
<1>2. /\ IsFiniteSet(Pings \ {e})
      /\ Cardinality(Pings \ {e}) = MaxPings - 1
  BY <1>1, FS_RemoveElement
<1>3. Cardinality(Range(s)) <= Cardinality(Pings \ {e})
  BY <1>1, <1>2, FS_Subset
<1>4. Len(s) <= MaxPings - 1 /\ Len(s) \in Nat
  BY <1>2, <1>3, QueueSize
<1>5. ~(Len(s) >= SeenLimit)
  BY <1>4 DEF ConstantsTyped
<1> QED
  BY <1>5 DEF Remembered

\* Every step keeps it so.
LEMMA SeenStep ==
  ASSUME ConstantsTyped, SeenLimit >= MaxPings, IInv, RanAsSeen, [Next]_vars
  PROVE  RanAsSeen'
<1>1. ASSUME NEW p \in Polls, Process(p)
      PROVE  RanAsSeen'
  <2> DEFINE e == Head(poll[p].events)
  <2>1. e \in Pings /\ seen \in Seq(Pings) /\ runs \in [Pings -> Nat]
    <3>1. poll[p].events \in Seq(Pings) /\ poll[p].events # <<>>
      BY <1>1 DEF Process, IInv, Owed, TypeOK, Requests
    <3> QED
      BY <3>1, HeadTailProperties DEF IInv, TypeOK
  <2>2. IF Fresh(e) THEN runs' = [runs EXCEPT ![e] = runs[e] + 1] /\ seen' = Remembered(seen, e)
                    ELSE UNCHANGED <<runs, seen>>
    BY <1>1 DEF Process
  <2> HIDE DEF e
  <2>3. Fresh(e) <=> e \notin Range(seen)
    BY <2>1 DEF Fresh, Contains, Range
  <2>4. CASE Fresh(e)
    <3>1. seen' = Append(seen, e)
      BY <2>1, <2>2, <2>3, <2>4, RoomForFresh DEF RanAsSeen
    <3>2. Range(seen') = Range(seen) \cup {e} /\ seen' \in Seq(Pings) /\ Len(seen') = Len(seen) + 1
      BY <2>1, <3>1, AppendAdds
    <3>3. \A f \in Pings : runs'[f] = IF f = e THEN runs[f] + 1 ELSE runs[f]
      BY <2>1, <2>2, <2>4
    <3>4. \A f \in Pings : runs'[f] = IF f \in Range(seen') THEN 1 ELSE 0
      BY <2>1, <2>3, <2>4, <3>2, <3>3 DEF RanAsSeen
    <3>5. IsInjective(seen')
      <4>1. DOMAIN seen = 1..Len(seen) /\ DOMAIN seen' = 1..(Len(seen) + 1) /\ Len(seen) \in Nat
        BY <2>1, <3>2
      <4>2. \A i \in 1..Len(seen) : seen'[i] = seen[i] /\ seen[i] # e
        BY <2>1, <2>3, <2>4, <3>1, <4>1 DEF Range
      <4>3. seen'[Len(seen) + 1] = e
        BY <2>1, <3>1
      <4>4. SUFFICES ASSUME NEW i \in 1..(Len(seen) + 1), NEW j \in 1..(Len(seen) + 1), seen'[i] = seen'[j]
                     PROVE  i = j
        BY <4>1 DEF IsInjective
      <4>5. CASE i \in 1..Len(seen) /\ j \in 1..Len(seen)
        BY <4>1, <4>2, <4>4, <4>5 DEF RanAsSeen, IsInjective
      <4>6. CASE i \notin 1..Len(seen) /\ j \notin 1..Len(seen)
        BY <4>1, <4>6
      <4>7. CASE i \in 1..Len(seen) /\ j \notin 1..Len(seen)
        BY <4>1, <4>2, <4>3, <4>4, <4>7
      <4>8. CASE i \notin 1..Len(seen) /\ j \in 1..Len(seen)
        BY <4>1, <4>2, <4>3, <4>4, <4>8
      <4> QED
        BY <4>5, <4>6, <4>7, <4>8
    <3> QED
      BY <3>4, <3>5 DEF RanAsSeen
  <2>5. CASE ~Fresh(e)
    BY <2>2, <2>5 DEF RanAsSeen
  <2> QED
    BY <2>4, <2>5
<1>2. CASE UNCHANGED <<runs, seen>>
  BY <1>2 DEF RanAsSeen
<1>3. ASSUME NEW t \in EventTasks, Dispatch(t) \/ DispatchWrite(t) \/ DispatchFlag(t) \/ Enqueue(t)
      PROVE  UNCHANGED <<runs, seen>>
  BY <1>3 DEF Dispatch, DispatchWrite, DispatchFlag, Enqueue, client
<1>4. ASSUME NEW c \in Conns,
             \/ Connect(c) \/ Register(c) \/ Flag(c) \/ TakeAll(c) \/ PushOne(c) \/ PushEnds(c)
             \/ WsReport(c) \/ SocketBreaks(c) \/ HandlerEnds(c)
      PROVE  UNCHANGED <<runs, seen>>
  BY <1>4 DEF Connect, Register, Flag, TakeAll, PushOne, PushEnds, WsReport, SocketBreaks, HandlerEnds, client
<1>5. ASSUME NEW p \in Polls, Send(p) \/ Arrive(p) \/ Answer(p) \/ Lost(p)
      PROVE  UNCHANGED <<runs, seen>>
  BY <1>5 DEF Send, Arrive, Answer, Lost, client
<1>6. CASE \/ \E e \in Pings : Expire(e)
           \/ SessionExpires \/ FallBack \/ WaitEnds \/ UNCHANGED vars
  BY <1>2, <1>6 DEF Expire, SessionExpires, FallBack, WaitEnds, vars, client
<1> QED
  BY <1>1, <1>2, <1>3, <1>4, <1>5, <1>6 DEF Next

\* While the agent remembers every event, an event it gets in answers runs at
\* most once, however often answers repeat it or acknowledgements are lost; and
\* a long poll does not sleep through one.
THEOREM AnswersRunOnce ==
  ASSUME ConstantsTyped, SeenLimit >= MaxPings
  PROVE  Spec => []EventsRunOnce
<1>1. Init => IInv /\ RanAsSeen
  <2>1. Init => RanAsSeen
    BY DEF Init, RanAsSeen, Range, IsInjective
  <2> QED
    BY <2>1, InvInit
<1>2. IInv /\ RanAsSeen /\ [Next]_vars => (IInv /\ RanAsSeen)'
  BY InvStep, SeenStep
<1>3. IInv /\ RanAsSeen => EventsRunOnce
  BY DEF IInv, RanAsSeen, PolledOnce, EventsRunOnce
<1> QED
  BY <1>1, <1>2, <1>3, PTL DEF Spec

=============================================================================
