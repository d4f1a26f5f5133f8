---------------------------- MODULE TopicProofs ----------------------------
(***************************************************************************)
(* The bus implements the mailboxes of Mailbox, for every set of threads   *)
(* and subscriptions and every number of events.                           *)
(***************************************************************************)
EXTENDS Topic, SequenceTheorems, TLAPS

Distinct(q) == \A i, j \in 1..Len(q) : q[i] = q[j] => i = j

\* A list, and so every copy of it, has a queue once: a publisher serves each
\* of them once for every event.
OnceInv == Distinct(subscribers) /\ \A p \in Publishers : Distinct(rest[p])

\* Who is on the list, or was just taken off, has a living thread and no
\* sentinel in the queue; later, and until the thread has ended, there is one.
Sentinel(s, i) == i \in 1..Len(queue[s]) /\ queue[s][i] = UNSUBSCRIBE
SentinelInv ==
  \A s \in Subscriptions :
    /\ Listed(s) => drain[s] \in {"waiting", "notifying"} /\ s \notin leaving
    /\ s \in leaving => drain[s] \in {"waiting", "notifying"}
    /\ \A i : Sentinel(s, i) => /\ SentinelPut(s) /\ drain[s] # "stopped"
                                /\ \A j : Sentinel(s, j) => j = i
    /\ (SentinelPut(s) /\ drain[s] # "stopped") => \E i : Sentinel(s, i)

\* The events of one publisher are in each queue in the order of their numbers,
\* and the one that is on its way to a queue comes after all of those.
IsEvent(e) == e # UNSUBSCRIBE
Ordered(q) ==
  \A i, j \in 1..Len(q) :
    (i < j /\ IsEvent(q[i]) /\ IsEvent(q[j]) /\ q[i].pub = q[j].pub) => q[i].num < q[j].num
Below(q, p, n) == \A i \in 1..Len(q) : (IsEvent(q[i]) /\ q[i].pub = p) => q[i].num < n
OrderInv ==
  \A s \in Subscriptions :
    /\ Ordered(queue[s])
    /\ \A p \in Publishers : /\ Below(queue[s], p, sent[p] + 1)
                             /\ InFlight(p, s) => Below(queue[s], p, sent[p])

----------------------------------------------------------------------------
LEMMA InitType == Init => TypeOK
BY DEF Init, TypeOK

LEMMA NextType == TypeOK /\ [Next]_vars => TypeOK'
<1> SUFFICES ASSUME TypeOK, [Next]_vars PROVE TypeOK'
  OBVIOUS
<1> USE DEF TypeOK
<1>1. ASSUME NEW p \in Publishers, Publish(p) PROVE TypeOK'
  BY <1>1 DEF Publish
<1>2. ASSUME NEW p \in Publishers, Put(p) PROVE TypeOK'
  <2>1. Current(p) \in Event /\ Head(rest[p]) \in Subscriptions
    BY <1>2 DEF Put, Current, Event
  <2> QED BY <1>2, <2>1 DEF Put
<1>3. ASSUME NEW s \in Subscriptions, Subscribe(s) PROVE TypeOK'
  BY <1>3 DEF Subscribe
<1>4. ASSUME NEW s \in Subscriptions, Unlist(s) PROVE TypeOK'
  BY <1>4 DEF Unlist, RemoveAt
<1>5. ASSUME NEW s \in Subscriptions, PutSentinel(s) PROVE TypeOK'
  BY <1>5 DEF PutSentinel
<1>6. ASSUME NEW s \in Subscriptions, Take(s) PROVE TypeOK'
  <2>1. Head(queue[s]) \in Event
    BY <1>6 DEF Take
  <2> QED BY <1>6, <2>1 DEF Take
<1>7. ASSUME NEW s \in Subscriptions, Return(s) PROVE TypeOK'
  BY <1>7 DEF Return
<1>8. ASSUME NEW s \in Subscriptions, Stop(s) PROVE TypeOK'
  BY <1>8 DEF Stop
<1>9. CASE UNCHANGED vars
  BY <1>9 DEF vars
<1> QED BY <1>1, <1>2, <1>3, <1>4, <1>5, <1>6, <1>7, <1>8, <1>9 DEF Next

\* The bus keeps its types, for every set of publishers and subscriptions.
THEOREM TypeCorrect == Spec => []TypeOK
BY InitType, NextType, PTL DEF Spec

----------------------------------------------------------------------------
LEMMA AppendFacts ==
  ASSUME NEW S, NEW q \in Seq(S), NEW e \in S
  PROVE  /\ Len(Append(q, e)) = Len(q) + 1
         /\ \A i \in 1..Len(q) : Append(q, e)[i] = q[i]
         /\ Append(q, e)[Len(q) + 1] = e
OBVIOUS

LEMMA TailFacts ==
  ASSUME NEW S, NEW q \in Seq(S), q # <<>>
  PROVE  /\ Head(q) = q[1] /\ Len(q) \in Nat /\ Len(q) >= 1 /\ Len(Tail(q)) = Len(q) - 1
         /\ \A i \in 1..Len(Tail(q)) : Tail(q)[i] = q[i + 1]
OBVIOUS

LEMMA RemoveFacts ==
  ASSUME NEW S, NEW q \in Seq(S), NEW k \in 1..Len(q)
  PROVE  /\ Len(RemoveAt(q, k)) = Len(q) - 1
         /\ \A i \in 1..(Len(q) - 1) : RemoveAt(q, k)[i] = IF i < k THEN q[i] ELSE q[i + 1]
<1> DEFINE a == SubSeq(q, 1, k - 1)
           b == SubSeq(q, k + 1, Len(q))
<1>1. k \in Nat /\ Len(q) \in Nat /\ 1 <= k /\ k <= Len(q)
  OBVIOUS
<1>2. a \in Seq(S) /\ Len(a) = k - 1 /\ \A i \in 1..(k - 1) : a[i] = q[i]
  BY <1>1
<1>3. b \in Seq(S) /\ Len(b) = Len(q) - k /\ \A i \in 1..(Len(q) - k) : b[i] = q[k + i]
  BY <1>1
<1> HIDE DEF a, b
<1>4. RemoveAt(q, k) = a \o b
  BY DEF RemoveAt, a, b
<1>5. /\ Len(a \o b) = Len(q) - 1
      /\ \A i \in 1..(Len(q) - 1) : (a \o b)[i] = IF i <= k - 1 THEN a[i] ELSE b[i - (k - 1)]
  <2>1. /\ Len(a \o b) = Len(a) + Len(b)
        /\ \A i \in 1..Len(a) + Len(b) : (a \o b)[i] = IF i <= Len(a) THEN a[i] ELSE b[i - Len(a)]
    BY <1>2, <1>3, ConcatProperties
  <2>2. Len(a) + Len(b) = Len(q) - 1
    BY <1>1, <1>2, <1>3
  <2> QED BY <1>2, <2>1, <2>2
<1>6. ASSUME NEW i \in 1..(Len(q) - 1), i >= k PROVE b[i - (k - 1)] = q[i + 1]
  <2>1. i - (k - 1) \in 1..(Len(q) - k) /\ k + (i - (k - 1)) = i + 1
    BY <1>1, <1>6
  <2> QED BY <1>3, <2>1
<1> QED BY <1>1, <1>2, <1>4, <1>5, <1>6

LEMMA DistinctSteps ==
  ASSUME NEW S, NEW q \in Seq(S), Distinct(q)
  PROVE  /\ q # <<>> => Distinct(Tail(q))
         /\ \A k \in 1..Len(q) : /\ Distinct(RemoveAt(q, k))
                                 /\ \A t : (\E i \in 1..Len(RemoveAt(q, k)) : RemoveAt(q, k)[i] = t)
                                           <=> (t # q[k] /\ \E i \in 1..Len(q) : q[i] = t)
         /\ \A t \in S : (\A i \in 1..Len(q) : q[i] # t) => Distinct(Append(q, t))
<1>1. q # <<>> => Distinct(Tail(q))
  BY TailFacts DEF Distinct
<1>2. ASSUME NEW k \in 1..Len(q)
      PROVE  /\ Distinct(RemoveAt(q, k))
             /\ \A t : (\E i \in 1..Len(RemoveAt(q, k)) : RemoveAt(q, k)[i] = t)
                       <=> (t # q[k] /\ \E i \in 1..Len(q) : q[i] = t)
  <2> DEFINE r == RemoveAt(q, k)
  <2>1. /\ Len(q) \in Nat /\ k \in Nat /\ Len(r) = Len(q) - 1
        /\ \A i \in 1..(Len(q) - 1) : r[i] = IF i < k THEN q[i] ELSE q[i + 1]
    BY RemoveFacts
  <2> HIDE DEF r
  <2>2. Distinct(r)
    BY <2>1 DEF Distinct
  <2>3. ASSUME NEW i \in 1..Len(r) PROVE r[i] # q[k] /\ \E j \in 1..Len(q) : q[j] = r[i]
    BY <2>1 DEF Distinct
  <2>4. ASSUME NEW i \in 1..Len(q), q[i] # q[k] PROVE \E j \in 1..Len(r) : r[j] = q[i]
    <3>1. CASE i < k BY <2>1, <3>1
    <3>2. CASE i > k
      <4>1. i - 1 \in 1..Len(r) /\ r[i - 1] = q[i]
        BY <2>1, <3>2
      <4> QED BY <4>1
    <3> QED BY <2>4, <3>1, <3>2, <2>1
  <2> QED BY <2>2, <2>3, <2>4 DEF r
<1>3. ASSUME NEW t \in S, \A i \in 1..Len(q) : q[i] # t PROVE Distinct(Append(q, t))
  BY <1>3, AppendFacts DEF Distinct
<1> QED BY <1>1, <1>2, <1>3

----------------------------------------------------------------------------
LEMMA CurrentType ==
  ASSUME TypeOK, NEW p \in Publishers
  PROVE  /\ Current(p) \in Event /\ Current(p) # UNSUBSCRIBE
         /\ Current(p).pub = p /\ Current(p).num = sent[p] /\ sent[p] \in Nat
BY SentinelAssumption DEF TypeOK, Current, Event

\* Who is on the list, and in the hands of whom, after each step that changes it.
LEMMA SubscribeLists ==
  ASSUME TypeOK, NEW s \in Subscriptions, Subscribe(s)
  PROVE  \A t : Listed(t)' <=> Listed(t) \/ t = s
<1>1. subscribers \in Seq(Subscriptions) /\ subscribers' = Append(subscribers, s)
  BY DEF Subscribe, TypeOK
<1> QED BY <1>1, AppendFacts DEF Listed

LEMMA UnlistLists ==
  ASSUME TypeOK, OnceInv, NEW s \in Subscriptions, Unlist(s)
  PROVE  Listed(s) /\ Distinct(subscribers') /\ \A t : Listed(t)' <=> Listed(t) /\ t # s
<1>1. PICK k \in 1..Len(subscribers) : subscribers[k] = s /\ subscribers' = RemoveAt(subscribers, k)
  BY DEF Unlist
<1>2. subscribers \in Seq(Subscriptions) /\ Distinct(subscribers)
  BY DEF TypeOK, OnceInv
<1> QED BY <1>1, <1>2, DistinctSteps DEF Listed

LEMMA PublishServes ==
  ASSUME TypeOK, NEW p \in Publishers, Publish(p)
  PROVE  \A t : \A q \in Publishers : InFlight(q, t)' <=> IF q = p THEN Listed(t) ELSE InFlight(q, t)
BY DEF TypeOK, Publish, InFlight, Listed

LEMMA PutServes ==
  ASSUME TypeOK, OnceInv, NEW p \in Publishers, Put(p)
  PROVE  /\ Head(rest[p]) \in Subscriptions /\ InFlight(p, Head(rest[p]))
         /\ \A t : \A q \in Publishers : InFlight(q, t)' <=> InFlight(q, t) /\ ~(q = p /\ t = Head(rest[p]))
<1>1. rest[p] \in Seq(Subscriptions) /\ rest[p] # <<>> /\ rest' = [rest EXCEPT ![p] = Tail(rest[p])]
  BY DEF Put, TypeOK
<1>2. /\ Head(rest[p]) = rest[p][1] /\ Len(rest[p]) \in Nat /\ Len(rest[p]) >= 1
      /\ Len(Tail(rest[p])) = Len(rest[p]) - 1
      /\ \A i \in 1..Len(Tail(rest[p])) : Tail(rest[p])[i] = rest[p][i + 1]
  BY <1>1, TailFacts
<1>3. Distinct(rest[p])
  BY DEF OnceInv
<1>4. Head(rest[p]) \in Subscriptions /\ InFlight(p, Head(rest[p]))
  BY <1>1, <1>2 DEF InFlight
<1>5. ASSUME NEW t PROVE (\E i \in 1..Len(Tail(rest[p])) : Tail(rest[p])[i] = t)
                         <=> (\E i \in 1..Len(rest[p]) : rest[p][i] = t) /\ t # rest[p][1]
  <2>1. ASSUME NEW i \in 1..Len(rest[p]), rest[p][i] = t, t # rest[p][1]
        PROVE  \E k \in 1..Len(Tail(rest[p])) : Tail(rest[p])[k] = t
    <3>1. i - 1 \in 1..Len(Tail(rest[p])) /\ Tail(rest[p])[i - 1] = t
      BY <1>2, <2>1
    <3> QED BY <3>1
  <2>2. ASSUME NEW k \in 1..Len(Tail(rest[p]))
        PROVE  k + 1 \in 1..Len(rest[p]) /\ Tail(rest[p])[k] = rest[p][k + 1] /\ rest[p][k + 1] # rest[p][1]
    BY <1>2, <1>3 DEF Distinct
  <2> QED BY <2>1, <2>2
<1>6. \A q \in Publishers : rest'[q] = IF q = p THEN Tail(rest[p]) ELSE rest[q]
  BY <1>1 DEF TypeOK
<1>7. \A t : InFlight(p, t)' <=> InFlight(p, t) /\ t # Head(rest[p])
  BY <1>2, <1>5, <1>6 DEF InFlight
<1>8. \A t : \A q \in Publishers : q # p => (InFlight(q, t)' <=> InFlight(q, t))
  BY <1>6 DEF InFlight
<1> QED BY <1>4, <1>7, <1>8

LEMMA OnceInit == Init => OnceInv
BY DEF Init, OnceInv, Distinct

LEMMA OnceNext == TypeOK /\ OnceInv /\ SentinelInv /\ [Next]_vars => OnceInv'
<1> SUFFICES ASSUME TypeOK, OnceInv, SentinelInv, [Next]_vars PROVE OnceInv'
  OBVIOUS
<1> USE DEF OnceInv
<1>1. ASSUME NEW p \in Publishers, Publish(p) PROVE OnceInv'
  BY <1>1 DEF Publish, TypeOK
<1>2. ASSUME NEW p \in Publishers, Put(p) PROVE OnceInv'
  <2>1. Distinct(Tail(rest[p]))
    BY <1>2, DistinctSteps DEF Put, TypeOK
  <2> QED BY <1>2, <2>1 DEF Put, TypeOK
<1>3. ASSUME NEW s \in Subscriptions, Subscribe(s) PROVE OnceInv'
  <2>1. ~Listed(s)
    BY <1>3 DEF Subscribe, SentinelInv
  <2>2. Distinct(subscribers')
    BY <1>3, <2>1, DistinctSteps DEF Subscribe, TypeOK, Listed
  <2> QED BY <1>3, <2>2 DEF Subscribe
<1>4. ASSUME NEW s \in Subscriptions, Unlist(s) PROVE OnceInv'
  BY <1>4, UnlistLists DEF Unlist
<1>5. CASE UNCHANGED <<subscribers, rest>>
  BY <1>5
<1> QED BY <1>1, <1>2, <1>3, <1>4, <1>5 DEF Next, vars, PutSentinel, Take, Return, Stop

----------------------------------------------------------------------------
LEMMA SentinelInit == Init => SentinelInv
BY DEF Init, SentinelInv, Sentinel, SentinelPut, Listed

LEMMA SentinelNext == TypeOK /\ OnceInv /\ SentinelInv /\ [Next]_vars => SentinelInv'
<1> SUFFICES ASSUME TypeOK, OnceInv, SentinelInv, [Next]_vars PROVE SentinelInv'
  OBVIOUS
<1> USE DEF SentinelInv, SentinelPut
<1>1. CASE UNCHANGED <<subscribers, queue, drain, leaving>>
  BY <1>1 DEF Listed, Sentinel
<1>2. ASSUME NEW p \in Publishers, Put(p) PROVE SentinelInv'
  <2>0. PICK h \in Subscriptions : h = Head(rest[p])
    BY <1>2, PutServes
  <2>1. Current(p) # UNSUBSCRIBE /\ Current(p) \in Event
    BY CurrentType
  <2>2. queue' = [queue EXCEPT ![h] = Append(queue[h], Current(p))] /\ UNCHANGED <<subscribers, drain, leaving>>
    BY <1>2, <2>0 DEF Put
  <2>3. \A t \in Subscriptions : Listed(t)' <=> Listed(t)
    BY <2>2 DEF Listed
  <2>4. \A i : \A t \in Subscriptions : Sentinel(t, i)' <=> Sentinel(t, i)
    <3>1. \A i : Sentinel(h, i)' <=> Sentinel(h, i)
      <4>1. queue'[h] = Append(queue[h], Current(p)) /\ queue[h] \in Seq(Event \union {UNSUBSCRIBE})
        BY <2>1, <2>2 DEF TypeOK
      <4>2. /\ Len(queue'[h]) = Len(queue[h]) + 1 /\ Len(queue[h]) \in Nat
            /\ \A i \in 1..Len(queue[h]) : queue'[h][i] = queue[h][i]
            /\ queue'[h][Len(queue[h]) + 1] = Current(p)
        BY <2>1, <4>1, AppendFacts
      <4>3. \A i : i \in 1..Len(queue'[h]) <=> i \in 1..Len(queue[h]) \/ i = Len(queue[h]) + 1
        BY <4>2
      <4> QED BY <2>1, <4>2, <4>3 DEF Sentinel
    <3> QED BY <2>1, <2>2, <3>1 DEF Sentinel, TypeOK
  <2> QED BY <2>2, <2>3, <2>4
<1>3. ASSUME NEW s \in Subscriptions, Subscribe(s) PROVE SentinelInv'
  <2>1. \A t : Listed(t)' <=> Listed(t) \/ t = s
    BY <1>3, SubscribeLists
  <2>2. /\ UNCHANGED <<queue, leaving>> /\ drain[s] = "unborn" /\ drain'[s] = "waiting"
        /\ \A t \in Subscriptions \ {s} : drain'[t] = drain[t]
    BY <1>3 DEF Subscribe, TypeOK
  <2>3. \A i : \A t \in Subscriptions : Sentinel(t, i)' <=> Sentinel(t, i)
    BY <2>2 DEF Sentinel
  <2> QED BY <2>1, <2>2, <2>3
<1>4. ASSUME NEW s \in Subscriptions, Unlist(s) PROVE SentinelInv'
  <2>1. Listed(s) /\ \A t : Listed(t)' <=> Listed(t) /\ t # s
    BY <1>4, UnlistLists
  <2>2. UNCHANGED <<queue, drain>> /\ leaving' = leaving \union {s}
    BY <1>4 DEF Unlist
  <2>3. \A i : \A t \in Subscriptions : Sentinel(t, i)' <=> Sentinel(t, i)
    BY <2>2 DEF Sentinel
  <2> QED BY <2>1, <2>2, <2>3
<1>5. ASSUME NEW s \in Subscriptions, PutSentinel(s) PROVE SentinelInv'
  <2>1. /\ UNCHANGED <<subscribers, drain>> /\ s \in leaving /\ leaving' = leaving \ {s}
        /\ queue' = [queue EXCEPT ![s] = Append(queue[s], UNSUBSCRIBE)]
    BY <1>5 DEF PutSentinel
  <2>2. \A t \in Subscriptions : Listed(t)' <=> Listed(t)
    BY <2>1 DEF Listed
  <2>3. \A i : ~Sentinel(s, i)
    BY <2>1
  <2>4. \A i : Sentinel(s, i)' <=> i = Len(queue[s]) + 1
    <3>1. queue'[s] = Append(queue[s], UNSUBSCRIBE) /\ queue[s] \in Seq(Event \union {UNSUBSCRIBE})
      BY <2>1 DEF TypeOK
    <3> QED BY <2>3, <3>1, AppendFacts DEF Sentinel
  <2>5. \A i : \A t \in Subscriptions \ {s} : Sentinel(t, i)' <=> Sentinel(t, i)
    BY <2>1 DEF Sentinel, TypeOK
  <2> QED BY <2>1, <2>2, <2>4, <2>5
<1>6. ASSUME NEW s \in Subscriptions, Take(s) \/ Stop(s) PROVE SentinelInv'
  <2>1. /\ UNCHANGED <<subscribers, leaving>> /\ drain[s] = "waiting" /\ queue[s] # <<>>
        /\ queue' = [queue EXCEPT ![s] = Tail(queue[s])]
        /\ \A t \in Subscriptions \ {s} : drain'[t] = drain[t]
    BY <1>6 DEF Take, Stop, TypeOK
  <2>2. \A t \in Subscriptions : Listed(t)' <=> Listed(t)
    BY <2>1 DEF Listed
  <2>3. /\ Len(queue[s]) \in Nat /\ Len(queue[s]) >= 1 /\ Len(Tail(queue[s])) = Len(queue[s]) - 1
        /\ Head(queue[s]) = queue[s][1]
        /\ \A i \in 1..Len(Tail(queue[s])) : Tail(queue[s])[i] = queue[s][i + 1]
        /\ queue'[s] = Tail(queue[s])
    BY <2>1, TailFacts DEF TypeOK
  <2>4. \A i \in Nat : i >= 1 => (Sentinel(s, i)' <=> Sentinel(s, i + 1))
    BY <2>3 DEF Sentinel
  <2>5. \A i : (Sentinel(s, i) => i \in Nat /\ i >= 1) /\ (Sentinel(s, i)' => i \in Nat /\ i >= 1)
    BY <2>3 DEF Sentinel
  <2>6. \A i : \A t \in Subscriptions \ {s} : Sentinel(t, i)' <=> Sentinel(t, i)
    BY <2>1 DEF Sentinel, TypeOK
  <2>7. CASE Take(s)
    <3>1. drain'[s] = "notifying" /\ ~Sentinel(s, 1)
      BY <2>3, <2>7 DEF Take, TypeOK, Sentinel
    <3>2. \A i : Sentinel(s, i) => i - 1 \in Nat /\ i - 1 >= 1 /\ Sentinel(s, i - 1)'
      BY <2>4, <2>5, <3>1
    <3>3. \A i : Sentinel(s, i)' => Sentinel(s, i + 1) /\ i \in Nat
      BY <2>4, <2>5
    <3> QED BY <2>1, <2>2, <2>6, <3>1, <3>2, <3>3
  <2>8. CASE Stop(s)
    <3>1. drain'[s] = "stopped" /\ Sentinel(s, 1)
      BY <2>3, <2>8 DEF Stop, TypeOK, Sentinel
    <3>2. \A i : ~Sentinel(s, i)'
      BY <2>4, <2>5, <3>1
    <3> QED BY <2>1, <2>2, <2>6, <3>1, <3>2
  <2> QED BY <1>6, <2>7, <2>8
<1>7. ASSUME NEW s \in Subscriptions, Return(s) PROVE SentinelInv'
  <2>1. /\ UNCHANGED <<subscribers, queue, leaving>> /\ drain[s] = "notifying" /\ drain'[s] = "waiting"
        /\ \A t \in Subscriptions \ {s} : drain'[t] = drain[t]
    BY <1>7 DEF Return, TypeOK
  <2> QED BY <2>1 DEF Listed, Sentinel
<1> QED BY <1>1, <1>2, <1>3, <1>4, <1>5, <1>6, <1>7 DEF Next, vars, Publish

----------------------------------------------------------------------------
LEMMA OrderInit == Init => OrderInv
BY DEF Init, OrderInv, Ordered, Below

LEMMA OrderSteps ==
  ASSUME NEW q \in Seq(Event \union {UNSUBSCRIBE}), Ordered(q)
  PROVE  /\ Ordered(Append(q, UNSUBSCRIBE))
         /\ \A p, n : Below(q, p, n) => Below(Append(q, UNSUBSCRIBE), p, n)
         /\ \A e \in Event : Below(q, e.pub, e.num) => Ordered(Append(q, e))
         /\ \A p, n : \A e \in Event : (Below(q, p, n) /\ (p = e.pub => e.num < n)) => Below(Append(q, e), p, n)
         /\ q # <<>> => Ordered(Tail(q)) /\ \A p, n : Below(q, p, n) => Below(Tail(q), p, n)
<1> USE DEF IsEvent
<1>1. ASSUME NEW e \in Event \union {UNSUBSCRIBE}, IsEvent(e) => Below(q, e.pub, e.num)
      PROVE  Ordered(Append(q, e))
  <2> DEFINE r == Append(q, e)
  <2>1. /\ Len(q) \in Nat /\ Len(r) = Len(q) + 1 /\ r[Len(q) + 1] = e
        /\ \A i \in 1..Len(q) : r[i] = q[i]
    BY AppendFacts
  <2> HIDE DEF r
  <2> SUFFICES ASSUME NEW i \in 1..Len(r), NEW j \in 1..Len(r), i < j,
                      IsEvent(r[i]), IsEvent(r[j]), r[i].pub = r[j].pub
               PROVE  r[i].num < r[j].num
    BY DEF Ordered, r
  <2>2. i \in 1..Len(q) /\ r[i] = q[i]
    BY <2>1
  <2>3. CASE j = Len(q) + 1
    BY <1>1, <2>1, <2>2, <2>3 DEF Below
  <2>4. CASE j # Len(q) + 1
    <3>1. j \in 1..Len(q) /\ r[j] = q[j]
      BY <2>1, <2>4
    <3> QED BY <2>2, <3>1 DEF Ordered
  <2> QED BY <2>3, <2>4
<1>2. ASSUME NEW e \in Event \union {UNSUBSCRIBE}, NEW p, NEW n, Below(q, p, n),
             (IsEvent(e) /\ p = e.pub) => e.num < n
      PROVE  Below(Append(q, e), p, n)
  BY <1>2, AppendFacts DEF Below
<1>3. ASSUME q # <<>> PROVE Ordered(Tail(q)) /\ \A p, n : Below(q, p, n) => Below(Tail(q), p, n)
  <2>1. /\ Len(q) \in Nat /\ Len(Tail(q)) = Len(q) - 1
        /\ \A i \in 1..Len(Tail(q)) : i + 1 \in 1..Len(q) /\ Tail(q)[i] = q[i + 1]
    BY <1>3, TailFacts
  <2>2. Ordered(Tail(q))
    <3> SUFFICES ASSUME NEW i \in 1..Len(Tail(q)), NEW j \in 1..Len(Tail(q)), i < j,
                        IsEvent(Tail(q)[i]), IsEvent(Tail(q)[j]), Tail(q)[i].pub = Tail(q)[j].pub
                 PROVE  Tail(q)[i].num < Tail(q)[j].num
      BY DEF Ordered
    <3>1. i + 1 \in 1..Len(q) /\ j + 1 \in 1..Len(q) /\ i + 1 < j + 1
      BY <2>1
    <3>2. Tail(q)[i] = q[i + 1] /\ Tail(q)[j] = q[j + 1]
      BY <2>1
    <3> QED BY <3>1, <3>2 DEF Ordered
  <2> QED BY <2>1, <2>2 DEF Below
<1>4. \A e \in Event : IsEvent(e)
  BY SentinelAssumption
<1> QED BY <1>1, <1>2, <1>3, <1>4

LEMMA OrderNext == TypeOK /\ OnceInv /\ OrderInv /\ [Next]_vars => OrderInv'
<1> SUFFICES ASSUME TypeOK, OnceInv, OrderInv, [Next]_vars PROVE OrderInv'
  OBVIOUS
<1>a. \A s \in Subscriptions : queue[s] \in Seq(Event \union {UNSUBSCRIBE}) /\ Ordered(queue[s])
  BY DEF TypeOK, OrderInv
<1>1. CASE UNCHANGED <<queue, rest, sent>>
  BY <1>1 DEF OrderInv, InFlight
<1>2. ASSUME NEW p \in Publishers, Publish(p) PROVE OrderInv'
  <2>1. /\ UNCHANGED queue /\ sent[p] \in Nat /\ sent'[p] = sent[p] + 1
        /\ \A q \in Publishers \ {p} : sent'[q] = sent[q]
    BY <1>2 DEF Publish, TypeOK
  <2>2. \A t : \A q \in Publishers \ {p} : InFlight(q, t)' <=> InFlight(q, t)
    BY <1>2, PublishServes
  <2>3. \A s \in Subscriptions : Below(queue[s], p, sent[p] + 1 + 1)
    <3>1. ASSUME NEW s \in Subscriptions, NEW i \in 1..Len(queue[s]), IsEvent(queue[s][i])
          PROVE  queue[s][i].num \in Nat
      <4>1. queue[s][i] \in Event
        BY <1>a, <3>1 DEF IsEvent
      <4> QED BY <4>1 DEF Event
    <3> QED BY <2>1, <3>1 DEF OrderInv, Below
  <2> QED BY <2>1, <2>2, <2>3 DEF OrderInv
<1>3. ASSUME NEW p \in Publishers, Put(p) PROVE OrderInv'
  <2> DEFINE h == Head(rest[p])
             c == Current(p)
  <2>1. /\ h \in Subscriptions /\ InFlight(p, h)
        /\ \A t : \A q \in Publishers : InFlight(q, t)' <=> InFlight(q, t) /\ ~(q = p /\ t = h)
    BY <1>3, PutServes
  <2>2. /\ UNCHANGED sent /\ queue'[h] = Append(queue[h], c)
        /\ \A t \in Subscriptions \ {h} : queue'[t] = queue[t]
    BY <1>3, <2>1 DEF Put, TypeOK
  <2>3. c \in Event /\ c.pub = p /\ c.num = sent[p] /\ sent[p] \in Nat
    BY CurrentType
  <2> HIDE DEF h, c
  <2>4. Ordered(queue'[h])
    BY <2>1, <2>2, <2>3, <1>a, OrderSteps DEF OrderInv
  <2>5. \A q \in Publishers : Below(queue'[h], q, sent[q] + 1)
    <3>1. sent[p] < sent[p] + 1
      BY <2>3
    <3> QED BY <2>1, <2>2, <2>3, <3>1, <1>a, OrderSteps DEF OrderInv
  <2>6. \A q \in Publishers \ {p} : InFlight(q, h) => Below(queue'[h], q, sent[q])
    BY <2>1, <2>2, <2>3, <1>a, OrderSteps DEF OrderInv
  <2> QED BY <2>1, <2>2, <2>4, <2>5, <2>6 DEF OrderInv
<1>4. ASSUME NEW s \in Subscriptions, PutSentinel(s) PROVE OrderInv'
  <2>1. /\ UNCHANGED <<rest, sent>> /\ queue'[s] = Append(queue[s], UNSUBSCRIBE)
        /\ \A t \in Subscriptions \ {s} : queue'[t] = queue[t]
    BY <1>4 DEF PutSentinel, TypeOK
  <2>2. /\ Ordered(queue'[s])
        /\ \A p, n : Below(queue[s], p, n) => Below(queue'[s], p, n)
    BY <2>1, <1>a, OrderSteps
  <2>3. \A t : \A p \in Publishers : InFlight(p, t)' <=> InFlight(p, t)
    BY <2>1 DEF InFlight
  <2> QED BY <2>1, <2>2, <2>3 DEF OrderInv
<1>5. ASSUME NEW s \in Subscriptions, Take(s) \/ Stop(s) PROVE OrderInv'
  <2>1. /\ UNCHANGED <<rest, sent>> /\ queue'[s] = Tail(queue[s]) /\ queue[s] # <<>>
        /\ \A t \in Subscriptions \ {s} : queue'[t] = queue[t]
    BY <1>5 DEF Take, Stop, TypeOK
  <2>2. /\ Ordered(queue'[s])
        /\ \A p, n : Below(queue[s], p, n) => Below(queue'[s], p, n)
    BY <2>1, <1>a, OrderSteps
  <2>3. \A t : \A p \in Publishers : InFlight(p, t)' <=> InFlight(p, t)
    BY <2>1 DEF InFlight
  <2> QED BY <2>1, <2>2, <2>3 DEF OrderInv
<1> QED BY <1>1, <1>2, <1>3, <1>4, <1>5 DEF Next, vars, Subscribe, Unlist, Return

----------------------------------------------------------------------------
\* What an event that joins or leaves a queue does to the part in front.
LEMMA FrontAppend ==
  ASSUME NEW q \in Seq(Event \union {UNSUBSCRIBE}), NEW e \in Event \union {UNSUBSCRIBE}
  PROVE  InFront(Append(q, e)) = IF e = UNSUBSCRIBE \/ \E i \in 1..Len(q) : q[i] = UNSUBSCRIBE
                                 THEN InFront(q) ELSE InFront(q) \union {e}
<1> DEFINE r == Append(q, e)
<1>1. /\ Len(q) \in Nat /\ Len(r) = Len(q) + 1 /\ r[Len(q) + 1] = e
      /\ \A i \in 1..Len(q) : r[i] = q[i]
  BY AppendFacts
<1> HIDE DEF r
<1>2. ASSUME NEW i \in 1..Len(q)
      PROVE  i \in 1..Len(r) /\ r[i] = q[i]
             /\ ((\A k \in 1..i : r[k] # UNSUBSCRIBE) <=> \A k \in 1..i : q[k] # UNSUBSCRIBE)
  BY <1>1
<1>3. \A f : f \in InFront(q) => f \in InFront(r)
  BY <1>2 DEF InFront
<1>4. ASSUME NEW f \in InFront(r) PROVE f \in InFront(q)
        \/ (f = e /\ e # UNSUBSCRIBE /\ \A i \in 1..Len(q) : q[i] # UNSUBSCRIBE)
  <2>1. PICK i \in 1..Len(r) : r[i] = f /\ \A k \in 1..i : r[k] # UNSUBSCRIBE
    BY DEF InFront
  <2>2. CASE i \in 1..Len(q)
    BY <1>2, <2>1, <2>2 DEF InFront
  <2>3. CASE i = Len(q) + 1
    BY <1>1, <2>1, <2>3
  <2> QED BY <1>1, <2>2, <2>3
<1>5. ASSUME e # UNSUBSCRIBE, \A i \in 1..Len(q) : q[i] # UNSUBSCRIBE PROVE e \in InFront(r)
  <2>1. Len(q) + 1 \in 1..Len(r) /\ \A k \in 1..(Len(q) + 1) : r[k] # UNSUBSCRIBE
    BY <1>1, <1>5
  <2> QED BY <1>1, <2>1 DEF InFront
<1> QED BY <1>3, <1>4, <1>5 DEF r

LEMMA FrontTail ==
  ASSUME NEW q \in Seq(Event \union {UNSUBSCRIBE}), q # <<>>
  PROVE  /\ Head(q) = UNSUBSCRIBE => InFront(q) = {}
         /\ Head(q) # UNSUBSCRIBE => InFront(q) = {Head(q)} \union InFront(Tail(q))
<1> DEFINE r == Tail(q)
<1>1. /\ Len(q) \in Nat /\ Len(q) >= 1 /\ Len(r) = Len(q) - 1 /\ Head(q) = q[1]
      /\ \A i \in 1..Len(r) : r[i] = q[i + 1]
  BY TailFacts
<1> HIDE DEF r
<1>2. ASSUME Head(q) = UNSUBSCRIBE PROVE InFront(q) = {}
  BY <1>1, <1>2 DEF InFront
<1>3. ASSUME Head(q) # UNSUBSCRIBE PROVE InFront(q) = {Head(q)} \union InFront(r)
  <2>1. Head(q) \in InFront(q)
    BY <1>1, <1>3 DEF InFront
  <2>2. ASSUME NEW f \in InFront(r) PROVE f \in InFront(q)
    <3>1. PICK i \in 1..Len(r) : r[i] = f /\ \A k \in 1..i : r[k] # UNSUBSCRIBE
      BY DEF InFront
    <3>2. ASSUME NEW k \in 1..(i + 1) PROVE q[k] # UNSUBSCRIBE
      <4>1. CASE k = 1 BY <1>1, <1>3, <4>1
      <4>2. CASE k # 1
        <5>1. k - 1 \in 1..i /\ q[k] = r[k - 1]
          BY <1>1, <4>2
        <5> QED BY <3>1, <5>1
      <4> QED BY <4>1, <4>2
    <3>3. i + 1 \in 1..Len(q) /\ q[i + 1] = f
      BY <1>1, <3>1
    <3> QED BY <3>2, <3>3 DEF InFront
  <2>3. ASSUME NEW f \in InFront(q), f # Head(q) PROVE f \in InFront(r)
    <3>1. PICK i \in 1..Len(q) : q[i] = f /\ \A k \in 1..i : q[k] # UNSUBSCRIBE
      BY DEF InFront
    <3>2. i - 1 \in 1..Len(r) /\ r[i - 1] = f
      BY <1>1, <2>3, <3>1
    <3>3. ASSUME NEW k \in 1..(i - 1) PROVE r[k] # UNSUBSCRIBE
      <4>1. k + 1 \in 1..i /\ r[k] = q[k + 1]
        BY <1>1
      <4> QED BY <3>1, <4>1
    <3> QED BY <3>2, <3>3 DEF InFront
  <2> QED BY <2>1, <2>2, <2>3
<1> QED BY <1>2, <1>3 DEF r

LEMMA FrontOrder ==
  ASSUME NEW q \in Seq(Event \union {UNSUBSCRIBE}), Ordered(q)
  PROVE  /\ \A f \in InFront(q) : f \in Event
         /\ \A p, n : Below(q, p, n) => \A f \in InFront(q) : f.pub = p => f.num < n
         /\ (q # <<>> /\ Head(q) # UNSUBSCRIBE) =>
              \A f \in InFront(Tail(q)) : f.pub = Head(q).pub => Head(q).num < f.num
<1>1. ASSUME NEW f \in InFront(q) PROVE \E i \in 1..Len(q) : f = q[i] /\ IsEvent(q[i])
  BY DEF InFront, IsEvent
<1>2. \A f \in InFront(q) : f \in Event
  BY <1>1 DEF IsEvent
<1>3. \A p, n : Below(q, p, n) => \A f \in InFront(q) : f.pub = p => f.num < n
  BY <1>1 DEF Below
<1>4. ASSUME q # <<>>, Head(q) # UNSUBSCRIBE, NEW f \in InFront(Tail(q)), f.pub = Head(q).pub
      PROVE  Head(q).num < f.num
  <2>1. /\ Len(q) \in Nat /\ Len(q) >= 1 /\ Len(Tail(q)) = Len(q) - 1 /\ Head(q) = q[1]
        /\ \A i \in 1..Len(Tail(q)) : Tail(q)[i] = q[i + 1]
    BY <1>4, TailFacts
  <2>2. PICK i \in 1..Len(Tail(q)) : Tail(q)[i] = f /\ f # UNSUBSCRIBE
    BY <2>1 DEF InFront
  <2>3. i + 1 \in 1..Len(q) /\ 1 \in 1..Len(q) /\ 1 < i + 1 /\ q[i + 1] = f
    BY <2>1, <2>2
  <2> QED BY <1>4, <2>1, <2>2, <2>3 DEF Ordered, IsEvent
<1> QED BY <1>2, <1>3, <1>4

\* The states of a mailbox, one by one.
LEMMA ModeIs ==
  SentinelInv => \A s \in Subscriptions :
    /\ Mode(s) = "unborn" <=> drain[s] = "unborn"
    /\ Mode(s) = "open" <=> Listed(s)
    /\ Mode(s) = "closing" <=> s \in leaving
    /\ Mode(s) = "ended" <=> SentinelPut(s) /\ drain[s] = "stopped"
    /\ Mode(s) = "draining" <=> SentinelPut(s) /\ drain[s] # "stopped"
BY DEF Mode, SentinelInv, SentinelPut

LEMMA ModeIsNext ==
  SentinelInv' => \A s \in Subscriptions :
    /\ Mode(s)' = "unborn" <=> drain'[s] = "unborn"
    /\ Mode(s)' = "open" <=> Listed(s)'
    /\ Mode(s)' = "closing" <=> s \in leaving'
    /\ Mode(s)' = "ended" <=> SentinelPut(s)' /\ drain'[s] = "stopped"
    /\ Mode(s)' = "draining" <=> SentinelPut(s)' /\ drain'[s] # "stopped"
BY DEF Mode, SentinelInv, SentinelPut

LEMMA SameMailbox ==
  ASSUME NEW s \in Subscriptions, drain'[s] = drain[s], Listed(s)' <=> Listed(s), s \in leaving' <=> s \in leaving
  PROVE  /\ Mode(s)' = Mode(s)
         /\ SentinelPut(s)' <=> SentinelPut(s)
         /\ (queue'[s] = queue[s] /\ OnTheWay(s)' = OnTheWay(s)) => Pending(s)' = Pending(s)
BY DEF Mode, SentinelPut, Pending

LEMMA SameOnTheWay ==
  ASSUME NEW s, UNCHANGED sent, \A p \in Publishers : InFlight(p, s)' <=> InFlight(p, s)
  PROVE  OnTheWay(s)' = OnTheWay(s)
BY DEF OnTheWay, Current

LEMMA RefinesInit == Init => M!Init
<1> SUFFICES ASSUME Init PROVE M!Init
  OBVIOUS
<1>1. ASSUME NEW s \in Subscriptions PROVE Mode(s) = "unborn"
  BY SentinelInit, ModeIs DEF Init
<1>2. \A s \in Subscriptions : Pending(s) = {}
  BY DEF Init, Pending, InFront, OnTheWay, InFlight
<1> QED BY <1>1, <1>2 DEF Init, M!Init, modeBar, pendingBar

LEMMA RefinesPublish ==
  ASSUME TypeOK, SentinelInv, NEW p \in Publishers, Publish(p)
  PROVE  M!Broadcast(p)
<1>1. /\ rest[p] = <<>> /\ sent[p] < MaxEvents[p] /\ sent' = [sent EXCEPT ![p] = @ + 1]
      /\ UNCHANGED <<subscribers, queue, drain, leaving, delivered>>
  BY DEF Publish
<1>2. \A s : ~InFlight(p, s)
  BY <1>1 DEF InFlight
<1>3. \A s : \A q \in Publishers : InFlight(q, s)' <=> IF q = p THEN Listed(s) ELSE InFlight(q, s)
  BY PublishServes
<1>4. Current(p)' = [pub |-> p, num |-> sent[p] + 1] /\ \A q \in Publishers \ {p} : Current(q)' = Current(q)
  BY <1>1 DEF Current, TypeOK
<1>5. ASSUME NEW s \in Subscriptions
      PROVE  /\ Mode(s)' = Mode(s)
             /\ Pending(s)' = Pending(s) \union
                  (IF Mode(s) = "open" THEN {[pub |-> p, num |-> sent[p] + 1]} ELSE {})
  <2>1. Listed(s)' <=> Listed(s)
    BY <1>1 DEF Listed
  <2>2. Mode(s)' = Mode(s) /\ (SentinelPut(s)' <=> SentinelPut(s))
    BY <1>1, <2>1, SameMailbox
  <2>3. Mode(s) = "open" <=> Listed(s)
    BY ModeIs
  <2>4. CASE Listed(s)
    <3>1. drain[s] # "stopped" /\ ~SentinelPut(s)
      BY <2>4 DEF SentinelInv, SentinelPut
    <3>2. OnTheWay(s)' = OnTheWay(s) \union {[pub |-> p, num |-> sent[p] + 1]}
      BY <1>2, <1>3, <1>4, <2>4 DEF OnTheWay
    <3> QED BY <1>1, <2>2, <2>3, <2>4, <3>1, <3>2 DEF Pending
  <2>5. CASE ~Listed(s)
    <3>1. OnTheWay(s)' = OnTheWay(s)
      BY <1>2, <1>3, <1>4, <2>5 DEF OnTheWay
    <3> QED BY <1>1, <2>2, <2>3, <2>5, <3>1 DEF Pending
  <2> QED BY <2>2, <2>4, <2>5
<1> QED BY <1>1, <1>5 DEF M!Broadcast, modeBar, pendingBar

LEMMA RefinesPut ==
  ASSUME TypeOK, OnceInv, SentinelInv, NEW p \in Publishers, Put(p)
  PROVE  UNCHANGED <<modeBar, pendingBar, sent, delivered>>
<1>1. PICK h \in Subscriptions : h = Head(rest[p]) /\ InFlight(p, h)
  BY PutServes
<1>2. /\ UNCHANGED <<subscribers, drain, leaving, sent, delivered>>
      /\ queue'[h] = Append(queue[h], Current(p)) /\ \A t \in Subscriptions \ {h} : queue'[t] = queue[t]
  BY <1>1 DEF Put, TypeOK
<1>3. \A t : \A q \in Publishers : InFlight(q, t)' <=> InFlight(q, t) /\ ~(q = p /\ t = h)
  BY <1>1, PutServes
<1>4. ASSUME NEW s \in Subscriptions PROVE Mode(s)' = Mode(s) /\ Pending(s)' = Pending(s)
  <2>1. Mode(s)' = Mode(s) /\ (SentinelPut(s)' <=> SentinelPut(s))
    BY <1>2, SameMailbox DEF Listed
  <2>2. CASE s # h
    <3>1. OnTheWay(s)' = OnTheWay(s)
      BY <1>2, <1>3, <2>2, SameOnTheWay
    <3> QED BY <1>2, <2>1, <2>2, <3>1 DEF Pending
  <2>3. CASE s = h
    <3>1. queue[h] \in Seq(Event \union {UNSUBSCRIBE}) /\ Current(p) \in Event /\ Current(p) # UNSUBSCRIBE
      BY CurrentType DEF TypeOK
    <3>2. CASE drain[h] = "stopped"
      BY <1>2, <2>1, <2>3, <3>2 DEF Pending
    <3>3. CASE drain[h] # "stopped" /\ SentinelPut(h)
      <4>1. \E i \in 1..Len(queue[h]) : queue[h][i] = UNSUBSCRIBE
        BY <3>3 DEF SentinelInv, Sentinel
      <4>2. InFront(queue'[h]) = InFront(queue[h])
        BY <1>2, <3>1, <4>1, FrontAppend
      <4> QED BY <1>2, <2>1, <2>3, <3>3, <4>2 DEF Pending
    <3>4. CASE drain[h] # "stopped" /\ ~SentinelPut(h)
      <4>1. ~\E i \in 1..Len(queue[h]) : queue[h][i] = UNSUBSCRIBE
        BY <3>4 DEF SentinelInv, Sentinel
      <4>2. InFront(queue'[h]) = InFront(queue[h]) \union {Current(p)}
        BY <1>2, <3>1, <4>1, FrontAppend
      <4>3. OnTheWay(h) = OnTheWay(h)' \union {Current(p)}
        BY <1>1, <1>2, <1>3 DEF OnTheWay, Current
      <4> QED BY <1>2, <2>1, <2>3, <3>4, <4>2, <4>3 DEF Pending
    <3> QED BY <2>3, <3>2, <3>3, <3>4
  <2> QED BY <2>1, <2>2, <2>3
<1> QED BY <1>2, <1>4 DEF modeBar, pendingBar

LEMMA RefinesSubscribe ==
  ASSUME TypeOK, SentinelInv, SentinelInv', NEW s \in Subscriptions, Subscribe(s)
  PROVE  M!Open(s)
<1>1. /\ drain[s] = "unborn" /\ drain' = [drain EXCEPT ![s] = "waiting"]
      /\ UNCHANGED <<queue, leaving, rest, sent, delivered>>
  BY DEF Subscribe
<1>2. \A t : Listed(t)' <=> Listed(t) \/ t = s
  BY SubscribeLists
<1>3. Mode(s) = "unborn" /\ Mode(s)' = "open"
  BY <1>1, <1>2, ModeIs, ModeIsNext
<1>4. \A t \in Subscriptions : OnTheWay(t)' = OnTheWay(t)
  BY <1>1, SameOnTheWay DEF InFlight
<1>5. \A t \in Subscriptions \ {s} : Mode(t)' = Mode(t) /\ Pending(t)' = Pending(t)
  BY <1>1, <1>2, <1>4, SameMailbox DEF TypeOK
<1>6. Pending(s)' = Pending(s)
  <2>1. drain'[s] = "waiting"
    BY <1>1 DEF TypeOK
  <2> QED BY <1>1, <1>2, <1>4, <2>1 DEF Pending, SentinelPut
<1> QED BY <1>1, <1>3, <1>5, <1>6 DEF M!Open, modeBar, pendingBar

LEMMA RefinesUnlist ==
  ASSUME TypeOK, OnceInv, SentinelInv, SentinelInv', NEW s \in Subscriptions, Unlist(s)
  PROVE  M!Close(s)
<1>1. leaving' = leaving \union {s} /\ UNCHANGED <<queue, drain, rest, sent, delivered>>
  BY DEF Unlist
<1>2. Listed(s) /\ \A t : Listed(t)' <=> Listed(t) /\ t # s
  BY UnlistLists
<1>3. Mode(s) = "open" /\ Mode(s)' = "closing"
  BY <1>1, <1>2, ModeIs, ModeIsNext
<1>4. \A t \in Subscriptions : OnTheWay(t)' = OnTheWay(t)
  BY <1>1, SameOnTheWay DEF InFlight
<1>5. \A t \in Subscriptions \ {s} : Mode(t)' = Mode(t) /\ Pending(t)' = Pending(t)
  BY <1>1, <1>2, <1>4, SameMailbox
<1>6. Pending(s)' = Pending(s)
  BY <1>1, <1>2, <1>4 DEF Pending, SentinelPut
<1> QED BY <1>1, <1>3, <1>5, <1>6 DEF M!Close, modeBar, pendingBar

\* What is on the way to a queue comes after what is in it.
LEMMA OnTheWayIsLast ==
  ASSUME TypeOK, OrderInv, NEW s \in Subscriptions, NEW e \in OnTheWay(s)
  PROVE  /\ e \in Event /\ InFlight(e.pub, s) /\ e = Current(e.pub) /\ e.num = sent[e.pub]
         /\ \A f \in InFront(queue[s]) : f.pub = e.pub => f.num < e.num
<1>1. PICK p \in Publishers : InFlight(p, s) /\ e = Current(p)
  BY DEF OnTheWay
<1>2. e \in Event /\ e.pub = p /\ e.num = sent[p]
  BY <1>1, CurrentType
<1>3. queue[s] \in Seq(Event \union {UNSUBSCRIBE}) /\ Ordered(queue[s]) /\ Below(queue[s], p, sent[p])
  BY <1>1 DEF TypeOK, OrderInv
<1> QED BY <1>1, <1>2, <1>3, FrontOrder

LEMMA RefinesPutSentinel ==
  ASSUME TypeOK, SentinelInv, SentinelInv', OrderInv, NEW s \in Subscriptions, PutSentinel(s)
  PROVE  \E lost \in SUBSET pendingBar[s] : M!Cut(s, lost)
<1>1. /\ s \in leaving /\ leaving' = leaving \ {s} /\ UNCHANGED <<subscribers, drain, rest, sent, delivered>>
      /\ queue'[s] = Append(queue[s], UNSUBSCRIBE) /\ \A t \in Subscriptions \ {s} : queue'[t] = queue[t]
  BY DEF PutSentinel, TypeOK
<1>2. \A t : Listed(t)' <=> Listed(t)
  BY <1>1 DEF Listed
<1>3. ~Listed(s) /\ drain[s] \in {"waiting", "notifying"} /\ ~SentinelPut(s) /\ SentinelPut(s)'
  BY <1>1, <1>2 DEF SentinelInv, SentinelPut
<1>4. Mode(s) = "closing" /\ Mode(s)' = "draining"
  BY <1>1, <1>3, ModeIs, ModeIsNext
<1>5. \A t \in Subscriptions : OnTheWay(t)' = OnTheWay(t)
  BY <1>1, SameOnTheWay DEF InFlight
<1>6. \A t \in Subscriptions \ {s} : Mode(t)' = Mode(t) /\ Pending(t)' = Pending(t)
  BY <1>1, <1>2, <1>5, SameMailbox
<1>7. Pending(s) = InFront(queue[s]) \union OnTheWay(s)
  BY <1>3 DEF Pending
<1>8. Pending(s)' = InFront(queue[s])
  <2>1. InFront(queue'[s]) = InFront(queue[s])
    BY <1>1, FrontAppend DEF TypeOK
  <2> QED BY <1>1, <1>3, <2>1 DEF Pending
<1>9. ASSUME NEW e \in OnTheWay(s), NEW f \in Pending(s) PROVE ~M!Before(e, f)
  <2>1. e \in Event /\ e = Current(e.pub) /\ \A g \in InFront(queue[s]) : g.pub = e.pub => g.num < e.num
    BY OnTheWayIsLast
  <2>2. f \in Event
    BY <1>7, OnTheWayIsLast, FrontOrder DEF TypeOK, OrderInv
  <2>3. CASE f \in InFront(queue[s])
    BY <2>1, <2>2, <2>3 DEF M!Before, Event
  <2>4. CASE f \in OnTheWay(s)
    <3>1. f = Current(f.pub)
      BY <2>4, OnTheWayIsLast
    <3> QED BY <2>1, <2>2, <3>1 DEF M!Before, Event
  <2> QED BY <1>7, <2>3, <2>4
<1>10. InFront(queue[s]) \cap OnTheWay(s) = {}
  <2> SUFFICES ASSUME NEW f \in OnTheWay(s), f \in InFront(queue[s]) PROVE FALSE
    OBVIOUS
  <2>1. f \in Event /\ f.num < f.num
    BY OnTheWayIsLast
  <2> QED BY <2>1 DEF Event
<1>11. Pending(s)' = Pending(s) \ OnTheWay(s) /\ OnTheWay(s) \subseteq Pending(s)
  BY <1>7, <1>8, <1>10
<1>12. M!Cut(s, OnTheWay(s))
  BY <1>1, <1>4, <1>6, <1>9, <1>11 DEF M!Cut, modeBar, pendingBar
<1> QED BY <1>11, <1>12 DEF pendingBar

LEMMA RefinesTake ==
  ASSUME TypeOK, SentinelInv, SentinelInv', OrderInv, NEW s \in Subscriptions, Take(s)
  PROVE  \E e \in pendingBar[s] : M!Handle(s, e)
<1>1. PICK e \in Event : e = Head(queue[s])
  BY DEF Take, TypeOK
<1>2. /\ drain[s] = "waiting" /\ queue[s] # <<>> /\ Head(queue[s]) # UNSUBSCRIBE
      /\ delivered' = [delivered EXCEPT ![s] = Append(@, e)]
      /\ queue'[s] = Tail(queue[s]) /\ \A t \in Subscriptions \ {s} : queue'[t] = queue[t]
      /\ drain'[s] = "notifying" /\ \A t \in Subscriptions \ {s} : drain'[t] = drain[t]
      /\ UNCHANGED <<subscribers, leaving, rest, sent>>
  BY <1>1 DEF Take, TypeOK
<1>3. \A t : Listed(t)' <=> Listed(t)
  BY <1>2 DEF Listed
<1>4. \A t \in Subscriptions : OnTheWay(t)' = OnTheWay(t)
  BY <1>2, SameOnTheWay DEF InFlight
<1>5. \A t \in Subscriptions \ {s} : Mode(t)' = Mode(t) /\ Pending(t)' = Pending(t)
  BY <1>2, <1>3, <1>4, SameMailbox
<1>6. Mode(s)' = Mode(s) /\ Mode(s) \in {"open", "closing", "draining"}
  BY <1>2, <1>3 DEF Mode
<1>7. SentinelPut(s)' <=> SentinelPut(s)
  BY <1>2, <1>3 DEF SentinelPut
<1>8. queue[s] \in Seq(Event \union {UNSUBSCRIBE}) /\ Ordered(queue[s])
  BY DEF TypeOK, OrderInv
<1>9. InFront(queue[s]) = {e} \union InFront(Tail(queue[s]))
  BY <1>1, <1>2, <1>8, FrontTail
<1>10. Pending(s) = {e} \union Pending(s)'
  BY <1>2, <1>4, <1>7, <1>9 DEF Pending
<1>11. ASSUME NEW f \in Pending(s)', f.pub = e.pub PROVE e.num < f.num /\ f \in Event
  <2>1. CASE f \in InFront(Tail(queue[s]))
    BY <1>1, <1>2, <1>8, <1>9, <1>11, <2>1, FrontOrder
  <2>2. CASE f \in OnTheWay(s)
    BY <1>9, <1>11, <2>2, OnTheWayIsLast
  <2> QED BY <1>2, <1>4, <2>1, <2>2 DEF Pending
<1>12. e \notin Pending(s)' /\ \A f \in Pending(s) : ~M!Before(f, e)
  BY <1>10, <1>11 DEF M!Before, Event
<1>13. M!Handle(s, e)
  BY <1>2, <1>5, <1>6, <1>10, <1>12 DEF M!Handle, modeBar, pendingBar
<1> QED BY <1>10, <1>13 DEF pendingBar

LEMMA RefinesReturn ==
  ASSUME TypeOK, NEW s \in Subscriptions, Return(s)
  PROVE  UNCHANGED <<modeBar, pendingBar, sent, delivered>>
<1>1. /\ drain[s] = "notifying" /\ drain'[s] = "waiting" /\ \A t \in Subscriptions \ {s} : drain'[t] = drain[t]
      /\ UNCHANGED <<subscribers, queue, leaving, rest, sent, delivered>>
  BY DEF Return, TypeOK
<1>2. \A t : Listed(t)' <=> Listed(t)
  BY <1>1 DEF Listed
<1>3. \A t \in Subscriptions : OnTheWay(t)' = OnTheWay(t)
  BY <1>1, SameOnTheWay DEF InFlight
<1>4. \A t \in Subscriptions : Mode(t)' = Mode(t) /\ Pending(t)' = Pending(t)
  BY <1>1, <1>2, <1>3 DEF Mode, Pending, SentinelPut
<1> QED BY <1>1, <1>4 DEF modeBar, pendingBar

LEMMA RefinesStop ==
  ASSUME TypeOK, SentinelInv, SentinelInv', NEW s \in Subscriptions, Stop(s)
  PROVE  M!End(s)
<1>1. /\ drain[s] = "waiting" /\ queue[s] # <<>> /\ Head(queue[s]) = UNSUBSCRIBE
      /\ \A t \in Subscriptions \ {s} : queue'[t] = queue[t]
      /\ drain'[s] = "stopped" /\ \A t \in Subscriptions \ {s} : drain'[t] = drain[t]
      /\ UNCHANGED <<subscribers, leaving, rest, sent, delivered>>
  BY DEF Stop, TypeOK
<1>2. \A t : Listed(t)' <=> Listed(t)
  BY <1>1 DEF Listed
<1>3. SentinelPut(s)
  <2>1. queue[s] \in Seq(Event \union {UNSUBSCRIBE})
    BY DEF TypeOK
  <2>2. Sentinel(s, 1)
    BY <1>1, <2>1, TailFacts DEF Sentinel
  <2> QED BY <2>2 DEF SentinelInv
<1>4. Mode(s) = "draining" /\ Mode(s)' = "ended"
  BY <1>1, <1>2, <1>3, ModeIs, ModeIsNext DEF SentinelPut
<1>5. Pending(s) = {} /\ Pending(s)' = {}
  <2>1. InFront(queue[s]) = {}
    BY <1>1, FrontTail DEF TypeOK
  <2> QED BY <1>1, <1>3, <2>1 DEF Pending
<1>6. \A t \in Subscriptions : OnTheWay(t)' = OnTheWay(t)
  BY <1>1, SameOnTheWay DEF InFlight
<1>7. \A t \in Subscriptions \ {s} : Mode(t)' = Mode(t) /\ Pending(t)' = Pending(t)
  BY <1>1, <1>2, <1>6, SameMailbox
<1> QED BY <1>1, <1>4, <1>5, <1>7 DEF M!End, modeBar, pendingBar

\* The bus does what Mailbox promises, for every number of publishers and
\* subscriptions: publish() reaches the queues one by one and without the lock,
\* and unsubscribe() puts its sentinel after it has released the lock, and yet
\* all a user sees is a broadcast, in order, that an unsubscribe cuts off.
THEOREM BusIsMailbox == Spec => ImplementsMailbox
<1> DEFINE Inv == TypeOK /\ OnceInv /\ SentinelInv /\ OrderInv
<1>1. Init => Inv
  BY InitType, OnceInit, SentinelInit, OrderInit
<1>2. Inv /\ [Next]_vars => Inv'
  BY NextType, OnceNext, SentinelNext, OrderNext
<1>3. Inv /\ Inv' /\ [Next]_vars => [M!Next]_(M!abstractVars)
  <2> SUFFICES ASSUME Inv, Inv', [Next]_vars PROVE M!Next \/ UNCHANGED <<modeBar, pendingBar, sent, delivered>>
    BY DEF M!abstractVars
  <2>1. ASSUME NEW p \in Publishers, Publish(p) PROVE M!Next
    BY <2>1, RefinesPublish DEF M!Next
  <2>2. ASSUME NEW p \in Publishers, Put(p) PROVE UNCHANGED <<modeBar, pendingBar, sent, delivered>>
    BY <2>2, RefinesPut
  <2>3. ASSUME NEW s \in Subscriptions, Subscribe(s) PROVE M!Next
    BY <2>3, RefinesSubscribe DEF M!Next
  <2>4. ASSUME NEW s \in Subscriptions, Unlist(s) PROVE M!Next
    BY <2>4, RefinesUnlist DEF M!Next
  <2>5. ASSUME NEW s \in Subscriptions, PutSentinel(s) PROVE M!Next
    BY <2>5, RefinesPutSentinel DEF M!Next
  <2>6. ASSUME NEW s \in Subscriptions, Take(s) PROVE M!Next
    BY <2>6, RefinesTake DEF M!Next
  <2>7. ASSUME NEW s \in Subscriptions, Return(s) PROVE UNCHANGED <<modeBar, pendingBar, sent, delivered>>
    BY <2>7, RefinesReturn
  <2>8. ASSUME NEW s \in Subscriptions, Stop(s) PROVE M!Next
    BY <2>8, RefinesStop DEF M!Next
  <2>9. CASE UNCHANGED vars
    BY <2>9 DEF vars, modeBar, pendingBar, Mode, Pending, SentinelPut, Listed, OnTheWay, InFlight, Current
  <2> QED BY <2>1, <2>2, <2>3, <2>4, <2>5, <2>6, <2>7, <2>8, <2>9 DEF Next
<1>4. Init => M!Init
  BY RefinesInit
<1> HIDE DEF Inv
<1> QED BY <1>1, <1>2, <1>3, <1>4, PTL DEF Spec, ImplementsMailbox, M!Spec
=============================================================================
