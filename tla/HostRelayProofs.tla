-------------------------- MODULE HostRelayProofs --------------------------
(***************************************************************************)
(* Proofs about HostRelay, for every set of hosts, every registry and every*)
(* bound: type correctness, MovesOncePerPress and TogetherWhenQuiet.        *)
(***************************************************************************)
EXTENDS HostRelay, FiniteSetTheorems, TLAPS

LEMMA DevicesFinite == IsFiniteSet(Devices)
<1>1. Len(Registered) \in Nat
  BY DeviceAssumption
<1>2. IsFiniteSet(1..Len(Registered))
  BY <1>1, FS_Interval
<1> DEFINE f == [i \in 1..Len(Registered) |-> Registered[i]]
<1>3. f \in Surjection(1..Len(Registered), Devices)
  BY DEF Devices, Surjection
<1> QED BY <1>2, <1>3, FS_Surjection

\* The devices of a gateway in the order of the registry are a sequence of
\* devices, and each of them comes once.
LEMMA OrderLemma ==
  ASSUME NEW D \in SUBSET Devices, NEW g, NEW q \in InOrder(D, g)
  PROVE  /\ q \in Seq(Devices)
         /\ \A i \in 1..Len(q) : Gateway(q[i]) = g
         /\ \A i, j \in 1..Len(q) : q[i] = q[j] => i = j
<1> DEFINE S == {d \in D : Gateway(d) = g}
<1>1. IsFiniteSet(Devices)
  BY DevicesFinite
<1>2. Cardinality(S) \in Nat
  BY <1>1, FS_Subset, FS_CardinalityType
<1>3. q \in [1..Cardinality(S) -> S] /\ \A i, j \in 1..Cardinality(S) : i # j => q[i] # q[j]
  BY DEF InOrder, SetToSeqs
<1> HIDE DEF S
<1>4. q \in Seq(S) /\ Len(q) = Cardinality(S)
  BY <1>2, <1>3
<1>5. S \subseteq Devices /\ \A d \in S : Gateway(d) = g
  BY DEF S
<1> QED BY <1>3, <1>4, <1>5

\* The commands that take the devices of a sequence to t.
Moving(devices, t) == [i \in 1..Len(devices) |-> [dev |-> devices[i], target |-> t]]

\* w[h][g] is the queue with commands added for devices of gateway g, one each.
Extended(w, h, g, t) ==
  \E mine \in Seq(Devices) :
    /\ \A i, j \in 1..Len(mine) : mine[i] = mine[j] => i = j
    /\ \A i \in 1..Len(mine) : Gateway(mine[i]) = g
    /\ w[h][g] = writes[h][g] \o Moving(mine, t)

\* A change of hosts adds to each queue commands for its own devices, at most
\* one for each, and leaves the queues of the other hosts alone.
LEMMA CommandedLemma ==
  ASSUME TypeOK, NEW h \in Hosts, NEW t \in Hosts, NEW S \in SUBSET Devices,
         NEW w \in Commanded(h, S, t)
  PROVE  /\ w \in [Hosts -> [Gateways -> Seq(Command)]]
         /\ \A k \in Hosts, g \in Gateways : k # h => w[k][g] = writes[k][g]
         /\ \A g \in Gateways : Extended(w, h, g, t)
<1>1. PICK m \in [Gateways -> UNION {InOrder(S, g) : g \in Gateways}] :
        /\ \A g \in Gateways : m[g] \in InOrder(S, g)
        /\ w = [writes EXCEPT ![h] = [g \in Gateways |->
                  @[g] \o [i \in 1..Len(m[g]) |-> [dev |-> m[g][i], target |-> t]]]]
  BY DEF Commanded
<1>2. writes \in [Hosts -> [Gateways -> Seq(Command)]]
  BY DEF TypeOK
<1>3. ASSUME NEW g \in Gateways
      PROVE  /\ m[g] \in Seq(Devices)
             /\ \A i, j \in 1..Len(m[g]) : m[g][i] = m[g][j] => i = j
             /\ \A i \in 1..Len(m[g]) : Gateway(m[g][i]) = g
             /\ w[h][g] = writes[h][g] \o Moving(m[g], t)
             /\ w[h][g] \in Seq(Command)
  <2>3. /\ m[g] \in Seq(Devices) /\ \A i \in 1..Len(m[g]) : Gateway(m[g][i]) = g
        /\ \A i, j \in 1..Len(m[g]) : m[g][i] = m[g][j] => i = j
    BY <1>1, OrderLemma
  <2> DEFINE new == Moving(m[g], t)
  <2>4. w[h][g] = writes[h][g] \o new
    BY <1>1, <1>2 DEF Moving
  <2>5. new \in Seq(Command)
    <3>1. Len(m[g]) \in Nat /\ \A i \in 1..Len(m[g]) : [dev |-> m[g][i], target |-> t] \in Command
      BY <2>3 DEF Command
    <3> QED BY <3>1 DEF Moving
  <2>6. writes[h][g] \in Seq(Command)
    BY <1>2
  <2> HIDE DEF new
  <2>7. w[h][g] \in Seq(Command)
    BY <2>4, <2>5, <2>6
  <2> QED BY <2>3, <2>4, <2>7 DEF new
<1>4. \A k \in Hosts, g \in Gateways : k # h => w[k][g] = writes[k][g]
  BY <1>1, <1>2
<1>5. w \in [Hosts -> [Gateways -> Seq(Command)]]
  <2>1. /\ w = [writes EXCEPT ![h] = w[h]] /\ w[h] = [g \in Gateways |-> w[h][g]]
    BY <1>1, <1>2
  <2>2. w[h] \in [Gateways -> Seq(Command)]
    BY <1>3, <2>1
  <2> QED BY <1>2, <2>1, <2>2
<1>6. \A g \in Gateways : Extended(w, h, g, t)
  BY <1>3 DEF Extended
<1> QED BY <1>4, <1>5, <1>6

----------------------------------------------------------------------------
LEMMA InitType == Init => TypeOK
<1> SUFFICES ASSUME Init PROVE TypeOK
  OBVIOUS
<1>1. /\ heard \in [Hosts -> Seq(Packet)] /\ notices \in [Hosts -> Seq(Packet)]
      /\ changes \in [Hosts -> Seq(Hosts)]
      /\ writes \in [Hosts -> [Gateways -> Seq(Command)]]
  BY DEF Init
<1>2. presses \in 0..MaxPresses /\ naps \in 0..MaxNaps
  BY BoundsAssumption DEF Init
<1> QED BY <1>1, <1>2, DeviceAssumption DEF Init, TypeOK

\* What the keyboard tells of a press is made of packets.
LEMMA ToldLemma ==
  ASSUME NEW k, NEW t \in Hosts, NEW packets \in Told(k, t)
  PROVE  packets \in Seq(Packet)
<1>2. \A p, q \in Packet : <<p>> \in Seq(Packet) /\ <<p, q>> \in Seq(Packet) /\ <<>> \in Seq(Packet)
  OBVIOUS
<1>3. /\ [kind |-> "announcement", target |-> t] \in Packet
      /\ [kind |-> "announcement", target |-> NoHost] \in Packet
      /\ [kind |-> "press", target |-> t] \in Packet
      /\ [kind |-> "release", target |-> t] \in Packet
  BY DEF Packet
<1> QED BY <1>2, <1>3 DEF Told

LEMMA MoveToType ==
  ASSUME TypeOK, NEW d \in Devices, NEW t \in Hosts, MoveTo(d, t)
  PROVE  at' \in [Devices -> Hosts] /\ armed' \subseteq Keyboards
BY DEF MoveTo, TypeOK

\* The head of a queue is of the type of its elements, and so is the rest.
LEMMA HeadLemma ==
  ASSUME NEW S, NEW q \in Seq(S), q # <<>>
  PROVE  Head(q) \in S /\ Tail(q) \in Seq(S)
OBVIOUS

LEMMA NextType == TypeOK /\ [Next]_vars => TypeOK'
<1> SUFFICES ASSUME TypeOK, [Next]_vars PROVE TypeOK'
  OBVIOUS
<1> USE DEF deviceVars, daemonVars, historyVars
<1>1. ASSUME NEW k \in Keyboards, Rearm(k) PROVE TypeOK'
  BY <1>1 DEF Rearm, TypeOK
<1>2. ASSUME NEW k \in Keyboards, NEW t \in Hosts, Press(k, t) PROVE TypeOK'
  <2>1. k \in Devices
    BY DeviceAssumption
  <2>2. at' \in [Devices -> Hosts] /\ armed' \subseteq Keyboards
    BY <1>2, <2>1, MoveToType DEF Press, TypeOK
  <2>3. heard' \in [Hosts -> Seq(Packet)]
    <3>1. PICK packets \in Told(k, t) : heard' = [heard EXCEPT ![at[k]] = @ \o packets]
      BY <1>2 DEF Press
    <3>2. packets \in Seq(Packet)
      BY <3>1, ToldLemma
    <3>3. at[k] \in Hosts /\ heard[at[k]] \in Seq(Packet)
      BY <2>1 DEF TypeOK
    <3>4. heard[at[k]] \o packets \in Seq(Packet)
      BY <3>2, <3>3
    <3> QED BY <3>1, <3>3, <3>4 DEF TypeOK
  <2>4. presses' \in 0..MaxPresses
    BY <1>2, BoundsAssumption DEF Press, TypeOK
  <2>5. clean' \in BOOLEAN
    BY <1>2 DEF Press
  <2> QED BY <1>2, <2>2, <2>3, <2>4, <2>5 DEF Press, TypeOK
<1>3. ASSUME NEW d \in Relayed, Nap(d) PROVE TypeOK'
  <2>1. naps' \in 0..MaxNaps
    BY <1>3, BoundsAssumption DEF Nap, TypeOK
  <2>2. clean' \in BOOLEAN
    BY <1>3 DEF Nap
  <2> QED BY <1>3, <2>1, <2>2 DEF Nap, TypeOK
<1>4. ASSUME NEW d \in Relayed, WakeUp(d) PROVE TypeOK'
  BY <1>4, DeviceAssumption DEF WakeUp, TypeOK
<1>5. ASSUME NEW h \in Hosts, Listen(h) PROVE TypeOK'
  <2>1. heard[h] \in Seq(Packet) /\ changes[h] \in Seq(Hosts) /\ notices[h] \in Seq(Packet)
    BY DEF TypeOK
  <2>2. Head(heard[h]) \in Packet /\ Tail(heard[h]) \in Seq(Packet)
    BY <1>5, <2>1, HeadLemma DEF Listen
  <2>3. heard' \in [Hosts -> Seq(Packet)]
    BY <1>5, <2>2 DEF Listen, TypeOK
  <2>4. CASE Head(heard[h]).kind = "press"
    <3>1. Head(heard[h]).target \in Hosts
      BY <2>2, <2>4 DEF Packet
    <3>2. changes' = [changes EXCEPT ![h] = Append(@, Head(heard[h]).target)] /\ notices' = notices
      BY <1>5, <2>4 DEF Listen
    <3>3. Append(changes[h], Head(heard[h]).target) \in Seq(Hosts)
      BY <2>1, <3>1
    <3>4. changes' \in [Hosts -> Seq(Hosts)]
      BY <3>2, <3>3 DEF TypeOK
    <3> QED BY <1>5, <2>3, <3>2, <3>4 DEF Listen, TypeOK
  <2>5. CASE Head(heard[h]).kind # "press"
    <3>1. Append(notices[h], Head(heard[h])) \in Seq(Packet)
      BY <2>1, <2>2
    <3>2. notices' = [notices EXCEPT ![h] = Append(@, Head(heard[h]))] /\ changes' = changes
      BY <1>5, <2>5 DEF Listen
    <3>3. notices' \in [Hosts -> Seq(Packet)]
      BY <3>1, <3>2 DEF TypeOK
    <3> QED BY <1>5, <2>3, <3>2, <3>3 DEF Listen, TypeOK
  <2> QED BY <2>4, <2>5
<1>6. ASSUME NEW h \in Hosts, HandleNotice(h) PROVE TypeOK'
  <2>1. notices[h] \in Seq(Packet) /\ changes[h] \in Seq(Hosts)
    BY DEF TypeOK
  <2>2. Head(notices[h]) \in Packet /\ Tail(notices[h]) \in Seq(Packet)
    BY <1>6, <2>1, HeadLemma DEF HandleNotice
  <2>3. changes' \in [Hosts -> Seq(Hosts)]
    <3>1. CASE Head(notices[h]).target \in Hosts
      <4>1. Append(changes[h], Head(notices[h]).target) \in Seq(Hosts)
        BY <2>1, <3>1
      <4>2. \/ changes' = changes
            \/ changes' = [changes EXCEPT ![h] = Append(@, Head(notices[h]).target)]
        BY <1>6 DEF HandleNotice
      <4> QED BY <4>1, <4>2 DEF TypeOK
    <3>2. CASE Head(notices[h]).target \notin Hosts
      BY <1>6, <3>2 DEF HandleNotice, TypeOK
    <3> QED BY <3>1, <3>2
  <2> QED BY <1>6, <2>2, <2>3 DEF HandleNotice, TypeOK
<1>7. ASSUME NEW h \in Hosts, HandleChange(h) PROVE TypeOK'
  <2>1. changes[h] \in Seq(Hosts)
    BY DEF TypeOK
  <2>2. Head(changes[h]) \in Hosts /\ Tail(changes[h]) \in Seq(Hosts)
    BY <1>7, <2>1, HeadLemma DEF HandleChange
  <2>3. writes' \in [Hosts -> [Gateways -> Seq(Command)]]
    BY <1>7, <2>2, CommandedLemma, DeviceAssumption DEF HandleChange
  <2> QED BY <1>7, <2>2, <2>3 DEF HandleChange, TypeOK
<1>8. ASSUME NEW h \in Hosts, NEW g \in Gateways, DoWrite(h, g) PROVE TypeOK'
  <2>1. writes[h][g] \in Seq(Command) /\ writes[h] \in [Gateways -> Seq(Command)]
    BY DEF TypeOK
  <2>2. Head(writes[h][g]) \in Command /\ Tail(writes[h][g]) \in Seq(Command)
    BY <1>8, <2>1, HeadLemma DEF DoWrite
  <2>3. writes' \in [Hosts -> [Gateways -> Seq(Command)]]
    BY <1>8, <2>1, <2>2 DEF DoWrite, TypeOK
  <2>4. Head(writes[h][g]).dev \in Devices /\ Head(writes[h][g]).target \in Hosts
    BY <2>2 DEF Command
  <2>5. at' \in [Devices -> Hosts] /\ armed' \subseteq Keyboards /\ moves' \in [Devices -> Nat]
    <3> DEFINE d == Head(writes[h][g]).dev
               t == Head(writes[h][g]).target
    <3>1. CASE at[d] = h /\ d \in awake
      <4>1. MoveTo(d, t) /\ moves' = IF t = h THEN moves ELSE [moves EXCEPT ![d] = @ + 1]
        BY <1>8, <3>1 DEF DoWrite
      <4>2. moves \in [Devices -> Nat] /\ moves' \in [Devices -> Nat]
        <5>1. d \in Devices /\ moves \in [Devices -> Nat]
          BY <2>4 DEF TypeOK
        <5> HIDE DEF d, t
        <5>2. moves[d] + 1 \in Nat
          BY <5>1
        <5> QED BY <4>1, <5>1, <5>2
      <4> QED BY <2>4, <4>1, <4>2, MoveToType
    <3>2. CASE ~(at[d] = h /\ d \in awake)
      BY <1>8, <3>2 DEF DoWrite, TypeOK
    <3> QED BY <3>1, <3>2
  <2> QED BY <1>8, <2>3, <2>5 DEF DoWrite, TypeOK
<1>9. CASE UNCHANGED vars
  BY <1>9 DEF vars, TypeOK
<1> QED BY <1>1, <1>2, <1>3, <1>4, <1>5, <1>6, <1>7, <1>8, <1>9
    DEF Next, Environment, Daemon

\* The state of the relay always has the types declared in HostRelay.
THEOREM TypeCorrect == Spec => []TypeOK
BY InitType, NextType, PTL DEF Spec
----------------------------------------------------------------------------
\* A press makes no device move more than once.  What a press has set going
\* for a device d is somewhere between the keyboard and d: as a packet that
\* names a host, as a change, or as a command for d.
Wish(packet) ==
  packet.kind = "press" \/ (packet.kind = "announcement" /\ packet.target \in Hosts)

Places == {"heard", "notices", "changes", "writes"} \X Hosts \X Nat
Waits(d, c, h, i) ==
  \/ c = "heard" /\ i \in 1..Len(heard[h]) /\ Wish(heard[h][i])
  \/ c = "notices" /\ i \in 1..Len(notices[h]) /\ Wish(notices[h][i])
  \/ c = "changes" /\ i \in 1..Len(changes[h])
  \/ c = "writes" /\ i \in 1..Len(writes[h][Gateway(d)]) /\ writes[h][Gateway(d)][i].dev = d
Waiting(d) == {p \in Places : Waits(d, p[1], p[2], p[3])}

OwnQueue ==
  \A h \in Hosts, g \in Gateways :
    \A i \in 1..Len(writes[h][g]) : Gateway(writes[h][g][i].dev) = g
Accounted(d) == IsFiniteSet(Waiting(d)) /\ Cardinality(Waiting(d)) + moves[d] <= presses
CountInv == OwnQueue /\ \A d \in Devices : Accounted(d)

\* Taking the head off queue c of host h moves the others forward; the head may
\* become one element somewhere else.
LEMMA ShiftLemma ==
  ASSUME NEW T \in SUBSET Places, NEW U \in SUBSET Places, IsFiniteSet(T),
         NEW c, NEW h, NEW new,
         \A p \in U : p # new =>
            IF p[1] = c /\ p[2] = h THEN <<c, h, p[3] + 1>> \in T /\ p[3] >= 1 ELSE p \in T,
         new \in U => <<c, h, 1>> \in T /\ ~(new[1] = c /\ new[2] = h)
  PROVE  IsFiniteSet(U) /\ Cardinality(U) <= Cardinality(T)
<1> DEFINE f == [p \in U |-> IF p = new THEN <<c, h, 1>>
                             ELSE IF p[1] = c /\ p[2] = h THEN <<c, h, p[3] + 1>> ELSE p]
<1>1. \A p \in Places : p = <<p[1], p[2], p[3]>> /\ p[3] \in Nat
  BY DEF Places
<1>2. f \in [U -> T]
  OBVIOUS
<1>3. ASSUME NEW p \in U, NEW q \in U, f[p] = f[q] PROVE p = q
  <2>1. CASE p = new /\ q # new
    <3>1. CASE q[1] = c /\ q[2] = h
      <4>1. <<c, h, 1>> = <<c, h, q[3] + 1>> /\ q[3] >= 1 /\ q[3] \in Nat
        BY <1>1, <1>3, <2>1, <3>1
      <4> QED BY <4>1
    <3>2. CASE ~(q[1] = c /\ q[2] = h)
      <4>1. q = <<c, h, 1>>
        BY <1>3, <2>1, <3>2
      <4> QED BY <3>2, <4>1
    <3> QED BY <3>1, <3>2
  <2>2. CASE p # new /\ q = new
    <3>1. CASE p[1] = c /\ p[2] = h
      <4>1. <<c, h, 1>> = <<c, h, p[3] + 1>> /\ p[3] >= 1 /\ p[3] \in Nat
        BY <1>1, <1>3, <2>2, <3>1
      <4> QED BY <4>1
    <3>2. CASE ~(p[1] = c /\ p[2] = h)
      <4>1. p = <<c, h, 1>>
        BY <1>3, <2>2, <3>2
      <4> QED BY <3>2, <4>1
    <3> QED BY <3>1, <3>2
  <2>3. CASE p # new /\ q # new
    <3>1. CASE p[1] = c /\ p[2] = h /\ q[1] = c /\ q[2] = h
      <4>1. <<c, h, p[3] + 1>> = <<c, h, q[3] + 1>> /\ p[3] \in Nat /\ q[3] \in Nat
        BY <1>1, <1>3, <2>3, <3>1
      <4>2. p[3] = q[3]
        BY <4>1
      <4> QED BY <1>1, <3>1, <4>2
    <3>2. CASE p[1] = c /\ p[2] = h /\ ~(q[1] = c /\ q[2] = h)
      <4>1. q = <<c, h, p[3] + 1>>
        BY <1>3, <2>3, <3>2
      <4> QED BY <3>2, <4>1
    <3>3. CASE ~(p[1] = c /\ p[2] = h) /\ q[1] = c /\ q[2] = h
      <4>1. p = <<c, h, q[3] + 1>>
        BY <1>3, <2>3, <3>3
      <4> QED BY <3>3, <4>1
    <3>4. CASE ~(p[1] = c /\ p[2] = h) /\ ~(q[1] = c /\ q[2] = h)
      BY <1>3, <2>3, <3>4
    <3> QED BY <3>1, <3>2, <3>3, <3>4
  <2> QED BY <2>1, <2>2, <2>3
<1> HIDE DEF f
<1>4. f \in Injection(U, T)
  BY <1>2, <1>3 DEF Injection, IsInjective
<1> QED BY <1>4, FS_Injection DEF ExistsInjection

LEMMA InitCount == Init => CountInv
<1> SUFFICES ASSUME Init PROVE CountInv
  OBVIOUS
<1>1. OwnQueue
  BY DEF Init, OwnQueue
<1>2. ASSUME NEW d \in Devices PROVE Accounted(d)
  <2>1. Gateway(d) \in Gateways
    BY DEF Gateways
  <2>2. Waiting(d) = {}
    BY <2>1 DEF Waiting, Places, Waits, Init
  <2>3. IsFiniteSet(Waiting(d)) /\ Cardinality(Waiting(d)) = 0
    BY <2>2, FS_EmptySet
  <2>4. moves[d] = 0 /\ presses = 0
    BY DEF Init
  <2> QED BY <2>3, <2>4 DEF Accounted
<1> QED BY <1>1, <1>2 DEF CountInv

\* The wishes for d stay accounted for when they do not become more.
LEMMA CountFrame ==
  ASSUME TypeOK, TypeOK', NEW d \in Devices, Accounted(d),
         IsFiniteSet(Waiting(d)'), Cardinality(Waiting(d)') <= Cardinality(Waiting(d)),
         moves'[d] = moves[d], presses' = presses
  PROVE  Accounted(d)'
<1>1. Cardinality(Waiting(d)) \in Nat /\ Cardinality(Waiting(d)') \in Nat
  BY FS_CardinalityType DEF Accounted
<1>2. moves[d] \in Nat /\ presses \in Nat
  BY DEF TypeOK
<1>3. Cardinality(Waiting(d)) + moves[d] <= presses
  BY DEF Accounted
<1>4. Cardinality(Waiting(d)') + moves'[d] <= presses'
  BY <1>1, <1>2, <1>3
<1> QED BY <1>4 DEF Accounted

\* Nothing is added to a queue that is left alone.
LEMMA IdleCount ==
  ASSUME TypeOK, TypeOK', CountInv, UNCHANGED <<heard, notices, changes, writes, moves, presses>>
  PROVE  CountInv'
<1>1. \A d \in Devices : Waiting(d)' = Waiting(d)
  BY DEF Waiting, Waits, Wish, Places
<1>2. ASSUME NEW d \in Devices PROVE Accounted(d)'
  BY <1>1 DEF CountInv, Accounted
<1>3. OwnQueue'
  BY DEF CountInv, OwnQueue
<1> QED BY <1>2, <1>3 DEF CountInv

\* A press is told by one packet that names a host.
LEMMA ToldOnce ==
  ASSUME NEW k, NEW t \in Hosts, NEW packets \in Told(k, t)
  PROVE  \E n \in Nat \ {0} : \A i \in 1..Len(packets) : Wish(packets[i]) => i = n
<1>1. CASE packets = <<[kind |-> "announcement", target |-> NoHost],
                       [kind |-> "announcement", target |-> t]>>
  <2>1. \A i \in 1..Len(packets) : Wish(packets[i]) => i = 2
    BY <1>1, HostsAssumption DEF Wish
  <2>2. 2 \in Nat \ {0}
    OBVIOUS
  <2> QED BY <2>1, <2>2
<1>2. CASE packets = <<[kind |-> "press", target |-> t], [kind |-> "release", target |-> t]>>
  <2>1. \A i \in 1..Len(packets) : Wish(packets[i]) => i = 1
    BY <1>2 DEF Wish
  <2>2. 1 \in Nat \ {0}
    OBVIOUS
  <2> QED BY <2>1, <2>2
<1>3. CASE Len(packets) \in {0, 1}
  <2>1. \A i \in 1..0 : i = 1
    OBVIOUS
  <2>2. \A i \in 1..1 : i = 1
    OBVIOUS
  <2>3. 1 \in Nat \ {0}
    OBVIOUS
  <2> QED BY <1>3, <2>1, <2>2, <2>3, Zenon
<1>4. ASSUME NEW p, packets = <<p>> PROVE Len(packets) \in {0, 1}
  BY <1>4
<1>5. packets = <<>> => Len(packets) \in {0, 1}
  OBVIOUS
<1>6. \/ packets = <<[kind |-> "announcement", target |-> t]>>
      \/ packets = <<[kind |-> "announcement", target |-> NoHost],
                     [kind |-> "announcement", target |-> t]>>
      \/ packets = <<>>
      \/ packets = <<[kind |-> "press", target |-> t]>>
      \/ packets = <<[kind |-> "press", target |-> t], [kind |-> "release", target |-> t]>>
  BY Zenon DEF Told
<1> QED BY <1>1, <1>2, <1>3, <1>4, <1>5, <1>6

LEMMA PressCount ==
  ASSUME TypeOK, TypeOK', CountInv, NEW k \in Keyboards, NEW t \in Hosts, Press(k, t)
  PROVE  CountInv'
<1> DEFINE h == at[k]
<1>1. PICK packets \in Told(k, t) : heard' = [heard EXCEPT ![h] = @ \o packets]
  BY DEF Press
<1>2. /\ UNCHANGED <<notices, changes, writes, moves>> /\ presses' = presses + 1
      /\ h \in Hosts
  BY DeviceAssumption DEF Press, TypeOK
<1>3. PICK n \in Nat \ {0} : \A i \in 1..Len(packets) : Wish(packets[i]) => i = n
  BY <1>1, <1>2, ToldOnce
<1>4. packets \in Seq(Packet) /\ heard[h] \in Seq(Packet)
  BY <1>1, <1>2, ToldLemma DEF TypeOK
<1> HIDE DEF h
<1>5. \A j \in Hosts : j # h => heard'[j] = heard[j]
  BY <1>1 DEF TypeOK
<1>6. heard'[h] = heard[h] \o packets
  BY <1>1, <1>2 DEF TypeOK
<1>7. ASSUME NEW d \in Devices PROVE Accounted(d)'
  <2> DEFINE new == <<"heard", h, Len(heard[h]) + n>>
  <2>1. ASSUME NEW p \in Waiting(d)' PROVE p \in Waiting(d) \/ p = new
    <3>1. p \in Places /\ p = <<p[1], p[2], p[3]>> /\ p[2] \in Hosts /\ Waits(d, p[1], p[2], p[3])'
      BY DEF Waiting, Places
    <3>2. CASE p[1] = "heard" /\ p[2] = h
      <4>1. p[3] \in 1..Len(heard[h] \o packets) /\ Wish((heard[h] \o packets)[p[3]])
        BY <1>6, <3>1, <3>2 DEF Waits, Wish
      <4>2. CASE p[3] <= Len(heard[h])
        <5>1. p[3] \in 1..Len(heard[h]) /\ (heard[h] \o packets)[p[3]] = heard[h][p[3]]
          BY <1>4, <4>1, <4>2
        <5>2. Waits(d, p[1], p[2], p[3])
          BY <3>2, <4>1, <5>1 DEF Waits
        <5> QED BY <3>1, <5>2 DEF Waiting
      <4>3. CASE p[3] > Len(heard[h])
        <5>1. /\ p[3] - Len(heard[h]) \in 1..Len(packets)
              /\ (heard[h] \o packets)[p[3]] = packets[p[3] - Len(heard[h])]
          BY <1>4, <4>1, <4>3
        <5>2. p[3] - Len(heard[h]) = n
          BY <1>3, <4>1, <5>1
        <5>3. p[3] = Len(heard[h]) + n
          BY <1>4, <4>1, <5>2
        <5> QED BY <3>1, <3>2, <5>3
      <4>4. p[3] \in Nat /\ Len(heard[h]) \in Nat
        BY <1>4, <4>1
      <4> QED BY <4>2, <4>3, <4>4
    <3>3. CASE ~(p[1] = "heard" /\ p[2] = h)
      <4>1. Waits(d, p[1], p[2], p[3])
        BY <1>2, <1>5, <3>1, <3>3 DEF Waits, Wish
      <4> QED BY <3>1, <4>1 DEF Waiting
    <3> QED BY <3>2, <3>3
  <2> HIDE DEF new
  <2>2. Waiting(d)' \subseteq Waiting(d) \union {new}
    BY <2>1
  <2>3. IsFiniteSet(Waiting(d)) /\ Cardinality(Waiting(d)) + moves[d] <= presses
    BY DEF CountInv, Accounted
  <2>4. /\ IsFiniteSet(Waiting(d) \union {new})
        /\ Cardinality(Waiting(d) \union {new}) <= Cardinality(Waiting(d)) + 1
    <3>1. Cardinality(Waiting(d)) \in Nat
      BY <2>3, FS_CardinalityType
    <3>2. CASE new \in Waiting(d)
      <4>1. Waiting(d) \union {new} = Waiting(d)
        BY <3>2
      <4>2. Cardinality(Waiting(d)) <= Cardinality(Waiting(d)) + 1
        BY <3>1
      <4> QED BY <2>3, <4>1, <4>2
    <3>3. CASE new \notin Waiting(d)
      <4>1. Cardinality(Waiting(d) \union {new}) = Cardinality(Waiting(d)) + 1
        BY <2>3, <3>3, FS_AddElement
      <4>2. IsFiniteSet(Waiting(d) \union {new})
        BY <2>3, FS_AddElement
      <4> QED BY <3>1, <4>1, <4>2
    <3> QED BY <3>2, <3>3
  <2>5. IsFiniteSet(Waiting(d)') /\ Cardinality(Waiting(d)') <= Cardinality(Waiting(d) \union {new})
    BY <2>2, <2>4, FS_Subset
  <2>6. /\ {Cardinality(Waiting(d)), Cardinality(Waiting(d)')} \subseteq Nat
        /\ {Cardinality(Waiting(d) \union {new}), moves[d], presses} \subseteq Nat
    BY <2>3, <2>4, <2>5, FS_CardinalityType DEF TypeOK
  <2>7. Cardinality(Waiting(d)') + moves[d] <= presses + 1
    BY ONLY <2>3, <2>4, <2>5, <2>6
  <2> QED BY <1>2, <2>5, <2>7 DEF Accounted
<1>8. OwnQueue'
  BY <1>2 DEF CountInv, OwnQueue
<1> QED BY <1>7, <1>8 DEF CountInv

\* What is left of a queue, one place further to the front.
LEMMA TailLemma ==
  ASSUME NEW S, NEW q \in Seq(S), q # <<>>, NEW i \in 1..Len(Tail(q))
  PROVE  i \in Nat /\ i >= 1 /\ i + 1 \in 1..Len(q) /\ Tail(q)[i] = q[i + 1]
OBVIOUS

\* What was in a queue is where it was, and the new element comes last.
LEMMA AppendLemma ==
  ASSUME NEW S, NEW q \in Seq(S), NEW e, NEW i \in 1..Len(Append(q, e))
  PROVE  \/ i \in 1..Len(q) /\ Append(q, e)[i] = q[i]
         \/ i = Len(q) + 1 /\ Append(q, e)[i] = e
OBVIOUS

LEMMA ListenCount ==
  ASSUME TypeOK, TypeOK', CountInv, NEW h \in Hosts, Listen(h)
  PROVE  CountInv'
<1> DEFINE packet == Head(heard[h])
<1>1. /\ UNCHANGED <<writes, moves, presses>>
      /\ heard[h] # <<>> /\ heard' = [heard EXCEPT ![h] = Tail(@)]
  BY DEF Listen, deviceVars, historyVars
<1>2. /\ heard[h] \in Seq(Packet) /\ notices[h] \in Seq(Packet) /\ changes[h] \in Seq(Hosts)
  BY DEF TypeOK
<1>3. packet \in Packet /\ packet = heard[h][1] /\ 1 \in 1..Len(heard[h])
  BY <1>1, <1>2
<1>4. \/ /\ packet.kind = "press"
         /\ changes' = [changes EXCEPT ![h] = Append(@, packet.target)] /\ notices' = notices
      \/ /\ packet.kind # "press"
         /\ notices' = [notices EXCEPT ![h] = Append(@, packet)] /\ changes' = changes
  BY DEF Listen
<1> HIDE DEF packet
<1>5. heard'[h] = Tail(heard[h]) /\ \A j \in Hosts : j # h => heard'[j] = heard[j]
  BY <1>1 DEF TypeOK
<1>6. ASSUME NEW d \in Devices PROVE Accounted(d)'
  <2> DEFINE new == IF packet.kind = "press" THEN <<"changes", h, Len(changes[h]) + 1>>
                    ELSE <<"notices", h, Len(notices[h]) + 1>>
  <2>1. ASSUME NEW p \in Waiting(d)', p # new
        PROVE  IF p[1] = "heard" /\ p[2] = h
               THEN <<"heard", h, p[3] + 1>> \in Waiting(d) /\ p[3] >= 1 ELSE p \in Waiting(d)
    <3>1. p \in Places /\ p = <<p[1], p[2], p[3]>> /\ p[2] \in Hosts /\ Waits(d, p[1], p[2], p[3])'
      BY DEF Waiting, Places
    <3>2. CASE p[1] = "heard" /\ p[2] = h
      <4>1. p[3] \in 1..Len(Tail(heard[h])) /\ Wish(Tail(heard[h])[p[3]])
        BY <1>5, <3>1, <3>2 DEF Waits, Wish
      <4>2. /\ p[3] \in Nat /\ p[3] >= 1
            /\ p[3] + 1 \in 1..Len(heard[h]) /\ Wish(heard[h][p[3] + 1])
        BY <1>1, <1>2, <4>1, TailLemma
      <4>3. Waits(d, "heard", h, p[3] + 1) /\ <<"heard", h, p[3] + 1>> \in Places
        BY <4>2 DEF Waits, Places
      <4> QED BY <3>2, <4>2, <4>3 DEF Waiting
    <3>3. CASE p[1] = "changes" /\ p[2] = h
      <4>1. CASE changes' = changes
        BY <3>1, <3>3, <4>1 DEF Waiting, Waits
      <4>2. CASE packet.kind = "press" /\ changes' = [changes EXCEPT ![h] = Append(@, packet.target)]
        <5>1. changes'[h] = Append(changes[h], packet.target)
          BY <4>2 DEF TypeOK
        <5>2. p[3] \in 1..Len(Append(changes[h], packet.target))
          BY <3>1, <3>3, <5>1 DEF Waits
        <5>3. p[3] # Len(changes[h]) + 1
          BY <2>1, <3>1, <3>3, <4>2
        <5>4. p[3] \in 1..Len(changes[h])
          BY <1>2, <5>2, <5>3, AppendLemma
        <5> QED BY <3>1, <3>3, <5>4 DEF Waiting, Waits
      <4> QED BY <1>4, <4>1, <4>2
    <3>4. CASE p[1] = "notices" /\ p[2] = h
      <4>1. CASE notices' = notices
        BY <3>1, <3>4, <4>1 DEF Waiting, Waits, Wish
      <4>2. CASE packet.kind # "press" /\ notices' = [notices EXCEPT ![h] = Append(@, packet)]
        <5>1. notices'[h] = Append(notices[h], packet)
          BY <4>2 DEF TypeOK
        <5>2. p[3] \in 1..Len(Append(notices[h], packet)) /\ Wish(Append(notices[h], packet)[p[3]])
          BY <3>1, <3>4, <5>1 DEF Waits, Wish
        <5>3. p[3] # Len(notices[h]) + 1
          BY <2>1, <3>1, <3>4, <4>2
        <5>4. p[3] \in 1..Len(notices[h]) /\ Wish(notices[h][p[3]])
          BY <1>2, <5>2, <5>3, AppendLemma
        <5> QED BY <3>1, <3>4, <5>4 DEF Waiting, Waits
      <4> QED BY <1>4, <4>1, <4>2
    <3>5. CASE p[1] = "writes" \/ p[2] # h
      <4>1. \A j \in Hosts : j # h => notices'[j] = notices[j] /\ changes'[j] = changes[j]
        BY <1>4 DEF TypeOK
      <4>2. Waits(d, p[1], p[2], p[3])
        BY <1>1, <1>5, <3>1, <3>5, <4>1 DEF Waits, Wish
      <4> QED BY <3>1, <3>5, <4>2 DEF Waiting, Waits
    <3> QED BY <3>1, <3>2, <3>3, <3>4, <3>5 DEF Waits
  <2>2. new \in Waiting(d)' => <<"heard", h, 1>> \in Waiting(d) /\ ~(new[1] = "heard" /\ new[2] = h)
    <3>1. ASSUME new \in Waiting(d)' PROVE Wish(packet)
      <4>1. CASE packet.kind = "press"
        BY <4>1 DEF Wish
      <4>2. CASE packet.kind # "press"
        <5>1. notices'[h] = Append(notices[h], packet)
          BY <1>4, <4>2 DEF TypeOK
        <5>2. new = <<"notices", h, Len(notices[h]) + 1>>
          BY <4>2
        <5>3. Wish(Append(notices[h], packet)[Len(notices[h]) + 1])
          BY <3>1, <5>1, <5>2 DEF Waiting, Waits, Wish
        <5> QED BY <1>2, <5>3
      <4> QED BY <4>1, <4>2
    <3>2. Wish(packet) => <<"heard", h, 1>> \in Waiting(d)
      BY <1>3 DEF Waiting, Waits, Places
    <3> QED BY <3>1, <3>2
  <2>3. IsFiniteSet(Waiting(d)) /\ Waiting(d) \subseteq Places /\ Waiting(d)' \subseteq Places
    BY DEF CountInv, Accounted, Waiting, Places
  <2> HIDE DEF new
  <2>4. IsFiniteSet(Waiting(d)') /\ Cardinality(Waiting(d)') <= Cardinality(Waiting(d))
    BY <2>1, <2>2, <2>3, ShiftLemma
  <2> QED BY <1>1, <2>4, CountFrame DEF CountInv
<1>7. OwnQueue'
  BY <1>1 DEF CountInv, OwnQueue
<1> QED BY <1>6, <1>7 DEF CountInv

LEMMA NoticeCount ==
  ASSUME TypeOK, TypeOK', CountInv, NEW h \in Hosts, HandleNotice(h)
  PROVE  CountInv'
<1> DEFINE packet == Head(notices[h])
<1>1. /\ UNCHANGED <<heard, writes, moves, presses>>
      /\ notices[h] # <<>> /\ notices' = [notices EXCEPT ![h] = Tail(@)]
  BY DEF HandleNotice, deviceVars, historyVars
<1>2. notices[h] \in Seq(Packet) /\ changes[h] \in Seq(Hosts)
  BY DEF TypeOK
<1>3. packet = notices[h][1] /\ 1 \in 1..Len(notices[h])
  BY <1>1, <1>2
<1>4. \/ Wish(packet) /\ changes' = [changes EXCEPT ![h] = Append(@, packet.target)]
      \/ changes' = changes
  BY DEF HandleNotice, Wish
<1> HIDE DEF packet
<1>5. notices'[h] = Tail(notices[h]) /\ \A j \in Hosts : j # h => notices'[j] = notices[j]
  BY <1>1 DEF TypeOK
<1>6. ASSUME NEW d \in Devices PROVE Accounted(d)'
  <2> DEFINE new == <<"changes", h, Len(changes[h]) + 1>>
  <2>1. ASSUME NEW p \in Waiting(d)', p # new
        PROVE  IF p[1] = "notices" /\ p[2] = h
               THEN <<"notices", h, p[3] + 1>> \in Waiting(d) /\ p[3] >= 1 ELSE p \in Waiting(d)
    <3>1. p \in Places /\ p = <<p[1], p[2], p[3]>> /\ p[2] \in Hosts /\ Waits(d, p[1], p[2], p[3])'
      BY DEF Waiting, Places
    <3>2. CASE p[1] = "notices" /\ p[2] = h
      <4>1. p[3] \in 1..Len(Tail(notices[h])) /\ Wish(Tail(notices[h])[p[3]])
        BY <1>5, <3>1, <3>2 DEF Waits, Wish
      <4>2. /\ p[3] \in Nat /\ p[3] >= 1
            /\ p[3] + 1 \in 1..Len(notices[h]) /\ Wish(notices[h][p[3] + 1])
        BY <1>1, <1>2, <4>1, TailLemma
      <4>3. Waits(d, "notices", h, p[3] + 1) /\ <<"notices", h, p[3] + 1>> \in Places
        BY <4>2 DEF Waits, Places
      <4> QED BY <3>2, <4>2, <4>3 DEF Waiting
    <3>3. CASE p[1] = "changes" /\ p[2] = h
      <4>1. CASE changes' = changes
        BY <3>1, <3>3, <4>1 DEF Waiting, Waits
      <4>2. CASE changes' = [changes EXCEPT ![h] = Append(@, packet.target)]
        <5>1. changes'[h] = Append(changes[h], packet.target)
          BY <4>2 DEF TypeOK
        <5>2. p[3] \in 1..Len(Append(changes[h], packet.target))
          BY <3>1, <3>3, <5>1 DEF Waits
        <5>3. p[3] # Len(changes[h]) + 1
          BY <2>1, <3>1, <3>3
        <5>4. p[3] \in 1..Len(changes[h])
          BY <1>2, <5>2, <5>3, AppendLemma
        <5> QED BY <3>1, <3>3, <5>4 DEF Waiting, Waits
      <4> QED BY <1>4, <4>1, <4>2
    <3>4. CASE p[1] \in {"heard", "writes"} \/ p[2] # h
      <4>1. \A j \in Hosts : j # h => changes'[j] = changes[j]
        BY <1>4 DEF TypeOK
      <4>2. Waits(d, p[1], p[2], p[3])
        BY <1>1, <1>5, <3>1, <3>4, <4>1 DEF Waits, Wish
      <4> QED BY <3>1, <3>4, <4>2 DEF Waiting, Waits
    <3> QED BY <3>1, <3>2, <3>3, <3>4 DEF Waits
  <2>2. new \in Waiting(d)' => <<"notices", h, 1>> \in Waiting(d) /\ ~(new[1] = "notices" /\ new[2] = h)
    <3>1. ASSUME new \in Waiting(d)' PROVE Wish(packet)
      <4>1. Len(changes[h]) + 1 \in 1..Len(changes'[h])
        BY <3>1 DEF Waiting, Waits
      <4>2. changes' # changes
        BY <1>2, <4>1
      <4> QED BY <1>4, <4>2
    <3>2. Wish(packet) => <<"notices", h, 1>> \in Waiting(d)
      BY <1>3 DEF Waiting, Waits, Places
    <3> QED BY <3>1, <3>2
  <2>3. IsFiniteSet(Waiting(d)) /\ Waiting(d) \subseteq Places /\ Waiting(d)' \subseteq Places
    BY DEF CountInv, Accounted, Waiting, Places
  <2> HIDE DEF new
  <2>4. IsFiniteSet(Waiting(d)') /\ Cardinality(Waiting(d)') <= Cardinality(Waiting(d))
    BY <2>1, <2>2, <2>3, ShiftLemma
  <2> QED BY <1>1, <2>4, CountFrame DEF CountInv
<1>7. OwnQueue'
  BY <1>1 DEF CountInv, OwnQueue
<1> QED BY <1>6, <1>7 DEF CountInv

LEMMA ChangeCount ==
  ASSUME TypeOK, TypeOK', CountInv, NEW h \in Hosts, HandleChange(h)
  PROVE  CountInv'
<1> DEFINE t == Head(changes[h])
<1>1. /\ UNCHANGED <<heard, notices, moves, presses>>
      /\ changes[h] # <<>> /\ changes' = [changes EXCEPT ![h] = Tail(@)]
      /\ writes' \in Commanded(h, Relayed, t)
  BY DEF HandleChange, deviceVars, historyVars
<1>2. changes[h] \in Seq(Hosts) /\ writes \in [Hosts -> [Gateways -> Seq(Command)]]
  BY DEF TypeOK
<1>3. t \in Hosts /\ 1 \in 1..Len(changes[h])
  BY <1>1, <1>2
<1> HIDE DEF t
<1>4. /\ \A k \in Hosts, g \in Gateways : k # h => writes'[k][g] = writes[k][g]
      /\ \A g \in Gateways : Extended(writes', h, g, t)
  <2>1. Relayed \in SUBSET Devices
    BY DeviceAssumption
  <2> QED BY <1>1, <1>3, <2>1, CommandedLemma
<1>5. changes'[h] = Tail(changes[h]) /\ \A j \in Hosts : j # h => changes'[j] = changes[j]
  BY <1>1 DEF TypeOK
\* Where the commands that are added to the queue of a gateway stand in it.
<1>6. ASSUME NEW g \in Gateways, NEW mine \in Seq(Devices),
             writes'[h][g] = writes[h][g] \o Moving(mine, t),
             NEW i \in 1..Len(writes'[h][g])
      PROVE  \/ i \in 1..Len(writes[h][g]) /\ writes'[h][g][i] = writes[h][g][i]
             \/ \E j \in 1..Len(mine) : i = Len(writes[h][g]) + j /\ writes'[h][g][i].dev = mine[j]
  <2> DEFINE added == Moving(mine, t)
  <2>1. writes[h][g] \in Seq(Command)
    BY <1>2
  <2>2. added \in Seq(Command) /\ Len(added) = Len(mine)
    <3>1. Len(mine) \in Nat /\ \A j \in 1..Len(mine) : [dev |-> mine[j], target |-> t] \in Command
      BY <1>3 DEF Command
    <3> QED BY <3>1 DEF Moving
  <2>3. \A j \in 1..Len(mine) : added[j].dev = mine[j]
    BY DEF Moving
  <2>4. writes'[h][g] = writes[h][g] \o added
    BY <1>6
  <2> HIDE DEF added
  <2>5. i \in 1..(Len(writes[h][g]) + Len(added))
    BY <2>1, <2>2, <2>4
  <2>6. CASE i <= Len(writes[h][g])
    BY <2>1, <2>2, <2>4, <2>5, <2>6
  <2>7. CASE i > Len(writes[h][g])
    <3> DEFINE j == i - Len(writes[h][g])
    <3>1. j \in 1..Len(mine) /\ i = Len(writes[h][g]) + j
      BY <2>1, <2>2, <2>5, <2>7
    <3>2. writes'[h][g][i] = added[j]
      BY <2>1, <2>2, <2>4, <2>5, <2>7
    <3> QED BY <2>3, <3>1, <3>2
  <2> QED BY <2>1, <2>5, <2>6, <2>7
<1>7. ASSUME NEW d \in Devices PROVE Accounted(d)'
  <2> DEFINE g == Gateway(d)
  <2>1. g \in Gateways
    BY DEF Gateways
  <2>2. PICK mine \in Seq(Devices) :
          /\ \A i, j \in 1..Len(mine) : mine[i] = mine[j] => i = j
          /\ writes'[h][g] = writes[h][g] \o Moving(mine, t)
    BY <1>4, <2>1 DEF Extended
  <2>3. PICK n \in Nat : \A i \in 1..Len(mine) : mine[i] = d => i = n
    <3>1. CASE \E j \in 1..Len(mine) : mine[j] = d
      <4>1. PICK j \in 1..Len(mine) : mine[j] = d
        BY <3>1
      <4>2. j \in Nat
        OBVIOUS
      <4> QED BY <2>2, <4>1, <4>2
    <3>2. CASE ~\E j \in 1..Len(mine) : mine[j] = d
      <4>1. 0 \in Nat
        OBVIOUS
      <4> QED BY <3>2, <4>1
    <3> QED BY <3>1, <3>2
  <2> DEFINE new == <<"writes", h, Len(writes[h][g]) + n>>
  <2>4. ASSUME NEW p \in Waiting(d)', p # new
        PROVE  IF p[1] = "changes" /\ p[2] = h
               THEN <<"changes", h, p[3] + 1>> \in Waiting(d) /\ p[3] >= 1 ELSE p \in Waiting(d)
    <3>1. p \in Places /\ p = <<p[1], p[2], p[3]>> /\ p[2] \in Hosts /\ Waits(d, p[1], p[2], p[3])'
      BY DEF Waiting, Places
    <3>2. CASE p[1] = "changes" /\ p[2] = h
      <4>1. p[3] \in 1..Len(Tail(changes[h]))
        BY <1>5, <3>1, <3>2 DEF Waits
      <4>2. p[3] \in Nat /\ p[3] >= 1 /\ p[3] + 1 \in 1..Len(changes[h])
        BY <1>1, <1>2, <4>1, TailLemma
      <4>3. Waits(d, "changes", h, p[3] + 1) /\ <<"changes", h, p[3] + 1>> \in Places
        BY <4>2 DEF Waits, Places
      <4> QED BY <3>2, <4>2, <4>3 DEF Waiting
    <3>3. CASE p[1] = "writes" /\ p[2] = h
      <4>1. p[3] \in 1..Len(writes'[h][g]) /\ writes'[h][g][p[3]].dev = d
        BY <3>1, <3>3 DEF Waits
      <4>2. CASE p[3] \in 1..Len(writes[h][g]) /\ writes'[h][g][p[3]] = writes[h][g][p[3]]
        <5>1. Waits(d, p[1], p[2], p[3])
          BY <3>3, <4>1, <4>2 DEF Waits
        <5> QED BY <3>1, <3>3, <5>1 DEF Waiting
      <4>3. CASE \E j \in 1..Len(mine) : p[3] = Len(writes[h][g]) + j /\ writes'[h][g][p[3]].dev = mine[j]
        BY <2>3, <2>4, <3>1, <3>3, <4>1, <4>3
      <4> QED BY <1>6, <2>1, <2>2, <4>1, <4>2, <4>3
    <3>4. CASE p[1] \in {"heard", "notices"} \/ p[2] # h
      <4>1. Waits(d, p[1], p[2], p[3])
        BY <1>1, <1>4, <1>5, <2>1, <3>1, <3>4 DEF Waits, Wish
      <4> QED BY <3>1, <3>4, <4>1 DEF Waiting
    <3> QED BY <3>1, <3>2, <3>3, <3>4 DEF Waits
  <2>5. <<"changes", h, 1>> \in Waiting(d)
    BY <1>3 DEF Waiting, Waits, Places
  <2>6. IsFiniteSet(Waiting(d)) /\ Waiting(d) \subseteq Places /\ Waiting(d)' \subseteq Places
    BY DEF CountInv, Accounted, Waiting, Places
  <2>7. new[1] # "changes"
    OBVIOUS
  <2> HIDE DEF new
  <2>8. IsFiniteSet(Waiting(d)') /\ Cardinality(Waiting(d)') <= Cardinality(Waiting(d))
    BY <2>4, <2>5, <2>6, <2>7, ShiftLemma
  <2> QED BY <1>1, <2>8, CountFrame DEF CountInv
<1>8. OwnQueue'
  <2>1. ASSUME NEW k \in Hosts, NEW g \in Gateways, NEW i \in 1..Len(writes'[k][g])
        PROVE  Gateway(writes'[k][g][i].dev) = g
    <3>1. CASE k # h
      <4>1. writes'[k][g] = writes[k][g]
        BY <1>4, <3>1
      <4> QED BY <2>1, <4>1 DEF CountInv, OwnQueue
    <3>2. CASE k = h
      <4>1. PICK mine \in Seq(Devices) :
              /\ \A j \in 1..Len(mine) : Gateway(mine[j]) = g
              /\ writes'[h][g] = writes[h][g] \o Moving(mine, t)
        BY <1>4 DEF Extended
      <4>2. \/ i \in 1..Len(writes[h][g]) /\ writes'[h][g][i] = writes[h][g][i]
            \/ \E j \in 1..Len(mine) : i = Len(writes[h][g]) + j /\ writes'[h][g][i].dev = mine[j]
        BY <1>6, <3>2, <4>1
      <4> QED BY <3>2, <4>1, <4>2 DEF CountInv, OwnQueue
    <3> QED BY <3>1, <3>2
  <2> QED BY <2>1 DEF OwnQueue
<1> QED BY <1>7, <1>8 DEF CountInv

LEMMA WriteCount ==
  ASSUME TypeOK, TypeOK', CountInv, NEW h \in Hosts, NEW g \in Gateways, DoWrite(h, g)
  PROVE  CountInv'
<1> DEFINE e == Head(writes[h][g]).dev
<1>1. /\ UNCHANGED <<heard, notices, changes, presses>>
      /\ writes[h][g] # <<>> /\ writes' = [writes EXCEPT ![h][g] = Tail(@)]
      /\ moves' = moves \/ moves' = [moves EXCEPT ![e] = @ + 1]
  BY DEF DoWrite
<1>2. /\ writes \in [Hosts -> [Gateways -> Seq(Command)]] /\ writes[h][g] \in Seq(Command)
      /\ moves \in [Devices -> Nat] /\ presses \in Nat
  <2>1. presses \in Nat /\ moves \in [Devices -> Nat]
    BY DEF TypeOK
  <2>2. writes \in [Hosts -> [Gateways -> Seq(Command)]]
    BY DEF TypeOK
  <2> QED BY <2>1, <2>2
<1>3. 1 \in 1..Len(writes[h][g]) /\ e = writes[h][g][1].dev
  BY <1>1, <1>2
<1>4. Gateway(e) = g
  BY <1>3 DEF CountInv, OwnQueue
<1> HIDE DEF e
<1>5. /\ writes'[h][g] = Tail(writes[h][g])
      /\ \A k \in Hosts, f \in Gateways : ~(k = h /\ f = g) => writes'[k][f] = writes[k][f]
  BY <1>1, <1>2
<1>6. ASSUME NEW d \in Devices, Gateway(d) # g PROVE Accounted(d)'
  <2>1. Gateway(d) \in Gateways
    BY DEF Gateways
  <2>2. Waiting(d)' = Waiting(d)
    <3>1. \A k \in Hosts : writes'[k][Gateway(d)] = writes[k][Gateway(d)]
      BY <1>5, <1>6, <2>1
    <3>2. \A p \in Places : Waits(d, p[1], p[2], p[3])' <=> Waits(d, p[1], p[2], p[3])
      <4> SUFFICES ASSUME NEW p \in Places
                   PROVE  Waits(d, p[1], p[2], p[3])' <=> Waits(d, p[1], p[2], p[3])
        OBVIOUS
      <4>1. p[2] \in Hosts
        BY DEF Places
      <4>2. writes'[p[2]][Gateway(d)] = writes[p[2]][Gateway(d)]
        BY <3>1, <4>1
      <4> QED BY <1>1, <4>2 DEF Waits, Wish
    <3>3. Places' = Places
      BY DEF Places
    <3> QED BY <3>2, <3>3 DEF Waiting
  <2>3. moves'[d] = moves[d]
    BY <1>1, <1>2, <1>4, <1>6
  <2> QED BY <1>1, <2>2, <2>3 DEF CountInv, Accounted
<1>7. ASSUME NEW d \in Devices, Gateway(d) = g PROVE Accounted(d)'
  <2> DEFINE first == <<"writes", h, 1>>
             T == Waiting(d) \ {first}
             none == <<"writes", h, 0>>
  <2>1. ASSUME NEW p \in Waiting(d)'
        PROVE  IF p[1] = "writes" /\ p[2] = h
               THEN <<"writes", h, p[3] + 1>> \in T /\ p[3] >= 1 ELSE p \in T
    <3>1. p \in Places /\ p = <<p[1], p[2], p[3]>> /\ p[2] \in Hosts /\ Waits(d, p[1], p[2], p[3])'
      BY DEF Waiting, Places
    <3>2. CASE p[1] = "writes" /\ p[2] = h
      <4>1. p[3] \in 1..Len(Tail(writes[h][g])) /\ Tail(writes[h][g])[p[3]].dev = d
        BY <1>5, <1>7, <3>1, <3>2 DEF Waits
      <4>2. /\ p[3] \in Nat /\ p[3] >= 1
            /\ p[3] + 1 \in 1..Len(writes[h][g]) /\ writes[h][g][p[3] + 1].dev = d
        BY <1>1, <1>2, <4>1, TailLemma
      <4>3. Waits(d, "writes", h, p[3] + 1) /\ <<"writes", h, p[3] + 1>> \in Places
        BY <1>7, <4>2 DEF Waits, Places
      <4>4. p[3] + 1 # 1
        BY <4>2
      <4> QED BY <3>2, <4>2, <4>3, <4>4 DEF Waiting
    <3>3. CASE ~(p[1] = "writes" /\ p[2] = h)
      <4>1. Waits(d, p[1], p[2], p[3])
        BY <1>1, <1>5, <1>7, <3>1, <3>3 DEF Waits, Wish
      <4>2. p # first
        BY <3>3
      <4> QED BY <3>1, <3>3, <4>1, <4>2 DEF Waiting
    <3> QED BY <3>2, <3>3
  <2>2. none \notin Waiting(d)'
    BY DEF Waiting, Waits
  <2>3. IsFiniteSet(Waiting(d)) /\ Cardinality(Waiting(d)) + moves[d] <= presses
    BY DEF CountInv, Accounted
  <2>4. IsFiniteSet(T) /\ T \subseteq Places /\ Waiting(d)' \subseteq Places
    BY <2>3, FS_Subset DEF Waiting, Places
  <2>5. Cardinality(Waiting(d)) \in Nat /\ Cardinality(T) \in Nat
    BY <2>3, <2>4, FS_CardinalityType
  <2>6. Cardinality(T) <= Cardinality(Waiting(d))
    BY <2>3, FS_Subset
  <2>7. d = e => first \in Waiting(d)
    <3>1. first \in Places
      BY DEF Places
    <3> QED BY <1>3, <1>7, <3>1 DEF Waiting, Waits
  <2>8. d = e => Cardinality(T) = Cardinality(Waiting(d)) - 1
    BY <2>3, <2>7, FS_RemoveElement
  <2> HIDE DEF T, none, first
  <2>9. IsFiniteSet(Waiting(d)') /\ Cardinality(Waiting(d)') <= Cardinality(T)
    BY <2>1, <2>2, <2>4, ShiftLemma
  <2>10. Cardinality(Waiting(d)') \in Nat
    BY <2>9, FS_CardinalityType
  <2>11. CASE moves'[d] = moves[d]
    <3>1. moves[d] \in Nat
      BY <1>2
    <3>2. Cardinality(Waiting(d)') + moves[d] <= presses
      BY <1>2, <2>3, <2>5, <2>6, <2>9, <2>10, <3>1
    <3> QED BY <1>1, <2>9, <2>11, <3>2 DEF Accounted
  <2>12. CASE d = e /\ moves'[d] = moves[d] + 1
    <3>1. moves[d] \in Nat
      BY <1>2
    <3>2. Cardinality(Waiting(d)') + (moves[d] + 1) <= presses
      BY <1>2, <2>3, <2>5, <2>8, <2>9, <2>10, <2>12, <3>1
    <3> QED BY <1>1, <2>9, <2>12, <3>2 DEF Accounted
  <2> QED BY <1>1, <1>2, <2>11, <2>12
<1>8. OwnQueue'
  <2>1. ASSUME NEW k \in Hosts, NEW f \in Gateways, NEW i \in 1..Len(writes'[k][f])
        PROVE  Gateway(writes'[k][f][i].dev) = f
    <3>1. CASE k = h /\ f = g
      <4>1. i + 1 \in 1..Len(writes[h][g]) /\ writes'[h][g][i] = writes[h][g][i + 1]
        BY <1>1, <1>2, <1>5, <2>1, <3>1, TailLemma
      <4> QED BY <3>1, <4>1 DEF CountInv, OwnQueue
    <3>2. CASE ~(k = h /\ f = g)
      <4>1. writes'[k][f] = writes[k][f]
        BY <1>5, <3>2
      <4> QED BY <2>1, <4>1 DEF CountInv, OwnQueue
    <3> QED BY <3>1, <3>2
  <2> QED BY <2>1 DEF OwnQueue
<1> QED BY <1>6, <1>7, <1>8 DEF CountInv

LEMMA NextCount == TypeOK /\ TypeOK' /\ CountInv /\ [Next]_vars => CountInv'
<1> SUFFICES ASSUME TypeOK, TypeOK', CountInv, [Next]_vars PROVE CountInv'
  OBVIOUS
<1>1. ASSUME NEW k \in Keyboards, Rearm(k) PROVE CountInv'
  BY <1>1, IdleCount DEF Rearm, daemonVars, historyVars
<1>2. ASSUME NEW k \in Keyboards, NEW t \in Hosts, Press(k, t) PROVE CountInv'
  BY <1>2, PressCount
<1>3. ASSUME NEW d \in Relayed, Nap(d) PROVE CountInv'
  BY <1>3, IdleCount DEF Nap, daemonVars
<1>4. ASSUME NEW d \in Relayed, WakeUp(d) PROVE CountInv'
  BY <1>4, IdleCount DEF WakeUp, daemonVars, historyVars
<1>5. ASSUME NEW h \in Hosts, Listen(h) PROVE CountInv'
  BY <1>5, ListenCount
<1>6. ASSUME NEW h \in Hosts, HandleNotice(h) PROVE CountInv'
  BY <1>6, NoticeCount
<1>7. ASSUME NEW h \in Hosts, HandleChange(h) PROVE CountInv'
  BY <1>7, ChangeCount
<1>8. ASSUME NEW h \in Hosts, NEW g \in Gateways, DoWrite(h, g) PROVE CountInv'
  BY <1>8, WriteCount
<1>9. CASE UNCHANGED vars
  BY <1>9, IdleCount DEF vars, deviceVars, daemonVars, historyVars
<1> QED BY <1>1, <1>2, <1>3, <1>4, <1>5, <1>6, <1>7, <1>8, <1>9
    DEF Next, Environment, Daemon

\* However the queues of the hosts interleave, no device has moved on command
\* more often than an Easy-Switch key was pressed (HostChangeSubscriber and
\* HidGateway, with the EventListener before them).
THEOREM OneMovePerPress == Spec => []MovesOncePerPress
<1>1. TypeOK /\ CountInv => MovesOncePerPress
  <2> SUFFICES ASSUME TypeOK, CountInv, NEW d \in Devices PROVE moves[d] <= presses
    BY DEF MovesOncePerPress
  <2>1. Cardinality(Waiting(d)) \in Nat /\ Cardinality(Waiting(d)) + moves[d] <= presses
    BY FS_CardinalityType DEF CountInv, Accounted
  <2>2. moves[d] \in Nat /\ presses \in Nat
    BY DEF TypeOK
  <2> QED BY <2>1, <2>2
<1> QED BY <1>1, InitCount, NextCount, TypeCorrect, PTL DEF Spec

----------------------------------------------------------------------------
\* Together when quiet.  While a clean press is being relayed, all that is in
\* the queues names its target, and every device is at the target already or
\* something that will take it there is in a queue of the host it is at.
OneGoal ==
  \A h \in Hosts :
    /\ \A p \in Range(heard[h]) \union Range(notices[h]) : Wish(p) => p.target = goal
    /\ Range(changes[h]) \subseteq {goal}
    /\ \A g \in Gateways : \A c \in Range(writes[h][g]) : c.target = goal

Announced(p) == p.kind = "announcement" /\ p.target \in Hosts
Heading(h) ==
  \/ \E p \in Range(heard[h]) : Wish(p)
  \/ \E p \in Range(notices[h]) : Announced(p)
  \/ changes[h] # <<>>
Ordered(d) == \E c \in Range(writes[at[d]][Gateway(d)]) : c.dev = d

UnderWay(d) == at[d] = goal \/ Heading(at[d]) \/ Ordered(d)
TogetherInv ==
  clean => /\ OneGoal /\ (Quiet \/ Relayed \subseteq awake)
           /\ \A d \in Relayed : UnderWay(d)

\* Sequences, seen as the sets of their elements.
LEMMA RangeEmpty == Range(<<>>) = {}
BY DEF Range

LEMMA RangeAppend ==
  ASSUME NEW S, NEW q \in Seq(S), NEW e \in S
  PROVE  Range(Append(q, e)) = Range(q) \union {e} /\ Append(q, e) \in Seq(S)
<1>1. /\ Append(q, e) \in Seq(S) /\ Len(Append(q, e)) = Len(q) + 1 /\ Len(q) \in Nat
      /\ Append(q, e)[Len(q) + 1] = e /\ \A i \in 1..Len(q) : Append(q, e)[i] = q[i]
  OBVIOUS
<1>2. DOMAIN q = 1..Len(q) /\ DOMAIN Append(q, e) = 1..Len(Append(q, e))
  BY <1>1
<1>3. 1..Len(Append(q, e)) = 1..Len(q) \union {Len(q) + 1}
  BY <1>1
<1> QED BY <1>1, <1>2, <1>3 DEF Range

LEMMA RangeTail ==
  ASSUME NEW S, NEW q \in Seq(S), q # <<>>
  PROVE  /\ Range(q) = {Head(q)} \union Range(Tail(q))
         /\ Head(q) \in S /\ Tail(q) \in Seq(S)
<1>1. Head(q) \in S /\ Tail(q) \in Seq(S)
  OBVIOUS
<1>2. Range(q) \subseteq {Head(q)} \union Range(Tail(q))
  <2> SUFFICES ASSUME NEW i \in 1..Len(q), i # 1 PROVE q[i] \in Range(Tail(q))
    BY DEF Range
  <2>1. i - 1 \in 1..Len(Tail(q)) /\ Tail(q)[i - 1] = q[i]
    OBVIOUS
  <2>2. DOMAIN Tail(q) = 1..Len(Tail(q))
    BY <1>1
  <2> QED BY <2>1, <2>2 DEF Range
<1>3. {Head(q)} \union Range(Tail(q)) \subseteq Range(q)
  BY DEF Range
<1> QED BY <1>1, <1>2, <1>3

LEMMA RangeConcat ==
  ASSUME NEW S, NEW q \in Seq(S), NEW p \in Seq(S)
  PROVE  Range(q \o p) = Range(q) \union Range(p) /\ q \o p \in Seq(S)
<1>1. Range(q \o p) \subseteq Range(q) \union Range(p)
  BY DEF Range
<1>2. Range(q) \subseteq Range(q \o p)
  BY DEF Range
<1>3. Range(p) \subseteq Range(q \o p)
  <2> SUFFICES ASSUME NEW i \in 1..Len(p) PROVE p[i] \in Range(q \o p)
    BY DEF Range
  <2>1. Len(q) + i \in 1..Len(q \o p) /\ (q \o p)[Len(q) + i] = p[i]
    OBVIOUS
  <2> QED BY <2>1 DEF Range
<1>4. q \o p \in Seq(S)
  OBVIOUS
<1> QED BY <1>1, <1>2, <1>3, <1>4

\* A finite set put in sequence: all its elements, and no others.
LEMMA SequenceLemma ==
  ASSUME NEW D, IsFiniteSet(D), NEW q \in SetToSeqs(D)
  PROVE  q \in Seq(D) /\ Range(q) = D
<1> DEFINE n == Cardinality(D)
<1>1. n \in Nat
  BY FS_CardinalityType
<1>2. q \in [1..n -> D] /\ \A i, j \in 1..n : i # j => q[i] # q[j]
  BY DEF SetToSeqs
<1>3. q \in Injection(1..n, D)
  BY <1>2 DEF Injection, IsInjective
<1>4. Cardinality(1..n) = n
  <2>1. 1 \in Int /\ n \in Int
    BY <1>1
  <2>2. Cardinality(1..n) = IF 1 > n THEN 0 ELSE n - 1 + 1
    BY <2>1, FS_Interval
  <2> QED BY <1>1, <2>2
<1>5. q \in Surjection(1..n, D)
  BY <1>3, <1>4, FS_Injection
<1>6. Range(q) = D
  BY <1>2, <1>5 DEF Surjection, Range
<1> QED BY <1>1, <1>2, <1>6

\* A change of hosts adds to each queue a command for every one of its devices.
LEMMA EveryCommanded ==
  ASSUME TypeOK, NEW h \in Hosts, NEW t \in Hosts, NEW S \in SUBSET Devices,
         NEW w \in Commanded(h, S, t), NEW g \in Gateways
  PROVE  Range(w[h][g]) = Range(writes[h][g])
             \union {[dev |-> d, target |-> t] : d \in {e \in S : Gateway(e) = g}}
<1> DEFINE mineOf == {e \in S : Gateway(e) = g}
<1>1. PICK m \in [Gateways -> UNION {InOrder(S, f) : f \in Gateways}] :
        /\ \A f \in Gateways : m[f] \in InOrder(S, f)
        /\ w = [writes EXCEPT ![h] = [f \in Gateways |->
                  @[f] \o [i \in 1..Len(m[f]) |-> [dev |-> m[f][i], target |-> t]]]]
  BY DEF Commanded
<1>2. writes[h][g] \in Seq(Command) /\ writes \in [Hosts -> [Gateways -> Seq(Command)]]
  BY DEF TypeOK
<1> DEFINE q == m[g]
           new == [i \in 1..Len(q) |-> [dev |-> q[i], target |-> t]]
<1>3. w[h][g] = writes[h][g] \o new
  BY <1>1, <1>2
<1>4. IsFiniteSet(mineOf)
  <2>1. mineOf \subseteq Devices
    OBVIOUS
  <2> QED BY <2>1, DevicesFinite, FS_Subset
<1>5. q \in SetToSeqs(mineOf)
  BY <1>1 DEF InOrder
<1>6. q \in Seq(mineOf) /\ Range(q) = mineOf
  BY <1>4, <1>5, SequenceLemma
<1>7. mineOf \subseteq Devices
  OBVIOUS
<1> HIDE DEF q, mineOf
<1>8. new \in Seq(Command) /\ Range(new) = {[dev |-> d, target |-> t] : d \in mineOf}
  <2>1. Len(q) \in Nat /\ DOMAIN q = 1..Len(q) /\ \A i \in 1..Len(q) : q[i] \in mineOf
    BY <1>6
  <2>2. \A i \in 1..Len(q) : [dev |-> q[i], target |-> t] \in Command
    BY <1>7, <2>1 DEF Command
  <2>3. new \in Seq(Command)
    BY <2>1, <2>2
  <2>4. \A d \in mineOf : \E i \in 1..Len(q) : q[i] = d
    BY <1>6, <2>1 DEF Range
  <2>5. DOMAIN new = 1..Len(q)
    OBVIOUS
  <2>6. Range(new) = {[dev |-> d, target |-> t] : d \in mineOf}
    BY <2>1, <2>4, <2>5 DEF Range
  <2> QED BY <2>3, <2>6
<1> HIDE DEF new
<1> QED BY <1>2, <1>3, <1>8, RangeConcat DEF mineOf

LEMMA InitTogether == Init => TogetherInv
<1> SUFFICES ASSUME Init PROVE TogetherInv
  OBVIOUS
<1>1. Quiet
  BY DEF Init, Quiet
<1>2. OneGoal
  BY RangeEmpty DEF Init, OneGoal
<1>3. \A d \in Relayed : at[d] = goal
  BY DeviceAssumption DEF Init
<1> QED BY <1>1, <1>2, <1>3 DEF TogetherInv, UnderWay

\* Nothing that is under way depends on who is awake or armed.
LEMMA IdleTogether ==
  ASSUME TogetherInv, UNCHANGED <<heard, notices, changes, writes, at, goal>>,
         awake \subseteq awake' \/ (clean' => Quiet), clean' => clean
  PROVE  TogetherInv'
<1> SUFFICES ASSUME clean' PROVE TogetherInv'
  BY DEF TogetherInv
<1>1. OneGoal'
  BY DEF TogetherInv, OneGoal, Wish
<1>2. Quiet' <=> Quiet
  BY DEF Quiet
<1>3. \A d \in Relayed : UnderWay(d)'
  BY DEF TogetherInv, UnderWay, Heading, Ordered, Wish, Announced
<1>4. Quiet' \/ Relayed \subseteq awake'
  BY <1>2 DEF TogetherInv
<1> QED BY <1>1, <1>3, <1>4 DEF TogetherInv

\* A clean press finds all queues empty and all devices at the host that is told.
LEMMA PressTogether ==
  ASSUME TypeOK, NEW k \in Keyboards, NEW t \in Hosts, Press(k, t), TogetherInv
  PROVE  TogetherInv'
<1> SUFFICES ASSUME clean' PROVE TogetherInv'
  BY DEF TogetherInv
<1>0. PICK h \in Hosts : h = at[k]
  BY DeviceAssumption DEF TypeOK
<1>1. PICK packets \in Told(k, t) : heard' = [heard EXCEPT ![h] = @ \o packets]
  BY <1>0 DEF Press
<1>2. /\ UNCHANGED <<notices, changes, writes, awake>> /\ goal' = t
      /\ Quiet /\ Relayed \subseteq awake /\ \A d \in Relayed : at[d] = h
      /\ mode = "announce" \/ k \in armed
  BY <1>0 DEF Press
<1>3. /\ k \in Devices /\ k \in Relayed /\ Relayed \subseteq Devices
      /\ at \in [Devices -> Hosts] /\ heard \in [Hosts -> Seq(Packet)]
  BY DeviceAssumption DEF TypeOK
<1>4. \A d \in Relayed : at'[d] = t \/ at'[d] = h
  BY <1>2, <1>3 DEF Press, MoveTo
<1>5. \A j \in Hosts : heard'[j] = IF j = h THEN packets ELSE <<>>
  <2>1. \A j \in Hosts : heard[j] = <<>>
    BY <1>2 DEF Quiet
  <2>2. packets \in Seq(Packet)
    BY <1>1, ToldLemma
  <2>3. <<>> \o packets = packets
    BY <2>2
  <2> QED BY <1>1, <1>3, <2>1, <2>3
<1>6. /\ \A p \in Range(packets) : p.target = t \/ ~Wish(p)
      /\ \E p \in Range(packets) : Wish(p)
  <2> DEFINE made == [kind |-> "press", target |-> t]
             released == [kind |-> "release", target |-> t]
             told == [kind |-> "announcement", target |-> t]
             before == [kind |-> "announcement", target |-> NoHost]
  <2>1. Wish(made) /\ Wish(told) /\ ~Wish(before) /\ ~Wish(released)
    BY HostsAssumption DEF Wish
  <2>2. made.target = t /\ told.target = t
    OBVIOUS
  <2>3. packets \in {<<told>>, <<before, told>>, <<made>>, <<made, released>>}
    BY <1>2 DEF Told
  <2> HIDE DEF made, released, told, before
  <2>4. \A x, y : Range(<<x>>) = {x} /\ Range(<<x, y>>) = {x, y}
    <3> TAKE x, y
    <3>1. DOMAIN <<x>> = {1} /\ DOMAIN <<x, y>> = {1, 2}
      OBVIOUS
    <3> QED BY <3>1 DEF Range
  <2> QED BY <2>1, <2>2, <2>3, <2>4
<1>7. OneGoal'
  <2> SUFFICES ASSUME NEW j \in Hosts
               PROVE  /\ \A p \in Range(heard'[j]) \union Range(notices'[j]) : Wish(p) => p.target = t
                      /\ Range(changes'[j]) = {}
                      /\ \A g \in Gateways : Range(writes'[j][g]) = {}
    BY <1>2 DEF OneGoal, Wish
  <2>1. notices'[j] = <<>> /\ changes'[j] = <<>> /\ \A g \in Gateways : writes'[j][g] = <<>>
    BY <1>2 DEF Quiet
  <2>2. \A p \in Range(heard'[j]) : Wish(p) => p.target = t
    BY <1>5, <1>6, RangeEmpty
  <2> QED BY <2>1, <2>2, RangeEmpty
<1>8. \A d \in Relayed : UnderWay(d)'
  <2> SUFFICES ASSUME NEW d \in Relayed, at'[d] = h PROVE Heading(h)'
    BY <1>2, <1>4 DEF UnderWay, Heading
  <2>1. \E p \in Range(heard'[h]) : Wish(p)
    BY <1>3, <1>5, <1>6
  <2> QED BY <2>1 DEF Heading, Wish
<1> QED BY <1>2, <1>7, <1>8 DEF TogetherInv

\* A step of the daemon finds something in a queue, so the devices are awake.
LEMMA AwakeStays ==
  ASSUME TogetherInv, ~Quiet, UNCHANGED <<awake, clean, goal>>,
         OneGoal => OneGoal', OneGoal => \A d \in Relayed : UnderWay(d) => UnderWay(d)'
  PROVE  TogetherInv'
BY DEF TogetherInv

LEMMA ListenTogether ==
  ASSUME TypeOK, TogetherInv, NEW h \in Hosts, Listen(h)
  PROVE  TogetherInv'
<1> DEFINE packet == Head(heard[h])
<1>1. /\ UNCHANGED <<writes, at, awake, goal, clean>>
      /\ heard[h] # <<>> /\ heard' = [heard EXCEPT ![h] = Tail(@)]
  BY DEF Listen, deviceVars, historyVars
<1>2. /\ heard[h] \in Seq(Packet) /\ notices[h] \in Seq(Packet) /\ changes[h] \in Seq(Hosts)
  BY DEF TypeOK
<1>3. packet \in Packet /\ Range(heard[h]) = {packet} \union Range(Tail(heard[h]))
  BY <1>1, <1>2, RangeTail
<1>4. \/ /\ packet.kind = "press" /\ packet.target \in Hosts /\ notices' = notices
         /\ changes' = [changes EXCEPT ![h] = Append(@, packet.target)]
      \/ /\ packet.kind # "press" /\ changes' = changes
         /\ notices' = [notices EXCEPT ![h] = Append(@, packet)]
  BY <1>3 DEF Listen, Packet
<1> HIDE DEF packet
<1>5. /\ heard'[h] = Tail(heard[h]) /\ \A j \in Hosts : j # h => heard'[j] = heard[j]
      /\ \A j \in Hosts : j # h => notices'[j] = notices[j] /\ changes'[j] = changes[j]
  BY <1>1, <1>4 DEF TypeOK
<1>6. \/ /\ packet.kind = "press" /\ notices'[h] = notices[h]
         /\ Range(changes'[h]) = Range(changes[h]) \union {packet.target} /\ changes'[h] # <<>>
      \/ /\ packet.kind # "press" /\ changes'[h] = changes[h]
         /\ Range(notices'[h]) = Range(notices[h]) \union {packet}
  <2>1. CASE packet.kind = "press"
    <3>1. changes'[h] = Append(changes[h], packet.target) /\ packet.target \in Hosts
      BY <1>4, <2>1 DEF TypeOK
    <3>2. Range(changes'[h]) = Range(changes[h]) \union {packet.target} /\ changes'[h] # <<>>
      BY <1>2, <3>1, RangeAppend
    <3> QED BY <1>4, <2>1, <3>2
  <2>2. CASE packet.kind # "press"
    <3>1. notices'[h] = Append(notices[h], packet)
      BY <1>4, <2>2 DEF TypeOK
    <3>2. Range(notices'[h]) = Range(notices[h]) \union {packet}
      BY <1>2, <1>3, <3>1, RangeAppend
    <3> QED BY <1>4, <2>2, <3>2
  <2> QED BY <2>1, <2>2
<1>7. OneGoal => OneGoal'
  <2> SUFFICES ASSUME OneGoal, NEW j \in Hosts
               PROVE  /\ \A p \in Range(heard'[j]) \union Range(notices'[j]) : Wish(p) => p.target = goal
                      /\ Range(changes'[j]) \subseteq {goal}
    BY <1>1 DEF OneGoal, Wish
  <2>1. CASE j # h
    BY <1>5, <2>1 DEF OneGoal
  <2>2. CASE j = h
    <3>1. \A p \in Range(heard'[h]) : Wish(p) => p.target = goal
      BY <1>3, <1>5 DEF OneGoal
    <3>2. Wish(packet) => packet.target = goal
      BY <1>3 DEF OneGoal
    <3>3. \A p \in Range(notices'[h]) : Wish(p) => p.target = goal
      BY <1>6, <3>2 DEF OneGoal
    <3>4. Range(changes'[h]) \subseteq {goal}
      BY <1>6, <3>2 DEF OneGoal, Wish
    <3> QED BY <2>2, <3>1, <3>3, <3>4
  <2> QED BY <2>1, <2>2
<1>8. ASSUME NEW d \in Relayed, UnderWay(d) PROVE UnderWay(d)'
  <2>1. at[d] \in Hosts
    BY DeviceAssumption DEF TypeOK
  <2>2. ASSUME NEW j \in Hosts, Heading(j) PROVE Heading(j)'
    <3>1. CASE j # h
      BY <1>5, <2>2, <3>1 DEF Heading, Wish, Announced
    <3>2. CASE j = h
      <4>1. CASE changes[h] # <<>> \/ packet.kind = "press"
        <5>1. changes'[h] # <<>>
          BY <1>6, <4>1
        <5> QED BY <3>2, <5>1 DEF Heading
      <4>2. CASE \E p \in Range(notices[h]) : Announced(p)
        <5>1. \E p \in Range(notices'[h]) : Announced(p)
          BY <1>6, <4>2
        <5> QED BY <3>2, <5>1 DEF Heading, Announced
      <4>3. CASE Wish(packet) /\ packet.kind # "press"
        <5>1. Announced(packet) /\ packet \in Range(notices'[h])
          BY <1>6, <4>3 DEF Wish, Announced
        <5> QED BY <3>2, <5>1 DEF Heading, Announced
      <4>4. CASE \E p \in Range(Tail(heard[h])) : Wish(p)
        <5>1. \E p \in Range(heard'[h]) : Wish(p)
          BY <1>5, <4>4
        <5> QED BY <3>2, <5>1 DEF Heading, Wish
      <4> QED BY <1>3, <2>2, <3>2, <4>1, <4>2, <4>3, <4>4 DEF Heading
    <3> QED BY <3>1, <3>2
  <2>3. Ordered(d) => Ordered(d)'
    BY <1>1 DEF Ordered
  <2> QED BY <1>1, <1>8, <2>1, <2>2, <2>3 DEF UnderWay
<1>9. ~Quiet
  BY <1>1 DEF Quiet
<1> QED BY <1>1, <1>7, <1>8, <1>9, AwakeStays

LEMMA NoticeTogether ==
  ASSUME TypeOK, TogetherInv, NEW h \in Hosts, HandleNotice(h)
  PROVE  TogetherInv'
<1> DEFINE packet == Head(notices[h])
<1>1. /\ UNCHANGED <<heard, writes, at, awake, goal, clean>>
      /\ notices[h] # <<>> /\ notices' = [notices EXCEPT ![h] = Tail(@)]
  BY DEF HandleNotice, deviceVars, historyVars
<1>2. notices[h] \in Seq(Packet) /\ changes[h] \in Seq(Hosts)
  BY DEF TypeOK
<1>3. Range(notices[h]) = {packet} \union Range(Tail(notices[h]))
  BY <1>1, <1>2, RangeTail
<1>4. \/ Announced(packet) /\ changes' = [changes EXCEPT ![h] = Append(@, packet.target)]
      \/ ~Announced(packet) /\ changes' = changes
  BY DEF HandleNotice, Announced
<1> HIDE DEF packet
<1>5. /\ notices'[h] = Tail(notices[h]) /\ \A j \in Hosts : j # h => notices'[j] = notices[j]
      /\ \A j \in Hosts : j # h => changes'[j] = changes[j]
  BY <1>1, <1>4 DEF TypeOK
<1>6. \/ /\ Announced(packet)
         /\ Range(changes'[h]) = Range(changes[h]) \union {packet.target} /\ changes'[h] # <<>>
      \/ ~Announced(packet) /\ changes'[h] = changes[h]
  <2>1. CASE Announced(packet)
    <3>1. changes'[h] = Append(changes[h], packet.target) /\ packet.target \in Hosts
      BY <1>4, <2>1 DEF TypeOK, Announced
    <3> QED BY <1>2, <2>1, <3>1, RangeAppend
  <2> QED BY <1>4, <2>1
<1>7. OneGoal => OneGoal'
  <2> SUFFICES ASSUME OneGoal, NEW j \in Hosts
               PROVE  /\ \A p \in Range(heard'[j]) \union Range(notices'[j]) : Wish(p) => p.target = goal
                      /\ Range(changes'[j]) \subseteq {goal}
    BY <1>1 DEF OneGoal, Wish
  <2>1. CASE j # h
    BY <1>1, <1>5, <2>1 DEF OneGoal
  <2>2. CASE j = h
    <3>1. \A p \in Range(heard'[h]) \union Range(notices'[h]) : Wish(p) => p.target = goal
      BY <1>1, <1>3, <1>5 DEF OneGoal
    <3>2. Announced(packet) => packet.target = goal
      BY <1>3 DEF OneGoal, Wish, Announced
    <3>3. Range(changes'[h]) \subseteq {goal}
      BY <1>6, <3>2 DEF OneGoal
    <3> QED BY <2>2, <3>1, <3>3
  <2> QED BY <2>1, <2>2
<1>8. ASSUME NEW d \in Relayed, UnderWay(d) PROVE UnderWay(d)'
  <2>1. at[d] \in Hosts
    BY DeviceAssumption DEF TypeOK
  <2>2. ASSUME NEW j \in Hosts, Heading(j) PROVE Heading(j)'
    <3>1. CASE j # h
      BY <1>1, <1>5, <2>2, <3>1 DEF Heading, Wish, Announced
    <3>2. CASE j = h
      <4>1. CASE changes[h] # <<>> \/ Announced(packet)
        <5>1. changes'[h] # <<>>
          BY <1>6, <4>1
        <5> QED BY <3>2, <5>1 DEF Heading
      <4>2. CASE \E p \in Range(Tail(notices[h])) : Announced(p)
        BY <1>5, <3>2, <4>2 DEF Heading, Announced
      <4>3. CASE \E p \in Range(heard[h]) : Wish(p)
        BY <1>1, <3>2, <4>3 DEF Heading, Wish
      <4> QED BY <1>3, <2>2, <3>2, <4>1, <4>2, <4>3 DEF Heading
    <3> QED BY <3>1, <3>2
  <2>3. Ordered(d) => Ordered(d)'
    BY <1>1 DEF Ordered
  <2> QED BY <1>1, <1>8, <2>1, <2>2, <2>3 DEF UnderWay
<1>9. ~Quiet
  BY <1>1 DEF Quiet
<1> QED BY <1>1, <1>7, <1>8, <1>9, AwakeStays

\* The devices at the host of the change are told, all of them.
LEMMA ChangeTogether ==
  ASSUME TypeOK, TogetherInv, NEW h \in Hosts, HandleChange(h)
  PROVE  TogetherInv'
<1> DEFINE t == Head(changes[h])
<1>1. /\ UNCHANGED <<heard, notices, at, awake, goal, clean>>
      /\ changes[h] # <<>> /\ changes' = [changes EXCEPT ![h] = Tail(@)]
      /\ writes' \in Commanded(h, Relayed, t)
  BY DEF HandleChange, deviceVars, historyVars
<1>2. changes[h] \in Seq(Hosts) /\ Relayed \in SUBSET Devices
  BY DeviceAssumption DEF TypeOK
<1>3. t \in Hosts /\ Range(changes[h]) = {t} \union Range(Tail(changes[h]))
  BY <1>1, <1>2, RangeTail
<1> HIDE DEF t
<1>4. changes'[h] = Tail(changes[h]) /\ \A j \in Hosts : j # h => changes'[j] = changes[j]
  BY <1>1 DEF TypeOK
<1>5. \A k \in Hosts, g \in Gateways : k # h => writes'[k][g] = writes[k][g]
  BY <1>1, <1>2, <1>3, CommandedLemma
<1>6. \A g \in Gateways :
        Range(writes'[h][g]) = Range(writes[h][g])
            \union {[dev |-> d, target |-> t] : d \in {e \in Relayed : Gateway(e) = g}}
  BY <1>1, <1>2, <1>3, EveryCommanded
<1>7. OneGoal => OneGoal'
  <2> SUFFICES ASSUME OneGoal, NEW j \in Hosts
               PROVE  /\ Range(changes'[j]) \subseteq {goal}
                      /\ \A g \in Gateways : \A c \in Range(writes'[j][g]) : c.target = goal
    BY <1>1 DEF OneGoal, Wish
  <2>1. CASE j # h
    BY <1>4, <1>5, <2>1 DEF OneGoal
  <2>2. CASE j = h
    <3>1. t = goal /\ Range(changes'[h]) \subseteq {goal}
      BY <1>3, <1>4 DEF OneGoal
    <3>2. \A g \in Gateways : \A c \in Range(writes'[h][g]) : c.target = goal
      BY <1>6, <3>1 DEF OneGoal
    <3> QED BY <2>2, <3>1, <3>2
  <2> QED BY <2>1, <2>2
<1>8. ASSUME NEW d \in Relayed, UnderWay(d) PROVE UnderWay(d)'
  <2>1. at[d] \in Hosts /\ Gateway(d) \in Gateways
    BY <1>2 DEF TypeOK, Gateways
  <2>2. CASE at[d] = h
    <3>1. [dev |-> d, target |-> t] \in Range(writes'[h][Gateway(d)])
      BY <1>6, <2>1
    <3>2. Ordered(d)'
      BY <1>1, <2>2, <3>1 DEF Ordered
    <3> QED BY <3>2 DEF UnderWay
  <2>3. CASE at[d] # h
    <3>1. Heading(at[d]) => Heading(at[d])'
      BY <1>1, <1>4, <2>1, <2>3 DEF Heading, Wish, Announced
    <3>2. Ordered(d) => Ordered(d)'
      BY <1>1, <1>5, <2>1, <2>3 DEF Ordered
    <3> QED BY <1>1, <1>8, <3>1, <3>2 DEF UnderWay
  <2> QED BY <2>2, <2>3
<1>9. ~Quiet
  BY <1>1 DEF Quiet
<1> QED BY <1>1, <1>7, <1>8, <1>9, AwakeStays

LEMMA WriteTogether ==
  ASSUME TypeOK, TogetherInv, NEW h \in Hosts, NEW g \in Gateways, DoWrite(h, g)
  PROVE  TogetherInv'
<1> DEFINE c == Head(writes[h][g])
<1>1. /\ UNCHANGED <<heard, notices, changes, awake, goal, clean>>
      /\ writes[h][g] # <<>> /\ writes' = [writes EXCEPT ![h][g] = Tail(@)]
      /\ IF at[c.dev] = h /\ c.dev \in awake THEN at' = [at EXCEPT ![c.dev] = c.target]
         ELSE at' = at
  BY DEF DoWrite, MoveTo
<1>2. /\ writes \in [Hosts -> [Gateways -> Seq(Command)]] /\ writes[h][g] \in Seq(Command)
      /\ at \in [Devices -> Hosts] /\ Relayed \subseteq Devices
  BY DeviceAssumption DEF TypeOK
<1>3. /\ c \in Command /\ c.dev \in Devices
      /\ Range(writes[h][g]) = {c} \union Range(Tail(writes[h][g]))
  <2>1. c \in Command /\ Range(writes[h][g]) = {c} \union Range(Tail(writes[h][g]))
    BY <1>1, <1>2, RangeTail
  <2> QED BY <2>1 DEF Command
<1> HIDE DEF c
<1>4. /\ writes'[h][g] = Tail(writes[h][g])
      /\ \A k \in Hosts, f \in Gateways : ~(k = h /\ f = g) => writes'[k][f] = writes[k][f]
  BY <1>1, <1>2
<1>5. \A k \in Hosts, f \in Gateways : Range(writes'[k][f]) \subseteq Range(writes[k][f])
  BY <1>3, <1>4
<1>6. OneGoal => OneGoal'
  <2> SUFFICES ASSUME OneGoal, NEW j \in Hosts, NEW f \in Gateways, NEW e \in Range(writes'[j][f])
               PROVE  e.target = goal
    BY <1>1 DEF OneGoal, Wish
  <2>1. e \in Range(writes[j][f])
    BY <1>5
  <2> QED BY <2>1 DEF OneGoal
<1>7. ~Quiet
  BY <1>1 DEF Quiet
<1>8. ASSUME clean, NEW d \in Relayed, UnderWay(d) PROVE UnderWay(d)'
  <2>1. d \in awake /\ OneGoal
    BY <1>7, <1>8 DEF TogetherInv
  <2>2. d \in Devices /\ at[d] \in Hosts /\ Gateway(d) \in Gateways
    BY <1>2 DEF Gateways
  <2>3. CASE c.dev = d /\ at[d] = h
    <3>1. c.target = goal
      BY <1>3, <2>1 DEF OneGoal
    <3>2. at'[d] = goal
      BY <1>1, <1>2, <2>1, <2>2, <2>3, <3>1
    <3> QED BY <1>1, <3>2 DEF UnderWay
  <2>4. CASE ~(c.dev = d /\ at[d] = h)
    <3>1. at'[d] = at[d]
      BY <1>1, <1>2, <2>2, <2>4
    <3>2. Heading(at[d]) => Heading(at[d])'
      BY <1>1, <3>1 DEF Heading, Wish, Announced
    <3>3. Ordered(d) => Ordered(d)'
      BY <1>3, <1>4, <2>2, <2>4, <3>1 DEF Ordered
    <3> QED BY <1>1, <1>8, <3>1, <3>2, <3>3 DEF UnderWay
  <2> QED BY <2>3, <2>4
<1> QED BY <1>1, <1>6, <1>7, <1>8, AwakeStays DEF TogetherInv

LEMMA NextTogether == TypeOK /\ TogetherInv /\ [Next]_vars => TogetherInv'
<1> SUFFICES ASSUME TypeOK, TogetherInv, [Next]_vars PROVE TogetherInv'
  OBVIOUS
<1>1. ASSUME NEW k \in Keyboards, Rearm(k) PROVE TogetherInv'
  BY <1>1, IdleTogether DEF Rearm, daemonVars, historyVars
<1>2. ASSUME NEW k \in Keyboards, NEW t \in Hosts, Press(k, t) PROVE TogetherInv'
  BY <1>2, PressTogether
<1>3. ASSUME NEW d \in Relayed, Nap(d) PROVE TogetherInv'
  BY <1>3, IdleTogether DEF Nap, daemonVars
<1>4. ASSUME NEW d \in Relayed, WakeUp(d) PROVE TogetherInv'
  BY <1>4, IdleTogether DEF WakeUp, daemonVars, historyVars
<1>5. ASSUME NEW h \in Hosts, Listen(h) PROVE TogetherInv'
  BY <1>5, ListenTogether
<1>6. ASSUME NEW h \in Hosts, HandleNotice(h) PROVE TogetherInv'
  BY <1>6, NoticeTogether
<1>7. ASSUME NEW h \in Hosts, HandleChange(h) PROVE TogetherInv'
  BY <1>7, ChangeTogether
<1>8. ASSUME NEW h \in Hosts, NEW g \in Gateways, DoWrite(h, g) PROVE TogetherInv'
  BY <1>8, WriteTogether
<1>9. CASE UNCHANGED vars
  BY <1>9, IdleTogether DEF vars, deviceVars, daemonVars, historyVars
<1> QED BY <1>1, <1>2, <1>3, <1>4, <1>5, <1>6, <1>7, <1>8, <1>9
    DEF Next, Environment, Daemon

\* However the queues of the hosts interleave: once they are empty, a press made
\* with all devices together, awake and set up has taken every one of them to its
\* target (HostChangeSubscriber tells them all, the pressed one included).
THEOREM TogetherInTheEnd == Spec => []TogetherWhenQuiet
<1>1. TypeOK /\ TogetherInv => TogetherWhenQuiet
  <2> SUFFICES ASSUME TypeOK, TogetherInv, clean, Quiet, NEW d \in Relayed PROVE at[d] = goal
    BY DEF TogetherWhenQuiet
  <2>1. at[d] \in Hosts /\ Gateway(d) \in Gateways
    BY DeviceAssumption DEF TypeOK, Gateways
  <2>2. ~Heading(at[d]) /\ ~Ordered(d)
    BY <2>1, RangeEmpty DEF Quiet, Heading, Ordered
  <2> QED BY <2>2 DEF TogetherInv, UnderWay
<1> QED BY <1>1, InitTogether, NextTogether, TypeCorrect, PTL DEF Spec

=============================================================================
