-------------------------- MODULE KeyReportsProofs --------------------------
(***************************************************************************)
(* Proofs about KeyReports, for every registry, assignment of receivers and*)
(* slots, every set of keys and every bound.                               *)
(***************************************************************************)
EXTENDS KeyReports, FiniteSetTheorems, TLAPS

----------------------------------------------------------------------------
\* Sequences, seen as the sets of their elements.
LEMMA RangeEmpty == Range(<<>>) = {}
BY DEF Range

LEMMA RangeAppend ==
  ASSUME NEW S, NEW q \in Seq(S), NEW e \in S
  PROVE  Range(Append(q, e)) = Range(q) \union {e} /\ Append(q, e) \in Seq(S)
<1>1. /\ Append(q, e) \in Seq(S) /\ Len(Append(q, e)) = Len(q) + 1 /\ Len(q) \in Nat
      /\ Append(q, e)[Len(q) + 1] = e /\ \A i \in 1..Len(q) : Append(q, e)[i] = q[i]
  OBVIOUS
<1>2. DOMAIN q = 1..Len(q) /\ DOMAIN Append(q, e) = 1..Len(Append(q, e))
  BY <1>1
<1>3. 1..Len(Append(q, e)) = 1..Len(q) \union {Len(q) + 1}
  BY <1>1
<1> QED BY <1>1, <1>2, <1>3 DEF Range

LEMMA RangeTail ==
  ASSUME NEW S, NEW q \in Seq(S), q # <<>>
  PROVE  /\ Range(q) = {Head(q)} \union Range(Tail(q))
         /\ Head(q) \in S /\ Tail(q) \in Seq(S)
<1>1. Head(q) \in S /\ Tail(q) \in Seq(S)
  OBVIOUS
<1>2. Range(q) \subseteq {Head(q)} \union Range(Tail(q))
  <2> SUFFICES ASSUME NEW i \in 1..Len(q), i # 1 PROVE q[i] \in Range(Tail(q))
    BY DEF Range
  <2>1. i - 1 \in 1..Len(Tail(q)) /\ Tail(q)[i - 1] = q[i]
    OBVIOUS
  <2>2. DOMAIN Tail(q) = 1..Len(Tail(q))
    BY <1>1
  <2> QED BY <2>1, <2>2 DEF Range
<1>3. {Head(q)} \union Range(Tail(q)) \subseteq Range(q)
  BY DEF Range
<1> QED BY <1>1, <1>2, <1>3

LEMMA RangeConcat ==
  ASSUME NEW S, NEW q \in Seq(S), NEW p \in Seq(S)
  PROVE  Range(q \o p) = Range(q) \union Range(p) /\ q \o p \in Seq(S)
<1>1. Range(q \o p) \subseteq Range(q) \union Range(p)
  BY DEF Range
<1>2. Range(q) \subseteq Range(q \o p)
  BY DEF Range
<1>3. Range(p) \subseteq Range(q \o p)
  <2> SUFFICES ASSUME NEW i \in 1..Len(p) PROVE p[i] \in Range(q \o p)
    BY DEF Range
  <2>1. Len(q) + i \in 1..Len(q \o p) /\ (q \o p)[Len(q) + i] = p[i]
    OBVIOUS
  <2> QED BY <2>1 DEF Range
<1>4. q \o p \in Seq(S)
  OBVIOUS
<1> QED BY <1>1, <1>2, <1>3, <1>4

LEMMA RangeType ==
  ASSUME NEW S, NEW q \in Seq(S)
  PROVE  Range(q) \subseteq S
BY DEF Range

\* A finite set put in sequence: all its elements, and no others.
LEMMA SequenceLemma ==
  ASSUME NEW D, IsFiniteSet(D), NEW q \in SetToSeqs(D)
  PROVE  q \in Seq(D) /\ Range(q) = D
<1> DEFINE n == Cardinality(D)
<1>1. n \in Nat
  BY FS_CardinalityType
<1>2. q \in [1..n -> D] /\ \A i, j \in 1..n : i # j => q[i] # q[j]
  BY DEF SetToSeqs
<1>3. q \in Injection(1..n, D)
  BY <1>2 DEF Injection, IsInjective
<1>4. Cardinality(1..n) = n
  <2>1. 1 \in Int /\ n \in Int
    BY <1>1
  <2>2. Cardinality(1..n) = IF 1 > n THEN 0 ELSE n - 1 + 1
    BY <2>1, FS_Interval
  <2> QED BY <1>1, <2>2
<1>5. q \in Surjection(1..n, D)
  BY <1>3, <1>4, FS_Injection
<1>6. Range(q) = D
  BY <1>2, <1>5 DEF Surjection, Range
<1> QED BY <1>1, <1>2, <1>6

LEMMA DevicesFinite == IsFiniteSet(Devices)
<1>1. Len(Registered) \in Nat
  BY RegisteredAssumption
<1>2. IsFiniteSet(1..Len(Registered))
  BY <1>1, FS_Interval
<1> DEFINE f == [i \in 1..Len(Registered) |-> Registered[i]]
<1>3. f \in Surjection(1..Len(Registered), Devices)
  BY DEF Devices, Surjection
<1> QED BY <1>2, <1>3, FS_Surjection

\* The reports about the devices of a set.
LEMMA ReportsLemma ==
  ASSUME NEW D \in SUBSET Devices, NEW order \in InOrder(D), NEW back
  PROVE  /\ Reports(order, back) \in Seq(Connections)
         /\ Range(Reports(order, back)) = {Connection(d, d \in back) : d \in D}
<1>1. IsFiniteSet(D)
  BY DevicesFinite, FS_Subset
<1>2. order \in Seq(D) /\ Range(order) = D
  BY <1>1, SequenceLemma DEF InOrder
<1>3. \A d \in D : Connection(d, d \in back) \in Connections
  BY DEF Connection, Connections
<1>4. Len(order) \in Nat /\ \A i \in 1..Len(order) : order[i] \in D
  BY <1>2
<1>5. Reports(order, back) \in Seq(Connections)
  <2>1. \A i \in 1..Len(order) : Connection(order[i], order[i] \in back) \in Connections
    BY <1>3, <1>4
  <2> QED BY <1>4, <2>1 DEF Reports
<1>6. /\ DOMAIN Reports(order, back) = 1..Len(order)
      /\ \A i \in 1..Len(order) : Reports(order, back)[i] = Connection(order[i], order[i] \in back)
  BY DEF Reports
<1>7. DOMAIN order = 1..Len(order)
  BY <1>2
<1>8. Range(Reports(order, back)) = {Connection(d, d \in back) : d \in D}
  <2>1. D = {order[i] : i \in 1..Len(order)}
    BY <1>2, <1>7 DEF Range
  <2>2. Range(Reports(order, back)) = {Reports(order, back)[i] : i \in 1..Len(order)}
    BY <1>6 DEF Range
  <2>3. \A i \in 1..Len(order) : Reports(order, back)[i] \in {Connection(d, d \in back) : d \in D}
    BY <1>4, <1>6
  <2>4. ASSUME NEW d \in D PROVE Connection(d, d \in back) \in Range(Reports(order, back))
    <3>1. PICK i \in 1..Len(order) : order[i] = d
      BY <2>1
    <3>2. Reports(order, back)[i] = Connection(d, d \in back)
      BY <1>6, <3>1
    <3> QED BY <2>2, <3>2
  <2> QED BY <2>2, <2>3, <2>4
<1> QED BY <1>5, <1>8

\* The settings of all keys of the devices of a set.
Undiverts(order) == [i \in 1..Len(order) |-> SetFlag(order[i], Cids, FALSE)]
LEMMA UndivertsLemma ==
  ASSUME NEW D \in SUBSET Devices, NEW order \in InOrder(D)
  PROVE  /\ Undiverts(order) \in Seq(Flags)
         /\ Range(Undiverts(order)) = {SetFlag(d, Cids, FALSE) : d \in D}
<1>1. IsFiniteSet(D)
  BY DevicesFinite, FS_Subset
<1>2. order \in Seq(D) /\ Range(order) = D
  BY <1>1, SequenceLemma DEF InOrder
<1>3. \A d \in D : SetFlag(d, Cids, FALSE) \in Flags
  BY DEF SetFlag, Flags
<1>4. Len(order) \in Nat /\ \A i \in 1..Len(order) : order[i] \in D
  BY <1>2
<1>5. Undiverts(order) \in Seq(Flags)
  <2>1. \A i \in 1..Len(order) : SetFlag(order[i], Cids, FALSE) \in Flags
    BY <1>3, <1>4
  <2>2. Undiverts(order) \in [1..Len(order) -> Flags]
    BY <2>1 DEF Undiverts
  <2> QED BY <1>4, <2>2
<1>6. /\ DOMAIN Undiverts(order) = 1..Len(order)
      /\ \A i \in 1..Len(order) : Undiverts(order)[i] = SetFlag(order[i], Cids, FALSE)
  BY DEF Undiverts
<1>7. D = {order[i] : i \in 1..Len(order)}
  BY <1>2 DEF Range
<1>8. Range(Undiverts(order)) = {Undiverts(order)[i] : i \in 1..Len(order)}
  BY <1>6 DEF Range
<1>9. ASSUME NEW d \in D PROVE SetFlag(d, Cids, FALSE) \in Range(Undiverts(order))
  <2>1. PICK i \in 1..Len(order) : order[i] = d
    BY <1>7
  <2> QED BY <1>6, <1>8, <2>1
<1> QED BY <1>4, <1>5, <1>6, <1>8, <1>9

\* The writes for the keys of a device.
Settings(order, d, form) == [i \in 1..Len(order) |-> Write(d, order[i], form)]
LEMMA SettingsLemma ==
  ASSUME NEW C \in SUBSET Cids, NEW order \in SetToSeqs(C), NEW d \in Devices,
         NEW form \in {"analytics", "divert", "undivert"}
  PROVE  /\ Settings(order, d, form) \in Seq(Writes)
         /\ Range(Settings(order, d, form)) = {Write(d, cid, form) : cid \in C}
<1>1. IsFiniteSet(C)
  BY CidsAssumption, FS_Subset
<1>2. order \in Seq(C) /\ Range(order) = C
  BY <1>1, SequenceLemma
<1>3. \A cid \in C : Write(d, cid, form) \in Writes
  BY DEF Write, Writes
<1>4. Len(order) \in Nat /\ \A i \in 1..Len(order) : order[i] \in C
  BY <1>2
<1>5. Settings(order, d, form) \in Seq(Writes)
  <2>1. \A i \in 1..Len(order) : Write(d, order[i], form) \in Writes
    BY <1>3, <1>4
  <2> QED BY <1>4, <2>1 DEF Settings
<1>6. /\ DOMAIN Settings(order, d, form) = 1..Len(order)
      /\ \A i \in 1..Len(order) : Settings(order, d, form)[i] = Write(d, order[i], form)
  BY DEF Settings
<1>7. C = {order[i] : i \in 1..Len(order)}
  BY <1>2 DEF Range
<1>8. Range(Settings(order, d, form)) = {Settings(order, d, form)[i] : i \in 1..Len(order)}
  BY <1>6 DEF Range
<1>9. ASSUME NEW cid \in C PROVE Write(d, cid, form) \in Range(Settings(order, d, form))
  <2>1. PICK i \in 1..Len(order) : order[i] = cid
    BY <1>7
  <2> QED BY <1>6, <1>8, <2>1
<1> QED BY <1>4, <1>5, <1>6, <1>8, <1>9

----------------------------------------------------------------------------
\* Types.
LEMMA PacketTypes ==
  /\ \A d \in Devices, isUp \in BOOLEAN : Connection(d, isUp) \in Connections
  /\ \A d \in Devices, cid \in Cids : Unset(d, cid) \in Unsets
  /\ \A d \in Devices, cid \in Cids, isZero \in BOOLEAN : Response(d, cid, isZero) \in Responses
  /\ \A d \in Devices : Wake(d) \in Wakes
  /\ \A d \in Devices, cids \in SUBSET Cids, enable \in BOOLEAN : SetFlag(d, cids, enable) \in Flags
BY DEF Connection, Connections, Unset, Unsets, Response, Responses, Wake, Wakes, SetFlag, Flags

LEMMA SlotLemma == \A d \in Devices : FoundBySlot(d) \subseteq Devices
BY DEF FoundBySlot, Devices

LEMMA InitType == Init => TypeOK
<1> SUFFICES ASSUME Init PROVE TypeOK
  OBVIOUS
<1>1. Len(Registered) \in Nat /\ \A i \in 1..Len(Registered) : Registered[i] \in Devices
  BY RegisteredAssumption
<1>2. flags \in Seq(Flags)
  <2>1. flags \in [1..Len(Registered) -> Flags]
    BY <1>1, PacketTypes DEF Init
  <2> QED BY <1>1, <2>1
<1>3. heard \in [Receivers -> Seq(Packets)] /\ writes \in [Receivers -> Seq(Writes)]
  BY DEF Init
<1>4. events \in 0..MaxEvents /\ unplugs \in 0..MaxUnplugs
  BY BoundsAssumption DEF Init
<1>5. /\ connections \in Seq(Connections) /\ losses \in Seq(Receivers)
      /\ unsets \in Seq(Unsets) /\ responses \in Seq(Responses) /\ wakes \in Seq(Wakes)
  BY DEF Init
<1>6. /\ up \subseteq Receivers /\ link \subseteq Devices /\ reporting \in [Devices -> SUBSET Cids]
      /\ connected \subseteq Devices /\ analytics \subseteq Devices
      /\ stopping \in BOOLEAN /\ disturbed \subseteq Devices
      /\ missed \subseteq Devices /\ overtaken \subseteq Devices
  BY ClaimAssumption DEF Init
<1> QED BY <1>2, <1>3, <1>4, <1>5, <1>6 DEF TypeOK

\* What a receiver has heard stays a sequence of packets.
LEMMA HearLemma ==
  ASSUME TypeOK, NEW packet \in Packets, Hear(packet)
  PROVE  /\ heard' \in [Receivers -> Seq(Packets)]
         /\ Pid(packet.dev) \in Receivers
         /\ heard'[Pid(packet.dev)] = Append(heard[Pid(packet.dev)], packet)
         /\ \A r \in Receivers : r # Pid(packet.dev) => heard'[r] = heard[r]
<1>1. packet.dev \in Devices
  BY DEF Packets, Connections, Unsets, Responses, Wakes
<1>2. Pid(packet.dev) \in Receivers
  BY <1>1 DEF Receivers
<1>3. heard \in [Receivers -> Seq(Packets)]
  BY DEF TypeOK
<1>4. Append(heard[Pid(packet.dev)], packet) \in Seq(Packets)
  BY <1>2, <1>3
<1> QED BY <1>2, <1>3, <1>4 DEF Hear

\* An event of the devices is counted and may disturb some of them.
LEMMA EventLemma ==
  ASSUME TypeOK, events < MaxEvents, events' = events + 1
  PROVE  events' \in 0..MaxEvents
BY BoundsAssumption DEF TypeOK

LEMMA DisturbLemma ==
  ASSUME TypeOK, NEW D \in SUBSET Devices, Disturb(D)
  PROVE  disturbed' \subseteq Devices
BY DEF Disturb, TypeOK

\* Reports and requests go to the queue of their subscriber.
LEMMA ListenLemma ==
  ASSUME TypeOK, NEW r \in Receivers, Listen(r)
  PROVE  LET packet == Head(heard[r])
         IN /\ packet \in Packets /\ packet = heard[r][1]
            /\ heard[r] \in Seq(Packets) /\ heard[r] # <<>>
            /\ heard'[r] = Tail(heard[r])
            /\ \A other \in Receivers : other # r => heard'[other] = heard[other]
            /\ heard' \in [Receivers -> Seq(Packets)]
            /\ IF packet \in Connections THEN connections' = Append(connections, packet)
                                         ELSE connections' = connections
            /\ IF packet \in Unsets THEN unsets' = Append(unsets, packet) ELSE unsets' = unsets
            /\ IF packet \in Responses THEN responses' = Append(responses, packet)
                                       ELSE responses' = responses
            /\ IF packet \in Wakes THEN wakes' = Append(wakes, packet) ELSE wakes' = wakes
<1> DEFINE packet == Head(heard[r])
<1>1. heard \in [Receivers -> Seq(Packets)] /\ heard[r] \in Seq(Packets) /\ heard[r] # <<>>
  BY DEF TypeOK, Listen
<1>2. packet \in Packets /\ packet = heard[r][1] /\ Tail(heard[r]) \in Seq(Packets)
  BY <1>1
<1>3. heard' = [heard EXCEPT ![r] = Tail(heard[r])]
  BY DEF Listen
<1>4. /\ packet \in Connections <=> packet.type = "connection"
      /\ packet \in Unsets <=> packet.type = "unset"
      /\ packet \in Responses <=> packet.type = "response"
      /\ packet \in Wakes <=> packet.type = "wake"
  <2> HIDE DEF packet
  <2> QED BY <1>2 DEF Packets, Connections, Unsets, Responses, Wakes
<1>5. /\ connections' = IF packet.type = "connection" THEN Append(connections, packet) ELSE connections
      /\ unsets' = IF packet.type = "unset" THEN Append(unsets, packet) ELSE unsets
      /\ responses' = IF packet.type = "response" THEN Append(responses, packet) ELSE responses
      /\ wakes' = IF packet.type = "wake" THEN Append(wakes, packet) ELSE wakes
  BY DEF Listen
<1>6. /\ heard'[r] = Tail(heard[r]) /\ heard' \in [Receivers -> Seq(Packets)]
      /\ \A other \in Receivers : other # r => heard'[other] = heard[other]
  BY <1>1, <1>2, <1>3
<1> HIDE DEF packet
<1>7. /\ IF packet \in Connections THEN connections' = Append(connections, packet)
                                   ELSE connections' = connections
      /\ IF packet \in Unsets THEN unsets' = Append(unsets, packet) ELSE unsets' = unsets
      /\ IF packet \in Responses THEN responses' = Append(responses, packet)
                                 ELSE responses' = responses
      /\ IF packet \in Wakes THEN wakes' = Append(wakes, packet) ELSE wakes' = wakes
  BY <1>4, <1>5
<1> QED BY <1>1, <1>2, <1>6, <1>7 DEF packet

LEMMA HappensType == TypeOK /\ Happens => TypeOK'
<1> SUFFICES ASSUME TypeOK, Happens PROVE TypeOK'
  OBVIOUS
<1> USE DEF deviceVars, knownVars, hidVars, stopVars
<1>1. ASSUME NEW d \in Devices, LinkChanges(d) PROVE TypeOK'
  <2> DEFINE packet == Connection(d, d \in link')
  <2>1. packet \in Packets /\ Hear(packet)
    <3>1. (d \in link') \in BOOLEAN
      OBVIOUS
    <3>2. packet \in Connections
      BY <3>1, PacketTypes
    <3>3. Hear(packet)
      BY <1>1 DEF LinkChanges
    <3> QED BY <3>2, <3>3 DEF Packets
  <2>2. link' \subseteq Devices
    BY <1>1 DEF LinkChanges, TypeOK
  <2>3. heard' \in [Receivers -> Seq(Packets)]
    BY <2>1, HearLemma
  <2>4. events' \in 0..MaxEvents /\ disturbed' \subseteq Devices
    BY <1>1, EventLemma, DisturbLemma DEF LinkChanges
  <2>5. reporting' \in [Devices -> SUBSET Cids] /\ missed' \subseteq Devices
    BY <1>1 DEF LinkChanges, TypeOK
  <2> QED BY <1>1, <2>2, <2>3, <2>4, <2>5 DEF LinkChanges, TypeOK
<1>2. ASSUME NEW d \in Devices, Reset(d) PROVE TypeOK'
  <2>1. Wake(d) \in Packets /\ Hear(Wake(d))
    BY <1>2, PacketTypes DEF Reset, Packets
  <2>2. heard' \in [Receivers -> Seq(Packets)]
    BY <2>1, HearLemma
  <2>3. events' \in 0..MaxEvents /\ disturbed' \subseteq Devices
    BY <1>2, EventLemma, DisturbLemma DEF Reset
  <2>4. reporting' \in [Devices -> SUBSET Cids] /\ missed' \subseteq Devices
    BY <1>2 DEF Reset, TypeOK
  <2> QED BY <1>2, <2>2, <2>3, <2>4 DEF Reset, TypeOK
<1>3. ASSUME NEW d \in Devices, NEW cid \in Cids, TakeBack(d, cid) PROVE TypeOK'
  <2>1. Unset(d, cid) \in Packets /\ Hear(Unset(d, cid))
    BY <1>3, PacketTypes DEF TakeBack, Packets
  <2>2. heard' \in [Receivers -> Seq(Packets)]
    BY <2>1, HearLemma
  <2>3. events' \in 0..MaxEvents
    BY <1>3, EventLemma DEF TakeBack
  <2>4. {d} \union FoundBySlot(d) \in SUBSET Devices
    BY SlotLemma
  <2>5. disturbed' \subseteq Devices
    BY <1>3, <2>4, DisturbLemma DEF TakeBack
  <2>6. reporting' \in [Devices -> SUBSET Cids] /\ missed' \subseteq Devices
    BY <1>3 DEF TakeBack, TypeOK
  <2> QED BY <1>3, <2>2, <2>3, <2>5, <2>6 DEF TakeBack, TypeOK
<1>4. ASSUME NEW r \in Receivers, Unplug(r) PROVE TypeOK'
  <2>1. events' \in 0..MaxEvents
    BY <1>4, EventLemma DEF Unplug
  <2>2. disturbed' \subseteq Devices
    BY <1>4, DisturbLemma DEF Unplug
  <2>3. unplugs' \in 0..MaxUnplugs
    BY <1>4, BoundsAssumption DEF Unplug, TypeOK
  <2>4. losses' \in Seq(Receivers)
    BY <1>4 DEF Unplug, TypeOK
  <2>5. reporting' \in [Devices -> SUBSET Cids]
    BY <1>4 DEF Unplug, TypeOK
  <2>6. up' \subseteq Receivers /\ link' \subseteq Devices /\ overtaken' \subseteq Devices
    BY <1>4 DEF Unplug, TypeOK
  <2> QED BY <1>4, <2>1, <2>2, <2>3, <2>4, <2>5, <2>6 DEF Unplug, TypeOK
<1>5. ASSUME NEW r \in Receivers, Replug(r) PROVE TypeOK'
  <2> DEFINE D == {d \in Devices : Pid(d) = r}
  <2>1. PICK back \in SUBSET D, order \in InOrder(D) :
          link' = link \union back /\ heard' = [heard EXCEPT ![r] = @ \o Reports(order, back)]
    BY <1>5 DEF Replug
  <2>2. D \in SUBSET Devices
    OBVIOUS
  <2>3. disturbed' \subseteq Devices
    BY <1>5, <2>2, DisturbLemma DEF Replug
  <2>4. up' \subseteq Receivers /\ missed' \subseteq Devices /\ overtaken' \subseteq Devices
    BY <1>5 DEF Replug, TypeOK
  <2>5. link' \subseteq Devices
    BY <2>1, <2>2 DEF TypeOK
  <2> HIDE DEF D
  <2>6. Reports(order, back) \in Seq(Packets)
    <3>1. Reports(order, back) \in Seq(Connections)
      BY <2>1, <2>2, ReportsLemma
    <3> QED BY <3>1 DEF Packets
  <2>7. heard \in [Receivers -> Seq(Packets)] /\ heard[r] \o Reports(order, back) \in Seq(Packets)
    BY <2>6 DEF TypeOK
  <2>8. heard' \in [Receivers -> Seq(Packets)]
    BY <2>1, <2>7
  <2> QED BY <1>5, <2>3, <2>4, <2>5, <2>8 DEF Replug, TypeOK
<1> QED BY <1>1, <1>2, <1>3, <1>4, <1>5 DEF Happens

LEMMA ListenType ==
  ASSUME TypeOK, NEW r \in Receivers, Listen(r)
  PROVE  TypeOK'
<1> DEFINE packet == Head(heard[r])
<1>1. /\ heard' \in [Receivers -> Seq(Packets)]
      /\ (packet \in Connections /\ connections' = Append(connections, packet)) \/ connections' = connections
      /\ (packet \in Unsets /\ unsets' = Append(unsets, packet)) \/ unsets' = unsets
      /\ (packet \in Responses /\ responses' = Append(responses, packet)) \/ responses' = responses
      /\ (packet \in Wakes /\ wakes' = Append(wakes, packet)) \/ wakes' = wakes
  BY ListenLemma
<1> HIDE DEF packet
<1>2. /\ connections' \in Seq(Connections) /\ unsets' \in Seq(Unsets)
      /\ responses' \in Seq(Responses) /\ wakes' \in Seq(Wakes)
  <2>1. connections \in Seq(Connections) /\ unsets \in Seq(Unsets)
        /\ responses \in Seq(Responses) /\ wakes \in Seq(Wakes)
    BY DEF TypeOK
  <2>2. packet \in Connections => Append(connections, packet) \in Seq(Connections)
    BY <2>1
  <2>3. packet \in Unsets => Append(unsets, packet) \in Seq(Unsets)
    BY <2>1
  <2>4. packet \in Responses => Append(responses, packet) \in Seq(Responses)
    BY <2>1
  <2>5. packet \in Wakes => Append(wakes, packet) \in Seq(Wakes)
    BY <2>1
  <2> QED BY <1>1, <2>1, <2>2, <2>3, <2>4, <2>5, Zenon
<1> QED BY <1>1, <1>2 DEF Listen, TypeOK, deviceVars, knownVars, stopVars

LEMMA SubscribersType == TypeOK /\ Subscribers => TypeOK'
<1> SUFFICES ASSUME TypeOK, Subscribers PROVE TypeOK'
  OBVIOUS
<1> USE DEF deviceVars, knownVars, hidVars, stopVars
<1>0. /\ connections \in Seq(Connections) /\ unsets \in Seq(Unsets) /\ losses \in Seq(Receivers)
      /\ responses \in Seq(Responses) /\ wakes \in Seq(Wakes) /\ flags \in Seq(Flags)
  BY DEF TypeOK
<1>1. CASE HandleConnection
  <2> DEFINE event == Head(connections)
  <2>1. event \in Connections /\ connections' \in Seq(Connections)
    BY <1>0, <1>1, RangeTail DEF HandleConnection
  <2>2. /\ connected' = (IF event.up THEN connected \union {event.dev} ELSE connected \ {event.dev})
        /\ flags' = flags \/ flags' = Append(flags, SetFlag(event.dev, Cids, TRUE))
    BY <1>1 DEF HandleConnection, SetAgain
  <2> HIDE DEF event
  <2>3. event.dev \in Devices
    BY <2>1 DEF Connections
  <2>4. SetFlag(event.dev, Cids, TRUE) \in Flags
    BY <2>3, PacketTypes
  <2>5. flags' \in Seq(Flags)
    <3>1. \A f \in Flags : Append(flags, f) \in Seq(Flags)
      BY <1>0
    <3> QED BY <1>0, <2>2, <2>4, <3>1
  <2>6. connected' \subseteq Devices
    BY <2>2, <2>3 DEF TypeOK
  <2> QED BY <1>1, <2>1, <2>5, <2>6 DEF HandleConnection, TypeOK
<1>2. CASE HandleLoss
  <2> DEFINE D == {d \in Devices : Pid(d) = Head(losses)}
  <2>1. PICK lost \in InOrder(D) : connections' = connections \o Reports(lost, {})
    BY <1>2 DEF HandleLoss
  <2>2. D \in SUBSET Devices
    OBVIOUS
  <2>3. losses' \in Seq(Receivers)
    BY <1>0, <1>2, RangeTail DEF HandleLoss
  <2> HIDE DEF D
  <2>4. Reports(lost, {}) \in Seq(Connections)
    BY <2>1, <2>2, ReportsLemma
  <2>5. connections' \in Seq(Connections)
    BY <1>0, <2>1, <2>4
  <2> QED BY <1>2, <2>3, <2>5 DEF HandleLoss, TypeOK
<1>3. CASE HandleUnset
  <2> DEFINE event == Head(unsets)
  <2>1. event \in Unsets /\ unsets' \in Seq(Unsets)
    BY <1>0, <1>3, RangeTail DEF HandleUnset
  <2>2. PICK device \in FoundBySlot(event.dev) :
          flags' = flags \/ flags' = Append(flags, SetFlag(device, {event.cid}, TRUE))
    BY <1>3 DEF HandleUnset, SetAgain
  <2> HIDE DEF event
  <2>3. device \in Devices /\ {event.cid} \in SUBSET Cids
    BY <2>1, <2>2, SlotLemma DEF Unsets
  <2>4. SetFlag(device, {event.cid}, TRUE) \in Flags
    BY <2>3, PacketTypes
  <2>5. flags' \in Seq(Flags)
    <3>1. \A f \in Flags : Append(flags, f) \in Seq(Flags)
      BY <1>0
    <3> QED BY <1>0, <2>2, <2>4, <3>1
  <2> QED BY <1>3, <2>1, <2>5 DEF HandleUnset, TypeOK
<1>4. CASE HandleResponse
  <2> DEFINE event == Head(responses)
  <2>1. event \in Responses /\ responses' \in Seq(Responses)
    BY <1>0, <1>4, RangeTail DEF HandleResponse
  <2>2. /\ analytics' \subseteq analytics
        /\ flags' = flags \/ flags' = Append(flags, SetFlag(event.dev, Cids, TRUE))
    BY <1>4 DEF HandleResponse, SetAgain
  <2> HIDE DEF event
  <2>3. SetFlag(event.dev, Cids, TRUE) \in Flags
    BY <2>1, PacketTypes DEF Responses
  <2>4. flags' \in Seq(Flags)
    <3>1. \A f \in Flags : Append(flags, f) \in Seq(Flags)
      BY <1>0
    <3> QED BY <1>0, <2>2, <2>3, <3>1
  <2> QED BY <1>4, <2>1, <2>2, <2>4 DEF HandleResponse, TypeOK
<1>5. CASE HandleWake
  <2> DEFINE event == Head(wakes)
  <2>1. event \in Wakes /\ wakes' \in Seq(Wakes)
    BY <1>0, <1>5, RangeTail DEF HandleWake
  <2>2. flags' = Append(flags, SetFlag(event.dev, Cids, TRUE))
    BY <1>5 DEF HandleWake, SetAgain
  <2> HIDE DEF event
  <2>3. SetFlag(event.dev, Cids, TRUE) \in Flags
    BY <2>1, PacketTypes DEF Wakes
  <2>4. flags' \in Seq(Flags)
    <3>1. \A f \in Flags : Append(flags, f) \in Seq(Flags)
      BY <1>0
    <3> QED BY <1>0, <2>2, <2>3, <3>1
  <2> QED BY <1>5, <2>1, <2>4 DEF HandleWake, TypeOK
<1> QED BY <1>1, <1>2, <1>3, <1>4, <1>5 DEF Subscribers

\* What SetReportFlagSubscriber does with the event at the head of its queue.
LEMMA FlagsLemma ==
  ASSUME TypeOK, HandleFlags
  PROVE  LET event == Head(flags)
             d == event.dev
         IN /\ event \in Flags /\ flags # <<>> /\ flags' = Tail(flags) /\ flags' \in Seq(Flags)
            /\ IF d \in analytics \union Divertable
               THEN \E order \in SetToSeqs(event.cids) :
                      writes' = [writes EXCEPT ![Pid(d)] = @ \o Settings(order, d, Form(d, event.enable))]
               ELSE writes' = writes
            /\ Form(d, event.enable) \in {"analytics", "divert", "undivert"}
<1>1. flags \in Seq(Flags) /\ flags # <<>> /\ flags' = Tail(flags)
  BY DEF TypeOK, HandleFlags
<1>2. Head(flags) \in Flags /\ flags' \in Seq(Flags)
  BY <1>1, RangeTail
<1>3. Form(Head(flags).dev, Head(flags).enable) \in {"analytics", "divert", "undivert"}
  BY DEF Form
<1> QED BY <1>1, <1>2, <1>3 DEF HandleFlags, Settings

LEMMA FlagsType == TypeOK /\ HandleFlags => TypeOK'
<1> SUFFICES ASSUME TypeOK, HandleFlags PROVE TypeOK'
  OBVIOUS
<1> DEFINE event == Head(flags)
           d == event.dev
           form == Form(d, event.enable)
<1>1. /\ event \in Flags /\ flags' \in Seq(Flags) /\ form \in {"analytics", "divert", "undivert"}
      /\ \/ \E order \in SetToSeqs(event.cids) :
              writes' = [writes EXCEPT ![Pid(d)] = @ \o Settings(order, d, form)]
         \/ writes' = writes
  BY FlagsLemma
<1> HIDE DEF form
<1>2. ASSUME NEW order \in SetToSeqs(event.cids),
             writes' = [writes EXCEPT ![Pid(d)] = @ \o Settings(order, d, form)]
      PROVE  writes' \in [Receivers -> Seq(Writes)]
  <2>1. d \in Devices /\ event.cids \in SUBSET Cids
    BY <1>1 DEF Flags
  <2> HIDE DEF d, event
  <2>2. Settings(order, d, form) \in Seq(Writes)
    BY <1>1, <1>2, <2>1, SettingsLemma
  <2>3. Pid(d) \in Receivers /\ writes \in [Receivers -> Seq(Writes)]
    BY <2>1 DEF Receivers, TypeOK
  <2>4. writes[Pid(d)] \o Settings(order, d, form) \in Seq(Writes)
    BY <2>2, <2>3
  <2> QED BY <1>2, <2>3, <2>4
<1>3. writes' \in [Receivers -> Seq(Writes)]
  BY <1>1, <1>2 DEF TypeOK
<1> QED BY <1>1, <1>3 DEF HandleFlags, TypeOK, deviceVars, knownVars, hidVars, stopVars

\* What a gateway does with the write at the head of its queue.
Effective(w) == w.what = "divert" \/ (w.what = "analytics" /\ w.dev \in Accepting)
LEMMA WriteLemma ==
  ASSUME TypeOK, NEW r \in Receivers, DoWrite(r)
  PROVE  LET w == Head(writes[r])
             answer == Response(w.dev, w.cid, ~(w.what = "analytics" /\ Effective(w)))
         IN /\ w \in Writes /\ writes[r] # <<>> /\ writes[r] \in Seq(Writes)
            /\ writes' \in [Receivers -> Seq(Writes)] /\ writes'[r] = Tail(writes[r])
            /\ \A other \in Receivers : other # r => writes'[other] = writes[other]
            /\ IF w.dev \in link
               THEN /\ reporting' = [reporting EXCEPT ![w.dev] =
                         IF Effective(w) THEN @ \union {w.cid}
                         ELSE IF w.what = "undivert" THEN @ \ {w.cid} ELSE @]
                    /\ answer \in Packets /\ Hear(answer)
               ELSE UNCHANGED <<reporting, heard>>
<1> DEFINE w == Head(writes[r])
           answer == Response(w.dev, w.cid, ~(w.what = "analytics" /\ Effective(w)))
<1>1. writes \in [Receivers -> Seq(Writes)] /\ writes[r] \in Seq(Writes) /\ writes[r] # <<>>
  BY DEF TypeOK, DoWrite
<1>2. w \in Writes /\ Tail(writes[r]) \in Seq(Writes)
  BY <1>1, RangeTail
<1>3. writes' = [writes EXCEPT ![r] = Tail(writes[r])]
  BY DEF DoWrite
<1>4. /\ writes' \in [Receivers -> Seq(Writes)] /\ writes'[r] = Tail(writes[r])
      /\ \A other \in Receivers : other # r => writes'[other] = writes[other]
  BY <1>1, <1>2, <1>3
<1>5. answer \in Packets
  <2>1. w.dev \in Devices /\ w.cid \in Cids
    BY <1>2 DEF Writes
  <2>2. (~(w.what = "analytics" /\ Effective(w))) \in BOOLEAN
    OBVIOUS
  <2> HIDE DEF w
  <2>3. answer \in Responses
    BY <2>1, <2>2, PacketTypes
  <2> QED BY <2>3 DEF Packets
<1>6. IF w.dev \in link
      THEN /\ reporting' = [reporting EXCEPT ![w.dev] =
                IF Effective(w) THEN @ \union {w.cid}
                ELSE IF w.what = "undivert" THEN @ \ {w.cid} ELSE @]
           /\ Hear(answer)
      ELSE UNCHANGED <<reporting, heard>>
  BY DEF DoWrite, Effective
<1> QED BY <1>1, <1>2, <1>4, <1>5, <1>6

LEMMA WriteType ==
  ASSUME TypeOK, NEW r \in Receivers, DoWrite(r)
  PROVE  TypeOK'
<1> DEFINE w == Head(writes[r])
           answer == Response(w.dev, w.cid, ~(w.what = "analytics" /\ Effective(w)))
<1>1. /\ w \in Writes /\ writes' \in [Receivers -> Seq(Writes)]
      /\ \/ /\ reporting' = [reporting EXCEPT ![w.dev] =
                 IF Effective(w) THEN @ \union {w.cid}
                 ELSE IF w.what = "undivert" THEN @ \ {w.cid} ELSE @]
            /\ answer \in Packets /\ Hear(answer)
         \/ reporting' = reporting /\ heard' = heard
  BY WriteLemma
<1>2. w.dev \in Devices /\ w.cid \in Cids
  BY <1>1 DEF Writes
<1> HIDE DEF w, answer
<1>3. reporting' \in [Devices -> SUBSET Cids]
  <2>1. reporting \in [Devices -> SUBSET Cids] /\ reporting[w.dev] \in SUBSET Cids
    BY <1>2 DEF TypeOK
  <2>2. PICK keys \in SUBSET Cids :
          reporting' = [reporting EXCEPT ![w.dev] = keys] \/ reporting' = reporting
    <3> DEFINE keys == IF Effective(w) THEN reporting[w.dev] \union {w.cid}
                       ELSE IF w.what = "undivert" THEN reporting[w.dev] \ {w.cid}
                       ELSE reporting[w.dev]
    <3>1. keys \in SUBSET Cids
      BY <1>2, <2>1
    <3>2. reporting' = [reporting EXCEPT ![w.dev] = keys] \/ reporting' = reporting
      BY <1>1
    <3> HIDE DEF keys
    <3> QED BY <3>1, <3>2
  <2> QED BY <2>1, <2>2
<1>4. heard' \in [Receivers -> Seq(Packets)]
  BY <1>1, HearLemma DEF TypeOK
<1> QED BY <1>1, <1>3, <1>4 DEF DoWrite, TypeOK, knownVars, hidVars, stopVars

LEMMA ShutdownType == TypeOK /\ Shutdown => TypeOK'
<1> SUFFICES ASSUME TypeOK, Shutdown PROVE TypeOK'
  OBVIOUS
<1>1. PICK order \in InOrder(Devices \ analytics) : flags' = flags \o Undiverts(order)
  BY DEF Shutdown, Undiverts
<1>2. Undiverts(order) \in Seq(Flags)
  BY <1>1, UndivertsLemma
<1>3. flags' \in Seq(Flags)
  BY <1>1, <1>2 DEF TypeOK
<1>4. disturbed' \subseteq Devices
  BY DEF Shutdown
<1> QED BY <1>3, <1>4 DEF Shutdown, TypeOK, deviceVars, knownVars, hidVars

LEMMA NextType == TypeOK /\ [Next]_vars => TypeOK'
<1> SUFFICES ASSUME TypeOK, [Next]_vars PROVE TypeOK'
  OBVIOUS
<1>1. CASE UNCHANGED vars
  BY <1>1 DEF vars, deviceVars, knownVars, hidVars, stopVars, TypeOK
<1> QED BY <1>1, HappensType, ListenType, SubscribersType, FlagsType, WriteType, ShutdownType DEF Next

\* The state of key reporting always has the types declared in KeyReports.
THEOREM TypeCorrect == Spec => []TypeOK
BY InitType, NextType, PTL DEF Spec

----------------------------------------------------------------------------
\* The order of a queue: every element of A has a b after it; some a has a b
\* before it.
Followed(q, A, b) ==
  \A i \in 1..Len(q) : q[i] \in A => \E j \in 1..Len(q) : i < j /\ q[j] = b
Precedes(q, b, a) == \E i, j \in 1..Len(q) : i < j /\ q[i] = b /\ q[j] = a

Up(d) == Connection(d, TRUE)
Down(d) == Connection(d, FALSE)
Heard(d) == heard[Pid(d)]

\* What holds on the side: packets and writes are in the queues of the receiver
\* of their device; a device that is away reports nothing; one that accepts
\* analytics is never diverted; only the shutdown undoes anything; and only a
\* device whose keys can be diverted, or that accepts analytics, reports them.
OwnQueues ==
  \A r \in Receivers :
    /\ \A p \in Range(heard[r]) : Pid(p.dev) = r
    /\ \A w \in Range(writes[r]) : Pid(w.dev) = r
LinkInv ==
  /\ \A d \in link : Pid(d) \in up
  /\ \A d \in Devices \ link : reporting[d] = {}
AcceptInv ==
  \A d \in Accepting :
    /\ d \in analytics
    /\ \A w \in Range(writes[Pid(d)]) : w.dev = d => w.what = "analytics"
    /\ \A cid \in Cids : Response(d, cid, TRUE) \notin Range(Heard(d)) \union Range(responses)
EnableInv ==
  ~stopping => /\ \A f \in Range(flags) : f.enable
               /\ \A r \in Receivers : \A w \in Range(writes[r]) : w.what # "undivert"
DivertInv ==
  \A d \in Devices \ (Accepting \union Divertable) :
    /\ reporting[d] = {}
    /\ \A w \in Range(writes[Pid(d)]) : w.dev = d => w.what # "divert"
SideInv == OwnQueues /\ LinkInv /\ AcceptInv /\ EnableInv /\ DivertInv

\* The reports on their way leave d marked as not connected.
GoesDown(d) ==
  /\ Followed(Heard(d), {Up(d)}, Down(d))
  /\ Followed(connections, {Up(d)}, Down(d)) \/ Down(d) \in Range(Heard(d))
  /\ d \in connected => Down(d) \in Range(Heard(d)) \union Range(connections)
\* One of them will be taken for a reconnection.
Rises(d) ==
  \/ Precedes(Heard(d), Down(d), Up(d))
  \/ Up(d) \in Range(Heard(d)) /\ (Down(d) \in Range(connections) \/ d \notin connected)
  \/ Precedes(connections, Down(d), Up(d))
  \/ Up(d) \in Range(connections) /\ d \notin connected

DownOf(d) ==
  /\ Pid(d) \in up => Pid(d) \notin Range(losses)
  /\ Pid(d) \notin up => Up(d) \notin Range(Heard(d))
  /\ d \notin link => Pid(d) \in Range(losses) \/ GoesDown(d)
DownInv == \A d \in Devices \ overtaken : DownOf(d)

\* The write that makes a device report a key.
Good(d) == IF d \in Accepting THEN "analytics" ELSE "divert"

\* Something on its way will make d report the key.
Due(d, cid) ==
  \/ Rises(d)
  \/ Wake(d) \in Range(Heard(d)) \union Range(wakes)
  \/ d \in FoundBySlot(d) /\ Unset(d, cid) \in Range(Heard(d)) \union Range(unsets)
  \/ \E cids \in SUBSET Cids : cid \in cids /\ SetFlag(d, cids, TRUE) \in Range(flags)
  \/ Write(d, cid, Good(d)) \in Range(writes[Pid(d)])
  \/ /\ d \in analytics \ Accepting
     /\ \E c \in Cids : \/ Write(d, c, "analytics") \in Range(writes[Pid(d)])
                        \/ Response(d, c, TRUE) \in Range(Heard(d)) \union Range(responses)
Served == (link \intersect (Accepting \union Divertable)) \ (missed \union overtaken)
DueInv == ~stopping => \A d \in Served : \A cid \in Cids \ reporting[d] : Due(d, cid)

\* After the shutdown, nothing on its way makes d report its keys for good.
Enables(d) == {SetFlag(d, cids, TRUE) : cids \in SUBSET Cids}
LeftAlone(d) ==
  /\ d \notin analytics /\ Pid(d) \notin Range(losses)
  /\ \A isUp \in BOOLEAN :
       Connection(d, isUp) \notin Range(Heard(d)) \union Range(connections)
  /\ Wake(d) \notin Range(Heard(d)) \union Range(wakes)
  /\ \A e \in Devices, cid \in Cids :
       d \in FoundBySlot(e) => Unset(e, cid) \notin Range(Heard(e)) \union Range(unsets)
ToBeReleased(d) ==
  /\ SetFlag(d, Cids, FALSE) \in Range(flags)
  /\ Followed(flags, Enables(d), SetFlag(d, Cids, FALSE))
Released(d, cid) ==
  /\ Range(flags) \intersect Enables(d) = {}
  /\ Followed(writes[Pid(d)], {Write(d, cid, "divert")}, Write(d, cid, "undivert"))
  /\ Write(d, cid, "undivert") \in Range(writes[Pid(d)]) \/ cid \notin reporting[d]
ReleaseInv ==
  stopping => \A d \in Devices \ disturbed :
    /\ LeftAlone(d)
    /\ d \in Divertable => \A cid \in Cids : ToBeReleased(d) \/ Released(d, cid)

\* How the order of a queue changes.
LEMMA FollowedTail ==
  ASSUME NEW S, NEW q \in Seq(S), q # <<>>, NEW A, NEW b, Followed(q, A, b)
  PROVE  /\ Followed(Tail(q), A, b)
         /\ Head(q) \in A => b \in Range(Tail(q))
<1>1. Len(q) \in Nat /\ Len(Tail(q)) = Len(q) - 1 /\ DOMAIN Tail(q) = 1..Len(Tail(q)) /\ Head(q) = q[1]
  OBVIOUS
<1>2. \A i \in 1..Len(Tail(q)) : Tail(q)[i] = q[i + 1] /\ i + 1 \in 1..Len(q)
  BY <1>1
<1>3. ASSUME NEW i \in 1..Len(Tail(q)), Tail(q)[i] \in A
      PROVE  \E j \in 1..Len(Tail(q)) : i < j /\ Tail(q)[j] = b
  <2>1. PICK j \in 1..Len(q) : i + 1 < j /\ q[j] = b
    BY <1>2, <1>3 DEF Followed
  <2>2. j - 1 \in 1..Len(Tail(q)) /\ i < j - 1 /\ Tail(q)[j - 1] = b
    BY <1>1, <1>2, <2>1
  <2> QED BY <2>2
<1>4. ASSUME Head(q) \in A PROVE b \in Range(Tail(q))
  <2>1. PICK j \in 1..Len(q) : 1 < j /\ q[j] = b
    BY <1>1, <1>4 DEF Followed
  <2>2. j - 1 \in 1..Len(Tail(q)) /\ Tail(q)[j - 1] = b
    BY <1>1, <1>2, <2>1
  <2> QED BY <1>1, <2>2 DEF Range
<1> QED BY <1>3, <1>4 DEF Followed

LEMMA FollowedConcat ==
  ASSUME NEW S, NEW q \in Seq(S), NEW p \in Seq(S), NEW A, NEW b,
         Range(p) \intersect A = {}, Followed(q, A, b) \/ b \in Range(p)
  PROVE  Followed(q \o p, A, b)
<1>1. /\ Len(q) \in Nat /\ Len(p) \in Nat /\ Len(q \o p) = Len(q) + Len(p)
      /\ \A i \in 1..Len(q) : (q \o p)[i] = q[i]
      /\ \A i \in 1..Len(p) : (q \o p)[Len(q) + i] = p[i]
      /\ DOMAIN p = 1..Len(p)
  OBVIOUS
<1>2. SUFFICES ASSUME NEW i \in 1..Len(q \o p), (q \o p)[i] \in A
               PROVE  \E j \in 1..Len(q \o p) : i < j /\ (q \o p)[j] = b
  BY DEF Followed
<1>3. i \in 1..Len(q)
  <2>1. ASSUME i > Len(q) PROVE FALSE
    <3>1. i - Len(q) \in 1..Len(p) /\ (q \o p)[i] = p[i - Len(q)]
      BY <1>1, <1>2, <2>1
    <3>2. p[i - Len(q)] \in Range(p)
      BY <1>1, <3>1 DEF Range
    <3> QED BY <1>2, <3>1, <3>2
  <2> QED BY <1>1, <2>1
<1>4. CASE Followed(q, A, b)
  <2>1. PICK j \in 1..Len(q) : i < j /\ q[j] = b
    BY <1>1, <1>2, <1>3, <1>4 DEF Followed
  <2>2. j \in 1..Len(q \o p) /\ (q \o p)[j] = b
    BY <1>1, <2>1
  <2> QED BY <2>1, <2>2
<1>5. CASE b \in Range(p)
  <2>1. PICK j \in 1..Len(p) : p[j] = b
    BY <1>1, <1>5 DEF Range
  <2>2. Len(q) + j \in 1..Len(q \o p) /\ (q \o p)[Len(q) + j] = b /\ i < Len(q) + j
    BY <1>1, <1>3, <2>1
  <2> QED BY <2>2
<1> QED BY <1>4, <1>5

LEMMA FollowedAppend ==
  ASSUME NEW S, NEW q \in Seq(S), NEW e \in S, NEW A, NEW b,
         e \notin A, Followed(q, A, b) \/ e = b
  PROVE  Followed(Append(q, e), A, b)
<1>1. Append(q, e) = q \o <<e>> /\ <<e>> \in Seq(S)
  OBVIOUS
<1>2. Range(<<e>>) = {e}
  BY DEF Range
<1> QED BY <1>1, <1>2, FollowedConcat

LEMMA PrecedesTail ==
  ASSUME NEW S, NEW q \in Seq(S), q # <<>>, NEW a, NEW b, Precedes(q, b, a)
  PROVE  Precedes(Tail(q), b, a) \/ (Head(q) = b /\ a \in Range(Tail(q)))
<1>1. Len(q) \in Nat /\ Len(Tail(q)) = Len(q) - 1 /\ DOMAIN Tail(q) = 1..Len(Tail(q)) /\ Head(q) = q[1]
  OBVIOUS
<1>2. \A i \in 1..Len(Tail(q)) : Tail(q)[i] = q[i + 1]
  BY <1>1
<1>3. PICK i \in 1..Len(q), j \in 1..Len(q) : i < j /\ q[i] = b /\ q[j] = a
  BY DEF Precedes
<1>4. j - 1 \in 1..Len(Tail(q)) /\ Tail(q)[j - 1] = a
  BY <1>1, <1>2, <1>3
<1>5. CASE i = 1
  BY <1>1, <1>3, <1>4, <1>5 DEF Range
<1>6. CASE i # 1
  <2>1. i - 1 \in 1..Len(Tail(q)) /\ Tail(q)[i - 1] = b /\ i - 1 < j - 1
    BY <1>1, <1>2, <1>3, <1>6
  <2> QED BY <1>4, <2>1 DEF Precedes
<1> QED BY <1>5, <1>6

LEMMA PrecedesConcat ==
  ASSUME NEW S, NEW q \in Seq(S), NEW p \in Seq(S), NEW a, NEW b
  PROVE  /\ Precedes(q, b, a) => Precedes(q \o p, b, a)
         /\ b \in Range(q) /\ a \in Range(p) => Precedes(q \o p, b, a)
<1>1. /\ Len(q) \in Nat /\ Len(p) \in Nat /\ Len(q \o p) = Len(q) + Len(p)
      /\ \A i \in 1..Len(q) : (q \o p)[i] = q[i]
      /\ \A i \in 1..Len(p) : (q \o p)[Len(q) + i] = p[i]
      /\ DOMAIN p = 1..Len(p) /\ DOMAIN q = 1..Len(q)
  OBVIOUS
<1>2. ASSUME Precedes(q, b, a) PROVE Precedes(q \o p, b, a)
  <2>1. PICK i \in 1..Len(q), j \in 1..Len(q) : i < j /\ q[i] = b /\ q[j] = a
    BY <1>2 DEF Precedes
  <2>2. i \in 1..Len(q \o p) /\ j \in 1..Len(q \o p)
    BY <1>1
  <2> QED BY <1>1, <2>1, <2>2 DEF Precedes
<1>3. ASSUME b \in Range(q), a \in Range(p) PROVE Precedes(q \o p, b, a)
  <2>1. PICK i \in 1..Len(q), j \in 1..Len(p) : q[i] = b /\ p[j] = a
    BY <1>1, <1>3 DEF Range
  <2>2. /\ i \in 1..Len(q \o p) /\ Len(q) + j \in 1..Len(q \o p) /\ i < Len(q) + j
        /\ (q \o p)[i] = b /\ (q \o p)[Len(q) + j] = a
    BY <1>1, <2>1
  <2> QED BY <2>2 DEF Precedes
<1> QED BY <1>2, <1>3

LEMMA PrecedesAppend ==
  ASSUME NEW S, NEW q \in Seq(S), NEW e \in S, NEW a, NEW b
  PROVE  /\ Precedes(q, b, a) => Precedes(Append(q, e), b, a)
         /\ b \in Range(q) /\ a = e => Precedes(Append(q, e), b, a)
<1>1. Append(q, e) = q \o <<e>> /\ <<e>> \in Seq(S)
  OBVIOUS
<1>2. Range(<<e>>) = {e}
  BY DEF Range
<1> QED BY <1>1, <1>2, PrecedesConcat

LEMMA OrderEmpty ==
  ASSUME NEW A, NEW a, NEW b
  PROVE  Followed(<<>>, A, b) /\ ~Precedes(<<>>, b, a)
BY DEF Followed, Precedes

LEMMA FollowedRange ==
  ASSUME NEW S, NEW q \in Seq(S), NEW A, NEW b, Followed(q, A, b), b \notin Range(q)
  PROVE  Range(q) \intersect A = {}
BY DEF Followed, Range

----------------------------------------------------------------------------
\* What each step adds to the queues and takes from them, as sets.
LEMMA QueueTypes ==
  ASSUME TypeOK
  PROVE  /\ heard \in [Receivers -> Seq(Packets)] /\ writes \in [Receivers -> Seq(Writes)]
         /\ connections \in Seq(Connections) /\ losses \in Seq(Receivers)
         /\ unsets \in Seq(Unsets) /\ responses \in Seq(Responses) /\ wakes \in Seq(Wakes)
         /\ flags \in Seq(Flags)
         /\ \A d \in Devices : /\ Pid(d) \in Receivers /\ Heard(d) \in Seq(Packets)
                               /\ writes[Pid(d)] \in Seq(Writes)
BY DEF TypeOK, Heard, Receivers

LEMMA HearRange ==
  ASSUME TypeOK, NEW packet \in Packets, Hear(packet)
  PROVE  /\ packet.dev \in Devices
         /\ \A r \in Receivers :
              Range(heard'[r]) = Range(heard[r]) \union (IF r = Pid(packet.dev) THEN {packet} ELSE {})
<1>1. packet.dev \in Devices
  BY DEF Packets, Connections, Unsets, Responses, Wakes
<1>2. heard[Pid(packet.dev)] \in Seq(Packets)
  BY <1>1, QueueTypes
<1>3. Range(Append(heard[Pid(packet.dev)], packet)) = Range(heard[Pid(packet.dev)]) \union {packet}
  BY <1>2, RangeAppend
<1> QED BY <1>1, <1>3, HearLemma

LEMMA ReplugRange ==
  ASSUME TypeOK, NEW r \in Receivers, Replug(r)
  PROVE  \E back \in SUBSET {d \in Devices : Pid(d) = r} :
           \E reports \in Seq(Packets) :
             /\ link' = link \union back
             /\ heard'[r] = heard[r] \o reports
             /\ Range(reports) = {Connection(d, d \in back) : d \in {e \in Devices : Pid(e) = r}}
             /\ Range(heard'[r]) = Range(heard[r]) \union Range(reports)
             /\ \A o \in Receivers : o # r => heard'[o] = heard[o]
<1> DEFINE D == {d \in Devices : Pid(d) = r}
<1>1. PICK back \in SUBSET D, order \in InOrder(D) :
        link' = link \union back /\ heard' = [heard EXCEPT ![r] = @ \o Reports(order, back)]
  BY DEF Replug
<1>2. D \in SUBSET Devices
  OBVIOUS
<1> HIDE DEF D
<1>3. /\ Reports(order, back) \in Seq(Connections)
      /\ Range(Reports(order, back)) = {Connection(d, d \in back) : d \in D}
  BY <1>1, <1>2, ReportsLemma
<1>4. Reports(order, back) \in Seq(Packets)
  BY <1>3 DEF Packets
<1>5. heard \in [Receivers -> Seq(Packets)]
  BY QueueTypes
<1>6. heard'[r] = heard[r] \o Reports(order, back) /\ \A o \in Receivers : o # r => heard'[o] = heard[o]
  BY <1>1, <1>5
<1>7. Range(heard'[r]) = Range(heard[r]) \union Range(Reports(order, back))
  BY <1>4, <1>5, <1>6, RangeConcat
<1> QED BY <1>1, <1>3, <1>4, <1>6, <1>7 DEF D

LEMMA ListenRange ==
  ASSUME TypeOK, NEW r \in Receivers, Listen(r)
  PROVE  LET packet == Head(heard[r])
         IN /\ packet \in Packets
            /\ \A o \in Receivers :
                 Range(heard[o]) = Range(heard'[o]) \union (IF o = r THEN {packet} ELSE {})
            /\ Range(connections') = Range(connections) \union ({packet} \intersect Connections)
            /\ Range(unsets') = Range(unsets) \union ({packet} \intersect Unsets)
            /\ Range(responses') = Range(responses) \union ({packet} \intersect Responses)
            /\ Range(wakes') = Range(wakes) \union ({packet} \intersect Wakes)
<1> DEFINE packet == Head(heard[r])
<1>1. /\ packet \in Packets /\ heard[r] \in Seq(Packets) /\ heard[r] # <<>>
      /\ heard'[r] = Tail(heard[r])
      /\ \A other \in Receivers : other # r => heard'[other] = heard[other]
      /\ IF packet \in Connections THEN connections' = Append(connections, packet)
                                   ELSE connections' = connections
      /\ IF packet \in Unsets THEN unsets' = Append(unsets, packet) ELSE unsets' = unsets
      /\ IF packet \in Responses THEN responses' = Append(responses, packet)
                                 ELSE responses' = responses
      /\ IF packet \in Wakes THEN wakes' = Append(wakes, packet) ELSE wakes' = wakes
  BY ListenLemma
<1>2. Range(heard[r]) = {packet} \union Range(Tail(heard[r]))
  BY <1>1, RangeTail
<1> HIDE DEF packet
<1>3. \A o \in Receivers : Range(heard[o]) = Range(heard'[o]) \union (IF o = r THEN {packet} ELSE {})
  BY <1>1, <1>2
<1>4. Range(connections') = Range(connections) \union ({packet} \intersect Connections)
  <2>1. packet \in Connections => Range(Append(connections, packet)) = Range(connections) \union {packet}
    BY QueueTypes, RangeAppend
  <2> QED BY <1>1, <2>1
<1>5. Range(unsets') = Range(unsets) \union ({packet} \intersect Unsets)
  <2>1. packet \in Unsets => Range(Append(unsets, packet)) = Range(unsets) \union {packet}
    BY QueueTypes, RangeAppend
  <2> QED BY <1>1, <2>1
<1>6. Range(responses') = Range(responses) \union ({packet} \intersect Responses)
  <2>1. packet \in Responses => Range(Append(responses, packet)) = Range(responses) \union {packet}
    BY QueueTypes, RangeAppend
  <2> QED BY <1>1, <2>1
<1>7. Range(wakes') = Range(wakes) \union ({packet} \intersect Wakes)
  <2>1. packet \in Wakes => Range(Append(wakes, packet)) = Range(wakes) \union {packet}
    BY QueueTypes, RangeAppend
  <2> QED BY <1>1, <2>1
<1> QED BY <1>1, <1>3, <1>4, <1>5, <1>6, <1>7 DEF packet

LEMMA SetAgainRange ==
  ASSUME TypeOK, NEW d \in Devices, NEW cids \in SUBSET Cids, SetAgain(d, cids)
  PROVE  /\ flags' = Append(flags, SetFlag(d, cids, TRUE)) /\ SetFlag(d, cids, TRUE) \in Flags
         /\ Range(flags') = Range(flags) \union {SetFlag(d, cids, TRUE)}
<1> DEFINE f == SetFlag(d, cids, TRUE)
<1>1. f \in Flags
  BY PacketTypes
<1>2. flags \in Seq(Flags)
  BY QueueTypes
<1>3. flags' = Append(flags, f)
  BY DEF SetAgain
<1> HIDE DEF f
<1>4. Range(Append(flags, f)) = Range(flags) \union {f}
  BY <1>1, <1>2, RangeAppend
<1> QED BY <1>1, <1>3, <1>4 DEF f

LEMMA LossRange ==
  ASSUME TypeOK, HandleLoss
  PROVE  /\ Head(losses) \in Receivers /\ Range(losses) = {Head(losses)} \union Range(losses')
         /\ \E reports \in Seq(Connections) :
              /\ connections' = connections \o reports
              /\ Range(reports) = {Down(d) : d \in {e \in Devices : Pid(e) = Head(losses)}}
              /\ Range(connections') = Range(connections) \union Range(reports)
<1> DEFINE D == {d \in Devices : Pid(d) = Head(losses)}
<1>1. PICK lost \in InOrder(D) : connections' = connections \o Reports(lost, {})
  BY DEF HandleLoss
<1>2. D \in SUBSET Devices
  OBVIOUS
<1>3. Head(losses) \in Receivers /\ Range(losses) = {Head(losses)} \union Range(losses')
  BY QueueTypes, RangeTail DEF HandleLoss
<1> HIDE DEF D
<1>4. /\ Reports(lost, {}) \in Seq(Connections)
      /\ Range(Reports(lost, {})) = {Connection(d, d \in {}) : d \in D}
  BY <1>1, <1>2, ReportsLemma
<1>5. Range(Reports(lost, {})) = {Down(d) : d \in D}
  <2>1. \A d \in D : Connection(d, d \in {}) = Down(d)
    <3>1. \A d \in D : (d \in {}) = FALSE
      OBVIOUS
    <3> QED BY <3>1 DEF Down
  <2> QED BY <1>4, <2>1
<1>6. Range(connections') = Range(connections) \union Range(Reports(lost, {}))
  BY <1>1, <1>4, QueueTypes, RangeConcat
<1> QED BY <1>1, <1>3, <1>4, <1>5, <1>6 DEF D

LEMMA ConnectionRange ==
  ASSUME TypeOK, HandleConnection
  PROVE  LET event == Head(connections)
         IN /\ event \in Connections /\ event.dev \in Devices /\ connections # <<>>
            /\ event = Connection(event.dev, event.up)
            /\ connections' = Tail(connections)
            /\ Range(connections) = {event} \union Range(connections')
            /\ connected' = IF event.up THEN connected \union {event.dev} ELSE connected \ {event.dev}
            /\ IF event.dev \notin connected /\ event.up THEN SetAgain(event.dev, Cids) ELSE flags' = flags
<1> DEFINE event == Head(connections)
<1>1. /\ connections # <<>> /\ connections' = Tail(connections)
      /\ connected' = IF event.up THEN connected \union {event.dev} ELSE connected \ {event.dev}
      /\ IF ((event.dev \in connected) # event.up) /\ event.up
         THEN SetAgain(event.dev, Cids) ELSE flags' = flags
  BY DEF HandleConnection
<1>2. event \in Connections /\ Range(connections) = {event} \union Range(Tail(connections))
  BY <1>1, QueueTypes, RangeTail
<1> HIDE DEF event
<1>3. event.dev \in Devices /\ event.up \in BOOLEAN /\ event = Connection(event.dev, event.up)
  BY <1>2 DEF Connections, Connection
<1>4. ((event.dev \in connected) # event.up) /\ event.up <=> event.dev \notin connected /\ event.up
  BY <1>3
<1> QED BY <1>1, <1>2, <1>3, <1>4 DEF event

LEMMA UnsetRange ==
  ASSUME TypeOK, HandleUnset
  PROVE  LET event == Head(unsets)
         IN /\ event \in Unsets /\ event.dev \in Devices /\ event.cid \in Cids
            /\ event = Unset(event.dev, event.cid)
            /\ Range(unsets) = {event} \union Range(unsets')
            /\ \E device \in FoundBySlot(event.dev) :
                 /\ device \in Devices
                 /\ IF ReprogIndex(device) = ReprogIndex(event.dev)
                    THEN SetAgain(device, {event.cid}) ELSE flags' = flags
<1> DEFINE event == Head(unsets)
<1>1. /\ unsets # <<>> /\ unsets' = Tail(unsets)
      /\ \E device \in FoundBySlot(event.dev) :
           IF ReprogIndex(device) = ReprogIndex(event.dev)
           THEN SetAgain(device, {event.cid}) ELSE flags' = flags
  BY DEF HandleUnset
<1>2. event \in Unsets /\ Range(unsets) = {event} \union Range(Tail(unsets))
  BY <1>1, QueueTypes, RangeTail
<1> HIDE DEF event
<1>3. event.dev \in Devices /\ event.cid \in Cids /\ event = Unset(event.dev, event.cid)
  BY <1>2 DEF Unsets, Unset
<1>4. FoundBySlot(event.dev) \subseteq Devices
  BY <1>3, SlotLemma
<1> QED BY <1>1, <1>2, <1>3, <1>4 DEF event

LEMMA ResponseRange ==
  ASSUME TypeOK, HandleResponse
  PROVE  LET event == Head(responses)
         IN /\ event \in Responses /\ event.dev \in Devices /\ event.cid \in Cids
            /\ event.zero \in BOOLEAN /\ event = Response(event.dev, event.cid, event.zero)
            /\ Range(responses) = {event} \union Range(responses')
            /\ IF event.dev \in analytics /\ event.zero
               THEN analytics' = analytics \ {event.dev} /\ SetAgain(event.dev, Cids)
               ELSE analytics' = analytics /\ flags' = flags
<1> DEFINE event == Head(responses)
<1>1. /\ responses # <<>> /\ responses' = Tail(responses)
      /\ IF event.dev \in analytics /\ event.zero
         THEN analytics' = analytics \ {event.dev} /\ SetAgain(event.dev, Cids)
         ELSE analytics' = analytics /\ flags' = flags
  BY DEF HandleResponse
<1>2. event \in Responses /\ Range(responses) = {event} \union Range(Tail(responses))
  BY <1>1, QueueTypes, RangeTail
<1> HIDE DEF event
<1>3. /\ event.dev \in Devices /\ event.cid \in Cids /\ event.zero \in BOOLEAN
      /\ event = Response(event.dev, event.cid, event.zero)
  BY <1>2 DEF Responses, Response
<1> QED BY <1>1, <1>2, <1>3 DEF event

LEMMA WakeRange ==
  ASSUME TypeOK, HandleWake
  PROVE  LET event == Head(wakes)
         IN /\ event \in Wakes /\ event.dev \in Devices /\ event = Wake(event.dev)
            /\ Range(wakes) = {event} \union Range(wakes')
            /\ SetAgain(event.dev, Cids)
<1> DEFINE event == Head(wakes)
<1>1. wakes # <<>> /\ wakes' = Tail(wakes) /\ SetAgain(event.dev, Cids)
  BY DEF HandleWake
<1>2. event \in Wakes /\ Range(wakes) = {event} \union Range(Tail(wakes))
  BY <1>1, QueueTypes, RangeTail
<1> HIDE DEF event
<1>3. event.dev \in Devices /\ event = Wake(event.dev)
  BY <1>2 DEF Wakes, Wake
<1> QED BY <1>1, <1>2, <1>3 DEF event

LEMMA FlagsRange ==
  ASSUME TypeOK, HandleFlags
  PROVE  LET event == Head(flags)
             d == event.dev
         IN /\ event \in Flags /\ d \in Devices /\ event.cids \in SUBSET Cids /\ event.enable \in BOOLEAN
            /\ event = SetFlag(d, event.cids, event.enable)
            /\ flags # <<>> /\ flags' = Tail(flags) /\ Range(flags) = {event} \union Range(flags')
            /\ \E added \in Seq(Writes) :
                 /\ Range(added) = IF d \in analytics \union Divertable
                                   THEN {Write(d, cid, Form(d, event.enable)) : cid \in event.cids}
                                   ELSE {}
                 /\ writes'[Pid(d)] = writes[Pid(d)] \o added
                 /\ Range(writes'[Pid(d)]) = Range(writes[Pid(d)]) \union Range(added)
            /\ \A r \in Receivers : r # Pid(d) => writes'[r] = writes[r]
<1> DEFINE event == Head(flags)
           d == event.dev
           form == Form(d, event.enable)
<1>1. /\ event \in Flags /\ flags # <<>> /\ flags' = Tail(flags)
      /\ form \in {"analytics", "divert", "undivert"}
      /\ IF d \in analytics \union Divertable
         THEN \E order \in SetToSeqs(event.cids) :
                writes' = [writes EXCEPT ![Pid(d)] = @ \o Settings(order, d, form)]
         ELSE writes' = writes
  BY FlagsLemma
<1>2. Range(flags) = {event} \union Range(flags')
  BY <1>1, QueueTypes, RangeTail
<1> HIDE DEF event, form
<1>3. /\ d \in Devices /\ event.cids \in SUBSET Cids /\ event.enable \in BOOLEAN
      /\ event = SetFlag(d, event.cids, event.enable)
  BY <1>1 DEF Flags, SetFlag
<1>4. /\ Pid(d) \in Receivers /\ writes \in [Receivers -> Seq(Writes)] /\ writes[Pid(d)] \in Seq(Writes)
  BY <1>3, QueueTypes
<1>5. /\ \E added \in Seq(Writes) :
           /\ Range(added) = IF d \in analytics \union Divertable
                             THEN {Write(d, cid, form) : cid \in event.cids} ELSE {}
           /\ writes'[Pid(d)] = writes[Pid(d)] \o added
           /\ Range(writes'[Pid(d)]) = Range(writes[Pid(d)]) \union Range(added)
      /\ \A r \in Receivers : r # Pid(d) => writes'[r] = writes[r]
  <2> HIDE DEF d
  <2>1. CASE d \in analytics \union Divertable
    <3>1. PICK order \in SetToSeqs(event.cids) :
            writes' = [writes EXCEPT ![Pid(d)] = @ \o Settings(order, d, form)]
      BY <1>1, <2>1
    <3> DEFINE added == Settings(order, d, form)
    <3>2. added \in Seq(Writes) /\ Range(added) = {Write(d, cid, form) : cid \in event.cids}
      BY <1>1, <1>3, <3>1, SettingsLemma
    <3> HIDE DEF added
    <3>3. /\ writes'[Pid(d)] = writes[Pid(d)] \o added
          /\ \A r \in Receivers : r # Pid(d) => writes'[r] = writes[r]
      BY <1>4, <3>1 DEF added
    <3>4. Range(writes'[Pid(d)]) = Range(writes[Pid(d)]) \union Range(added)
      BY <1>4, <3>2, <3>3, RangeConcat
    <3> QED BY <2>1, <3>2, <3>3, <3>4
  <2>2. CASE d \notin analytics \union Divertable
    <3>1. writes' = writes
      BY <1>1, <2>2
    <3>2. <<>> \in Seq(Writes) /\ writes[Pid(d)] \o <<>> = writes[Pid(d)]
      BY <1>4
    <3> QED BY <2>2, <3>1, <3>2, RangeEmpty
  <2> QED BY <2>1, <2>2
<1> QED BY <1>1, <1>2, <1>3, <1>5 DEF event, form

LEMMA WriteRange ==
  ASSUME TypeOK, NEW r \in Receivers, DoWrite(r)
  PROVE  LET w == Head(writes[r])
         IN /\ w \in Writes /\ w.dev \in Devices /\ w.cid \in Cids /\ w = Write(w.dev, w.cid, w.what)
            /\ w.what \in {"analytics", "divert", "undivert"}
            /\ writes'[r] = Tail(writes[r]) /\ writes[r] # <<>>
            /\ \A o \in Receivers : o # r => writes'[o] = writes[o]
            /\ Range(writes[r]) = {w} \union Range(writes'[r])
            /\ \A o \in Receivers : o # Pid(w.dev) => heard'[o] = heard[o]
            /\ IF w.dev \in link
               THEN /\ reporting' = [reporting EXCEPT ![w.dev] =
                         IF Effective(w) THEN @ \union {w.cid}
                         ELSE IF w.what = "undivert" THEN @ \ {w.cid} ELSE @]
                    /\ Hear(Response(w.dev, w.cid, ~(w.what = "analytics" /\ Effective(w))))
                    /\ Response(w.dev, w.cid, ~(w.what = "analytics" /\ Effective(w))) \in Packets
               ELSE reporting' = reporting /\ heard' = heard
<1> DEFINE w == Head(writes[r])
           answer == Response(w.dev, w.cid, ~(w.what = "analytics" /\ Effective(w)))
<1>1. /\ w \in Writes /\ writes[r] # <<>> /\ writes[r] \in Seq(Writes)
      /\ writes'[r] = Tail(writes[r])
      /\ \A other \in Receivers : other # r => writes'[other] = writes[other]
      /\ IF w.dev \in link
         THEN /\ reporting' = [reporting EXCEPT ![w.dev] =
                   IF Effective(w) THEN @ \union {w.cid}
                   ELSE IF w.what = "undivert" THEN @ \ {w.cid} ELSE @]
              /\ answer \in Packets /\ Hear(answer)
         ELSE reporting' = reporting /\ heard' = heard
  BY WriteLemma
<1>2. Range(writes[r]) = {w} \union Range(Tail(writes[r]))
  BY <1>1, RangeTail
<1>3. answer.dev = w.dev
  BY DEF Response
<1> HIDE DEF w, answer
<1>4. /\ w.dev \in Devices /\ w.cid \in Cids /\ w = Write(w.dev, w.cid, w.what)
      /\ w.what \in {"analytics", "divert", "undivert"}
  BY <1>1 DEF Writes, Write
<1>5. \A o \in Receivers : o # Pid(w.dev) => heard'[o] = heard[o]
  BY <1>1, <1>3, HearLemma
<1> QED BY <1>1, <1>2, <1>4, <1>5 DEF w, answer

LEMMA ShutdownRange ==
  ASSUME TypeOK, Shutdown
  PROVE  \E added \in Seq(Flags) :
           /\ flags' = flags \o added
           /\ Range(added) = {SetFlag(d, Cids, FALSE) : d \in Devices \ analytics}
           /\ Range(flags') = Range(flags) \union Range(added)
<1>1. PICK order \in InOrder(Devices \ analytics) : flags' = flags \o Undiverts(order)
  BY DEF Shutdown, Undiverts
<1>2. /\ Undiverts(order) \in Seq(Flags)
      /\ Range(Undiverts(order)) = {SetFlag(d, Cids, FALSE) : d \in Devices \ analytics}
  BY <1>1, UndivertsLemma
<1> DEFINE added == Undiverts(order)
<1>3. added \in Seq(Flags) /\ flags' = flags \o added
  BY <1>1, <1>2
<1>4. Range(added) = {SetFlag(d, Cids, FALSE) : d \in Devices \ analytics}
  BY <1>2
<1> HIDE DEF added
<1>5. flags \in Seq(Flags)
  BY QueueTypes
<1>6. Range(flags') = Range(flags) \union Range(added)
  BY <1>3, <1>5, RangeConcat
<1> QED BY <1>3, <1>4, <1>6

----------------------------------------------------------------------------
\* SideInv.
LEMMA InitSide == Init => SideInv
<1> SUFFICES ASSUME Init PROVE SideInv
  OBVIOUS
<1>1. \A r \in Receivers : Range(heard[r]) = {} /\ Range(writes[r]) = {}
  BY RangeEmpty DEF Init
<1>2. \A d \in Devices : Pid(d) \in Receivers
  BY DEF Receivers
<1>3. OwnQueues
  BY <1>1 DEF OwnQueues
<1>4. LinkInv
  BY <1>2 DEF Init, LinkInv
<1>5. AcceptInv
  <2>1. Range(responses) = {}
    BY RangeEmpty DEF Init
  <2>2. Accepting \subseteq Devices /\ Accepting \subseteq Claiming
    BY ClaimAssumption
  <2> QED BY <1>1, <1>2, <2>1, <2>2 DEF Init, AcceptInv, Heard
<1>6. EnableInv
  <2>1. Range(flags) = {SetFlag(Registered[i], Cids, TRUE) : i \in 1..Len(Registered)}
    BY DEF Init, Range
  <2>2. \A f \in Range(flags) : f.enable
    BY <2>1 DEF SetFlag
  <2> QED BY <1>1, <2>2 DEF EnableInv
<1>7. DivertInv
  BY <1>1, <1>2 DEF Init, DivertInv
<1> QED BY <1>3, <1>4, <1>5, <1>6, <1>7 DEF SideInv

\* A packet that is no answer to a write leaves these facts alone.
LEMMA HearSide ==
  ASSUME TypeOK, SideInv, NEW packet \in Packets \ Responses, Hear(packet),
         UNCHANGED <<analytics, responses, flags, writes, stopping>>
  PROVE  OwnQueues' /\ AcceptInv' /\ EnableInv'
<1>1. /\ packet.dev \in Devices
      /\ \A r \in Receivers :
           Range(heard'[r]) = Range(heard[r]) \union (IF r = Pid(packet.dev) THEN {packet} ELSE {})
  BY HearRange
<1>2. OwnQueues'
  BY <1>1 DEF SideInv, OwnQueues
<1>3. AcceptInv'
  <2>1. \A d \in Accepting : d \in Devices /\ Pid(d) \in Receivers
    BY ClaimAssumption DEF Receivers
  <2>2. \A d \in Accepting, cid \in Cids : Response(d, cid, TRUE) \in Responses
    BY <2>1, PacketTypes
  <2>3. ASSUME NEW d \in Accepting, NEW cid \in Cids
        PROVE  Response(d, cid, TRUE) \notin Range(heard'[Pid(d)])
    <3>1. Response(d, cid, TRUE) \notin Range(heard[Pid(d)])
      BY DEF SideInv, AcceptInv, Heard
    <3> QED BY <1>1, <2>1, <2>2, <3>1
  <2> QED BY <2>3 DEF SideInv, AcceptInv, Heard
<1>4. EnableInv'
  BY DEF SideInv, EnableInv
<1> QED BY <1>2, <1>3, <1>4

LEMMA Kinds ==
  ASSUME NEW p
  PROVE  /\ p \in Connections => p \notin Unsets \union Responses \union Wakes
         /\ p \in Unsets => p \notin Connections \union Responses \union Wakes
         /\ p \in Responses => p \notin Connections \union Unsets \union Wakes
         /\ p \in Wakes => p \notin Connections \union Unsets \union Responses
BY DEF Connections, Unsets, Responses, Wakes

LEMMA HappensSide ==
  ASSUME TypeOK, TypeOK', SideInv, Happens
  PROVE  SideInv'
<1> USE DEF deviceVars, knownVars, hidVars, stopVars
<1>0. \A d \in Devices : Pid(d) \in Receivers
  BY DEF Receivers
<1>1. ASSUME NEW d \in Devices, LinkChanges(d) PROVE SideInv'
  <2>1. (d \in link') \in BOOLEAN
    OBVIOUS
  <2>2. Connection(d, d \in link') \in Packets \ Responses
    BY <2>1, PacketTypes, Kinds DEF Packets
  <2>3. OwnQueues' /\ AcceptInv' /\ EnableInv'
    BY <1>1, <2>2, HearSide DEF LinkChanges
  <2>4. \A e \in Devices : reporting'[e] = IF e = d THEN {} ELSE reporting[e]
    BY <1>1 DEF LinkChanges, TypeOK
  <2>5. LinkInv'
    BY <1>1, <2>4 DEF LinkChanges, SideInv, LinkInv
  <2>6. DivertInv'
    BY <1>1, <2>4 DEF LinkChanges, SideInv, DivertInv
  <2> QED BY <2>3, <2>5, <2>6 DEF SideInv
<1>2. ASSUME NEW d \in Devices, Reset(d) PROVE SideInv'
  <2>1. Wake(d) \in Packets \ Responses
    BY PacketTypes, Kinds DEF Packets
  <2>2. OwnQueues' /\ AcceptInv' /\ EnableInv'
    BY <1>2, <2>1, HearSide DEF Reset
  <2>3. \A e \in Devices : reporting'[e] = IF e = d THEN {} ELSE reporting[e]
    BY <1>2 DEF Reset, TypeOK
  <2>4. LinkInv'
    BY <1>2, <2>3 DEF Reset, SideInv, LinkInv
  <2>5. DivertInv'
    BY <1>2, <2>3 DEF Reset, SideInv, DivertInv
  <2> QED BY <2>2, <2>4, <2>5 DEF SideInv
<1>3. ASSUME NEW d \in Devices, NEW cid \in Cids, TakeBack(d, cid) PROVE SideInv'
  <2>1. Unset(d, cid) \in Packets \ Responses
    BY PacketTypes, Kinds DEF Packets
  <2>2. OwnQueues' /\ AcceptInv' /\ EnableInv'
    BY <1>3, <2>1, HearSide DEF TakeBack
  <2>3. \A e \in Devices : reporting'[e] \subseteq reporting[e]
    BY <1>3 DEF TakeBack, TypeOK
  <2>4. LinkInv'
    BY <1>3, <2>3 DEF TakeBack, SideInv, LinkInv
  <2>5. DivertInv'
    BY <1>3, <2>3 DEF TakeBack, SideInv, DivertInv
  <2> QED BY <2>2, <2>4, <2>5 DEF SideInv
<1>4. ASSUME NEW r \in Receivers, Unplug(r) PROVE SideInv'
  <2>1. OwnQueues' /\ AcceptInv' /\ EnableInv'
    BY <1>4 DEF Unplug, SideInv, OwnQueues, AcceptInv, EnableInv, Heard
  <2>2. \A e \in Devices : reporting'[e] = IF Pid(e) = r THEN {} ELSE reporting[e]
    BY <1>4 DEF Unplug
  <2>3. LinkInv'
    BY <1>4, <2>2 DEF Unplug, SideInv, LinkInv
  <2>4. DivertInv'
    BY <1>4, <2>2 DEF Unplug, SideInv, DivertInv
  <2> QED BY <2>1, <2>3, <2>4 DEF SideInv
<1>5. ASSUME NEW r \in Receivers, Replug(r) PROVE SideInv'
  <2>1. PICK back \in SUBSET {d \in Devices : Pid(d) = r}, reports \in Seq(Packets) :
             /\ link' = link \union back
             /\ Range(reports) = {Connection(d, d \in back) : d \in {e \in Devices : Pid(e) = r}}
             /\ Range(heard'[r]) = Range(heard[r]) \union Range(reports)
             /\ \A o \in Receivers : o # r => heard'[o] = heard[o]
    BY <1>5, ReplugRange
  <2>2. \A p \in Range(reports) : Pid(p.dev) = r /\ p \in Connections
    <3> SUFFICES ASSUME NEW d \in Devices, Pid(d) = r
                 PROVE  Pid(Connection(d, d \in back).dev) = r /\ Connection(d, d \in back) \in Connections
      BY <2>1
    <3>1. Connection(d, d \in back).dev = d
      BY DEF Connection
    <3>2. (d \in back) \in BOOLEAN
      OBVIOUS
    <3> QED BY <3>1, <3>2, PacketTypes
  <2>3. UNCHANGED <<analytics, responses, flags, writes, stopping, reporting>> /\ up' = up \union {r}
    BY <1>5 DEF Replug
  <2>4. OwnQueues'
    BY <2>1, <2>2, <2>3 DEF SideInv, OwnQueues
  <2>5. AcceptInv'
    <3>1. \A d \in Accepting : d \in Devices
      BY ClaimAssumption
    <3>2. \A d \in Accepting, cid \in Cids : Response(d, cid, TRUE) \notin Range(reports)
      BY <2>2, <3>1, PacketTypes, Kinds
    <3>3. \A d \in Accepting, cid \in Cids : Response(d, cid, TRUE) \notin Range(heard'[Pid(d)])
      BY <1>0, <2>1, <3>1, <3>2 DEF SideInv, AcceptInv, Heard
    <3> QED BY <2>3, <3>3 DEF SideInv, AcceptInv, Heard
  <2>6. EnableInv' /\ DivertInv'
    BY <2>3 DEF SideInv, EnableInv, DivertInv
  <2>7. LinkInv'
    BY <2>1, <2>3 DEF SideInv, LinkInv
  <2> QED BY <2>4, <2>5, <2>6, <2>7 DEF SideInv
<1> QED BY <1>1, <1>2, <1>3, <1>4, <1>5 DEF Happens

LEMMA ListenSide ==
  ASSUME TypeOK, SideInv, NEW r \in Receivers, Listen(r)
  PROVE  SideInv'
<1> DEFINE packet == Head(heard[r])
<1>1. /\ \A o \in Receivers :
           Range(heard[o]) = Range(heard'[o]) \union (IF o = r THEN {packet} ELSE {})
      /\ Range(responses') = Range(responses) \union ({packet} \intersect Responses)
      /\ packet \in Packets
  BY ListenRange
<1> HIDE DEF packet
<1>2. UNCHANGED <<up, link, reporting, analytics, flags, writes, stopping>>
  BY DEF Listen, deviceVars, knownVars, stopVars
<1>3. OwnQueues'
  BY <1>1, <1>2 DEF SideInv, OwnQueues
<1>4. AcceptInv'
  <2> SUFFICES ASSUME NEW d \in Accepting, NEW cid \in Cids
               PROVE  Response(d, cid, TRUE) \notin Range(heard'[Pid(d)]) \union Range(responses')
    BY <1>2 DEF SideInv, AcceptInv, Heard
  <2> DEFINE bad == Response(d, cid, TRUE)
  <2>1. d \in Devices /\ Pid(d) \in Receivers
    BY ClaimAssumption DEF Receivers
  <2>2. bad \notin Range(heard[Pid(d)]) /\ bad \notin Range(responses)
    BY DEF SideInv, AcceptInv, Heard
  <2>3. bad.dev = d
    BY DEF Response
  <2> HIDE DEF bad
  <2>4. bad # packet
    <3>1. packet \in Range(heard[r]) /\ Pid(packet.dev) = r
      BY <1>1 DEF SideInv, OwnQueues
    <3> QED BY <2>2, <2>3, <3>1
  <2> QED BY <1>1, <2>1, <2>2, <2>4 DEF bad
<1>5. EnableInv' /\ DivertInv' /\ LinkInv'
  BY <1>2 DEF SideInv, EnableInv, DivertInv, LinkInv
<1> QED BY <1>3, <1>4, <1>5 DEF SideInv

\* Subscribers ask for reports, they do not end them.
LEMMA AgainSide ==
  ASSUME TypeOK, SideInv, NEW d \in Devices, NEW cids \in SUBSET Cids,
         flags' = flags \/ SetAgain(d, cids), UNCHANGED <<stopping, writes>>
  PROVE  EnableInv'
<1>1. SetFlag(d, cids, TRUE).enable
  BY DEF SetFlag
<1>2. Range(flags') \subseteq Range(flags) \union {SetFlag(d, cids, TRUE)}
  BY SetAgainRange
<1> QED BY <1>1, <1>2 DEF SideInv, EnableInv

LEMMA SubscribersSide ==
  ASSUME TypeOK, SideInv, Subscribers
  PROVE  SideInv'
<1> USE DEF deviceVars, knownVars, hidVars, stopVars
<1>1. UNCHANGED <<up, link, reporting, heard, writes, stopping>>
  BY DEF Subscribers, HandleConnection, HandleLoss, HandleUnset, HandleResponse, HandleWake
<1>2. EnableInv'
  <2>1. CASE HandleConnection
    <3>1. /\ Head(connections).dev \in Devices
          /\ flags' = flags \/ SetAgain(Head(connections).dev, Cids)
      BY <2>1, ConnectionRange
    <3> QED BY <1>1, <3>1, AgainSide
  <2>2. CASE HandleLoss
    BY <1>1, <2>2 DEF HandleLoss, SideInv, EnableInv
  <2>3. CASE HandleUnset
    <3>1. PICK d \in Devices, cids \in SUBSET Cids : flags' = flags \/ SetAgain(d, cids)
      BY <2>3, UnsetRange
    <3> QED BY <1>1, <3>1, AgainSide
  <2>4. CASE HandleResponse
    <3>1. /\ Head(responses).dev \in Devices
          /\ flags' = flags \/ SetAgain(Head(responses).dev, Cids)
      BY <2>4, ResponseRange
    <3> QED BY <1>1, <3>1, AgainSide
  <2>5. CASE HandleWake
    <3>1. Head(wakes).dev \in Devices /\ SetAgain(Head(wakes).dev, Cids)
      BY <2>5, WakeRange
    <3> QED BY <1>1, <3>1, AgainSide
  <2> QED BY <2>1, <2>2, <2>3, <2>4, <2>5 DEF Subscribers
<1>3. AcceptInv'
  <2>1. CASE HandleResponse
    <3> DEFINE event == Head(responses)
    <3>1. /\ event.cid \in Cids /\ event.zero \in BOOLEAN
          /\ event = Response(event.dev, event.cid, event.zero)
          /\ Range(responses) = {event} \union Range(responses')
          /\ analytics' = analytics \/ (event.zero /\ analytics' = analytics \ {event.dev})
      BY <2>1, ResponseRange
    <3> HIDE DEF event
    <3>2. event.dev \in Accepting => ~event.zero
      <4> SUFFICES ASSUME event.dev \in Accepting, event.zero PROVE FALSE
        OBVIOUS
      <4>1. event = Response(event.dev, event.cid, TRUE)
        BY <3>1
      <4> QED BY <3>1, <4>1 DEF SideInv, AcceptInv
    <3> QED BY <1>1, <3>1, <3>2 DEF SideInv, AcceptInv, Heard
  <2>2. CASE HandleConnection \/ HandleLoss \/ HandleUnset \/ HandleWake
    <3>1. UNCHANGED <<analytics, responses>>
      BY <2>2 DEF HandleConnection, HandleLoss, HandleUnset, HandleWake
    <3> QED BY <1>1, <3>1 DEF SideInv, AcceptInv, Heard
  <2> QED BY <2>1, <2>2 DEF Subscribers
<1>4. OwnQueues' /\ LinkInv' /\ DivertInv'
  BY <1>1 DEF SideInv, OwnQueues, LinkInv, DivertInv
<1> QED BY <1>2, <1>3, <1>4 DEF SideInv

LEMMA FlagsSide ==
  ASSUME TypeOK, SideInv, HandleFlags
  PROVE  SideInv'
<1> DEFINE event == Head(flags)
           d == event.dev
           form == Form(d, event.enable)
<1>1. /\ d \in Devices /\ event.cids \in SUBSET Cids
      /\ Range(flags) = {event} \union Range(flags')
      /\ \A r \in Receivers : r # Pid(d) => writes'[r] = writes[r]
  BY FlagsRange
<1>2. PICK added \in Seq(Writes) :
        /\ Range(added) = IF d \in analytics \union Divertable
                          THEN {Write(d, cid, form) : cid \in event.cids} ELSE {}
        /\ Range(writes'[Pid(d)]) = Range(writes[Pid(d)]) \union Range(added)
  BY FlagsRange
<1>3. UNCHANGED <<up, link, reporting, heard, analytics, responses, stopping>>
  BY DEF HandleFlags, deviceVars, knownVars, hidVars, stopVars
<1>4. \A w \in Range(added) : w.dev = d /\ w.what = form /\ d \in analytics \union Divertable
  BY <1>2 DEF Write
<1>5. /\ form = "analytics" <=> d \in analytics
      /\ form = "undivert" <=> d \notin analytics /\ ~event.enable
  BY DEF Form
<1> HIDE DEF event, form
<1>6. OwnQueues'
  <2>1. \A r \in Receivers : \A w \in Range(writes'[r]) : w \in Range(writes[r]) \/ (r = Pid(d) /\ w.dev = d)
    BY <1>1, <1>2, <1>4
  <2> QED BY <1>3, <2>1 DEF SideInv, OwnQueues
<1>7. AcceptInv'
  <2>1. \A e \in Accepting : e \in Devices /\ Pid(e) \in Receivers
    BY ClaimAssumption DEF Receivers
  <2>2. \A e \in Accepting : \A w \in Range(writes'[Pid(e)]) :
          w \in Range(writes[Pid(e)]) \/ (w.dev = d /\ w.what = form)
    BY <1>1, <1>2, <1>4, <2>1
  <2>3. d \in Accepting => form = "analytics"
    BY <1>5 DEF SideInv, AcceptInv
  <2> QED BY <1>3, <2>2, <2>3 DEF SideInv, AcceptInv, Heard
<1>8. EnableInv'
  <2> SUFFICES ASSUME ~stopping
               PROVE  /\ \A f \in Range(flags') : f.enable
                      /\ \A r \in Receivers : \A w \in Range(writes'[r]) : w.what # "undivert"
    BY <1>3 DEF EnableInv
  <2>1. event.enable /\ \A f \in Range(flags') : f.enable
    BY <1>1 DEF SideInv, EnableInv
  <2>2. \A r \in Receivers : \A w \in Range(writes'[r]) : w \in Range(writes[r]) \/ w.what = form
    BY <1>1, <1>2, <1>4
  <2> QED BY <1>5, <2>1, <2>2 DEF SideInv, EnableInv
<1>9. DivertInv'
  <2>1. \A e \in Devices : Pid(e) \in Receivers
    BY DEF Receivers
  <2>2. \A e \in Devices : \A w \in Range(writes'[Pid(e)]) :
          w \in Range(writes[Pid(e)]) \/ (w.dev = d /\ w.what = form /\ d \in analytics \union Divertable)
    BY <1>1, <1>2, <1>4, <2>1
  <2> QED BY <1>3, <1>5, <2>2 DEF SideInv, DivertInv
<1>10. LinkInv'
  BY <1>3 DEF SideInv, LinkInv
<1> QED BY <1>6, <1>7, <1>8, <1>9, <1>10 DEF SideInv

LEMMA WriteSide ==
  ASSUME TypeOK, SideInv, NEW r \in Receivers, DoWrite(r)
  PROVE  SideInv'
<1> DEFINE w == Head(writes[r])
           answer == Response(w.dev, w.cid, ~(w.what = "analytics" /\ Effective(w)))
<1>1. /\ w.dev \in Devices /\ w.cid \in Cids
      /\ \A o \in Receivers : o # r => writes'[o] = writes[o]
      /\ Range(writes[r]) = {w} \union Range(writes'[r])
      /\ \/ /\ w.dev \in link
            /\ reporting' = [reporting EXCEPT ![w.dev] =
                 IF Effective(w) THEN @ \union {w.cid}
                 ELSE IF w.what = "undivert" THEN @ \ {w.cid} ELSE @]
            /\ Hear(answer) /\ answer \in Packets
         \/ reporting' = reporting /\ heard' = heard
  BY WriteRange
<1>2. UNCHANGED <<up, link, flags, analytics, responses, stopping>>
  BY DEF DoWrite, knownVars, hidVars, stopVars
<1>3. answer.dev = w.dev /\ (answer.zero <=> ~(w.what = "analytics" /\ Effective(w)))
  BY DEF Response
<1> HIDE DEF w, answer
<1>4. Pid(w.dev) = r
  BY <1>1 DEF SideInv, OwnQueues
<1>5. \A o \in Receivers : \A p \in Range(heard'[o]) : p \in Range(heard[o]) \/ (p = answer /\ o = r)
  BY <1>1, <1>3, <1>4, HearRange
<1>6. OwnQueues'
  BY <1>1, <1>3, <1>4, <1>5 DEF SideInv, OwnQueues
<1>7. AcceptInv'
  <2>1. \A e \in Accepting : e \in Devices /\ Pid(e) \in Receivers
    BY ClaimAssumption DEF Receivers
  <2>2. \A e \in Accepting : \A v \in Range(writes'[Pid(e)]) : v \in Range(writes[Pid(e)])
    BY <1>1, <2>1
  <2>3. w.dev \in Accepting => ~answer.zero
    BY <1>1, <1>3, <1>4 DEF SideInv, AcceptInv, Effective
  <2>4. ASSUME NEW e \in Accepting, NEW cid \in Cids
        PROVE  Response(e, cid, TRUE) \notin Range(heard'[Pid(e)])
    <3>1. Response(e, cid, TRUE).dev = e /\ Response(e, cid, TRUE).zero
      BY DEF Response
    <3>2. Response(e, cid, TRUE) # answer
      BY <1>3, <2>3, <3>1
    <3> QED BY <1>5, <2>1, <3>2 DEF SideInv, AcceptInv, Heard
  <2> QED BY <1>2, <2>2, <2>4 DEF SideInv, AcceptInv, Heard
<1>8. EnableInv'
  BY <1>1, <1>2 DEF SideInv, EnableInv
<1>9. \A e \in Devices : e # w.dev \/ w.dev \notin link => reporting'[e] = reporting[e]
  BY <1>1 DEF TypeOK
<1>10. LinkInv'
  BY <1>2, <1>9 DEF SideInv, LinkInv
<1>11. DivertInv'
  <2>1. \A e \in Devices : \A v \in Range(writes'[Pid(e)]) : v \in Range(writes[Pid(e)])
    BY <1>1 DEF Receivers
  <2>2. w.dev \notin Accepting \union Divertable => ~Effective(w)
    BY <1>1, <1>4 DEF SideInv, DivertInv, Effective
  <2>3. ASSUME NEW e \in Devices \ (Accepting \union Divertable) PROVE reporting'[e] = {}
    <3>1. reporting[e] = {}
      BY DEF SideInv, DivertInv
    <3>2. CASE e # w.dev
      BY <1>9, <3>1, <3>2
    <3>3. CASE e = w.dev
      <4>1. reporting \in [Devices -> SUBSET Cids]
        BY DEF TypeOK
      <4> QED BY <1>1, <2>2, <3>1, <3>3, <4>1
    <3> QED BY <3>2, <3>3
  <2> QED BY <2>1, <2>3 DEF SideInv, DivertInv
<1> QED BY <1>6, <1>7, <1>8, <1>10, <1>11 DEF SideInv

LEMMA NextSide == TypeOK /\ TypeOK' /\ SideInv /\ [Next]_vars => SideInv'
<1> SUFFICES ASSUME TypeOK, TypeOK', SideInv, [Next]_vars PROVE SideInv'
  OBVIOUS
<1>1. CASE Shutdown
  BY <1>1 DEF Shutdown, deviceVars, knownVars, hidVars, SideInv, OwnQueues, LinkInv, AcceptInv,
              EnableInv, DivertInv, Heard
<1>2. CASE UNCHANGED vars
  BY <1>2 DEF vars, deviceVars, knownVars, hidVars, stopVars, SideInv, OwnQueues, LinkInv, AcceptInv,
              EnableInv, DivertInv, Heard
<1> QED BY <1>1, <1>2, HappensSide, ListenSide, SubscribersSide, FlagsSide, WriteSide DEF Next

----------------------------------------------------------------------------
\* DownInv: what a device that is away will be taken for.
LEMMA Fields ==
  /\ \A d, e \in Devices, isUp, other \in BOOLEAN :
       Connection(d, isUp) = Connection(e, other) => d = e /\ isUp = other
  /\ \A d \in Devices, isUp \in BOOLEAN : Connection(d, isUp).dev = d
  /\ \A d \in Devices : Up(d).dev = d /\ Down(d).dev = d /\ Up(d) # Down(d)
  /\ \A d \in Devices : Wake(d).dev = d
  /\ \A d \in Devices, cid \in Cids : Unset(d, cid).dev = d
<1>1. \A d, isUp : Connection(d, isUp).dev = d /\ Connection(d, isUp).up = isUp
  BY DEF Connection
<1>2. \A d : Wake(d).dev = d
  BY DEF Wake
<1>3. \A d, cid : Unset(d, cid).dev = d
  BY DEF Unset
<1>4. \A d, e, isUp, other : Connection(d, isUp) = Connection(e, other) => d = e /\ isUp = other
  BY <1>1
<1>5. \A d : Up(d) # Down(d)
  BY DEF Connection, Up, Down
<1>6. \A d : Up(d).dev = d /\ Down(d).dev = d
  BY <1>1 DEF Up, Down
<1> QED BY <1>1, <1>2, <1>3, <1>4, <1>5, <1>6

LEMMA ConnectionTypes ==
  ASSUME NEW d \in Devices
  PROVE  /\ Up(d) \in Connections /\ Down(d) \in Connections
         /\ Up(d) \in Packets /\ Down(d) \in Packets
BY PacketTypes DEF Up, Down, Packets

\* More that is heard, and no report that d is up, does not change it.
LEMMA GoesDownKept ==
  ASSUME TypeOK, NEW d \in Devices, GoesDown(d), UNCHANGED <<connections, connected>>,
         NEW more \in Seq(Packets), heard'[Pid(d)] = heard[Pid(d)] \o more,
         Up(d) \notin Range(more)
  PROVE  GoesDown(d)'
<1> DEFINE q == heard[Pid(d)]
<1>1. q \in Seq(Packets)
  BY QueueTypes DEF Heard
<1>2. Followed(q, {Up(d)}, Down(d))
  BY DEF GoesDown, Heard
<1>3. Range(more) \intersect {Up(d)} = {}
  OBVIOUS
<1> HIDE DEF q
<1>4. Followed(q \o more, {Up(d)}, Down(d))
  BY <1>1, <1>2, <1>3, FollowedConcat
<1>5. Range(q \o more) = Range(q) \union Range(more)
  BY <1>1, RangeConcat
<1>6. heard'[Pid(d)] = q \o more
  BY DEF q
<1> QED BY <1>4, <1>5, <1>6 DEF GoesDown, Heard, q

\* A report that d is down makes it go down.
LEMMA DownHeard ==
  ASSUME TypeOK, NEW d \in Devices, NEW more \in Seq(Packets),
         heard'[Pid(d)] = heard[Pid(d)] \o more,
         Down(d) \in Range(more), Up(d) \notin Range(more)
  PROVE  GoesDown(d)'
<1> DEFINE q == heard[Pid(d)]
<1>1. q \in Seq(Packets)
  BY QueueTypes DEF Heard
<1>2. Range(more) \intersect {Up(d)} = {}
  OBVIOUS
<1> HIDE DEF q
<1>3. Followed(q \o more, {Up(d)}, Down(d)) /\ Range(q \o more) = Range(q) \union Range(more)
  BY <1>1, <1>2, FollowedConcat, RangeConcat
<1>4. heard'[Pid(d)] = q \o more
  BY DEF q
<1> QED BY <1>3, <1>4 DEF GoesDown, Heard

LEMMA HearAsConcat ==
  ASSUME TypeOK, NEW packet \in Packets, Hear(packet), NEW d \in Devices
  PROVE  \E more \in Seq(Packets) :
           /\ heard'[Pid(d)] = heard[Pid(d)] \o more
           /\ Range(more) = IF Pid(d) = Pid(packet.dev) THEN {packet} ELSE {}
<1>1. heard[Pid(d)] \in Seq(Packets) /\ Pid(d) \in Receivers
  BY QueueTypes DEF Heard
<1>2. CASE Pid(d) = Pid(packet.dev)
  <2>1. heard'[Pid(d)] = Append(heard[Pid(d)], packet)
    BY <1>2, HearLemma
  <2>2. Append(heard[Pid(d)], packet) = heard[Pid(d)] \o <<packet>> /\ <<packet>> \in Seq(Packets)
    BY <1>1
  <2>3. Range(<<packet>>) = {packet}
    BY DEF Range
  <2> QED BY <1>2, <2>1, <2>2, <2>3
<1>3. CASE Pid(d) # Pid(packet.dev)
  <2>1. heard'[Pid(d)] = heard[Pid(d)]
    BY <1>1, <1>3, HearLemma
  <2>2. heard[Pid(d)] = heard[Pid(d)] \o <<>> /\ <<>> \in Seq(Packets)
    BY <1>1
  <2> QED BY <1>3, <2>1, <2>2, RangeEmpty
<1> QED BY <1>2, <1>3

LEMMA HearDown ==
  ASSUME TypeOK, NEW d \in Devices, DownOf(d), NEW packet \in Packets, Hear(packet),
         packet # Up(d), d \notin link' => d \notin link,
         UNCHANGED <<up, connected, connections, losses>>
  PROVE  DownOf(d)'
<1>1. PICK more \in Seq(Packets) :
        /\ heard'[Pid(d)] = heard[Pid(d)] \o more
        /\ Range(more) = IF Pid(d) = Pid(packet.dev) THEN {packet} ELSE {}
  BY HearAsConcat
<1>2. Up(d) \notin Range(more)
  BY <1>1
<1>3. Up(d) \notin Range(heard[Pid(d)]) => Up(d) \notin Range(heard'[Pid(d)])
  <2>1. heard[Pid(d)] \in Seq(Packets)
    BY QueueTypes DEF Heard
  <2>2. Range(heard[Pid(d)] \o more) = Range(heard[Pid(d)]) \union Range(more)
    BY <2>1, RangeConcat
  <2> QED BY <1>1, <1>2, <2>2
<1>4. GoesDown(d) => GoesDown(d)'
  BY <1>1, <1>2, GoesDownKept
<1> QED BY <1>3, <1>4 DEF DownOf, Heard

LEMMA SameDown ==
  ASSUME NEW d \in Devices, DownOf(d), heard'[Pid(d)] = heard[Pid(d)],
         d \notin link' => d \notin link,
         Pid(d) \in up' <=> Pid(d) \in up,
         Pid(d) \in Range(losses') <=> Pid(d) \in Range(losses),
         UNCHANGED <<connected, connections>>
  PROVE  DownOf(d)'
BY DEF DownOf, GoesDown, Heard

LEMMA HappensDown ==
  ASSUME TypeOK, SideInv, DownInv, Happens
  PROVE  DownInv'
<1> USE DEF deviceVars, knownVars, hidVars, stopVars
<1>1. ASSUME NEW d \in Devices, LinkChanges(d) PROVE DownInv'
  <2> DEFINE packet == Connection(d, d \in link')
  <2>1. (d \in link') \in BOOLEAN
    OBVIOUS
  <2>2. packet \in Packets /\ packet.dev = d /\ Hear(packet)
    BY <1>1, <2>1, PacketTypes, Fields DEF LinkChanges, Packets
  <2>3. UNCHANGED <<up, connected, connections, losses, overtaken>>
    BY <1>1 DEF LinkChanges
  <2> SUFFICES ASSUME NEW e \in Devices, DownOf(e) PROVE DownOf(e)'
    BY <2>3 DEF DownInv
  <2>4. CASE e # d
    <3>1. packet # Up(e)
      BY <2>2, <2>4, Fields
    <3>2. e \notin link' => e \notin link
      BY <1>1, <2>4 DEF LinkChanges
    <3> HIDE DEF packet
    <3> QED BY <2>2, <2>3, <3>1, <3>2, HearDown
  <2>5. CASE e = d
    <3>1. Pid(e) \in up' /\ Pid(e) \notin Range(losses')
      BY <1>1, <2>3, <2>5 DEF LinkChanges, DownOf
    <3>2. ASSUME e \notin link' PROVE GoesDown(e)'
      <4>1. packet = Down(e)
        <5>1. (d \in link') = FALSE
          BY <2>5, <3>2
        <5> QED BY <2>5, <5>1 DEF Down
      <4>2. PICK more \in Seq(Packets) :
              heard'[Pid(e)] = heard[Pid(e)] \o more /\ Range(more) = {packet}
        <5> HIDE DEF packet
        <5> QED BY <2>2, <2>5, HearAsConcat
      <4>3. Down(e) \in Range(more) /\ Up(e) \notin Range(more)
        BY <4>1, <4>2, Fields
      <4> QED BY <4>2, <4>3, DownHeard
    <3> QED BY <3>1, <3>2 DEF DownOf
  <2> QED BY <2>4, <2>5
<1>2. ASSUME NEW d \in Devices, NEW packet \in Packets \ Connections, Hear(packet),
             UNCHANGED <<up, link, connected, connections, losses, overtaken>>
      PROVE  DownInv'
  <2> SUFFICES ASSUME NEW e \in Devices, DownOf(e) PROVE DownOf(e)'
    BY <1>2 DEF DownInv
  <2>1. packet # Up(e)
    BY ConnectionTypes
  <2> QED BY <1>2, <2>1, HearDown
<1>3. ASSUME NEW d \in Devices, Reset(d) PROVE DownInv'
  <2>1. Wake(d) \in Packets \ Connections
    BY PacketTypes, Kinds DEF Packets
  <2>2. Hear(Wake(d)) /\ UNCHANGED <<up, link, connected, connections, losses, overtaken>>
    BY <1>3 DEF Reset
  <2> QED BY <1>2, <2>1, <2>2
<1>4. ASSUME NEW d \in Devices, NEW cid \in Cids, TakeBack(d, cid) PROVE DownInv'
  <2>1. Unset(d, cid) \in Packets \ Connections
    BY PacketTypes, Kinds DEF Packets
  <2>2. Hear(Unset(d, cid)) /\ UNCHANGED <<up, link, connected, connections, losses, overtaken>>
    BY <1>4 DEF TakeBack
  <2> QED BY <1>2, <2>1, <2>2
<1>5. ASSUME NEW r \in Receivers, Unplug(r) PROVE DownInv'
  <2>1. /\ up' = up \ {r} /\ link' = {e \in link : Pid(e) # r}
        /\ overtaken' = overtaken \union
             {e \in Devices : Pid(e) = r /\ Connection(e, TRUE) \in Range(heard[r])}
        /\ UNCHANGED <<connected, connections, heard>>
    BY <1>5 DEF Unplug
  <2>2. Range(losses') = Range(losses) \union {r}
    BY <1>5, QueueTypes, RangeAppend DEF Unplug
  <2> SUFFICES ASSUME NEW d \in Devices \ overtaken' PROVE DownOf(d)'
    BY DEF DownInv
  <2>3. DownOf(d)
    BY <2>1 DEF DownInv
  <2>4. CASE Pid(d) = r
    <3>1. Up(d) \notin Range(heard[r])
      BY <2>1, <2>4 DEF Up
    <3> QED BY <2>1, <2>2, <2>4, <3>1 DEF DownOf, Heard
  <2>5. CASE Pid(d) # r
    BY <2>1, <2>2, <2>3, <2>5, SameDown
  <2> QED BY <2>4, <2>5
<1>6. ASSUME NEW r \in Receivers, Replug(r) PROVE DownInv'
  <2> DEFINE D == {d \in Devices : Pid(d) = r}
  <2>1. PICK back \in SUBSET D, reports \in Seq(Packets) :
             /\ link' = link \union back
             /\ heard'[r] = heard[r] \o reports
             /\ Range(reports) = {Connection(d, d \in back) : d \in D}
             /\ \A o \in Receivers : o # r => heard'[o] = heard[o]
    BY <1>6, ReplugRange
  <2>2. /\ up' = up \union {r} /\ r \notin up /\ UNCHANGED <<connected, connections, losses>>
        /\ overtaken' = overtaken \union (IF r \in Range(losses) THEN D ELSE {})
    BY <1>6 DEF Replug
  <2> SUFFICES ASSUME NEW d \in Devices \ overtaken' PROVE DownOf(d)'
    BY DEF DownInv
  <2>3. DownOf(d)
    BY <2>2 DEF DownInv
  <2>4. CASE Pid(d) = r
    <3>1. r \notin Range(losses')
      BY <2>2, <2>4
    <3>2. ASSUME d \notin link' PROVE GoesDown(d)'
      <4>1. d \notin back
        BY <2>1, <3>2
      <4>2. (d \in back) = FALSE
        BY <4>1
      <4>3. Down(d) \in Range(reports)
        BY <2>1, <2>4, <4>2 DEF Down
      <4>4. Up(d) \notin Range(reports)
        <5> SUFFICES ASSUME NEW e \in D, Connection(d, TRUE) = Connection(e, e \in back) PROVE FALSE
          BY <2>1 DEF Up
        <5>1. (e \in back) \in BOOLEAN
          OBVIOUS
        <5>2. d = e /\ (e \in back) = TRUE
          BY <5>1, Fields
        <5> QED BY <4>1, <5>2
      <4> QED BY <2>1, <2>4, <4>3, <4>4, DownHeard
    <3> QED BY <2>2, <2>4, <3>1, <3>2 DEF DownOf
  <2>5. CASE Pid(d) # r
    <3>1. heard'[Pid(d)] = heard[Pid(d)] /\ d \notin link' => d \notin link
      BY <2>1, <2>5 DEF Receivers
    <3> QED BY <2>1, <2>2, <2>3, <2>5, <3>1, SameDown DEF Receivers
  <2> QED BY <2>4, <2>5
<1> QED BY <1>1, <1>3, <1>4, <1>5, <1>6 DEF Happens

\* The listener hands on what it has read of the queue of a device.
LEMMA Passed ==
  ASSUME TypeOK, SideInv, NEW r \in Receivers, Listen(r), NEW d \in Devices
  PROVE  \/ /\ Pid(d) # r /\ heard'[Pid(d)] = heard[Pid(d)]
            /\ Head(heard[r]) # Up(d) /\ Head(heard[r]) # Down(d) /\ Head(heard[r]) # Wake(d)
            /\ \A cid \in Cids : Head(heard[r]) # Unset(d, cid)
         \/ /\ Pid(d) = r /\ heard'[Pid(d)] = Tail(heard[Pid(d)]) /\ heard[Pid(d)] # <<>>
            /\ Range(heard[Pid(d)]) = {Head(heard[Pid(d)])} \union Range(heard'[Pid(d)])
<1> DEFINE packet == Head(heard[r])
<1>1. /\ heard[r] \in Seq(Packets) /\ heard[r] # <<>> /\ heard'[r] = Tail(heard[r])
      /\ \A other \in Receivers : other # r => heard'[other] = heard[other]
  BY ListenLemma
<1>2. Range(heard[r]) = {packet} \union Range(heard'[r])
  BY <1>1, RangeTail
<1>3. Pid(packet.dev) = r
  BY <1>2 DEF SideInv, OwnQueues
<1> HIDE DEF packet
<1>4. Pid(d) # r => /\ packet # Up(d) /\ packet # Down(d) /\ packet # Wake(d)
                    /\ \A cid \in Cids : packet # Unset(d, cid)
  BY <1>3, Fields
<1> QED BY <1>1, <1>2, <1>4 DEF packet, Receivers

LEMMA ListenDown ==
  ASSUME TypeOK, SideInv, DownInv, NEW r \in Receivers, Listen(r)
  PROVE  DownInv'
<1> DEFINE packet == Head(heard[r])
<1>1. UNCHANGED <<up, link, connected, losses, overtaken>>
  BY DEF Listen, deviceVars, knownVars, stopVars
<1>2. /\ packet \in Packets
      /\ IF packet \in Connections THEN connections' = Append(connections, packet)
                                     ELSE connections' = connections
  BY ListenLemma
<1>3. connections \in Seq(Connections) /\ heard \in [Receivers -> Seq(Packets)]
  BY QueueTypes
<1> SUFFICES ASSUME NEW d \in Devices, DownOf(d) PROVE DownOf(d)'
  BY <1>1 DEF DownInv
<1>4. \/ Pid(d) # r /\ heard'[Pid(d)] = heard[Pid(d)] /\ packet # Up(d) /\ packet # Down(d)
      \/ /\ Pid(d) = r /\ heard'[Pid(d)] = Tail(heard[Pid(d)]) /\ heard[Pid(d)] # <<>>
         /\ Range(heard[Pid(d)]) = {packet} \union Range(heard'[Pid(d)])
  BY Passed
<1>5. Range(heard'[Pid(d)]) \subseteq Range(heard[Pid(d)])
  BY <1>4
<1> DEFINE q == heard[Pid(d)]
           rest == heard'[Pid(d)]
<1>6. q \in Seq(Packets) /\ (packet = Head(q) \/ Pid(d) # r)
  BY QueueTypes DEF Heard
<1>7. Range(connections') = Range(connections) \union ({packet} \intersect Connections)
  BY ListenRange
<1>8. Up(d) \in Connections /\ Down(d) \in Connections /\ Up(d) # Down(d)
  BY ConnectionTypes, Fields
<1>9. ASSUME GoesDown(d) PROVE GoesDown(d)'
  <2> HIDE DEF packet
  <2>1. Followed(q, {Up(d)}, Down(d))
    BY <1>9 DEF GoesDown, Heard
  <2>2. /\ Followed(rest, {Up(d)}, Down(d))
        /\ packet = Up(d) => Down(d) \in Range(rest)
    <3> HIDE DEF q, rest
    <3>1. CASE Pid(d) # r /\ rest = q /\ packet # Up(d)
      BY <2>1, <3>1
    <3>2. CASE packet = Head(q) /\ rest = Tail(q) /\ q # <<>>
      <4>1. Followed(Tail(q), {Up(d)}, Down(d)) /\ (Head(q) \in {Up(d)} => Down(d) \in Range(Tail(q)))
        BY <1>6, <2>1, <3>2, FollowedTail
      <4> QED BY <3>2, <4>1
    <3> QED BY <1>4, <1>6, <3>1, <3>2 DEF q, rest
  <2>3. Down(d) \in Range(q) => Down(d) \in Range(rest) \/ packet = Down(d)
    BY <1>4
  <2>4. Followed(connections', {Up(d)}, Down(d)) \/ Down(d) \in Range(rest)
    <3>1. CASE packet = Up(d)
      BY <2>2, <3>1
    <3>2. CASE packet = Down(d)
      <4>1. Followed(Append(connections, packet), {Up(d)}, Down(d))
        BY <1>3, <1>8, <3>2, FollowedAppend
      <4> QED BY <1>2, <1>8, <3>2, <4>1
    <3>3. CASE packet # Up(d) /\ packet # Down(d)
      <4>1. CASE Down(d) \in Range(q)
        BY <2>3, <3>3, <4>1
      <4>2. CASE Followed(connections, {Up(d)}, Down(d))
        <5>1. packet \in Connections => Followed(Append(connections, packet), {Up(d)}, Down(d))
          BY <1>3, <3>3, <4>2, FollowedAppend
        <5> QED BY <1>2, <4>2, <5>1
      <4> QED BY <1>9, <4>1, <4>2 DEF GoesDown, Heard
    <3> QED BY <3>1, <3>2, <3>3
  <2>5. d \in connected' => Down(d) \in Range(rest) \union Range(connections')
    BY <1>1, <1>7, <1>8, <1>9, <2>3 DEF GoesDown, Heard
  <2> QED BY <2>2, <2>4, <2>5 DEF GoesDown, Heard
<1> QED BY <1>1, <1>5, <1>9 DEF DownOf, Heard

LEMMA ConnectionDown ==
  ASSUME TypeOK, DownInv, HandleConnection
  PROVE  DownInv'
<1> DEFINE event == Head(connections)
<1>1. /\ event.dev \in Devices /\ connections # <<>> /\ connections' = Tail(connections)
      /\ event \in Connections /\ event = Connection(event.dev, event.up)
      /\ Range(connections) = {event} \union Range(connections')
      /\ connected' = IF event.up THEN connected \union {event.dev} ELSE connected \ {event.dev}
  BY ConnectionRange
<1>2. UNCHANGED <<up, link, heard, losses, overtaken>>
  BY DEF HandleConnection, deviceVars, stopVars
<1>3. connections \in Seq(Connections)
  BY QueueTypes
<1> SUFFICES ASSUME NEW d \in Devices, DownOf(d), GoesDown(d) PROVE GoesDown(d)'
  BY <1>2 DEF DownInv, DownOf, Heard
<1>4. /\ Followed(connections, {Up(d)}, Down(d)) => Followed(connections', {Up(d)}, Down(d))
      /\ Followed(connections, {Up(d)}, Down(d)) /\ event = Up(d) => Down(d) \in Range(connections')
  BY <1>1, <1>3, FollowedTail
<1>5. d \in connected' => event # Down(d)
  <2> SUFFICES ASSUME event = Down(d) PROVE d \notin connected'
    OBVIOUS
  <2>1. event.dev = d /\ event.up = FALSE
    BY DEF Down, Connection
  <2> HIDE DEF event
  <2> QED BY <1>1, <2>1
<1>6. d \in connected' => d \in connected \/ event = Up(d)
  <2> SUFFICES ASSUME d \in connected', d \notin connected PROVE event = Up(d)
    OBVIOUS
  <2> HIDE DEF event
  <2>1. event.up /\ event.dev = d
    BY <1>1
  <2>2. event.up \in BOOLEAN
    BY <1>1 DEF Connections
  <2>3. event.up = TRUE
    BY <2>1, <2>2
  <2> QED BY <1>1, <2>1, <2>3 DEF Up
<1> HIDE DEF event
<1>7. ASSUME d \in connected' PROVE Down(d) \in Range(Heard(d)) \union Range(connections')
  BY <1>1, <1>4, <1>5, <1>6, <1>7 DEF GoesDown
<1> QED BY <1>2, <1>4, <1>7 DEF GoesDown, Heard

LEMMA LossDown ==
  ASSUME TypeOK, DownInv, HandleLoss
  PROVE  DownInv'
<1> DEFINE r == Head(losses)
<1>1. r \in Receivers /\ Range(losses) = {r} \union Range(losses')
  BY LossRange
<1>2. PICK reports \in Seq(Connections) :
        /\ connections' = connections \o reports
        /\ Range(reports) = {Down(d) : d \in {e \in Devices : Pid(e) = r}}
        /\ Range(connections') = Range(connections) \union Range(reports)
  BY LossRange
<1>3. UNCHANGED <<up, link, heard, connected, overtaken>>
  BY DEF HandleLoss, deviceVars, knownVars, stopVars
<1> HIDE DEF r
<1>4. connections \in Seq(Connections)
  BY QueueTypes
<1> SUFFICES ASSUME NEW d \in Devices, DownOf(d) PROVE DownOf(d)'
  BY <1>3 DEF DownInv
<1>5. Range(reports) \intersect {Up(d)} = {}
  <2> SUFFICES ASSUME NEW e \in Devices, Down(e) = Up(d) PROVE FALSE
    BY <1>2
  <2> QED BY Fields
<1>6. Followed(connections, {Up(d)}, Down(d)) \/ Down(d) \in Range(reports)
        => Followed(connections', {Up(d)}, Down(d))
  BY <1>2, <1>4, <1>5, FollowedConcat
<1>7. CASE Pid(d) = r
  <2>1. Down(d) \in Range(reports)
    BY <1>2, <1>7
  <2>2. Pid(d) \notin up /\ Range(Heard(d)) \intersect {Up(d)} = {}
    BY <1>1, <1>7 DEF DownOf
  <2>3. Followed(Heard(d), {Up(d)}, Down(d))
    <3>1. Heard(d) \in Seq(Packets)
      BY QueueTypes
    <3> QED BY <2>2, <3>1 DEF Followed, Range
  <2>4. GoesDown(d)'
    BY <1>2, <1>3, <1>6, <2>1, <2>3 DEF GoesDown, Heard
  <2> QED BY <1>3, <2>2, <2>4 DEF DownOf, Heard
<1>8. CASE Pid(d) # r
  <2>1. GoesDown(d) => GoesDown(d)'
    BY <1>2, <1>3, <1>6 DEF GoesDown, Heard
  <2> QED BY <1>1, <1>3, <1>8, <2>1 DEF DownOf, Heard
<1> QED BY <1>7, <1>8

LEMMA WriteDown ==
  ASSUME TypeOK, DownInv, NEW r \in Receivers, DoWrite(r)
  PROVE  DownInv'
<1>1. UNCHANGED <<up, link, connected, connections, losses, overtaken>>
  BY DEF DoWrite, knownVars, hidVars, stopVars
<1>2. heard' = heard \/ \E packet \in Packets \ Connections : Hear(packet)
  <2> DEFINE w == Head(writes[r])
             answer == Response(w.dev, w.cid, ~(w.what = "analytics" /\ Effective(w)))
  <2>1. /\ w.dev \in Devices /\ w.cid \in Cids
        /\ (Hear(answer) /\ answer \in Packets) \/ heard' = heard
    BY WriteRange
  <2>2. (~(w.what = "analytics" /\ Effective(w))) \in BOOLEAN
    OBVIOUS
  <2> HIDE DEF w
  <2>3. answer \in Responses
    BY <2>1, <2>2, PacketTypes
  <2>4. answer \notin Connections
    BY <2>3, Kinds
  <2> HIDE DEF answer
  <2> QED BY <2>1, <2>4
<1> SUFFICES ASSUME NEW d \in Devices, DownOf(d) PROVE DownOf(d)'
  BY <1>1 DEF DownInv
<1>3. CASE heard' = heard
  BY <1>1, <1>3, SameDown
<1>4. ASSUME NEW packet \in Packets \ Connections, Hear(packet) PROVE DownOf(d)'
  <2>1. packet # Up(d)
    BY ConnectionTypes
  <2> QED BY <1>1, <1>4, <2>1, HearDown
<1> QED BY <1>2, <1>3, <1>4

LEMMA NextDown == TypeOK /\ SideInv /\ DownInv /\ [Next]_vars => DownInv'
<1> SUFFICES ASSUME TypeOK, SideInv, DownInv, [Next]_vars PROVE DownInv'
  OBVIOUS
<1>1. ASSUME UNCHANGED <<up, link, heard, connected, connections, losses, overtaken>> PROVE DownInv'
  BY <1>1, SameDown DEF DownInv
<1>2. CASE HandleUnset \/ HandleResponse \/ HandleWake \/ HandleFlags \/ Shutdown \/ UNCHANGED vars
  BY <1>1, <1>2 DEF HandleUnset, HandleResponse, HandleWake, HandleFlags, Shutdown, vars,
                    deviceVars, knownVars, hidVars, stopVars
<1> QED BY <1>2, HappensDown, ListenDown, ConnectionDown, LossDown, WriteDown DEF Next, Subscribers

LEMMA InitDown == Init => DownInv
<1> SUFFICES ASSUME Init PROVE DownInv
  OBVIOUS
<1>1. Range(losses) = {}
  BY RangeEmpty DEF Init
<1> QED BY <1>1 DEF Init, DownInv, DownOf, Receivers

\* When everything has been handled, no device of an unplugged receiver counts
\* as connected, except the ones whose reports were overtaken.
THEOREM LostIsOffline == Spec => []LostMeansOffline
<1>1. TypeOK /\ SideInv /\ DownInv => LostMeansOffline
  <2> SUFFICES ASSUME TypeOK, SideInv, DownInv, Quiet, NEW d \in connected \ overtaken, Pid(d) \notin up
               PROVE  FALSE
    BY DEF LostMeansOffline
  <2>1. d \in Devices /\ DownOf(d)
    BY DEF TypeOK, DownInv
  <2>2. d \notin link /\ Pid(d) \in Receivers
    BY <2>1 DEF SideInv, LinkInv, Receivers
  <2>3. Range(losses) = {} /\ Range(connections) = {} /\ Range(Heard(d)) = {}
    BY <2>2, RangeEmpty DEF Quiet, Heard
  <2> QED BY <2>1, <2>2, <2>3 DEF DownOf, GoesDown
<1>2. TypeOK /\ SideInv /\ DownInv /\ [Next]_vars => (TypeOK /\ SideInv /\ DownInv)'
  BY NextType, NextSide, NextDown
<1> QED BY <1>1, <1>2, InitType, InitSide, InitDown, PTL DEF Spec

----------------------------------------------------------------------------
\* DueInv: how a device comes to report its keys again.
LEMMA RisesKept ==
  ASSUME TypeOK, NEW d \in Devices, Rises(d), UNCHANGED <<connections, connected>>,
         NEW more \in Seq(Packets), heard'[Pid(d)] = heard[Pid(d)] \o more
  PROVE  Rises(d)'
<1> DEFINE q == heard[Pid(d)]
<1>1. q \in Seq(Packets)
  BY QueueTypes DEF Heard
<1> HIDE DEF q
<1>2. /\ Precedes(q, Down(d), Up(d)) => Precedes(q \o more, Down(d), Up(d))
      /\ Range(q \o more) = Range(q) \union Range(more)
  BY <1>1, PrecedesConcat, RangeConcat
<1>3. heard'[Pid(d)] = q \o more
  BY DEF q
<1> QED BY <1>2, <1>3 DEF Rises, Heard, q

\* A device that goes down and is heard to be up is set up again.
LEMMA DownThenUp ==
  ASSUME TypeOK, NEW d \in Devices, GoesDown(d), UNCHANGED <<connections, connected>>,
         NEW more \in Seq(Packets), heard'[Pid(d)] = heard[Pid(d)] \o more,
         Up(d) \in Range(more)
  PROVE  Rises(d)'
<1> DEFINE q == heard[Pid(d)]
<1>1. q \in Seq(Packets)
  BY QueueTypes DEF Heard
<1>2. d \in connected => Down(d) \in Range(q) \union Range(connections)
  BY DEF GoesDown, Heard
<1>3. heard'[Pid(d)] = q \o more
  OBVIOUS
<1> HIDE DEF q
<1>4. /\ Down(d) \in Range(q) => Precedes(q \o more, Down(d), Up(d))
      /\ Up(d) \in Range(q \o more)
  BY <1>1, PrecedesConcat, RangeConcat
<1> QED BY <1>2, <1>3, <1>4 DEF Rises, Heard

\* What is due stays due while nothing is taken from a queue.
LEMMA HearDue ==
  ASSUME TypeOK, NEW d \in Devices, NEW cid \in Cids, Due(d, cid),
         NEW packet \in Packets, Hear(packet),
         UNCHANGED <<connected, analytics, connections, unsets, responses, wakes, flags, writes>>
  PROVE  Due(d, cid)'
<1>1. PICK more \in Seq(Packets) : heard'[Pid(d)] = heard[Pid(d)] \o more
  BY HearAsConcat
<1>2. Rises(d) => Rises(d)'
  BY <1>1, RisesKept
<1>3. Range(heard[Pid(d)]) \subseteq Range(heard'[Pid(d)])
  BY HearRange, QueueTypes
<1> QED BY <1>2, <1>3 DEF Due, Heard

LEMMA SameDue ==
  ASSUME NEW d \in Devices, NEW cid \in Cids, Due(d, cid), heard'[Pid(d)] = heard[Pid(d)],
         UNCHANGED <<connected, analytics, connections, unsets, responses, wakes, flags, writes>>
  PROVE  Due(d, cid)'
BY DEF Due, Rises, Heard

LEMMA HappensDue ==
  ASSUME TypeOK, SideInv, DownInv, DueInv, Happens
  PROVE  DueInv'
<1> USE DEF deviceVars, knownVars, hidVars, stopVars
<1>1. UNCHANGED <<connected, analytics, connections, unsets, responses, wakes, flags, writes, stopping>>
  BY DEF Happens, LinkChanges, Reset, TakeBack, Unplug, Replug
<1> SUFFICES ASSUME ~stopping, NEW e \in Served', NEW cid \in Cids, cid \notin reporting'[e]
             PROVE  Due(e, cid)'
  BY <1>1 DEF DueInv
<1>2. e \in Devices /\ e \in link' /\ e \in Accepting \union Divertable /\ e \notin missed' \union overtaken'
  <2>1. link' \subseteq Devices
    BY HappensType DEF TypeOK
  <2> QED BY <2>1 DEF Served
<1>3. ASSUME e \in link, e \notin missed \union overtaken, cid \notin reporting[e]
      PROVE  Due(e, cid)
  BY <1>2, <1>3 DEF DueInv, Served
<1>4. reporting \in [Devices -> SUBSET Cids]
  BY DEF TypeOK
<1>5. ASSUME NEW d \in Devices, LinkChanges(d) PROVE Due(e, cid)'
  <2> DEFINE packet == Connection(d, d \in link')
  <2>1. (d \in link') \in BOOLEAN
    OBVIOUS
  <2>2. packet \in Packets /\ packet.dev = d /\ Hear(packet)
    BY <1>5, <2>1, PacketTypes, Fields DEF LinkChanges, Packets
  <2>3. CASE e # d
    <3>1. e \in link /\ e \notin missed \union overtaken /\ reporting'[e] = reporting[e]
      BY <1>2, <1>4, <1>5, <2>3 DEF LinkChanges
    <3> HIDE DEF packet
    <3> QED BY <1>1, <1>2, <1>3, <2>2, <3>1, HearDue
  <2>4. CASE e = d
    <3>1. e \notin link /\ e \notin overtaken /\ Pid(e) \in up
      BY <1>2, <1>5, <2>4 DEF LinkChanges
    <3>2. GoesDown(e)
      BY <1>2, <3>1 DEF DownInv, DownOf
    <3>3. packet = Up(e)
      <4>1. (d \in link') = TRUE
        BY <1>2, <2>4
      <4> QED BY <2>4, <4>1 DEF Up
    <3>4. PICK more \in Seq(Packets) :
            heard'[Pid(e)] = heard[Pid(e)] \o more /\ Range(more) = {packet}
      <4> HIDE DEF packet
      <4> QED BY <2>2, <2>4, HearAsConcat
    <3>5. Rises(e)'
      BY <1>1, <1>2, <3>2, <3>3, <3>4, DownThenUp
    <3> QED BY <3>5 DEF Due
  <2> QED BY <2>3, <2>4
<1>6. ASSUME NEW d \in Devices, Reset(d) PROVE Due(e, cid)'
  <2>1. Wake(d) \in Packets /\ Hear(Wake(d)) /\ Wake(d).dev = d
    BY <1>6, PacketTypes, Fields DEF Reset, Packets
  <2>2. CASE e # d
    <3>1. e \in link /\ e \notin missed \union overtaken /\ reporting'[e] = reporting[e]
      BY <1>2, <1>4, <1>6, <2>2 DEF Reset
    <3> QED BY <1>1, <1>2, <1>3, <2>1, <3>1, HearDue
  <2>3. CASE e = d
    <3>1. Wake(e) \in Range(heard'[Pid(e)])
      BY <2>1, <2>3, HearRange, QueueTypes
    <3> QED BY <3>1 DEF Due, Heard
  <2> QED BY <2>2, <2>3
<1>7. ASSUME NEW d \in Devices, NEW key \in Cids, TakeBack(d, key) PROVE Due(e, cid)'
  <2>1. Unset(d, key) \in Packets /\ Hear(Unset(d, key)) /\ Unset(d, key).dev = d
    BY <1>7, PacketTypes, Fields DEF TakeBack, Packets
  <2>2. e \in link /\ e \notin missed \union overtaken /\ (e = d => d \in FoundBySlot(d))
    BY <1>2, <1>7 DEF TakeBack
  <2>3. CASE e = d /\ cid = key
    <3>1. Unset(e, cid) \in Range(heard'[Pid(e)])
      BY <2>1, <2>3, HearRange, QueueTypes
    <3> QED BY <2>2, <2>3, <3>1 DEF Due, Heard
  <2>4. CASE e # d \/ cid # key
    <3>1. cid \notin reporting[e]
      BY <1>2, <1>4, <1>7, <2>4 DEF TakeBack
    <3> QED BY <1>1, <1>2, <1>3, <2>1, <2>2, <3>1, HearDue
  <2> QED BY <2>3, <2>4
<1>8. ASSUME NEW r \in Receivers, Unplug(r) PROVE Due(e, cid)'
  <2>1. e \in link /\ e \notin missed \union overtaken /\ Pid(e) # r /\ heard' = heard
    BY <1>2, <1>8 DEF Unplug
  <2>2. reporting'[e] = reporting[e]
    BY <1>2, <1>8, <2>1 DEF Unplug
  <2> QED BY <1>1, <1>2, <1>3, <2>1, <2>2, SameDue
<1>9. ASSUME NEW r \in Receivers, Replug(r) PROVE Due(e, cid)'
  <2> DEFINE D == {d \in Devices : Pid(d) = r}
  <2>1. PICK back \in SUBSET D, reports \in Seq(Packets) :
             /\ link' = link \union back
             /\ heard'[r] = heard[r] \o reports
             /\ Range(reports) = {Connection(d, d \in back) : d \in D}
             /\ \A o \in Receivers : o # r => heard'[o] = heard[o]
    BY <1>9, ReplugRange
  <2>2. /\ r \notin up /\ UNCHANGED reporting /\ missed' = {d \in missed : Pid(d) # r}
        /\ overtaken' = overtaken \union (IF r \in Range(losses) THEN D ELSE {})
    BY <1>9 DEF Replug
  <2>3. CASE Pid(e) = r
    <3>1. e \notin overtaken /\ r \notin Range(losses)
      BY <1>2, <2>2, <2>3
    <3>2. e \notin link
      BY <2>2, <2>3 DEF SideInv, LinkInv
    <3>3. e \in back /\ GoesDown(e)
      BY <1>2, <2>1, <2>3, <3>1, <3>2 DEF DownInv, DownOf
    <3>4. Up(e) \in Range(reports)
      <4>1. (e \in back) = TRUE
        BY <3>3
      <4> QED BY <1>2, <2>1, <2>3, <4>1 DEF Up
    <3>5. Rises(e)'
      BY <1>1, <1>2, <2>1, <2>3, <3>3, <3>4, DownThenUp
    <3> QED BY <3>5 DEF Due
  <2>4. CASE Pid(e) # r
    <3>1. heard'[Pid(e)] = heard[Pid(e)]
      BY <1>2, <2>1, <2>4 DEF Receivers
    <3>2. e \in link /\ e \notin missed \union overtaken
      BY <1>2, <2>1, <2>2, <2>4
    <3> QED BY <1>1, <1>2, <1>3, <2>2, <3>1, <3>2, SameDue
  <2> QED BY <2>3, <2>4
<1> QED BY <1>5, <1>6, <1>7, <1>8, <1>9 DEF Happens

LEMMA ListenDue ==
  ASSUME TypeOK, SideInv, DueInv, NEW r \in Receivers, Listen(r)
  PROVE  DueInv'
<1> DEFINE packet == Head(heard[r])
<1>1. UNCHANGED <<link, reporting, connected, analytics, flags, writes, stopping, missed, overtaken>>
  BY DEF Listen, deviceVars, knownVars, stopVars
<1>2. Served' = Served
  BY <1>1 DEF Served
<1> SUFFICES ASSUME NEW d \in Devices, NEW cid \in Cids, Due(d, cid) PROVE Due(d, cid)'
  <2>1. \A d \in Served : d \in Devices
    BY DEF Served, TypeOK
  <2> QED BY <1>1, <1>2, <2>1 DEF DueInv
<1>3. /\ packet \in Packets
      /\ IF packet \in Connections THEN connections' = Append(connections, packet)
                                     ELSE connections' = connections
  BY ListenLemma
<1>4. /\ Range(connections') = Range(connections) \union ({packet} \intersect Connections)
      /\ Range(unsets') = Range(unsets) \union ({packet} \intersect Unsets)
      /\ Range(responses') = Range(responses) \union ({packet} \intersect Responses)
      /\ Range(wakes') = Range(wakes) \union ({packet} \intersect Wakes)
      /\ \A o \in Receivers : Range(heard[o]) = Range(heard'[o]) \union (IF o = r THEN {packet} ELSE {})
  BY ListenRange
<1>5. \/ heard'[Pid(d)] = heard[Pid(d)] /\ packet # Up(d) /\ packet # Down(d)
      \/ /\ packet = Head(heard[Pid(d)]) /\ heard'[Pid(d)] = Tail(heard[Pid(d)])
         /\ heard[Pid(d)] # <<>>
  BY Passed
<1>6. connections \in Seq(Connections) /\ heard[Pid(d)] \in Seq(Packets) /\ Pid(d) \in Receivers
  BY QueueTypes DEF Heard
<1> HIDE DEF packet
<1>7. /\ Up(d) \in Connections /\ Down(d) \in Connections /\ Up(d) # Down(d)
      /\ Wake(d) \in Wakes /\ Unset(d, cid) \in Unsets
      /\ \A c \in Cids : Response(d, c, TRUE) \in Responses
  BY ConnectionTypes, Fields, PacketTypes
<1> DEFINE q == heard[Pid(d)]
           rest == heard'[Pid(d)]
<1>8. Range(q) \subseteq Range(rest) \union {packet}
  BY <1>4, <1>6
<1>9. ASSUME Rises(d) PROVE Rises(d)'
  <2>1. CASE Precedes(q, Down(d), Up(d))
    <3>1. Precedes(rest, Down(d), Up(d)) \/ (packet = Down(d) /\ Up(d) \in Range(rest))
      BY <1>5, <1>6, <2>1, PrecedesTail
    <3> QED BY <1>4, <1>7, <3>1 DEF Rises, Heard
  <2>2. CASE Up(d) \in Range(q) /\ (Down(d) \in Range(connections) \/ d \notin connected)
    <3>1. CASE Up(d) \in Range(rest)
      BY <1>1, <1>4, <2>2, <3>1 DEF Rises, Heard
    <3>2. CASE packet = Up(d)
      <4>1. connections' = Append(connections, Up(d)) /\ Up(d) \in Range(connections')
        BY <1>3, <1>4, <1>7, <3>2
      <4>2. Down(d) \in Range(connections) => Precedes(connections', Down(d), Up(d))
        BY <1>6, <1>7, <4>1, PrecedesAppend
      <4> QED BY <1>1, <2>2, <4>1, <4>2 DEF Rises
    <3> QED BY <1>8, <2>2, <3>1, <3>2
  <2>3. CASE Precedes(connections, Down(d), Up(d))
    <3>1. packet \in Connections => Precedes(Append(connections, packet), Down(d), Up(d))
      BY <1>6, <2>3, PrecedesAppend
    <3> QED BY <1>3, <2>3, <3>1 DEF Rises
  <2>4. CASE Up(d) \in Range(connections) /\ d \notin connected
    BY <1>1, <1>4, <2>4 DEF Rises
  <2> QED BY <1>9, <2>1, <2>2, <2>3, <2>4 DEF Rises, Heard
<1> HIDE DEF q, rest
<1>10. Wake(d) \in Range(q) \union Range(wakes) => Wake(d) \in Range(rest) \union Range(wakes')
  BY <1>4, <1>7, <1>8
<1>11. Unset(d, cid) \in Range(q) \union Range(unsets) => Unset(d, cid) \in Range(rest) \union Range(unsets')
  BY <1>4, <1>7, <1>8
<1>12. \A c \in Cids : Response(d, c, TRUE) \in Range(q) \union Range(responses)
          => Response(d, c, TRUE) \in Range(rest) \union Range(responses')
  BY <1>4, <1>7, <1>8
<1> QED BY <1>1, <1>9, <1>10, <1>11, <1>12 DEF Due, Heard, q, rest

\* A request for the reports of a device, for one key or for all of them.
LEMMA AgainDue ==
  ASSUME TypeOK, NEW d \in Devices, NEW cids \in SUBSET Cids, SetAgain(d, cids), NEW cid \in cids
  PROVE  Due(d, cid)'
<1>1. SetFlag(d, cids, TRUE) \in Range(flags')
  BY SetAgainRange
<1> QED BY <1>1 DEF Due

LEMMA FlagsGrow ==
  ASSUME TypeOK, NEW d \in Devices, NEW cids \in SUBSET Cids, flags' = flags \/ SetAgain(d, cids)
  PROVE  Range(flags) \subseteq Range(flags')
BY SetAgainRange

LEMMA ConnectionDue ==
  ASSUME TypeOK, NEW d \in Devices, NEW cid \in Cids, Due(d, cid), HandleConnection
  PROVE  Due(d, cid)'
<1> DEFINE event == Head(connections)
<1>1. /\ event.dev \in Devices /\ connections # <<>> /\ connections' = Tail(connections)
      /\ event \in Connections /\ event = Connection(event.dev, event.up)
      /\ Range(connections) = {event} \union Range(connections')
      /\ connected' = IF event.up THEN connected \union {event.dev} ELSE connected \ {event.dev}
      /\ IF event.dev \notin connected /\ event.up THEN SetAgain(event.dev, Cids) ELSE flags' = flags
  BY ConnectionRange
<1>2. UNCHANGED <<link, analytics, heard, unsets, responses, wakes, writes>>
  BY DEF HandleConnection, deviceVars, stopVars
<1>3. connections \in Seq(Connections)
  BY QueueTypes
<1>4. Range(flags) \subseteq Range(flags')
  BY <1>1, FlagsGrow
<1>5. Precedes(connections, Down(d), Up(d)) =>
        Precedes(connections', Down(d), Up(d)) \/ (event = Down(d) /\ Up(d) \in Range(connections'))
  BY <1>1, <1>3, PrecedesTail
<1> HIDE DEF event
<1>6. /\ event = Up(d) => event.dev = d /\ event.up
      /\ event = Down(d) => event.dev = d /\ ~event.up
  BY DEF Up, Down, Connection
<1>7. event = Up(d) \/ event = Down(d) \/ event.dev # d
  <2>1. event.up \in BOOLEAN
    BY <1>1 DEF Connections
  <2>2. event.up = TRUE \/ event.up = FALSE
    BY <2>1
  <2> QED BY <1>1, <2>2 DEF Up, Down
<1>8. Up(d) # Down(d)
  BY Fields
<1>9. ASSUME Rises(d) PROVE Due(d, cid)'
  <2>1. CASE event.dev # d
    <3>1. event # Up(d) /\ event # Down(d) /\ (d \in connected' <=> d \in connected)
      BY <1>1, <1>6, <2>1
    <3> QED BY <1>1, <1>2, <1>5, <1>9, <3>1 DEF Due, Rises, Heard
  <2>2. CASE event = Down(d)
    <3>1. d \notin connected'
      BY <1>1, <1>6, <2>2
    <3> QED BY <1>1, <1>2, <1>5, <1>8, <1>9, <2>2, <3>1 DEF Due, Rises, Heard
  <2>3. CASE event = Up(d)
    <3>1. CASE d \notin connected
      <4>1. SetAgain(d, Cids)
        BY <1>1, <1>6, <2>3, <3>1
      <4> QED BY <4>1, AgainDue
    <3>2. CASE d \in connected
      BY <1>1, <1>2, <1>5, <1>8, <1>9, <2>3, <3>2 DEF Due, Rises, Heard
    <3> QED BY <3>1, <3>2
  <2> QED BY <1>7, <2>1, <2>2, <2>3
<1> QED BY <1>2, <1>4, <1>9 DEF Due, Heard

LEMMA LossDue ==
  ASSUME TypeOK, NEW d \in Devices, NEW cid \in Cids, Due(d, cid), HandleLoss
  PROVE  Due(d, cid)'
<1>1. PICK reports \in Seq(Connections) :
        /\ connections' = connections \o reports
        /\ Range(connections') = Range(connections) \union Range(reports)
  BY LossRange
<1>2. UNCHANGED <<heard, connected, analytics, unsets, responses, wakes, flags, writes>>
  BY DEF HandleLoss, knownVars
<1>3. Precedes(connections, Down(d), Up(d)) => Precedes(connections', Down(d), Up(d))
  BY <1>1, QueueTypes, PrecedesConcat
<1> QED BY <1>1, <1>2, <1>3 DEF Due, Rises, Heard

LEMMA UnsetDue ==
  ASSUME TypeOK, NEW d \in Devices, NEW cid \in Cids, Due(d, cid), HandleUnset
  PROVE  Due(d, cid)'
<1> DEFINE event == Head(unsets)
<1>1. /\ event.dev \in Devices /\ event.cid \in Cids
      /\ Range(unsets) = {event} \union Range(unsets')
  BY UnsetRange
<1>2. PICK device \in FoundBySlot(event.dev) :
        /\ device \in Devices
        /\ IF ReprogIndex(device) = ReprogIndex(event.dev)
           THEN SetAgain(device, {event.cid}) ELSE flags' = flags
  BY UnsetRange
<1>3. UNCHANGED <<heard, connected, analytics, connections, responses, wakes, writes>>
  BY DEF HandleUnset, knownVars
<1> HIDE DEF event
<1>4. Range(flags) \subseteq Range(flags')
  <2>1. {event.cid} \in SUBSET Cids
    BY <1>1
  <2> QED BY <1>2, <2>1, FlagsGrow
<1>5. CASE event = Unset(d, cid) /\ d \in FoundBySlot(d)
  <2>1. event.dev = d /\ event.cid = cid
    BY <1>5 DEF Unset
  <2>2. device = d
    <3>1. \A m, n \in 1..Len(Registered) : m < n => m \in 1..(n - 1)
      BY RegisteredAssumption
    <3>2. PICK m \in 1..Len(Registered) :
            /\ device = Registered[m] /\ Slot(Registered[m]) = Slot(d)
            /\ \A i \in 1..(m - 1) : Slot(Registered[i]) # Slot(d)
      BY <1>2, <2>1 DEF FoundBySlot
    <3>3. PICK n \in 1..Len(Registered) :
            /\ d = Registered[n] /\ Slot(Registered[n]) = Slot(d)
            /\ \A i \in 1..(n - 1) : Slot(Registered[i]) # Slot(d)
      BY <1>5 DEF FoundBySlot
    <3>4. m = n
      BY <3>1, <3>2, <3>3, RegisteredAssumption
    <3> QED BY <3>2, <3>3, <3>4
  <2>3. SetAgain(d, {cid}) /\ {cid} \in SUBSET Cids
    BY <1>2, <2>1, <2>2
  <2> QED BY <2>3, AgainDue
<1>6. CASE event # Unset(d, cid) \/ d \notin FoundBySlot(d)
  BY <1>1, <1>3, <1>4, <1>6 DEF Due, Rises, Heard
<1> QED BY <1>5, <1>6

LEMMA ResponseDue ==
  ASSUME TypeOK, NEW d \in Devices, NEW cid \in Cids, Due(d, cid), HandleResponse
  PROVE  Due(d, cid)'
<1> DEFINE event == Head(responses)
<1>1. /\ event.dev \in Devices /\ event = Response(event.dev, event.cid, event.zero)
      /\ Range(responses) = {event} \union Range(responses')
      /\ IF event.dev \in analytics /\ event.zero
         THEN analytics' = analytics \ {event.dev} /\ SetAgain(event.dev, Cids)
         ELSE analytics' = analytics /\ flags' = flags
  BY ResponseRange
<1>2. UNCHANGED <<heard, connected, connections, unsets, wakes, writes>>
  BY DEF HandleResponse
<1> HIDE DEF event
<1>3. Range(flags) \subseteq Range(flags')
  BY <1>1, FlagsGrow
<1>4. CASE d = event.dev /\ event.dev \in analytics /\ event.zero
  BY <1>1, <1>4, AgainDue
<1>5. CASE ~(d = event.dev /\ event.dev \in analytics /\ event.zero)
  <2>1. d \in analytics => d \in analytics'
    BY <1>1, <1>5
  <2>2. \A c \in Cids : Response(d, c, TRUE).dev = d /\ Response(d, c, TRUE).zero
    BY DEF Response
  <2>3. d \in analytics => \A c \in Cids : event # Response(d, c, TRUE)
    BY <1>5, <2>2
  <2> QED BY <1>1, <1>2, <1>3, <2>1, <2>3 DEF Due, Rises, Heard
<1> QED BY <1>4, <1>5

LEMMA WakeDue ==
  ASSUME TypeOK, NEW d \in Devices, NEW cid \in Cids, Due(d, cid), HandleWake
  PROVE  Due(d, cid)'
<1> DEFINE event == Head(wakes)
<1>1. /\ event.dev \in Devices /\ event = Wake(event.dev)
      /\ Range(wakes) = {event} \union Range(wakes')
      /\ SetAgain(event.dev, Cids)
  BY WakeRange
<1>2. UNCHANGED <<heard, connected, analytics, connections, unsets, responses, writes>>
  BY DEF HandleWake, knownVars
<1> HIDE DEF event
<1>3. Range(flags) \subseteq Range(flags')
  BY <1>1, FlagsGrow
<1>4. CASE event.dev = d
  BY <1>1, <1>4, AgainDue
<1>5. CASE event.dev # d
  <2>1. event # Wake(d)
    BY <1>5, Fields
  <2> QED BY <1>1, <1>2, <1>3, <2>1 DEF Due, Rises, Heard
<1> QED BY <1>4, <1>5

\* A request becomes a write that is due: it has the form that the device
\* obeys, or the one that it is going to reject.
LEMMA FlagsDue ==
  ASSUME TypeOK, SideInv, HandleFlags, NEW d \in Accepting \union Divertable, d \in Devices,
         NEW cid \in Cids, Due(d, cid)
  PROVE  Due(d, cid)'
<1> DEFINE event == Head(flags)
           e == event.dev
           form == Form(e, event.enable)
<1>1. /\ e \in Devices /\ event = SetFlag(e, event.cids, event.enable)
      /\ Range(flags) = {event} \union Range(flags')
      /\ \A r \in Receivers : r # Pid(e) => writes'[r] = writes[r]
  BY FlagsRange
<1>2. PICK added \in Seq(Writes) :
        /\ Range(added) = IF e \in analytics \union Divertable
                          THEN {Write(e, c, form) : c \in event.cids} ELSE {}
        /\ Range(writes'[Pid(e)]) = Range(writes[Pid(e)]) \union Range(added)
  BY FlagsRange
<1>3. UNCHANGED <<heard, connected, analytics, connections, unsets, responses, wakes>>
  BY DEF HandleFlags, knownVars, hidVars
<1>4. /\ event.enable /\ e \notin analytics => form = "divert"
      /\ e \in analytics => form = "analytics"
  BY DEF Form
<1> HIDE DEF event, form
<1>5. Pid(d) \in Receivers /\ Range(writes[Pid(d)]) \subseteq Range(writes'[Pid(d)])
  BY <1>1, <1>2 DEF Receivers
<1>6. ASSUME NEW cids \in SUBSET Cids, cid \in cids, event = SetFlag(d, cids, TRUE)
      PROVE  Due(d, cid)'
  <2>1. e = d /\ event.cids = cids /\ event.enable
    BY <1>6 DEF SetFlag
  <2>2. d \in Accepting => d \in analytics
    BY DEF SideInv, AcceptInv
  <2>3. Write(d, cid, form) \in Range(writes'[Pid(d)])
    BY <1>2, <1>6, <2>1, <2>2
  <2>4. CASE form = Good(d)
    BY <2>3, <2>4 DEF Due, Good
  <2>5. CASE d \in analytics \ Accepting
    <3>1. form = "analytics"
      BY <1>4, <2>1, <2>5
    <3> QED BY <1>3, <2>3, <2>5, <3>1 DEF Due
  <2> QED BY <1>4, <2>1, <2>2, <2>4, <2>5 DEF Good
<1>7. ASSUME \A cids \in SUBSET Cids : cid \in cids => event # SetFlag(d, cids, TRUE)
      PROVE  Due(d, cid)'
  BY <1>1, <1>3, <1>5, <1>7 DEF Due, Rises, Heard
<1> QED BY <1>6, <1>7

\* A write is obeyed, or the answer to it brings the one that will be.
LEMMA WriteDue ==
  ASSUME TypeOK, SideInv, ~stopping, NEW r \in Receivers, DoWrite(r),
         NEW d \in link, d \in Devices, NEW cid \in Cids, cid \notin reporting'[d],
         cid \notin reporting[d] => Due(d, cid)
  PROVE  Due(d, cid)'
<1> DEFINE w == Head(writes[r])
           answer == Response(w.dev, w.cid, ~(w.what = "analytics" /\ Effective(w)))
<1>1. /\ w.dev \in Devices /\ w.cid \in Cids
      /\ \A o \in Receivers : o # r => writes'[o] = writes[o]
      /\ Range(writes[r]) = {w} \union Range(writes'[r])
      /\ IF w.dev \in link
         THEN /\ reporting' = [reporting EXCEPT ![w.dev] =
                   IF Effective(w) THEN @ \union {w.cid}
                   ELSE IF w.what = "undivert" THEN @ \ {w.cid} ELSE @]
              /\ Hear(answer) /\ answer \in Packets
         ELSE reporting' = reporting /\ heard' = heard
  BY WriteRange
<1>2. UNCHANGED <<connected, analytics, connections, unsets, responses, wakes, flags>>
  BY DEF DoWrite, knownVars, hidVars
<1> HIDE DEF w, answer
<1>3. Pid(w.dev) = r /\ w.what # "undivert"
  BY <1>1 DEF SideInv, OwnQueues, EnableInv
<1>4. reporting \in [Devices -> SUBSET Cids]
  BY DEF TypeOK
<1>5. cid \notin reporting[d]
  <2>1. CASE w.dev \notin link \/ w.dev # d
    BY <1>1, <1>4, <2>1
  <2>2. CASE w.dev \in link /\ w.dev = d
    <3>1. reporting'[d] = IF Effective(w) THEN reporting[d] \union {w.cid} ELSE reporting[d]
      BY <1>1, <1>3, <1>4, <2>2
    <3> QED BY <3>1
  <2> QED BY <2>1, <2>2
<1>6. w # Write(d, cid, Good(d))
  <2> SUFFICES ASSUME w = Write(d, cid, Good(d)) PROVE FALSE
    OBVIOUS
  <2>1. w.dev = d /\ w.cid = cid /\ w.what = Good(d)
    BY DEF Write
  <2>2. Effective(w)
    BY <2>1 DEF Effective, Good
  <2>3. reporting'[d] = reporting[d] \union {cid}
    BY <1>1, <1>4, <2>1, <2>2
  <2> QED BY <2>3
<1>7. Due(d, cid)
  BY <1>5
<1>8. /\ Pid(d) \in Receivers /\ Range(heard[Pid(d)]) \subseteq Range(heard'[Pid(d)])
      /\ Rises(d) => Rises(d)'
  <2>1. Pid(d) \in Receivers
    BY DEF Receivers
  <2>2. CASE heard' = heard
    BY <1>2, <2>1, <2>2 DEF Rises, Heard
  <2>3. CASE Hear(answer) /\ answer \in Packets
    <3>1. PICK more \in Seq(Packets) : heard'[Pid(d)] = heard[Pid(d)] \o more
      BY <2>3, HearAsConcat
    <3> QED BY <1>2, <2>1, <2>3, <3>1, RisesKept, HearRange
  <2> QED BY <1>1, <2>2, <2>3
<1>9. Range(writes[Pid(d)]) \subseteq Range(writes'[Pid(d)]) \union {w}
  BY <1>1, <1>8
<1>10. ASSUME d \in analytics \ Accepting, NEW c \in Cids, w = Write(d, c, "analytics")
       PROVE  Response(d, c, TRUE) \in Range(heard'[Pid(d)])
  <2>1. w.dev = d /\ w.cid = c /\ w.what = "analytics"
    BY <1>10 DEF Write
  <2>2. (w.what = "analytics" /\ Effective(w)) = FALSE
    BY <1>10, <2>1 DEF Effective
  <2>3. answer = Response(d, c, TRUE) /\ answer.dev = d
    BY <2>1, <2>2 DEF answer, Response
  <2>4. answer \in Range(heard'[Pid(d)])
    BY <1>1, <1>8, <2>1, <2>3, HearRange
  <2> QED BY <2>3, <2>4
<1>11. Write(d, cid, Good(d)) \in Range(writes[Pid(d)]) => Write(d, cid, Good(d)) \in Range(writes'[Pid(d)])
  BY <1>6, <1>9
<1>12. ASSUME d \in analytics \ Accepting, NEW c \in Cids,
              \/ Write(d, c, "analytics") \in Range(writes[Pid(d)])
              \/ Response(d, c, TRUE) \in Range(Heard(d)) \union Range(responses)
       PROVE  Due(d, cid)'
  <2>1. \/ Write(d, c, "analytics") \in Range(writes'[Pid(d)])
        \/ Response(d, c, TRUE) \in Range(heard'[Pid(d)]) \union Range(responses')
    BY <1>2, <1>8, <1>9, <1>10, <1>12 DEF Heard
  <2> QED BY <1>2, <1>12, <2>1 DEF Due, Heard
<1> QED BY <1>2, <1>7, <1>8, <1>11, <1>12 DEF Due, Heard, Good

LEMMA NextDue == TypeOK /\ SideInv /\ DownInv /\ DueInv /\ [Next]_vars => DueInv'
<1> SUFFICES ASSUME TypeOK, SideInv, DownInv, DueInv, [Next]_vars PROVE DueInv'
  OBVIOUS
<1>0. Served \subseteq Devices /\ Served \subseteq link /\ Served \subseteq Accepting \union Divertable
  BY DEF Served, TypeOK
<1>1. ASSUME UNCHANGED <<link, missed, overtaken, reporting, stopping>>,
             \A d \in Devices, cid \in Cids : d \in Accepting \union Divertable /\ Due(d, cid) => Due(d, cid)'
      PROVE  DueInv'
  BY <1>0, <1>1 DEF DueInv, Served
<1>2. CASE Subscribers
  <2>1. UNCHANGED <<link, missed, overtaken, reporting, stopping>>
    BY <1>2 DEF Subscribers, HandleConnection, HandleLoss, HandleUnset, HandleResponse, HandleWake,
                deviceVars, stopVars
  <2>2. \A d \in Devices, cid \in Cids : Due(d, cid) => Due(d, cid)'
    BY <1>2, ConnectionDue, LossDue, UnsetDue, ResponseDue, WakeDue DEF Subscribers
  <2> QED BY <1>1, <2>1, <2>2
<1>3. CASE HandleFlags
  <2>1. UNCHANGED <<link, missed, overtaken, reporting, stopping>>
    BY <1>3 DEF HandleFlags, deviceVars, stopVars
  <2> QED BY <1>1, <1>3, <2>1, FlagsDue
<1>4. ASSUME NEW r \in Receivers, DoWrite(r) PROVE DueInv'
  <2>1. UNCHANGED <<link, missed, overtaken, stopping>>
    BY <1>4 DEF DoWrite, stopVars
  <2>2. Served' = Served
    BY <2>1 DEF Served
  <2> SUFFICES ASSUME ~stopping, NEW d \in Served, NEW cid \in Cids, cid \notin reporting'[d]
               PROVE  Due(d, cid)'
    BY <2>1, <2>2 DEF DueInv
  <2>3. cid \notin reporting[d] => Due(d, cid)
    BY DEF DueInv
  <2>4. d \in link /\ d \in Devices
    BY <1>0
  <2> QED BY <1>4, <2>3, <2>4, WriteDue
<1>5. CASE Shutdown
  BY <1>5 DEF Shutdown, DueInv
<1>6. CASE UNCHANGED vars
  <2>1. UNCHANGED <<link, missed, overtaken, reporting, stopping, heard, connected, analytics,
                    connections, unsets, responses, wakes, flags, writes>>
    BY <1>6 DEF vars, deviceVars, knownVars, hidVars, stopVars
  <2> QED BY <1>1, <2>1, SameDue
<1> QED BY <1>2, <1>3, <1>4, <1>5, <1>6, HappensDue, ListenDue DEF Next

LEMMA InitDue == Init => DueInv
<1> SUFFICES ASSUME Init, NEW d \in Devices, NEW cid \in Cids PROVE Due(d, cid)
  BY DEF Init, DueInv, Served
<1>1. Range(flags) = {SetFlag(Registered[i], Cids, TRUE) : i \in 1..Len(Registered)}
  BY DEF Init, Range
<1>2. SetFlag(d, Cids, TRUE) \in Range(flags)
  BY <1>1 DEF Devices
<1>3. Cids \in SUBSET Cids
  OBVIOUS
<1> QED BY <1>2, <1>3 DEF Due

\* When everything has been handled, every key of every device that can be
\* reached is reported, but for the exceptions that ReportsWhenQuiet names.
THEOREM ReportsKept == Spec => []ReportsWhenQuiet
<1>1. TypeOK /\ DueInv => ReportsWhenQuiet
  <2> SUFFICES ASSUME TypeOK, DueInv, Quiet, ~stopping, NEW d \in Served PROVE reporting[d] = Cids
    BY DEF ReportsWhenQuiet, Served
  <2>1. d \in Devices /\ Pid(d) \in Receivers
    BY DEF Served, TypeOK, Receivers
  <2>2. heard[Pid(d)] = <<>> /\ writes[Pid(d)] = <<>> /\ connections = <<>> /\ unsets = <<>>
        /\ responses = <<>> /\ wakes = <<>> /\ flags = <<>>
    BY <2>1 DEF Quiet
  <2>3. ASSUME NEW cid \in Cids PROVE ~Due(d, cid)
    <3>1. ~Rises(d)
      BY <2>2, RangeEmpty, OrderEmpty DEF Rises, Heard
    <3> QED BY <2>2, <3>1, RangeEmpty DEF Due, Heard
  <2>4. \A cid \in Cids : cid \in reporting[d]
    BY <2>3 DEF DueInv
  <2>5. reporting[d] \in SUBSET Cids
    BY <2>1 DEF TypeOK
  <2> QED BY <2>4, <2>5
<1>2. /\ TypeOK /\ SideInv /\ DownInv /\ DueInv /\ [Next]_vars
           => (TypeOK /\ SideInv /\ DownInv /\ DueInv)'
  BY NextType, NextSide, NextDown, NextDue
<1> QED BY <1>1, <1>2, InitType, InitSide, InitDown, InitDue, PTL DEF Spec

----------------------------------------------------------------------------
\* ReleaseInv: after the shutdown.
Settled(d) == d \in Divertable => \A cid \in Cids : ToBeReleased(d) \/ Released(d, cid)
\* What the events of the devices leave of LeftAlone.
Silent(d) ==
  /\ \A isUp \in BOOLEAN : Connection(d, isUp) \notin Range(Heard(d))
  /\ Wake(d) \notin Range(Heard(d))
  /\ \A e \in Devices, cid \in Cids : d \in FoundBySlot(e) => Unset(e, cid) \notin Range(Heard(e))

LEMMA SameSettled ==
  ASSUME NEW d \in Devices, Settled(d), reporting'[d] = reporting[d], UNCHANGED <<flags, writes>>
  PROVE  Settled(d)'
BY DEF Settled, ToBeReleased, Released

\* A packet that does not concern the device leaves it alone.
LEMMA HearSilent ==
  ASSUME TypeOK, NEW d \in Devices, Silent(d), NEW packet \in Packets, Hear(packet),
         \/ packet \in Responses
         \/ /\ packet.dev # d
            /\ \A cid \in Cids : packet = Unset(packet.dev, cid) => d \notin FoundBySlot(packet.dev)
  PROVE  Silent(d)'
<1>1. \A r \in Receivers : Range(heard'[r]) \subseteq Range(heard[r]) \union {packet}
  BY HearRange
<1>2. \A e \in Devices : Pid(e) \in Receivers
  BY DEF Receivers
<1>3. \A isUp \in BOOLEAN : packet # Connection(d, isUp)
  BY PacketTypes, Kinds, Fields
<1>4. packet # Wake(d)
  BY PacketTypes, Kinds, Fields
<1>5. \A e \in Devices, cid \in Cids : d \in FoundBySlot(e) => packet # Unset(e, cid)
  BY PacketTypes, Kinds, Fields
<1> QED BY <1>1, <1>2, <1>3, <1>4, <1>5 DEF Silent, Heard

LEMMA HappensRelease ==
  ASSUME TypeOK, ReleaseInv, Happens
  PROVE  ReleaseInv'
<1> USE DEF deviceVars, knownVars, hidVars, stopVars
<1>1. UNCHANGED <<connected, analytics, connections, unsets, responses, wakes, flags, writes, stopping>>
  BY DEF Happens, LinkChanges, Reset, TakeBack, Unplug, Replug
<1>2. stopping => disturbed \subseteq disturbed'
  BY DEF Happens, LinkChanges, Reset, TakeBack, Unplug, Replug, Disturb
<1> SUFFICES ASSUME stopping, NEW d \in Devices, d \notin disturbed', LeftAlone(d), Settled(d)
             PROVE  Silent(d)' /\ Pid(d) \notin Range(losses') /\ Settled(d)'
  BY <1>1, <1>2 DEF ReleaseInv, LeftAlone, Silent, Settled
<1>3. Silent(d)
  BY DEF LeftAlone, Silent
<1>4. reporting \in [Devices -> SUBSET Cids]
  BY DEF TypeOK
<1>5. ASSUME NEW e \in Devices, LinkChanges(e) PROVE Silent(d)' /\ Pid(d) \notin Range(losses') /\ Settled(d)'
  <2> DEFINE packet == Connection(e, e \in link')
  <2>1. (e \in link') \in BOOLEAN
    OBVIOUS
  <2>2. packet \in Connections /\ packet \in Packets /\ packet.dev = e /\ Hear(packet)
    BY <1>5, <2>1, PacketTypes, Fields DEF LinkChanges, Packets
  <2>3. d # e
    BY <1>5 DEF LinkChanges, Disturb
  <2>4. reporting'[d] = reporting[d] /\ losses' = losses
    BY <1>4, <1>5, <2>3 DEF LinkChanges
  <2> HIDE DEF packet
  <2>5. \A cid \in Cids : packet # Unset(packet.dev, cid)
    BY <2>2, PacketTypes, Kinds
  <2>6. Silent(d)'
    BY <1>3, <2>2, <2>3, <2>5, HearSilent
  <2> QED BY <1>1, <2>4, <2>6, SameSettled DEF LeftAlone
<1>6. ASSUME NEW e \in Devices, Reset(e) PROVE Silent(d)' /\ Pid(d) \notin Range(losses') /\ Settled(d)'
  <2>1. Wake(e) \in Packets /\ Wake(e) \in Wakes /\ Wake(e).dev = e /\ Hear(Wake(e))
    BY <1>6, PacketTypes, Fields DEF Reset, Packets
  <2>2. d # e
    BY <1>6 DEF Reset, Disturb
  <2>3. reporting'[d] = reporting[d] /\ losses' = losses
    BY <1>4, <1>6, <2>2 DEF Reset
  <2>4. \A cid \in Cids : Wake(e) # Unset(e, cid)
    BY <2>1, PacketTypes, Kinds
  <2>5. Silent(d)'
    BY <1>3, <2>1, <2>2, <2>4, HearSilent
  <2> QED BY <1>1, <2>3, <2>5, SameSettled DEF LeftAlone
<1>7. ASSUME NEW e \in Devices, NEW key \in Cids, TakeBack(e, key)
      PROVE  Silent(d)' /\ Pid(d) \notin Range(losses') /\ Settled(d)'
  <2>1. Unset(e, key) \in Packets /\ Unset(e, key).dev = e /\ Hear(Unset(e, key))
    BY <1>7, PacketTypes, Fields DEF TakeBack, Packets
  <2>2. d # e /\ d \notin FoundBySlot(e)
    BY <1>7 DEF TakeBack, Disturb
  <2>3. reporting'[d] = reporting[d] /\ losses' = losses
    BY <1>4, <1>7, <2>2 DEF TakeBack
  <2>4. Silent(d)'
    BY <1>3, <2>1, <2>2, HearSilent
  <2> QED BY <1>1, <2>3, <2>4, SameSettled DEF LeftAlone
<1>8. ASSUME NEW r \in Receivers, Unplug(r) PROVE Silent(d)' /\ Pid(d) \notin Range(losses') /\ Settled(d)'
  <2>1. Pid(d) # r /\ heard' = heard
    BY <1>8 DEF Unplug, Disturb
  <2>2. Range(losses') = Range(losses) \union {r}
    BY <1>8, QueueTypes, RangeAppend DEF Unplug
  <2>3. reporting'[d] = reporting[d]
    BY <1>8, <2>1 DEF Unplug
  <2> QED BY <1>1, <1>3, <2>1, <2>2, <2>3, SameSettled DEF LeftAlone, Silent, Heard
<1>9. ASSUME NEW r \in Receivers, Replug(r) PROVE Silent(d)' /\ Pid(d) \notin Range(losses') /\ Settled(d)'
  <2> DEFINE D == {e \in Devices : Pid(e) = r}
  <2>1. PICK back \in SUBSET D, reports \in Seq(Packets) :
             /\ Range(reports) = {Connection(e, e \in back) : e \in D}
             /\ Range(heard'[r]) = Range(heard[r]) \union Range(reports)
             /\ \A o \in Receivers : o # r => heard'[o] = heard[o]
    BY <1>9, ReplugRange
  <2>2. Pid(d) # r /\ UNCHANGED <<losses, reporting>>
    BY <1>9 DEF Replug, Disturb
  <2>3. heard'[Pid(d)] = heard[Pid(d)]
    BY <2>1, <2>2 DEF Receivers
  <2>4. \A e \in Devices, cid \in Cids : Unset(e, cid) \notin Range(reports)
    <3> SUFFICES ASSUME NEW e \in Devices, NEW cid \in Cids, NEW f \in D,
                        Unset(e, cid) = Connection(f, f \in back)
                 PROVE  FALSE
      BY <2>1
    <3>1. (f \in back) \in BOOLEAN
      OBVIOUS
    <3>2. Connection(f, f \in back) \in Connections
      BY <3>1, PacketTypes
    <3> QED BY <3>2, PacketTypes, Kinds
  <2>5. \A e \in Devices, cid \in Cids :
          Unset(e, cid) \in Range(heard'[Pid(e)]) => Unset(e, cid) \in Range(heard[Pid(e)])
    BY <2>1, <2>4 DEF Receivers
  <2>6. Silent(d)'
    BY <1>3, <2>3, <2>5 DEF Silent, Heard
  <2> QED BY <1>1, <2>2, <2>6, SameSettled DEF LeftAlone
<1> QED BY <1>5, <1>6, <1>7, <1>8, <1>9 DEF Happens

LEMMA ListenRelease ==
  ASSUME TypeOK, SideInv, ReleaseInv, NEW r \in Receivers, Listen(r)
  PROVE  ReleaseInv'
<1> DEFINE packet == Head(heard[r])
<1>1. UNCHANGED <<reporting, analytics, losses, flags, writes, stopping, disturbed>>
  BY DEF Listen, deviceVars, knownVars, stopVars
<1> SUFFICES ASSUME NEW d \in Devices, LeftAlone(d), Settled(d) PROVE LeftAlone(d)' /\ Settled(d)'
  BY <1>1 DEF ReleaseInv, Settled
<1>2. /\ Range(connections') = Range(connections) \union ({packet} \intersect Connections)
      /\ Range(unsets') = Range(unsets) \union ({packet} \intersect Unsets)
      /\ Range(wakes') = Range(wakes) \union ({packet} \intersect Wakes)
      /\ \A o \in Receivers : Range(heard[o]) = Range(heard'[o]) \union (IF o = r THEN {packet} ELSE {})
  BY ListenRange
<1> HIDE DEF packet
<1>3. packet \in Range(heard[r]) /\ Pid(packet.dev) = r
  BY <1>2 DEF SideInv, OwnQueues
<1>4. \A e \in Devices : Pid(e) \in Receivers /\ Range(heard'[Pid(e)]) \subseteq Range(heard[Pid(e)])
  BY <1>2 DEF Receivers
<1>5. \A isUp \in BOOLEAN : Connection(d, isUp) \notin Range(heard'[Pid(d)]) \union Range(connections')
  <2>1. \A isUp \in BOOLEAN : packet # Connection(d, isUp)
    BY <1>3, Fields DEF LeftAlone, Heard
  <2> QED BY <1>2, <1>4, <2>1 DEF LeftAlone, Heard
<1>6. Wake(d) \notin Range(heard'[Pid(d)]) \union Range(wakes')
  <2>1. packet # Wake(d)
    BY <1>3, Fields DEF LeftAlone, Heard
  <2> QED BY <1>2, <1>4, <2>1 DEF LeftAlone, Heard
<1>7. ASSUME NEW e \in Devices, NEW cid \in Cids, d \in FoundBySlot(e)
      PROVE  Unset(e, cid) \notin Range(heard'[Pid(e)]) \union Range(unsets')
  <2>1. packet # Unset(e, cid)
    BY <1>3, <1>7, Fields DEF LeftAlone, Heard
  <2> QED BY <1>2, <1>4, <1>7, <2>1 DEF LeftAlone, Heard
<1> QED BY <1>1, <1>5, <1>6, <1>7, SameSettled DEF LeftAlone, Heard

\* A request for the reports of another device.
LEMMA AgainSettled ==
  ASSUME TypeOK, NEW d \in Devices, Settled(d), UNCHANGED <<reporting, writes>>,
         \/ flags' = flags
         \/ \E e \in Devices, cids \in SUBSET Cids : e # d /\ SetAgain(e, cids)
  PROVE  Settled(d)'
<1>1. CASE flags' = flags
  BY <1>1, SameSettled
<1>2. ASSUME NEW e \in Devices, NEW cids \in SUBSET Cids, e # d, SetAgain(e, cids) PROVE Settled(d)'
  <2> DEFINE f == SetFlag(e, cids, TRUE)
  <2>1. flags' = Append(flags, f) /\ f \in Flags /\ Range(flags') = Range(flags) \union {f}
    BY <1>2, SetAgainRange
  <2>2. f.dev # d /\ \A c : SetFlag(d, c, TRUE).dev = d
    BY <1>2 DEF SetFlag
  <2> HIDE DEF f
  <2>3. f \notin Enables(d)
    BY <2>2 DEF Enables
  <2>4. Followed(flags, Enables(d), SetFlag(d, Cids, FALSE))
          => Followed(flags', Enables(d), SetFlag(d, Cids, FALSE))
    BY <2>1, <2>3, QueueTypes, FollowedAppend
  <2> QED BY <1>2, <2>1, <2>3, <2>4 DEF Settled, ToBeReleased, Released
<1> QED BY <1>1, <1>2

LEMMA SubscribersRelease ==
  ASSUME TypeOK, ReleaseInv, Subscribers
  PROVE  ReleaseInv'
<1> USE DEF deviceVars, knownVars, hidVars, stopVars
<1>1. UNCHANGED <<reporting, heard, writes, stopping, disturbed>>
  BY DEF Subscribers, HandleConnection, HandleLoss, HandleUnset, HandleResponse, HandleWake
<1> SUFFICES ASSUME NEW d \in Devices, LeftAlone(d), Settled(d) PROVE LeftAlone(d)' /\ Settled(d)'
  BY <1>1 DEF ReleaseInv, Settled
<1>2. Cids \in SUBSET Cids
  OBVIOUS
<1>3. CASE HandleConnection
  <2> DEFINE event == Head(connections)
  <2>1. /\ event.dev \in Devices /\ event \in Connections /\ event = Connection(event.dev, event.up)
        /\ Range(connections) = {event} \union Range(connections')
        /\ flags' = flags \/ SetAgain(event.dev, Cids)
    BY <1>3, ConnectionRange
  <2> HIDE DEF event
  <2>2. event.dev # d
    BY <2>1 DEF LeftAlone, Connections
  <2>3. Settled(d)'
    BY <1>1, <1>2, <2>1, <2>2, AgainSettled
  <2>4. UNCHANGED <<analytics, losses, unsets, wakes>>
    BY <1>3 DEF HandleConnection
  <2> QED BY <1>1, <2>1, <2>3, <2>4 DEF LeftAlone, Heard
<1>4. CASE HandleLoss
  <2>1. PICK reports \in Seq(Connections) :
          /\ Range(reports) = {Down(e) : e \in {f \in Devices : Pid(f) = Head(losses)}}
          /\ Range(connections') = Range(connections) \union Range(reports)
    BY <1>4, LossRange
  <2>2. Range(losses) = {Head(losses)} \union Range(losses')
    BY <1>4, LossRange
  <2>3. \A isUp \in BOOLEAN : Connection(d, isUp) \notin Range(reports)
    <3>1. Pid(d) # Head(losses)
      BY <2>2 DEF LeftAlone
    <3> SUFFICES ASSUME NEW isUp \in BOOLEAN, NEW e \in Devices, Pid(e) = Head(losses),
                        Connection(d, isUp) = Down(e)
                 PROVE  FALSE
      BY <2>1
    <3>2. d = e
      BY Fields
    <3> QED BY <3>1, <3>2
  <2>4. UNCHANGED <<analytics, unsets, wakes, flags>>
    BY <1>4 DEF HandleLoss
  <2>5. Settled(d)'
    BY <1>1, <2>4, SameSettled
  <2> QED BY <1>1, <2>1, <2>2, <2>3, <2>4, <2>5 DEF LeftAlone, Heard
<1>5. CASE HandleUnset
  <2> DEFINE event == Head(unsets)
  <2>1. /\ event.dev \in Devices /\ event.cid \in Cids /\ event = Unset(event.dev, event.cid)
        /\ Range(unsets) = {event} \union Range(unsets')
        /\ \E device \in FoundBySlot(event.dev) :
             device \in Devices /\ (flags' = flags \/ SetAgain(device, {event.cid}))
    BY <1>5, UnsetRange
  <2> HIDE DEF event
  <2>2. d \notin FoundBySlot(event.dev)
    BY <2>1 DEF LeftAlone
  <2>3. {event.cid} \in SUBSET Cids
    BY <2>1
  <2>4. Settled(d)'
    BY <1>1, <2>1, <2>2, <2>3, AgainSettled
  <2>5. UNCHANGED <<analytics, losses, connections, wakes>>
    BY <1>5 DEF HandleUnset
  <2> QED BY <1>1, <2>1, <2>4, <2>5 DEF LeftAlone, Heard
<1>6. CASE HandleResponse
  <2> DEFINE event == Head(responses)
  <2>1. /\ event.dev \in Devices
        /\ \/ event.dev \in analytics /\ analytics' = analytics \ {event.dev} /\ SetAgain(event.dev, Cids)
           \/ analytics' = analytics /\ flags' = flags
    BY <1>6, ResponseRange
  <2> HIDE DEF event
  <2>2. d \notin analytics /\ d \notin analytics'
    BY <2>1 DEF LeftAlone
  <2>3. Settled(d)'
    BY <1>1, <1>2, <2>1, <2>2, AgainSettled
  <2>4. UNCHANGED <<losses, connections, unsets, wakes>>
    BY <1>6 DEF HandleResponse
  <2> QED BY <1>1, <2>2, <2>3, <2>4 DEF LeftAlone, Heard
<1>7. CASE HandleWake
  <2> DEFINE event == Head(wakes)
  <2>1. /\ event.dev \in Devices /\ event = Wake(event.dev)
        /\ Range(wakes) = {event} \union Range(wakes')
        /\ SetAgain(event.dev, Cids)
    BY <1>7, WakeRange
  <2> HIDE DEF event
  <2>2. event.dev # d
    BY <2>1 DEF LeftAlone
  <2>3. Settled(d)'
    BY <1>1, <1>2, <2>1, <2>2, AgainSettled
  <2>4. UNCHANGED <<analytics, losses, connections, unsets>>
    BY <1>7 DEF HandleWake
  <2> QED BY <1>1, <2>1, <2>3, <2>4 DEF LeftAlone, Heard
<1> QED BY <1>3, <1>4, <1>5, <1>6, <1>7 DEF Subscribers

\* The setting of the shutdown comes after every other one of the device, and
\* so do the writes made of it.
LEMMA FlagsSettled ==
  ASSUME TypeOK, HandleFlags, NEW d \in Devices, d \notin analytics, Settled(d)
  PROVE  Settled(d)'
<1> DEFINE event == Head(flags)
           e == event.dev
           form == Form(e, event.enable)
           off == SetFlag(d, Cids, FALSE)
           old == writes[Pid(d)]
<1>1. /\ e \in Devices /\ event = SetFlag(e, event.cids, event.enable) /\ event.enable \in BOOLEAN
      /\ event.cids \in SUBSET Cids
      /\ flags # <<>> /\ flags' = Tail(flags) /\ Range(flags) = {event} \union Range(flags')
      /\ \A r \in Receivers : r # Pid(e) => writes'[r] = writes[r]
  BY FlagsRange
<1>2. PICK added \in Seq(Writes) :
        /\ Range(added) = IF e \in analytics \union Divertable
                          THEN {Write(e, c, form) : c \in event.cids} ELSE {}
        /\ writes'[Pid(e)] = writes[Pid(e)] \o added
        /\ Range(writes'[Pid(e)]) = Range(writes[Pid(e)]) \union Range(added)
  BY FlagsRange
<1>3. reporting' = reporting
  BY DEF HandleFlags, deviceVars
<1>4. old \in Seq(Writes) /\ flags \in Seq(Flags) /\ Pid(d) \in Receivers
  BY QueueTypes
<1>5. e = d => form = IF event.enable THEN "divert" ELSE "undivert"
  BY DEF Form
<1>6. event \in Enables(d) <=> e = d /\ event.enable
  <2>1. \A cids : SetFlag(d, cids, TRUE).dev = d /\ SetFlag(d, cids, TRUE).enable = TRUE
    BY DEF SetFlag
  <2> HIDE DEF event
  <2>2. event \in Enables(d) => e = d /\ event.enable
    BY <2>1 DEF Enables
  <2>3. e = d /\ event.enable => event = SetFlag(d, event.cids, TRUE)
    BY <1>1
  <2> QED BY <1>1, <2>2, <2>3 DEF Enables
<1>7. event = off => e = d /\ event.cids = Cids /\ ~event.enable
  BY DEF SetFlag
<1>8. Followed(flags, Enables(d), off) => Followed(flags', Enables(d), off)
  BY <1>1, <1>4, FollowedTail
<1> HIDE DEF event, form, off, old
<1> SUFFICES ASSUME d \in Divertable, NEW cid \in Cids, ToBeReleased(d) \/ Released(d, cid)
             PROVE  ToBeReleased(d)' \/ Released(d, cid)'
  BY DEF Settled
<1> DEFINE on == Write(d, cid, "divert")
           back == Write(d, cid, "undivert")
<1>9. \A what : Write(d, cid, what).dev = d /\ Write(d, cid, what).what = what
  BY DEF Write
<1>10. \A w \in Range(added) : w.dev = e /\ w.what = form
  BY <1>2 DEF Write
<1>11. on \in Range(added) => e = d /\ event.enable
  <2> SUFFICES ASSUME on \in Range(added), ~(e = d /\ event.enable) PROVE FALSE
    OBVIOUS
  <2>1. e = d /\ form = "divert"
    BY <1>9, <1>10
  <2> QED BY <1>5, <2>1
\* Nothing is added but settings that end the reports.
<1>12. ASSUME on \notin Range(added), Followed(old, {on}, back) \/ (e = d /\ back \in Range(added))
       PROVE  Followed(writes'[Pid(d)], {on}, back)
  <2>1. CASE Pid(d) = Pid(e)
    <3>1. Range(added) \intersect {on} = {}
      BY <1>12
    <3>2. Followed(old \o added, {on}, back)
      BY <1>4, <1>12, <3>1, FollowedConcat
    <3> QED BY <1>2, <2>1, <3>2 DEF old
  <2>2. CASE Pid(d) # Pid(e)
    BY <1>1, <1>4, <1>12, <2>2 DEF old
  <2> QED BY <2>1, <2>2
<1>13. Range(old) \subseteq Range(writes'[Pid(d)])
  BY <1>1, <1>2, <1>4 DEF old
<1>14. CASE ToBeReleased(d)
  <2>1. off \in Range(flags) /\ Followed(flags', Enables(d), off)
    BY <1>8, <1>14 DEF ToBeReleased, off
  <2>2. CASE off \in Range(flags')
    BY <2>1, <2>2 DEF ToBeReleased, off
  <2>3. CASE off \notin Range(flags')
    <3>1. event = off
      BY <1>1, <2>1, <2>3
    <3>2. e = d /\ form = "undivert" /\ event.cids = Cids /\ ~event.enable
      BY <1>5, <1>7, <3>1
    <3>3. back \in Range(added) /\ on \notin Range(added)
      BY <1>2, <1>11, <3>2
    <3>4. Range(flags') \intersect Enables(d) = {}
      <4>1. flags' \in Seq(Flags)
        BY FlagsLemma
      <4> QED BY <2>1, <2>3, <4>1, FollowedRange
    <3>5. back \in Range(writes'[Pid(d)])
      BY <1>2, <3>2, <3>3
    <3> QED BY <1>12, <3>2, <3>3, <3>4, <3>5 DEF Released
  <2> QED BY <2>2, <2>3
<1>15. CASE Released(d, cid)
  <2>1. event \notin Enables(d) /\ Range(flags') \intersect Enables(d) = {}
    BY <1>1, <1>15 DEF Released
  <2>2. on \notin Range(added)
    BY <1>6, <1>11, <2>1
  <2>3. Followed(writes'[Pid(d)], {on}, back)
    BY <1>12, <1>15, <2>2 DEF Released, old
  <2>4. back \in Range(writes'[Pid(d)]) \/ cid \notin reporting'[d]
    BY <1>3, <1>13, <1>15 DEF Released, old
  <2> QED BY <2>1, <2>3, <2>4 DEF Released
<1> QED BY <1>14, <1>15

LEMMA WriteSettled ==
  ASSUME TypeOK, SideInv, NEW r \in Receivers, DoWrite(r),
         NEW d \in Devices, d \notin analytics, Settled(d)
  PROVE  Settled(d)'
<1> DEFINE w == Head(writes[r])
           old == writes[Pid(d)]
           rest == writes'[Pid(d)]
<1>1. /\ w.dev \in Devices /\ w.cid \in Cids /\ w = Write(w.dev, w.cid, w.what)
      /\ w.what \in {"analytics", "divert", "undivert"}
      /\ writes'[r] = Tail(writes[r]) /\ writes[r] # <<>>
      /\ \A o \in Receivers : o # r => writes'[o] = writes[o]
      /\ Range(writes[r]) = {w} \union Range(writes'[r])
      /\ IF w.dev \in link
         THEN reporting' = [reporting EXCEPT ![w.dev] =
                IF Effective(w) THEN @ \union {w.cid}
                ELSE IF w.what = "undivert" THEN @ \ {w.cid} ELSE @]
         ELSE reporting' = reporting
  BY WriteRange
<1>2. flags' = flags
  BY DEF DoWrite
<1>3. old \in Seq(Writes) /\ reporting \in [Devices -> SUBSET Cids] /\ Pid(d) \in Receivers
  BY QueueTypes DEF TypeOK
<1> SUFFICES ASSUME d \in Divertable, NEW cid \in Cids, Released(d, cid) PROVE Released(d, cid)'
  BY <1>2 DEF Settled, ToBeReleased
<1> DEFINE on == Write(d, cid, "divert")
           back == Write(d, cid, "undivert")
<1>4. Followed(old, {on}, back)
  BY DEF Released
<1>5. /\ Followed(rest, {on}, back)
      /\ w = on => back \in Range(rest)
      /\ Range(old) \subseteq Range(rest) \union {w}
  <2>1. CASE Pid(d) = r
    <3>1. Followed(Tail(old), {on}, back) /\ (Head(old) \in {on} => back \in Range(Tail(old)))
      BY <1>1, <1>3, <1>4, <2>1, FollowedTail
    <3> QED BY <1>1, <2>1, <3>1
  <2>2. CASE Pid(d) # r
    <3>1. w # on
      <4>1. Pid(w.dev) = r
        BY <1>1 DEF SideInv, OwnQueues
      <4>2. on.dev = d
        BY DEF Write
      <4> QED BY <2>2, <4>1, <4>2
    <3>2. rest = old
      BY <1>1, <1>3, <2>2
    <3> QED BY <1>4, <2>2, <3>1, <3>2
  <2> QED BY <2>1, <2>2
<1> HIDE DEF w
<1>6. back \in Range(rest) \/ cid \notin reporting'[d]
  <2>1. CASE w.dev # d \/ w.cid # cid
    <3>1. w # back
      BY <2>1 DEF Write
    <3>2. cid \in reporting'[d] => cid \in reporting[d]
      BY <1>1, <1>3, <2>1
    <3> QED BY <1>5, <3>1, <3>2 DEF Released
  <2>2. CASE w.dev = d /\ w.cid = cid /\ w.what = "divert"
    BY <1>1, <1>5, <2>2
  <2>3. CASE w.dev = d /\ w.cid = cid /\ w.what = "undivert"
    <3>1. ~Effective(w)
      BY <2>3 DEF Effective
    <3>2. CASE d \in link
      <4>1. reporting'[d] = reporting[d] \ {cid}
        BY <1>1, <1>3, <2>3, <3>1, <3>2
      <4> QED BY <4>1
    <3>3. CASE d \notin link
      <4>1. reporting'[d] = {}
        BY <1>1, <2>3, <3>3 DEF SideInv, LinkInv
      <4> QED BY <4>1
    <3> QED BY <3>2, <3>3
  <2>4. CASE w.dev = d /\ w.cid = cid /\ w.what = "analytics"
    <3>1. w # back
      BY <2>4 DEF Write
    <3>2. d \notin Accepting
      BY DEF SideInv, AcceptInv
    <3>3. ~Effective(w)
      BY <2>4, <3>2 DEF Effective
    <3>4. reporting'[d] = reporting[d]
      BY <1>1, <1>3, <2>4, <3>3
    <3> QED BY <1>5, <3>1, <3>4 DEF Released
  <2> QED BY <1>1, <2>1, <2>2, <2>3, <2>4
<1> QED BY <1>2, <1>5, <1>6 DEF Released

LEMMA WriteRelease ==
  ASSUME TypeOK, SideInv, ReleaseInv, NEW r \in Receivers, DoWrite(r)
  PROVE  ReleaseInv'
<1>1. UNCHANGED <<analytics, losses, connections, unsets, wakes, flags, stopping, disturbed>>
  BY DEF DoWrite, knownVars, hidVars, stopVars
<1>2. heard' = heard \/ \E packet \in Packets \intersect Responses : Hear(packet)
  <2> DEFINE w == Head(writes[r])
             answer == Response(w.dev, w.cid, ~(w.what = "analytics" /\ Effective(w)))
  <2>1. /\ w.dev \in Devices /\ w.cid \in Cids
        /\ (Hear(answer) /\ answer \in Packets) \/ heard' = heard
    BY WriteRange
  <2>2. (~(w.what = "analytics" /\ Effective(w))) \in BOOLEAN
    OBVIOUS
  <2> HIDE DEF w
  <2>3. answer \in Responses
    BY <2>1, <2>2, PacketTypes
  <2> HIDE DEF answer
  <2> QED BY <2>1, <2>3
<1> SUFFICES ASSUME NEW d \in Devices, LeftAlone(d), Settled(d) PROVE LeftAlone(d)' /\ Settled(d)'
  BY <1>1 DEF ReleaseInv, Settled
<1>3. Silent(d)'
  <2>1. Silent(d)
    BY DEF LeftAlone, Silent
  <2>2. CASE heard' = heard
    BY <2>1, <2>2 DEF Silent, Heard
  <2> QED BY <1>2, <2>1, <2>2, HearSilent
<1>4. LeftAlone(d)'
  BY <1>1, <1>3 DEF LeftAlone, Silent
<1>5. Settled(d)'
  BY WriteSettled DEF LeftAlone
<1> QED BY <1>4, <1>5

LEMMA AboutLemma ==
  ASSUME NEW S, NEW q \in Seq(S), NEW d, ~About(q, d)
  PROVE  \A p \in Range(q) : p.dev # d
BY DEF About, Range

\* At the shutdown, what is on its way to a device disturbs it.
LEMMA ShutdownRelease ==
  ASSUME TypeOK, Shutdown
  PROVE  ReleaseInv'
<1>1. PICK added \in Seq(Flags) :
        /\ flags' = flags \o added
        /\ Range(added) = {SetFlag(d, Cids, FALSE) : d \in Devices \ analytics}
        /\ Range(flags') = Range(flags) \union Range(added)
  BY ShutdownRange
<1>2. UNCHANGED <<link, analytics, heard, connections, losses, unsets, responses, wakes, writes>>
  BY DEF Shutdown, deviceVars, knownVars, hidVars
<1> SUFFICES ASSUME NEW d \in Devices, d \notin disturbed' PROVE LeftAlone(d) /\ ToBeReleased(d)'
  BY <1>2 DEF ReleaseInv, LeftAlone, Heard
<1>3. /\ d \notin analytics /\ losses = <<>>
      /\ ~About(heard[Pid(d)], d) /\ ~About(connections, d) /\ ~About(wakes, d)
      /\ \A e \in Devices : d \in FoundBySlot(e) => ~About(heard[Pid(e)], e) /\ ~About(unsets, e)
  BY DEF Shutdown
<1>4. LeftAlone(d)
  <2>1. Pid(d) \notin Range(losses)
    BY <1>3, RangeEmpty
  <2>2. /\ \A p \in Range(heard[Pid(d)]) : p.dev # d
        /\ \A p \in Range(connections) : p.dev # d
        /\ \A p \in Range(wakes) : p.dev # d
    BY <1>3, QueueTypes, AboutLemma DEF Heard
  <2>3. ASSUME NEW e \in Devices, NEW cid \in Cids, d \in FoundBySlot(e)
        PROVE  Unset(e, cid) \notin Range(heard[Pid(e)]) \union Range(unsets)
    <3>1. /\ \A p \in Range(heard[Pid(e)]) : p.dev # e
          /\ \A p \in Range(unsets) : p.dev # e
      BY <1>3, <2>3, QueueTypes, AboutLemma DEF Heard
    <3> QED BY <3>1, Fields
  <2> QED BY <1>3, <2>1, <2>2, <2>3, Fields DEF LeftAlone, Heard
<1>5. ToBeReleased(d)'
  <2> DEFINE off == SetFlag(d, Cids, FALSE)
  <2>1. off \in Range(added)
    BY <1>1, <1>3
  <2>2. Range(added) \intersect Enables(d) = {}
    <3>1. \A f \in Range(added) : f.enable = FALSE
      BY <1>1 DEF SetFlag
    <3>2. \A f \in Enables(d) : f.enable = TRUE
      BY DEF Enables, SetFlag
    <3> QED BY <3>1, <3>2
  <2> HIDE DEF off
  <2>3. Followed(flags \o added, Enables(d), off)
    BY <2>1, <2>2, QueueTypes, FollowedConcat
  <2> QED BY <1>1, <2>1, <2>3 DEF ToBeReleased, off
<1> QED BY <1>4, <1>5

LEMMA NextRelease == TypeOK /\ SideInv /\ ReleaseInv /\ [Next]_vars => ReleaseInv'
<1> SUFFICES ASSUME TypeOK, SideInv, ReleaseInv, [Next]_vars PROVE ReleaseInv'
  OBVIOUS
<1>1. CASE HandleFlags
  <2>1. UNCHANGED <<heard, analytics, connections, losses, unsets, wakes, stopping, disturbed>>
    BY <1>1 DEF HandleFlags, knownVars, hidVars, stopVars
  <2> SUFFICES ASSUME NEW d \in Devices, LeftAlone(d), Settled(d) PROVE LeftAlone(d)' /\ Settled(d)'
    BY <2>1 DEF ReleaseInv, Settled
  <2>2. Settled(d)'
    BY <1>1, FlagsSettled DEF LeftAlone
  <2> QED BY <2>1, <2>2 DEF LeftAlone, Heard
<1>2. CASE UNCHANGED vars
  BY <1>2 DEF vars, deviceVars, knownVars, hidVars, stopVars, ReleaseInv, LeftAlone, ToBeReleased,
              Released, Heard
<1> QED BY <1>1, <1>2, HappensRelease, ListenRelease, SubscribersRelease, WriteRelease, ShutdownRelease
        DEF Next

\* When everything has been handled after the shutdown, no key stays diverted,
\* unless something happened to the device that made the daemon set it up again.
THEOREM ShutdownReleases == Spec => []ReleasedAtShutdown
<1>1. TypeOK /\ SideInv /\ ReleaseInv => ReleasedAtShutdown
  <2> SUFFICES ASSUME TypeOK, SideInv, ReleaseInv, Quiet, stopping,
                      NEW d \in Devices, d \notin disturbed, d \notin analytics
               PROVE  reporting[d] = {}
    BY DEF ReleasedAtShutdown
  <2>1. d \notin Accepting
    BY DEF SideInv, AcceptInv
  <2>2. CASE d \notin Divertable
    BY <2>1, <2>2 DEF SideInv, DivertInv
  <2>3. CASE d \in Divertable
    <3>1. Range(flags) = {} /\ Range(writes[Pid(d)]) = {}
      BY RangeEmpty DEF Quiet, Receivers
    <3>2. \A cid \in Cids : cid \notin reporting[d]
      BY <2>3, <3>1 DEF ReleaseInv, ToBeReleased, Released
    <3>3. reporting[d] \in SUBSET Cids
      BY DEF TypeOK
    <3> QED BY <3>2, <3>3
  <2> QED BY <2>2, <2>3
<1>2. Init => ReleaseInv
  BY DEF Init, ReleaseInv
<1>3. TypeOK /\ SideInv /\ ReleaseInv /\ [Next]_vars => (TypeOK /\ SideInv /\ ReleaseInv)'
  BY NextType, NextSide, NextRelease
<1> QED BY <1>1, <1>2, <1>3, InitType, InitSide, PTL DEF Spec

----------------------------------------------------------------------------
\* The daemon does not keep answering itself: what its threads have to do can
\* be ranked, and every step of theirs brings the rank down.  The ranks below
\* stand in the order in which work gives rise to other work; a write is
\* answered by a response, which counts only below the writes.
Load(q) == Cardinality({i \in 1..Len(q) : q[i].type # "response"})
Notices == [r \in Receivers |-> Load(heard[r])]
Requests == Len(connections) + Len(unsets) + Len(wakes)
Commands == [r \in Receivers |-> Len(writes[r])]
Answers == [r \in Receivers |-> Len(heard[r])]
Less(f, g) == (\A r \in Receivers : f[r] <= g[r]) /\ (\E r \in Receivers : f[r] < g[r])

Daemon == Subscribers \/ HandleFlags \/ \E r \in Receivers : Listen(r) \/ DoWrite(r)
RunsDown ==
  \/ analytics' \subseteq analytics /\ analytics' # analytics
  \/ Len(losses') < Len(losses) /\ UNCHANGED analytics
  \/ Less(Notices', Notices) /\ UNCHANGED <<analytics, losses>>
  \/ Requests' < Requests /\ UNCHANGED <<analytics, losses, Notices>>
  \/ Len(flags') < Len(flags) /\ UNCHANGED <<analytics, losses, Notices, Requests>>
  \/ Less(Commands', Commands) /\ UNCHANGED <<analytics, losses, Notices, Requests, flags>>
  \/ /\ Less(Answers', Answers)
     /\ UNCHANGED <<analytics, losses, Notices, Requests, flags, Commands>>
  \/ /\ Len(responses') < Len(responses)
     /\ UNCHANGED <<analytics, losses, Notices, Requests, flags, Commands, Answers>>

LEMMA LengthTail ==
  ASSUME NEW S, NEW q \in Seq(S), q # <<>>
  PROVE  Len(Tail(q)) < Len(q) /\ Len(q) \in Nat /\ Len(Tail(q)) \in Nat
OBVIOUS

LEMMA LoadType ==
  ASSUME NEW q \in Seq(Packets)
  PROVE  Load(q) \in Nat /\ IsFiniteSet({i \in 1..Len(q) : q[i].type # "response"})
<1>1. Len(q) \in Int /\ 1 \in Int
  OBVIOUS
<1>2. IsFiniteSet(1..Len(q))
  BY <1>1, FS_Interval
<1> QED BY <1>2, FS_Subset, FS_CardinalityType DEF Load

\* A response weighs nothing.
LEMMA LoadAppend ==
  ASSUME NEW q \in Seq(Packets), NEW e \in Packets, e.type = "response"
  PROVE  Load(Append(q, e)) = Load(q)
<1>1. /\ Len(q) \in Nat /\ Len(Append(q, e)) = Len(q) + 1
      /\ Append(q, e)[Len(q) + 1] = e /\ \A i \in 1..Len(q) : Append(q, e)[i] = q[i]
  OBVIOUS
<1>2. 1..Len(Append(q, e)) = 1..Len(q) \union {Len(q) + 1}
  BY <1>1
<1>3. {i \in 1..Len(Append(q, e)) : Append(q, e)[i].type # "response"}
        = {i \in 1..Len(q) : q[i].type # "response"}
  BY <1>1, <1>2
<1> QED BY <1>3 DEF Load

LEMMA LoadTail ==
  ASSUME NEW q \in Seq(Packets), q # <<>>
  PROVE  Load(Tail(q)) = IF Head(q).type = "response" THEN Load(q) ELSE Load(q) - 1
<1> DEFINE S == {i \in 1..Len(Tail(q)) : Tail(q)[i].type # "response"}
           T == {i \in 1..Len(q) : q[i].type # "response"}
           f == [i \in S |-> i + 1]
<1>1. /\ Len(q) \in Nat /\ Len(Tail(q)) = Len(q) - 1 /\ Head(q) = q[1] /\ Len(q) > 0
      /\ \A i \in 1..Len(Tail(q)) : Tail(q)[i] = q[i + 1]
      /\ Tail(q) \in Seq(Packets)
  OBVIOUS
<1>2. f \in Bijection(S, T \ {1})
  <2>1. f \in [S -> T \ {1}]
    BY <1>1
  <2>2. \A i, j \in S : f[i] = f[j] => i = j
    BY <1>1
  <2>3. \A j \in T \ {1} : \E i \in S : f[i] = j
    <3> TAKE j \in T \ {1}
    <3>1. j - 1 \in S /\ f[j - 1] = j
      BY <1>1
    <3> QED BY <3>1
  <2> QED BY <2>1, <2>2, <2>3 DEF Bijection, Injection, Surjection, IsInjective
<1>3. IsFiniteSet(S) /\ IsFiniteSet(T) /\ Cardinality(T) = Load(q) /\ Cardinality(S) = Load(Tail(q))
  BY <1>1, LoadType DEF Load
<1>4. 1 \in T <=> Head(q).type # "response"
  BY <1>1
<1>5. Load(q) \in Nat
  BY LoadType
<1> HIDE DEF S, T, f
<1>6. Cardinality(T \ {1}) = Cardinality(S)
  BY <1>2, <1>3, FS_Bijection DEF ExistsBijection
<1>7. Cardinality(T \ {1}) = IF 1 \in T THEN Cardinality(T) - 1 ELSE Cardinality(T)
  BY <1>3, FS_RemoveElement
<1> QED BY <1>3, <1>4, <1>5, <1>6, <1>7

\* Taking something from the queue of one receiver.
LEMMA LessAt ==
  ASSUME NEW f \in [Receivers -> Nat], NEW g \in [Receivers -> Nat], NEW r \in Receivers,
         f[r] < g[r], \A other \in Receivers : other # r => f[other] = g[other]
  PROVE  Less(f, g)
BY DEF Less

LEMMA ListenRunsDown ==
  ASSUME TypeOK, TypeOK', NEW r \in Receivers, Listen(r)
  PROVE  RunsDown
<1> DEFINE packet == Head(heard[r])
<1>1. /\ packet \in Packets /\ heard[r] \in Seq(Packets) /\ heard[r] # <<>>
      /\ heard'[r] = Tail(heard[r])
      /\ \A other \in Receivers : other # r => heard'[other] = heard[other]
  BY ListenLemma
<1>2. UNCHANGED <<analytics, losses, flags, writes>>
  BY DEF Listen, knownVars
<1>3. /\ heard \in [Receivers -> Seq(Packets)] /\ heard' \in [Receivers -> Seq(Packets)]
  BY DEF TypeOK
<1>4. Notices \in [Receivers -> Nat] /\ Notices' \in [Receivers -> Nat]
  BY <1>3, LoadType DEF Notices
<1>5. Answers \in [Receivers -> Nat] /\ Answers' \in [Receivers -> Nat]
  BY <1>3 DEF Answers
<1>6. Load(heard'[r]) = IF packet.type = "response" THEN Load(heard[r]) ELSE Load(heard[r]) - 1
  BY <1>1, LoadTail
<1>7. CASE packet.type # "response"
  <2>1. Notices'[r] < Notices[r]
    BY <1>4, <1>6, <1>7 DEF Notices
  <2>2. \A other \in Receivers : other # r => Notices'[other] = Notices[other]
    BY <1>1 DEF Notices
  <2> QED BY <1>2, <1>4, <2>1, <2>2, LessAt DEF RunsDown
<1>8. CASE packet.type = "response"
  <2>1. UNCHANGED <<connections, unsets, wakes>>
    BY <1>8 DEF Listen
  <2>2. Notices' = Notices
    BY <1>1, <1>6, <1>8 DEF Notices
  <2>3. Answers'[r] < Answers[r]
    BY <1>1, LengthTail DEF Answers
  <2>4. \A other \in Receivers : other # r => Answers'[other] = Answers[other]
    BY <1>1 DEF Answers
  <2>5. Less(Answers', Answers)
    BY <1>5, <2>3, <2>4, LessAt
  <2>6. Requests' = Requests /\ Commands' = Commands
    BY <1>2, <2>1 DEF Requests, Commands
  <2> QED BY <1>2, <2>2, <2>5, <2>6 DEF RunsDown
<1> QED BY <1>7, <1>8

LEMMA SubscribersRunDown == TypeOK /\ TypeOK' /\ Subscribers => RunsDown
<1> SUFFICES ASSUME TypeOK, TypeOK', Subscribers PROVE RunsDown
  OBVIOUS
<1>0. /\ connections \in Seq(Connections) /\ unsets \in Seq(Unsets) /\ losses \in Seq(Receivers)
      /\ responses \in Seq(Responses) /\ wakes \in Seq(Wakes)
      /\ Len(connections) \in Nat /\ Len(unsets) \in Nat /\ Len(wakes) \in Nat
      /\ analytics' = analytics \/ analytics' # analytics
  BY DEF TypeOK
<1>1. UNCHANGED <<heard, writes>>
  BY DEF Subscribers, HandleConnection, HandleLoss, HandleUnset, HandleResponse, HandleWake
<1>2. Notices' = Notices /\ Commands' = Commands /\ Answers' = Answers
  BY <1>1 DEF Notices, Commands, Answers
<1>3. CASE HandleConnection
  <2>1. Len(connections') < Len(connections) /\ Len(connections') \in Nat
    BY <1>0, <1>3, LengthTail DEF HandleConnection
  <2>2. UNCHANGED <<analytics, losses, unsets, wakes>>
    BY <1>3 DEF HandleConnection
  <2> QED BY <1>0, <1>2, <2>1, <2>2 DEF RunsDown, Requests
<1>4. CASE HandleLoss
  <2>1. Len(losses') < Len(losses)
    BY <1>0, <1>4, LengthTail DEF HandleLoss
  <2> QED BY <1>4, <2>1 DEF HandleLoss, RunsDown, knownVars
<1>5. CASE HandleUnset
  <2>1. Len(unsets') < Len(unsets) /\ Len(unsets') \in Nat
    BY <1>0, <1>5, LengthTail DEF HandleUnset
  <2>2. UNCHANGED <<analytics, losses, connections, wakes>>
    BY <1>5 DEF HandleUnset, knownVars
  <2> QED BY <1>0, <1>2, <2>1, <2>2 DEF RunsDown, Requests
<1>6. CASE HandleResponse
  <2>1. Len(responses') < Len(responses)
    BY <1>0, <1>6, LengthTail DEF HandleResponse
  <2>2. UNCHANGED <<losses, connections, unsets, wakes>>
    BY <1>6 DEF HandleResponse
  <2>3. CASE Head(responses).dev \in analytics /\ Head(responses).zero
    <3>1. analytics' = analytics \ {Head(responses).dev}
      BY <1>6, <2>3 DEF HandleResponse
    <3> QED BY <2>3, <3>1 DEF RunsDown
  <2>4. CASE ~(Head(responses).dev \in analytics /\ Head(responses).zero)
    <3>1. UNCHANGED <<analytics, flags>>
      BY <1>6, <2>4 DEF HandleResponse
    <3> QED BY <1>2, <2>1, <2>2, <3>1 DEF RunsDown, Requests
  <2> QED BY <2>3, <2>4
<1>7. CASE HandleWake
  <2>1. Len(wakes') < Len(wakes) /\ Len(wakes') \in Nat
    BY <1>0, <1>7, LengthTail DEF HandleWake
  <2>2. UNCHANGED <<analytics, losses, connections, unsets>>
    BY <1>7 DEF HandleWake, knownVars
  <2> QED BY <1>0, <1>2, <2>1, <2>2 DEF RunsDown, Requests
<1> QED BY <1>3, <1>4, <1>5, <1>6, <1>7 DEF Subscribers

LEMMA FlagsRunDown == TypeOK /\ HandleFlags => RunsDown
<1> SUFFICES ASSUME TypeOK, HandleFlags PROVE RunsDown
  OBVIOUS
<1>1. Len(flags') < Len(flags)
  BY LengthTail DEF HandleFlags, TypeOK
<1>2. UNCHANGED <<analytics, losses, heard, connections, unsets, wakes>>
  BY DEF HandleFlags, knownVars, hidVars
<1>3. Notices' = Notices /\ Requests' = Requests
  BY <1>2 DEF Notices, Requests
<1> QED BY <1>1, <1>2, <1>3 DEF RunsDown

LEMMA WriteRunsDown ==
  ASSUME TypeOK, TypeOK', NEW r \in Receivers, DoWrite(r)
  PROVE  RunsDown
<1> DEFINE w == Head(writes[r])
           answer == Response(w.dev, w.cid, ~(w.what = "analytics" /\ Effective(w)))
<1>1. /\ writes[r] # <<>> /\ writes[r] \in Seq(Writes) /\ writes'[r] = Tail(writes[r])
      /\ \A other \in Receivers : other # r => writes'[other] = writes[other]
      /\ \/ answer \in Packets /\ Hear(answer)
         \/ heard' = heard
  BY WriteLemma
<1>2. UNCHANGED <<analytics, losses, connections, unsets, wakes, flags>>
  BY DEF DoWrite, knownVars, hidVars
<1>3. Requests' = Requests
  BY <1>2 DEF Requests
<1>4. /\ writes \in [Receivers -> Seq(Writes)] /\ writes' \in [Receivers -> Seq(Writes)]
      /\ heard \in [Receivers -> Seq(Packets)]
  BY DEF TypeOK
<1>5. Commands \in [Receivers -> Nat] /\ Commands' \in [Receivers -> Nat]
  BY <1>4 DEF Commands
<1>6. Less(Commands', Commands)
  <2>1. Commands'[r] < Commands[r]
    BY <1>1, LengthTail DEF Commands
  <2>2. \A other \in Receivers : other # r => Commands'[other] = Commands[other]
    BY <1>1 DEF Commands
  <2> QED BY <1>5, <2>1, <2>2, LessAt
<1>7. Notices' = Notices
  <2>1. CASE heard' = heard
    BY <2>1 DEF Notices
  <2>2. CASE answer \in Packets /\ Hear(answer)
    <3>1. answer.type = "response"
      BY DEF Response
    <3> HIDE DEF answer
    <3>2. /\ Pid(answer.dev) \in Receivers
          /\ heard'[Pid(answer.dev)] = Append(heard[Pid(answer.dev)], answer)
          /\ \A other \in Receivers : other # Pid(answer.dev) => heard'[other] = heard[other]
      BY <2>2, HearLemma
    <3>3. Load(heard'[Pid(answer.dev)]) = Load(heard[Pid(answer.dev)])
      BY <1>4, <2>2, <3>1, <3>2, LoadAppend
    <3>4. \A other \in Receivers : Load(heard'[other]) = Load(heard[other])
      BY <3>2, <3>3
    <3> QED BY <3>4 DEF Notices
  <2> QED BY <1>1, <2>1, <2>2
<1> QED BY <1>2, <1>3, <1>6, <1>7 DEF RunsDown

\* For every registry and every set of keys: each step of the daemon's threads
\* brings their work down, in an order without infinite descents, so between
\* two things that happen to the devices there are only finitely many: no
\* answer makes a subscriber ask for the same setting again and again
\* (analytics_rejection_subscriber.py asks once, since it drops the flag).
THEOREM DaemonRunsDown == Spec => [][Daemon => RunsDown]_vars
<1>1. TypeOK /\ TypeOK' /\ Daemon => RunsDown
  BY ListenRunsDown, SubscribersRunDown, FlagsRunDown, WriteRunsDown DEF Daemon
<1>2. TypeOK /\ [Next]_vars => [Daemon => RunsDown]_vars
  BY <1>1, NextType
<1> QED BY <1>2, TypeCorrect, PTL DEF Spec

=============================================================================
