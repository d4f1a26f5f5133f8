----------------------------- MODULE KeyReports -----------------------------
(***************************************************************************)
(* Keeping the Easy-Switch keys of discovered keyboards reported to this   *)
(* host.  A keyboard forgets the setting when it loses its link or is      *)
(* reset, another program may take it back, and one that rejects analytics *)
(* answers with a cleared byte.  Five subscribers see these events on      *)
(* hid_event, each through a queue and thread of its own, and publish      *)
(* SetReportFlagEvents, which become writes.  At shutdown the setting is   *)
(* undone.  Packets of a receiver pass through the queue of its            *)
(* EventListener; the loss of the receiver itself does not.                *)
(***************************************************************************)
EXTENDS Naturals, Sequences, SequencesExt, FiniteSets

CONSTANTS
  Registered,   \* the devices, in the order of the registry
  Pid(_), Slot(_), \* receiver of a device, and its slot there
  ReprogIndex(_),  \* index of REPROG_CONTROLS_V4 in its feature table
  Claiming,     \* devices that offer analytics for their keys
  Accepting,    \* those that mean it; the others reject it silently
  Divertable,   \* devices whose keys can be diverted
  Cids,         \* HOST_SWITCH_CIDS
  MaxEvents,    \* bound: things that happen to the devices
  MaxUnplugs    \* bound: how many of them unplug a receiver

Devices == {Registered[i] : i \in 1..Len(Registered)}
Receivers == {Pid(d) : d \in Devices}

ASSUME RegisteredAssumption == Registered \in Seq(Devices)
ASSUME AddressAssumption ==
  \A d, e \in Devices : (Pid(d) = Pid(e) /\ Slot(d) = Slot(e)) => d = e
ASSUME ClaimAssumption == Accepting \subseteq Claiming /\ Claiming \subseteq Devices
ASSUME CidsAssumption == IsFiniteSet(Cids)
ASSUME BoundsAssumption == MaxEvents \in Nat /\ MaxUnplugs \in Nat

VARIABLES
  \* the devices
  up,         \* receivers that are plugged in
  link,       \* devices that can be reached
  reporting,  \* reporting[d]: keys that d reports to this host
  events, unplugs,
  \* what the daemon knows of them
  connected,  \* devices marked as connected
  analytics,  \* devices whose supported_flags contain KEY_FLAG_ANALYTICS
  \* queues
  heard,      \* heard[r]: packets in the EventListener of r
  connections, losses, unsets, responses, wakes, \* hid_event, per subscriber
  flags,      \* SetReportFlagEvents
  writes,     \* writes[r]: WriteEvents for the gateway of r
  \* shutdown
  stopping,   \* _undivert_all has run
  \* history
  disturbed,  \* devices with a reason to be set up again since then
  missed,     \* devices whose keys were taken back while another one has their
              \* slot in the registry, and that were not reset since
  overtaken   \* devices whose reports may be handled in the wrong order

deviceVars == <<up, link, reporting, events, unplugs>>
knownVars == <<connected, analytics>>
hidVars == <<connections, losses, unsets, responses, wakes>>
stopVars == <<stopping, disturbed, missed, overtaken>>
vars == <<deviceVars, knownVars, heard, hidVars, flags, writes, stopVars>>

\* The devices of a set, in the order of the registry.
InOrder(devices) ==
  {order \in SetToSeqs(devices) :
     \A i, j \in 1..Len(order) : i < j =>
       \E m, n \in 1..Len(Registered) :
         m < n /\ Registered[m] = order[i] /\ Registered[n] = order[j]}

\* The device that ExternalUnsetFlagSubscriber takes a packet of d for: the
\* first one with that slot, on whatever receiver.
FoundBySlot(d) ==
  {Registered[n] : n \in {m \in 1..Len(Registered) :
     Slot(Registered[m]) = Slot(d) /\ \A i \in 1..(m - 1) : Slot(Registered[i]) # Slot(d)}}

\* Packets, and the events made of them.
Connection(d, isUp) == [type |-> "connection", dev |-> d, up |-> isUp]
Unset(d, cid) == [type |-> "unset", dev |-> d, cid |-> cid]
Response(d, cid, isZero) == [type |-> "response", dev |-> d, cid |-> cid, zero |-> isZero]
Wake(d) == [type |-> "wake", dev |-> d]
Connections == [type : {"connection"}, dev : Devices, up : BOOLEAN]
Unsets == [type : {"unset"}, dev : Devices, cid : Cids]
Responses == [type : {"response"}, dev : Devices, cid : Cids, zero : BOOLEAN]
Wakes == [type : {"wake"}, dev : Devices]
Packets == Connections \union Unsets \union Responses \union Wakes

\* One report for each device of a sequence: those of a set are up.
Reports(order, back) == [i \in 1..Len(order) |-> Connection(order[i], order[i] \in back)]

SetFlag(d, cids, enable) == [dev |-> d, cids |-> cids, enable |-> enable]
Write(d, cid, what) == [dev |-> d, cid |-> cid, what |-> what]
Flags == [dev : Devices, cids : SUBSET Cids, enable : BOOLEAN]
Writes == [dev : Devices, cid : Cids, what : {"analytics", "divert", "undivert"}]

TypeOK ==
  /\ up \subseteq Receivers /\ link \subseteq Devices
  /\ reporting \in [Devices -> SUBSET Cids]
  /\ events \in 0..MaxEvents /\ unplugs \in 0..MaxUnplugs
  /\ connected \subseteq Devices /\ analytics \subseteq Devices
  /\ heard \in [Receivers -> Seq(Packets)]
  /\ connections \in Seq(Connections) /\ losses \in Seq(Receivers)
  /\ unsets \in Seq(Unsets) /\ responses \in Seq(Responses) /\ wakes \in Seq(Wakes)
  /\ flags \in Seq(Flags) /\ writes \in [Receivers -> Seq(Writes)]
  /\ stopping \in BOOLEAN /\ disturbed \subseteq Devices
  /\ missed \subseteq Devices /\ overtaken \subseteq Devices

\* Discovery has just found the keys of every device and asks for the reports;
\* a device that is going to reject analytics has not been asked yet.
Init ==
  /\ up = Receivers /\ link = Devices /\ connected = Devices
  /\ analytics = Claiming
  /\ reporting = [d \in Devices |-> {}]
  /\ events = 0 /\ unplugs = 0
  /\ heard = [r \in Receivers |-> <<>>]
  /\ connections = <<>> /\ losses = <<>> /\ unsets = <<>> /\ responses = <<>> /\ wakes = <<>>
  /\ flags = [i \in 1..Len(Registered) |-> SetFlag(Registered[i], Cids, TRUE)]
  /\ writes = [r \in Receivers |-> <<>>]
  /\ stopping = FALSE /\ disturbed = {} /\ missed = {} /\ overtaken = {}

----------------------------------------------------------------------------
\* The devices.  Whatever happens to one is heard by the receiver's listener.
Hear(packet) == heard' = [heard EXCEPT ![Pid(packet.dev)] = Append(@, packet)]
About(queue, d) == \E i \in 1..Len(queue) : queue[i].dev = d
Disturb(devices) == disturbed' = IF stopping THEN disturbed \union devices ELSE disturbed

LinkChanges(d) ==
  /\ events < MaxEvents /\ events' = events + 1
  /\ Pid(d) \in up
  /\ link' = IF d \in link THEN link \ {d} ELSE link \union {d}
  /\ reporting' = [reporting EXCEPT ![d] = {}]
  /\ Hear(Connection(d, d \in link'))
  /\ Disturb({d})
  /\ missed' = missed \ {d}
  /\ UNCHANGED <<up, unplugs, knownVars, hidVars, flags, writes, stopping, overtaken>>

\* The device is reset and asks for its configuration (x1D4B).
Reset(d) ==
  /\ events < MaxEvents /\ events' = events + 1
  /\ d \in link
  /\ reporting' = [reporting EXCEPT ![d] = {}]
  /\ Hear(Wake(d))
  /\ Disturb({d})
  /\ missed' = missed \ {d}
  /\ UNCHANGED <<up, link, unplugs, knownVars, hidVars, flags, writes, stopping, overtaken>>

\* Another program takes a key back; the receiver shows us the answer.
TakeBack(d, cid) ==
  /\ events < MaxEvents /\ events' = events + 1
  /\ d \in link
  /\ reporting' = [reporting EXCEPT ![d] = @ \ {cid}]
  /\ Hear(Unset(d, cid))
  /\ Disturb({d} \union FoundBySlot(d))
  /\ missed' = IF d \in FoundBySlot(d) THEN missed ELSE missed \union {d}
  /\ UNCHANGED <<up, link, unplugs, knownVars, hidVars, flags, writes, stopping, overtaken>>

\* The receiver is unplugged: its gateway publishes TransportDisconnectedEvent.
Unplug(r) ==
  /\ events < MaxEvents /\ events' = events + 1
  /\ unplugs < MaxUnplugs /\ unplugs' = unplugs + 1
  /\ r \in up /\ up' = up \ {r}
  /\ link' = {d \in link : Pid(d) # r}
  /\ reporting' = [d \in Devices |-> IF Pid(d) = r THEN {} ELSE reporting[d]]
  /\ losses' = Append(losses, r)
  /\ Disturb({d \in Devices : Pid(d) = r})
  /\ overtaken' = overtaken \union
       {d \in Devices : Pid(d) = r /\ Connection(d, TRUE) \in Range(heard[r])}
  /\ UNCHANGED <<knownVars, heard, connections, unsets, responses, wakes, flags, writes, stopping,
                 missed>>

\* It is plugged in again: the gateway makes it enumerate its devices.
Replug(r) ==
  /\ r \notin up /\ up' = up \union {r}
  /\ \E back \in SUBSET {d \in Devices : Pid(d) = r} :
       /\ link' = link \union back
       /\ \E order \in InOrder({d \in Devices : Pid(d) = r}) :
            heard' = [heard EXCEPT ![r] = @ \o Reports(order, back)]
  /\ Disturb({d \in Devices : Pid(d) = r})
  /\ missed' = {d \in missed : Pid(d) # r}
  /\ overtaken' = overtaken \union
       (IF r \in Range(losses) THEN {d \in Devices : Pid(d) = r} ELSE {})
  /\ UNCHANGED <<reporting, events, unplugs, knownVars, hidVars, flags, writes, stopping>>

----------------------------------------------------------------------------
\* EventListener.run and parse: the answers to our own software ids, the ones
\* to other programs and the notifications of the device are told apart.
Listen(r) ==
  /\ heard[r] # <<>>
  /\ heard' = [heard EXCEPT ![r] = Tail(@)]
  /\ LET packet == Head(heard[r])
         To(queue, type) == IF packet.type = type THEN Append(queue, packet) ELSE queue
     IN /\ connections' = To(connections, "connection")
        /\ unsets' = To(unsets, "unset")
        /\ responses' = To(responses, "response")
        /\ wakes' = To(wakes, "wake")
  /\ UNCHANGED <<deviceVars, knownVars, losses, flags, writes, stopVars>>

\* topics.flags.publish(SetReportFlagEvent(...))
SetAgain(d, cids) == flags' = Append(flags, SetFlag(d, cids, TRUE))

\* DeviceConnectionSubscriber.notify and _reconnection
HandleConnection ==
  /\ connections # <<>> /\ connections' = Tail(connections)
  /\ LET event == Head(connections)
         changed == (event.dev \in connected) # event.up
     IN /\ connected' = IF event.up THEN connected \union {event.dev}
                                    ELSE connected \ {event.dev}
        /\ IF changed /\ event.up THEN SetAgain(event.dev, Cids) ELSE UNCHANGED flags
  /\ UNCHANGED <<deviceVars, analytics, heard, losses, unsets, responses, wakes, writes, stopVars>>

\* Mutant: the lost devices are looked up by their slots alone.
HandleLossBySlot ==
  /\ losses # <<>> /\ losses' = Tail(losses)
  /\ \E lost \in InOrder({d \in Devices : Pid(d) = Head(losses)}) :
       connections' = connections \o
         [i \in 1..Len(lost) |-> Connection(CHOOSE e \in FoundBySlot(lost[i]) : TRUE, FALSE)]
  /\ UNCHANGED <<deviceVars, knownVars, heard, unsets, responses, wakes, flags, writes, stopVars>>

\* Mutant: the receiver itself is reported, like a device.
HandleLossAsOne ==
  /\ losses # <<>> /\ losses' = Tail(losses)
  /\ connections' = Append(connections, Connection(Head(losses), FALSE))
  /\ UNCHANGED <<deviceVars, knownVars, heard, unsets, responses, wakes, flags, writes, stopVars>>

\* TransportDisconnectionSubscriber.notify: one report for each device of the
\* receiver, in the order of the registry.
HandleLoss ==
  /\ losses # <<>> /\ losses' = Tail(losses)
  /\ \E lost \in InOrder({d \in Devices : Pid(d) = Head(losses)}) :
       connections' = connections \o Reports(lost, {})
  /\ UNCHANGED <<deviceVars, knownVars, heard, unsets, responses, wakes, flags, writes, stopVars>>

\* ExternalUnsetFlagSubscriber.notify: nothing is done if the index is not the
\* one of REPROG_CONTROLS_V4 of the device that was found.
HandleUnset ==
  /\ unsets # <<>> /\ unsets' = Tail(unsets)
  /\ LET event == Head(unsets)
     IN \E device \in FoundBySlot(event.dev) :
          IF ReprogIndex(device) = ReprogIndex(event.dev)
          THEN SetAgain(device, {event.cid}) ELSE UNCHANGED flags
  /\ UNCHANGED <<deviceVars, knownVars, heard, connections, losses, responses, wakes, writes,
                 stopVars>>

\* Mutants: the fallback to divert is not asked for; a cleared byte counts as
\* a rejection also after the fallback.
HandleResponseSilently ==
  /\ responses # <<>> /\ responses' = Tail(responses)
  /\ analytics' = IF Head(responses).zero THEN analytics \ {Head(responses).dev} ELSE analytics
  /\ UNCHANGED <<deviceVars, connected, heard, connections, losses, unsets, wakes, flags, writes,
                 stopVars>>

HandleResponseAlways ==
  /\ responses # <<>> /\ responses' = Tail(responses)
  /\ LET event == Head(responses)
     IN IF event.zero
        THEN analytics' = analytics \ {event.dev} /\ SetAgain(event.dev, Cids)
        ELSE UNCHANGED <<analytics, flags>>
  /\ UNCHANGED <<deviceVars, connected, heard, connections, losses, unsets, wakes, writes, stopVars>>

\* AnalyticsRejectionSubscriber.notify
HandleResponse ==
  /\ responses # <<>> /\ responses' = Tail(responses)
  /\ LET event == Head(responses)
     IN IF event.dev \in analytics /\ event.zero
        THEN analytics' = analytics \ {event.dev} /\ SetAgain(event.dev, Cids)
        ELSE UNCHANGED <<analytics, flags>>
  /\ UNCHANGED <<deviceVars, connected, heard, connections, losses, unsets, wakes, writes, stopVars>>

\* WirelessStatusSubscriber.notify
HandleWake ==
  /\ wakes # <<>> /\ wakes' = Tail(wakes)
  /\ SetAgain(Head(wakes).dev, Cids)
  /\ UNCHANGED <<deviceVars, knownVars, heard, connections, losses, unsets, responses, writes,
                 stopVars>>

\* Mutant: enable is not looked at.
FormEnabled(d, enable) == IF d \in analytics THEN "analytics" ELSE "divert"

\* SetReportFlagSubscriber.notify: one write per key, in the form that the
\* flags ask for by now; an analytics setting is never undone.
Form(d, enable) ==
  IF d \in analytics THEN "analytics" ELSE IF enable THEN "divert" ELSE "undivert"
HandleFlags ==
  /\ flags # <<>> /\ flags' = Tail(flags)
  /\ LET event == Head(flags)
         d == event.dev
     IN IF d \in analytics \union Divertable
        THEN \E order \in SetToSeqs(event.cids) :
               writes' = [writes EXCEPT ![Pid(d)] = @ \o
                 [i \in 1..Len(order) |-> Write(d, order[i], Form(d, event.enable))]]
        ELSE UNCHANGED writes
  /\ UNCHANGED <<deviceVars, knownVars, heard, hidVars, stopVars>>

\* The gateway writes, and a device that can be reached obeys and answers;
\* byte 9 of the answer is zero unless it accepted analytics.
DoWrite(r) ==
  /\ writes[r] # <<>>
  /\ writes' = [writes EXCEPT ![r] = Tail(@)]
  /\ LET w == Head(writes[r])
         on == w.what = "divert" \/ (w.what = "analytics" /\ w.dev \in Accepting)
     IN IF w.dev \in link
        THEN /\ reporting' = [reporting EXCEPT ![w.dev] =
                  IF on THEN @ \union {w.cid} ELSE IF w.what = "undivert" THEN @ \ {w.cid} ELSE @]
             /\ Hear(Response(w.dev, w.cid, ~(w.what = "analytics" /\ on)))
        ELSE UNCHANGED <<reporting, heard>>
  /\ UNCHANGED <<up, link, events, unplugs, knownVars, hidVars, flags, stopVars>>

----------------------------------------------------------------------------
\* _undivert_all, in the main thread: every device is asked to stop reporting
\* its keys, except one that is set up through analytics.
Shutdown ==
  /\ ~stopping /\ stopping' = TRUE
  /\ \E diverted \in InOrder(Devices \ analytics) :
       flags' = flags \o [i \in 1..Len(diverted) |-> SetFlag(diverted[i], Cids, FALSE)]
  /\ disturbed' = {d \in Devices :
       \/ d \in analytics \/ Pid(d) \notin up \/ losses # <<>>
       \/ About(heard[Pid(d)], d) \/ About(connections, d) \/ About(wakes, d)
       \/ \E e \in Devices : d \in FoundBySlot(e) /\ (About(heard[Pid(e)], e) \/ About(unsets, e))}
  /\ UNCHANGED <<deviceVars, knownVars, heard, hidVars, writes, missed, overtaken>>

Happens ==
  \/ \E d \in Devices : LinkChanges(d) \/ Reset(d) \/ \E cid \in Cids : TakeBack(d, cid)
  \/ \E r \in Receivers : Unplug(r) \/ Replug(r)
Subscribers == HandleConnection \/ HandleLoss \/ HandleUnset \/ HandleResponse \/ HandleWake

Next ==
  \/ Happens \/ Shutdown \/ Subscribers \/ HandleFlags
  \/ \E r \in Receivers : Listen(r) \/ DoWrite(r)

Spec == Init /\ [][Next]_vars

\* Every thread of the daemon runs; nothing has to happen to the devices.
Fairness ==
  /\ WF_vars(HandleConnection) /\ WF_vars(HandleLoss) /\ WF_vars(HandleUnset)
  /\ WF_vars(HandleResponse) /\ WF_vars(HandleWake) /\ WF_vars(HandleFlags)
  /\ \A r \in Receivers : WF_vars(Listen(r)) /\ WF_vars(DoWrite(r))
FairSpec == Spec /\ Fairness

----------------------------------------------------------------------------
Quiet ==
  /\ connections = <<>> /\ losses = <<>> /\ unsets = <<>> /\ responses = <<>> /\ wakes = <<>>
  /\ flags = <<>> /\ \A r \in Receivers : heard[r] = <<>> /\ writes[r] = <<>>

\* When everything has been handled, every key of every device that can be
\* reached is reported, whatever happened to it, in whatever order the five
\* subscribers saw it: unless the device was taken for another one with its
\* slot, its receiver was lost or came back with reports still unhandled, or
\* the daemon stops.
ReportsWhenQuiet ==
  (Quiet /\ ~stopping) =>
    \A d \in (link \intersect (Accepting \union Divertable)) \ (missed \union overtaken) :
      reporting[d] = Cids

\* After the shutdown no key stays diverted, unless something happened to the
\* device that made the daemon set it up again.
ReleasedAtShutdown ==
  (Quiet /\ stopping) => \A d \in Devices \ (disturbed \union analytics) : reporting[d] = {}

\* "On disconnect: publishes TransportDisconnectedEvent so the fan-out
\* subscriber can mark all paired devices as offline": when everything has
\* been handled, no device of an unplugged receiver counts as connected, unless
\* its receiver was lost while a connection report was still to be handled.
LostMeansOffline == Quiet => \A d \in connected \ overtaken : Pid(d) \in up

\* The daemon does not keep answering its own writes: it comes to rest.
ComesToRest == <>[]Quiet
=============================================================================
