----------------------------- MODULE HostRelay -----------------------------
(***************************************************************************)
(* What CleverSwitch is for: a press of an Easy-Switch key on one device   *)
(* takes the others along.  Several hosts run the daemon, and a device     *)
(* talks to the one it is at.  There the press passes through the queue of *)
(* the EventListener and the parser, HostChangeSubscriber (for some        *)
(* keyboards ChangeHostNotificationSubscriber before it), and the queue of *)
(* each gateway, as a command to every device in the registry.             *)
(*                                                                         *)
(* That the keys of a keyboard are reported again some time after it has   *)
(* arrived is the business of module KeyReports; here it is one step.      *)
(***************************************************************************)
EXTENDS Naturals, Sequences, SequencesExt, FiniteSets

CONSTANTS
  Hosts,         \* hosts that run the daemon
  NoHost,        \* what else a notification of CHANGE_HOST may hold
  Registered,    \* the devices, in the order of the registries of all hosts
  Gateway(_),    \* the gateway of a device, the same on all hosts
  Relayed,       \* devices whose CHANGE_HOST feature was resolved
  Keyboards,
  Modes,         \* how the keyboards may tell of a press
  MaxPresses,    \* bound: presses of Easy-Switch keys
  MaxNaps        \* bound: times that a device falls asleep

Devices == {Registered[i] : i \in 1..Len(Registered)}
Gateways == {Gateway(d) : d \in Devices}

ASSUME HostsAssumption == NoHost \notin Hosts
ASSUME DeviceAssumption ==
  Registered \in Seq(Devices) /\ Relayed \subseteq Devices /\ Keyboards \subseteq Relayed
ASSUME ModesAssumption == Modes \subseteq {"divert", "analytics", "announce"}
ASSUME BoundsAssumption == MaxPresses \in Nat /\ MaxNaps \in Nat

VARIABLES
  \* the devices
  mode,     \* a keyboard whose keys are diverted waits for the command; one
            \* that reports analytics or announces the change leaves at once
  at,       \* at[d]: the host d is connected to
  awake,    \* devices that can be reached
  armed,    \* keyboards that report their keys to the host they are at
  presses, naps,
  \* the daemon of each host
  heard,    \* heard[h]: packets in the EventListener
  notices,  \* notices[h]: HidppNotificationEvents for ChangeHostNotificationSubscriber
  changes,  \* changes[h]: HostChangeEvents for HostChangeSubscriber
  writes,   \* writes[h][g]: commands for gateway g
  \* history
  goal,     \* target of the last press
  clean,    \* it was made with the relayed devices together, awake and set
            \* up, and nothing else has happened before it was relayed
  moves     \* moves[d]: commands that made d change hosts

deviceVars == <<mode, at, awake, armed, presses, naps>>
daemonVars == <<heard, notices, changes, writes>>
historyVars == <<goal, clean, moves>>
vars == <<deviceVars, daemonVars, historyVars>>

\* What a keyboard sends: a key report (x1B04), or the change itself (x1814).
Packet == [kind : {"press", "release"}, target : Hosts]
          \union [kind : {"announcement"}, target : Hosts \union {NoHost}]
Command == [dev : Devices, target : Hosts]

TypeOK ==
  /\ mode \in Modes /\ at \in [Devices -> Hosts]
  /\ awake \subseteq Devices /\ armed \subseteq Keyboards
  /\ presses \in 0..MaxPresses /\ naps \in 0..MaxNaps
  /\ heard \in [Hosts -> Seq(Packet)]
  /\ notices \in [Hosts -> Seq(Packet)]
  /\ changes \in [Hosts -> Seq(Hosts)]
  /\ writes \in [Hosts -> [Gateways -> Seq(Command)]]
  /\ goal \in Hosts /\ clean \in BOOLEAN
  /\ moves \in [Devices -> Nat]

Init ==
  /\ mode \in Modes
  /\ \E h \in Hosts : at = [d \in Devices |-> h] /\ goal = h
  /\ awake = Devices /\ armed = Keyboards
  /\ presses = 0 /\ naps = 0
  /\ heard = [h \in Hosts |-> <<>>] /\ notices = heard /\ changes = heard
  /\ writes = [h \in Hosts |-> [g \in Gateways |-> <<>>]]
  /\ clean = TRUE /\ moves = [d \in Devices |-> 0]

Quiet ==
  \A h \in Hosts :
    heard[h] = <<>> /\ notices[h] = <<>> /\ changes[h] = <<>>
    /\ \A g \in Gateways : writes[h][g] = <<>>

----------------------------------------------------------------------------
\* The devices.  A keyboard that leaves a host stops reporting to it.
MoveTo(d, t) ==
  /\ at' = [at EXCEPT ![d] = t]
  /\ armed' = IF at[d] = t THEN armed ELSE armed \ {d}

\* What the host is told; the release may come when the keyboard has left.
Told(k, t) ==
  IF mode = "announce"
  THEN {<<[kind |-> "announcement", target |-> t]>>,
        <<[kind |-> "announcement", target |-> NoHost], [kind |-> "announcement", target |-> t]>>}
  ELSE IF k \notin armed THEN {<<>>}
  ELSE {<<[kind |-> "press", target |-> t]>>,
        <<[kind |-> "press", target |-> t], [kind |-> "release", target |-> t]>>}

Press(k, t) ==
  /\ k \in awake
  /\ presses < MaxPresses /\ presses' = presses + 1
  /\ \E packets \in Told(k, t) : heard' = [heard EXCEPT ![at[k]] = @ \o packets]
  /\ IF mode = "divert" /\ k \in armed THEN UNCHANGED <<at, armed>> ELSE MoveTo(k, t)
  /\ goal' = t
  /\ clean' = /\ Quiet /\ Relayed \subseteq awake /\ \A d \in Relayed : at[d] = at[k]
              /\ mode = "announce" \/ k \in armed
  /\ UNCHANGED <<mode, awake, naps, notices, changes, writes, moves>>

Nap(d) ==
  /\ d \in awake /\ naps < MaxNaps /\ naps' = naps + 1
  /\ awake' = awake \ {d} /\ armed' = armed \ {d}
  /\ clean' = (clean /\ Quiet)
  /\ UNCHANGED <<mode, at, presses, daemonVars, goal, moves>>

WakeUp(d) ==
  /\ d \notin awake /\ awake' = awake \union {d}
  /\ UNCHANGED <<mode, at, armed, presses, naps, daemonVars, historyVars>>

\* The connection was reported and handled, and the keys set up.
Rearm(k) ==
  /\ mode # "announce" /\ k \in awake \ armed
  /\ armed' = armed \union {k}
  /\ UNCHANGED <<mode, at, awake, presses, naps, daemonVars, historyVars>>

----------------------------------------------------------------------------
\* Mutant: the release of a key is taken for a press.
ListenReleases(h) ==
  /\ heard[h] # <<>> /\ heard' = [heard EXCEPT ![h] = Tail(@)]
  /\ LET packet == Head(heard[h])
     IN IF packet.kind \in {"press", "release"}
        THEN changes' = [changes EXCEPT ![h] = Append(@, packet.target)] /\ UNCHANGED notices
        ELSE notices' = [notices EXCEPT ![h] = Append(@, packet)] /\ UNCHANGED changes
  /\ UNCHANGED <<deviceVars, writes, historyVars>>

\* EventListener.run and parse: the press of an Easy-Switch key becomes a
\* HostChangeEvent; its release and an announcement become notifications.
Listen(h) ==
  /\ heard[h] # <<>> /\ heard' = [heard EXCEPT ![h] = Tail(@)]
  /\ LET packet == Head(heard[h])
     IN IF packet.kind = "press"
        THEN changes' = [changes EXCEPT ![h] = Append(@, packet.target)] /\ UNCHANGED notices
        ELSE notices' = [notices EXCEPT ![h] = Append(@, packet)] /\ UNCHANGED changes
  /\ UNCHANGED <<deviceVars, writes, historyVars>>

\* Mutant: the target is not looked at.
HandleNoticeUnchecked(h) ==
  /\ notices[h] # <<>> /\ notices' = [notices EXCEPT ![h] = Tail(@)]
  /\ LET packet == Head(notices[h])
     IN IF packet.kind = "announcement"
        THEN changes' = [changes EXCEPT ![h] = Append(@, packet.target)]
        ELSE UNCHANGED changes
  /\ UNCHANGED <<deviceVars, heard, writes, historyVars>>

\* ChangeHostNotificationSubscriber.notify: what comes from CHANGE_HOST and
\* names a host becomes a HostChangeEvent.
HandleNotice(h) ==
  /\ notices[h] # <<>> /\ notices' = [notices EXCEPT ![h] = Tail(@)]
  /\ LET packet == Head(notices[h])
     IN IF packet.kind = "announcement" /\ packet.target \in Hosts
        THEN changes' = [changes EXCEPT ![h] = Append(@, packet.target)]
        ELSE UNCHANGED changes
  /\ UNCHANGED <<deviceVars, heard, writes, historyVars>>

\* The devices of a set that gateway g serves, in the order of the registry.
InOrder(devices, g) ==
  {order \in SetToSeqs({d \in devices : Gateway(d) = g}) :
     \A i, j \in 1..Len(order) : i < j =>
       \E m, n \in 1..Len(Registered) :
         m < n /\ Registered[m] = order[i] /\ Registered[n] = order[j]}

\* publish(WriteEvent(...)) for each of the devices given: every gateway takes
\* the commands for its own devices.
Commanded(h, devices, t) ==
  {[writes EXCEPT ![h] = [g \in Gateways |->
      @[g] \o [i \in 1..Len(mine[g]) |-> [dev |-> mine[g][i], target |-> t]]]] :
     mine \in {m \in [Gateways -> UNION {InOrder(devices, g) : g \in Gateways}] :
                \A g \in Gateways : m[g] \in InOrder(devices, g)}}

\* Mutant: a device without CHANGE_HOST ends the loop.
HandleChangeUntilMissing(h) ==
  /\ changes[h] # <<>> /\ changes' = [changes EXCEPT ![h] = Tail(@)]
  /\ LET missing == {i \in 1..Len(Registered) : Registered[i] \notin Relayed}
         served == {i \in 1..Len(Registered) : \A j \in missing : i < j}
     IN writes' \in Commanded(h, {Registered[i] : i \in served}, Head(changes[h]))
  /\ UNCHANGED <<deviceVars, heard, notices, historyVars>>

\* HostChangeSubscriber.notify: every device is told that has CHANGE_HOST, the
\* one that was pressed and those that are gone included.
HandleChange(h) ==
  /\ changes[h] # <<>> /\ changes' = [changes EXCEPT ![h] = Tail(@)]
  /\ writes' \in Commanded(h, Relayed, Head(changes[h]))
  /\ UNCHANGED <<deviceVars, heard, notices, historyVars>>

\* HidGateway.notify: a device that is at this host and awake obeys.
DoWrite(h, g) ==
  /\ writes[h][g] # <<>> /\ writes' = [writes EXCEPT ![h][g] = Tail(@)]
  /\ LET command == Head(writes[h][g])
         d == command.dev
     IN IF at[d] = h /\ d \in awake
        THEN /\ MoveTo(d, command.target)
             /\ moves' = IF command.target = h THEN moves ELSE [moves EXCEPT ![d] = @ + 1]
        ELSE UNCHANGED <<at, armed, moves>>
  /\ UNCHANGED <<mode, awake, presses, naps, heard, notices, changes, goal, clean>>

----------------------------------------------------------------------------
Environment ==
  \/ \E k \in Keyboards : Rearm(k) \/ \E t \in Hosts : Press(k, t)
  \/ \E d \in Relayed : Nap(d) \/ WakeUp(d)
Daemon(h) ==
  Listen(h) \/ HandleNotice(h) \/ HandleChange(h) \/ \E g \in Gateways : DoWrite(h, g)

Next == Environment \/ \E h \in Hosts : Daemon(h)

Spec == Init /\ [][Next]_vars

\* The threads of every daemon run.
Fairness ==
  \A h \in Hosts :
    /\ WF_vars(Listen(h)) /\ WF_vars(HandleNotice(h)) /\ WF_vars(HandleChange(h))
    /\ \A g \in Gateways : WF_vars(DoWrite(h, g))
FairSpec == Spec /\ Fairness

----------------------------------------------------------------------------
\* A press makes no device move on command more than once, whatever is still in
\* the queues of which host: releases and repetitions do not count.
MovesOncePerPress == \A d \in Devices : moves[d] <= presses

\* "So both devices land on the same host": when nothing is left in any queue
\* of any host, every device is where the last press sent it, if that press was
\* made with all devices together, awake and set up.
TogetherWhenQuiet == clean /\ Quiet => \A d \in Relayed : at[d] = goal

\* And such a press is relayed: the queues run empty, with the devices together
\* at its target.
Together == (clean /\ ~Quiet) ~> (~clean \/ (Quiet /\ \A d \in Relayed : at[d] = goal))
=============================================================================
