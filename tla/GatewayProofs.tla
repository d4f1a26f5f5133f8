--------------------------- MODULE GatewayProofs ---------------------------
(***************************************************************************)
(* The two gateways.  HidGateway: that a collection counts as connected    *)
(* only on a transport that was opened for it, and that the others know    *)
(* whether it is.  GatewayBLE, which has the same flags and threads: that  *)
(* a device announced as connected is connected and heard.  Everything     *)
(* holds for every set of paths and every number of faults.                *)
(***************************************************************************)
EXTENDS HidGateway, GatewayBLE, TLAPS

\* While the gateway thread looks for the device and opens it, the flag is
\* clear: only this thread sets it, and it does so at the end.
ClearWhileConnecting ==
  gw \in {"enumerating", "reopening", "opening"} => ~connected

TransportInv == ClearWhileConnecting /\ ConnectedHasTransport

USE DEF deviceVars, objectVars, queueVars, writerVars, toldVars

\* The two halves of TypeOK: the flags, and everything else.
Flags ==
  /\ plugged \in BOOLEAN /\ rearmed \in BOOLEAN /\ connected \in BOOLEAN
  /\ everConnected \in BOOLEAN /\ stop \in BOOLEAN /\ graceOver \in BOOLEAN
  /\ unreported \in BOOLEAN

States ==
  /\ kind \in Kinds /\ node \in Paths /\ path \in Paths /\ handle \in Handles
  /\ unplugs \in 0..MaxUnplugs /\ openFaults \in 0..MaxOpenFaults
  /\ writeFaults \in 0..MaxWriteFaults
  /\ gw \in GwStates /\ closer \in {"running", "stopping", "closed"}
  /\ writer \in {"idle", "waiting", "checking", "sending", "failing", "crashed"} /\ item \in Writes
  /\ requests \in Nat /\ sentRequests \in 0..MaxRequests /\ rearms \in Nat
  /\ announced \in {"none", "up", "down"}

LEMMA TypeParts == TypeOK <=> Flags /\ States
BY DEF TypeOK, Flags, States

LEMMA InitType == Init => TypeOK
<1> SUFFICES ASSUME Init PROVE Flags /\ States
  BY TypeParts
<1>1. Flags
  BY DEF Init, Flags
<1>2. States
  BY BoundsAssumption DEF Init, States, Handles, GwStates, Writes
<1> QED BY <1>1, <1>2

\* Flags stay flags.
LEMMA NextFlags == Flags /\ [Next]_vars => Flags'
<1> SUFFICES ASSUME Flags, [Next]_vars PROVE Flags'
  OBVIOUS
<1> USE DEF Flags
<1>1. CASE GatewayThread
  <2>1. CASE Loop BY <2>1 DEF Loop
  <2>2. CASE ReadFails BY <2>2 DEF ReadFails
  <2>3. CASE FindNothing \/ FindSamePath BY <2>3 DEF FindNothing, FindSamePath
  <2>4. CASE FindNewPath \/ Reopen BY <2>4 DEF FindNewPath, Reopen
  <2>5. CASE Open BY <2>5 DEF Open
  <2>6. CASE OpenFails BY <2>6 DEF OpenFails
  <2>7. CASE Raise BY <2>7 DEF Raise
  <2> QED BY <1>1, <2>1, <2>2, <2>3, <2>4, <2>5, <2>6, <2>7 DEF GatewayThread, Connecting
<1>2. CASE Drain
  <2>1. ASSUME NEW write \in Writes, Take(write) PROVE Flags'
    BY <2>1 DEF Take, Pending
  <2>2. CASE Wait \/ Check BY <2>2 DEF Wait, Check
  <2>3. CASE Send BY <2>3 DEF Send
  <2>4. CASE SendNowhere BY <2>4 DEF SendNowhere
  <2>5. CASE SendFails BY <2>5 DEF SendFails
  <2>6. CASE ClearFlag BY <2>6 DEF ClearFlag
  <2> QED BY <1>2, <2>1, <2>2, <2>3, <2>4, <2>5, <2>6 DEF Drain
<1>3. CASE Clock BY <1>3 DEF Clock, GraceExpires
<1>4. CASE Closing BY <1>4 DEF Closing, CloseTransport
<1>5. CASE Others
  <2>1. CASE Unplug BY <2>1 DEF Unplug
  <2>2. ASSUME NEW p \in Paths, Plug(p) PROVE Flags'
    BY <2>2 DEF Plug
  <2>3. CASE Request BY <2>3 DEF Request
  <2>4. CASE Read \/ StopGateway BY <2>4 DEF Read, StopGateway
  <2> QED BY <1>5, <2>1, <2>2, <2>3, <2>4 DEF Others
<1>6. CASE UNCHANGED vars BY <1>6 DEF vars
<1> QED BY <1>1, <1>2, <1>3, <1>4, <1>5, <1>6 DEF Next

\* Everything else keeps its set.
LEMMA NextStates == States /\ [Next]_vars => States'
<1> SUFFICES ASSUME States, [Next]_vars PROVE States'
  OBVIOUS
<1> USE BoundsAssumption DEF States, Handles, GwStates, Writes
<1>1. CASE GatewayThread
  <2>1. CASE Loop BY <2>1 DEF Loop
  <2>2. CASE ReadFails BY <2>2 DEF ReadFails
  <2>3. CASE FindNothing \/ FindSamePath BY <2>3 DEF FindNothing, FindSamePath
  <2>4. CASE FindNewPath \/ Reopen BY <2>4 DEF FindNewPath, Reopen
  <2>5. CASE Open BY <2>5 DEF Open
  <2>6. CASE OpenFails BY <2>6 DEF OpenFails
  <2>7. CASE Raise BY <2>7 DEF Raise
  <2> QED BY <1>1, <2>1, <2>2, <2>3, <2>4, <2>5, <2>6, <2>7 DEF GatewayThread, Connecting
<1>2. CASE Drain
  <2>1. ASSUME NEW write \in Writes, Take(write) PROVE States'
    BY <2>1 DEF Take, Pending
  <2>2. CASE Wait \/ Check BY <2>2 DEF Wait, Check
  <2>3. CASE Send BY <2>3 DEF Send
  <2>4. CASE SendNowhere BY <2>4 DEF SendNowhere
  <2>5. CASE SendFails BY <2>5 DEF SendFails
  <2>6. CASE ClearFlag BY <2>6 DEF ClearFlag
  <2> QED BY <1>2, <2>1, <2>2, <2>3, <2>4, <2>5, <2>6 DEF Drain
<1>3. CASE Clock BY <1>3 DEF Clock, GraceExpires
<1>4. CASE Closing BY <1>4 DEF Closing, CloseTransport
<1>5. CASE Others
  <2>1. CASE Unplug BY <2>1 DEF Unplug
  <2>2. ASSUME NEW p \in Paths, Plug(p) PROVE States'
    BY <2>2 DEF Plug
  <2>3. CASE Request BY <2>3 DEF Request
  <2>4. CASE Read \/ StopGateway BY <2>4 DEF Read, StopGateway
  <2> QED BY <1>5, <2>1, <2>2, <2>3, <2>4 DEF Others
<1>6. CASE UNCHANGED vars BY <1>6 DEF vars
<1> QED BY <1>1, <1>2, <1>3, <1>4, <1>5, <1>6 DEF Next

LEMMA NextType == TypeOK /\ [Next]_vars => TypeOK'
<1>1. TypeOK' <=> Flags' /\ States'
  BY DEF TypeOK, Flags, States
<1> QED BY <1>1, TypeParts, NextFlags, NextStates

\* The gateway keeps its types, whatever the device and the others do.
THEOREM TypeCorrect == Spec => []TypeOK
BY InitType, NextType, PTL DEF Spec

LEMMA InitTransport == Init => TransportInv
BY DEF Init, TransportInv, ClearWhileConnecting, ConnectedHasTransport

\* A step of another thread leaves the gateway thread where it is and clears
\* the flag, if it touches it; what it does to the transport is harmless.
LEMMA NextTransport == TypeOK /\ TransportInv /\ [Next]_vars => TransportInv'
<1> SUFFICES ASSUME TypeOK, TransportInv, [Next]_vars PROVE TransportInv'
  OBVIOUS
<1> USE DEF TransportInv, ClearWhileConnecting, ConnectedHasTransport
<1>1. CASE GatewayThread
  <2>1. CASE Loop BY <2>1 DEF Loop
  <2>2. CASE ReadFails BY <2>2 DEF ReadFails
  <2>3. CASE FindNothing \/ FindSamePath BY <2>3 DEF FindNothing, FindSamePath
  <2>4. CASE FindNewPath \/ Reopen BY <2>4 DEF FindNewPath, Reopen
  <2>5. CASE Open BY <2>5 DEF Open
  <2>6. CASE OpenFails \/ Raise BY <2>6 DEF OpenFails, Raise
  <2> QED BY <1>1, <2>1, <2>2, <2>3, <2>4, <2>5, <2>6 DEF GatewayThread, Connecting
<1>2. CASE Drain
  <2>1. ASSUME NEW write \in Writes, Take(write) PROVE TransportInv'
    BY <2>1 DEF Take
  <2>2. CASE Wait \/ Check \/ Send \/ SendFails \/ SendNowhere
    BY <2>2 DEF Wait, Check, Send, SendFails, SendNowhere
  <2>3. CASE ClearFlag BY <2>3 DEF ClearFlag
  <2> QED BY <1>2, <2>1, <2>2, <2>3 DEF Drain
<1>3. CASE Clock BY <1>3 DEF Clock, GraceExpires
<1>4. CASE Closing BY <1>4 DEF Closing, CloseTransport
<1>5. CASE Others
  <2>1. CASE Unplug BY <2>1 DEF Unplug
  <2>2. ASSUME NEW p \in Paths, Plug(p) PROVE TransportInv'
    BY <2>2 DEF Plug
  <2>3. CASE Request \/ Read BY <2>3 DEF Request, Read
  <2>4. CASE StopGateway BY <2>4 DEF StopGateway
  <2> QED BY <1>5, <2>1, <2>2, <2>3, <2>4 DEF Others
<1>6. CASE UNCHANGED vars BY <1>6 DEF vars
<1> QED BY <1>1, <1>2, <1>3, <1>4, <1>5, <1>6 DEF Next

\* The connected flag is set only on a transport that was opened for the
\* collection, unless close() has closed it.
THEOREM TransportWhileConnected == Spec => []ConnectedHasTransport
<1>1. TransportInv => ConnectedHasTransport
  BY DEF TransportInv
<1> QED BY <1>1, InitType, NextType, InitTransport, NextTransport, PTL DEF Spec

----------------------------------------------------------------------------
LEMMA InitAnnounced == Init => AnnouncedIsTrue
BY DEF Init, AnnouncedIsTrue, Told

\* Inductive by itself: only Open sets the flag, and it is followed by Raise,
\* which records a flag that was cleared meanwhile; ClearFlag records its own.
LEMMA NextAnnounced == TypeOK /\ AnnouncedIsTrue /\ [Next]_vars => AnnouncedIsTrue'
<1> SUFFICES ASSUME TypeOK, AnnouncedIsTrue, [Next]_vars PROVE AnnouncedIsTrue'
  OBVIOUS
<1> USE DEF AnnouncedIsTrue, Told
<1>1. CASE GatewayThread
  <2>1. CASE Loop BY <2>1 DEF Loop
  <2>2. CASE ReadFails BY <2>2 DEF ReadFails
  <2>3. CASE FindNothing \/ FindSamePath BY <2>3 DEF FindNothing, FindSamePath
  <2>4. CASE FindNewPath \/ Reopen BY <2>4 DEF FindNewPath, Reopen
  <2>5. CASE Open BY <2>5 DEF Open
  <2>6. CASE OpenFails \/ Raise BY <2>6 DEF OpenFails, Raise
  <2> QED BY <1>1, <2>1, <2>2, <2>3, <2>4, <2>5, <2>6 DEF GatewayThread, Connecting
<1>2. CASE Drain
  <2>1. ASSUME NEW write \in Writes, Take(write) PROVE AnnouncedIsTrue'
    BY <2>1 DEF Take
  <2>2. CASE Wait \/ Check \/ Send \/ SendFails \/ SendNowhere
    BY <2>2 DEF Wait, Check, Send, SendFails, SendNowhere
  <2>3. CASE ClearFlag BY <2>3 DEF ClearFlag
  <2> QED BY <1>2, <2>1, <2>2, <2>3 DEF Drain
<1>3. CASE Clock BY <1>3 DEF Clock, GraceExpires
<1>4. CASE Closing BY <1>4 DEF Closing, CloseTransport
<1>5. CASE Others
  <2>1. CASE Unplug BY <2>1 DEF Unplug
  <2>2. ASSUME NEW p \in Paths, Plug(p) PROVE AnnouncedIsTrue'
    BY <2>2 DEF Plug
  <2>3. CASE Request \/ Read BY <2>3 DEF Request, Read
  <2>4. CASE StopGateway BY <2>4 DEF StopGateway
  <2> QED BY <1>5, <2>1, <2>2, <2>3, <2>4 DEF Others
<1>6. CASE UNCHANGED vars BY <1>6 DEF vars
<1> QED BY <1>1, <1>2, <1>3, <1>4, <1>5, <1>6 DEF Next

\* Whenever the gateway thread has nothing to tell, the others know whether the
\* collection is connected, unless a failed write has cleared the flag since.
THEOREM AnnouncedCorrect == Spec => []AnnouncedIsTrue
BY InitType, NextType, InitAnnounced, NextAnnounced, PTL DEF Spec

----------------------------------------------------------------------------
USE DEF reachVars, gattVars, noticeVars

LEMMA BleBounds == MaxLeaves \in Nat /\ MaxBleFaults \in Nat /\ MaxFailures \in Nat
BY BleBoundsAssumption

\* The two halves of TypeOK: the flags, and everything else.
BleFlags ==
  /\ near \in BOOLEAN /\ connected \in BOOLEAN /\ stop \in BOOLEAN
  /\ subscribed \in BOOLEAN /\ client \in BOOLEAN /\ crossed \in BOOLEAN

BleStates ==
  /\ leaves \in 0..MaxLeaves /\ bleFaults \in 0..MaxBleFaults /\ failed \in 0..MaxFailures
  /\ gw \in {"loop", "waiting", "composing", "telling", "ended"}
  /\ ble \in {"loop", "finding", "joining", "listening", "ended"}
  /\ session \in {"none", "alive", "broken"}
  /\ writer \in {"idle", "failing"}
  /\ notice \in {"up", "down"} /\ announced \in {"none", "up", "down"}
  /\ client => ble = "listening"

LEMMA BleTypeParts == BleTypeOK <=> BleFlags /\ BleStates
BY DEF BleTypeOK, BleFlags, BleStates

LEMMA BleInitType == BleInit => BleTypeOK
<1> SUFFICES ASSUME BleInit PROVE BleFlags /\ BleStates
  BY BleTypeParts
<1>1. BleFlags
  BY DEF BleInit, BleFlags
<1>2. BleStates
  BY BleBounds DEF BleInit, BleStates
<1> QED BY <1>1, <1>2

LEMMA BleNextFlags == BleFlags /\ [BleNext]_bleVars => BleFlags'
<1> SUFFICES ASSUME BleFlags, [BleNext]_bleVars PROVE BleFlags'
  OBVIOUS
<1> USE DEF BleFlags
<1>1. CASE Leave \/ Return \/ Close BY <1>1 DEF Leave, Return, Close
<1>2. CASE HidThread
  <2>1. CASE OpenHid \/ Subscribed BY <2>1 DEF OpenHid, Subscribed
  <2>2. CASE Compose \/ Tell BY <2>2 DEF Compose, Tell
  <2>3. CASE End BY <2>3 DEF End
  <2> QED BY <1>2, <2>1, <2>2, <2>3 DEF HidThread
<1>3. CASE BleThread
  <2>1. CASE Find \/ EndBle BY <2>1 DEF Find, EndBle
  <2>2. CASE FindFails BY <2>2 DEF FindFails
  <2>3. CASE Join \/ Listen BY <2>3 DEF Join, Listen
  <2>4. CASE Dropped BY <2>4 DEF Dropped, Drop
  <2>5. CASE GiveUp BY <2>5 DEF GiveUp, Drop
  <2> QED BY <1>3, <2>1, <2>2, <2>3, <2>4, <2>5 DEF BleThread
<1>4. CASE WriteFails \/ ClearBleFlag BY <1>4 DEF WriteFails, ClearBleFlag
<1>5. CASE UNCHANGED bleVars BY <1>5 DEF bleVars
<1> QED BY <1>1, <1>2, <1>3, <1>4, <1>5 DEF BleNext

LEMMA BleNextStates == BleStates /\ [BleNext]_bleVars => BleStates'
<1> SUFFICES ASSUME BleStates, [BleNext]_bleVars PROVE BleStates'
  OBVIOUS
<1> USE BleBounds DEF BleStates
<1>1. CASE Leave \/ Return \/ Close BY <1>1 DEF Leave, Return, Close
<1>2. CASE HidThread
  <2>1. CASE OpenHid \/ Subscribed BY <2>1 DEF OpenHid, Subscribed
  <2>2. CASE Compose \/ Tell BY <2>2 DEF Compose, Tell
  <2>3. CASE End BY <2>3 DEF End
  <2> QED BY <1>2, <2>1, <2>2, <2>3 DEF HidThread
<1>3. CASE BleThread
  <2>1. CASE Find \/ EndBle BY <2>1 DEF Find, EndBle
  <2>2. CASE FindFails BY <2>2 DEF FindFails
  <2>3. CASE Join \/ Listen BY <2>3 DEF Join, Listen
  <2>4. CASE Dropped BY <2>4 DEF Dropped, Drop
  <2>5. CASE GiveUp BY <2>5 DEF GiveUp, Drop
  <2> QED BY <1>3, <2>1, <2>2, <2>3, <2>4, <2>5 DEF BleThread
<1>4. CASE WriteFails \/ ClearBleFlag BY <1>4 DEF WriteFails, ClearBleFlag
<1>5. CASE UNCHANGED bleVars BY <1>5 DEF bleVars
<1> QED BY <1>1, <1>2, <1>3, <1>4, <1>5 DEF BleNext

LEMMA BleNextType == BleTypeOK /\ [BleNext]_bleVars => BleTypeOK'
<1>1. BleTypeOK' <=> BleFlags' /\ BleStates'
  BY DEF BleTypeOK, BleFlags, BleStates
<1> QED BY <1>1, BleTypeParts, BleNextFlags, BleNextStates

\* The gateway keeps its types, for every bound on what may go wrong.
THEOREM BleTypeCorrect == BleSpec => []BleTypeOK
BY BleInitType, BleNextType, PTL DEF BleSpec

----------------------------------------------------------------------------
\* The flag is cleared by the callback, which clears the client and the
\* subscription with it, or by a write that has failed.  So without failed
\* writes each of these implies the flag, and the BLE thread looks for the
\* device and keeps its session only while the flag is set.
BleFollowsFlag ==
  /\ subscribed => client
  /\ client => connected
  /\ ble = "finding" => connected
  /\ (ble = "joining" /\ session # "none") => connected

\* The gateway thread composes a connection event only with a subscription,
\* and whoever takes it away meanwhile clears the flag and announces that.
EventFollowsFlag ==
  /\ gw = "composing" => (connected => client) /\ (announced = "up" => connected)
  /\ (gw = "telling" /\ notice = "up" /\ ~crossed) => (connected /\ client)

AnnounceInv ==
  /\ ble \in {"loop", "finding", "ended"} => session = "none"
  /\ failed = 0 => writer = "idle"
  /\ (failed = 0 /\ ~stop) => BleFollowsFlag /\ EventFollowsFlag
  /\ AnnouncedUpIsReal

LEMMA InitAnnounce == BleInit => AnnounceInv
BY DEF BleInit, AnnounceInv, BleFollowsFlag, EventFollowsFlag, AnnouncedUpIsReal

LEMMA NextAnnounce == BleTypeOK /\ AnnounceInv /\ [BleNext]_bleVars => AnnounceInv'
<1> SUFFICES ASSUME BleTypeOK, AnnounceInv, [BleNext]_bleVars PROVE AnnounceInv'
  OBVIOUS
<1> USE DEF AnnounceInv, BleFollowsFlag, EventFollowsFlag, AnnouncedUpIsReal
<1>1. CASE Leave \/ Return \/ Close BY <1>1 DEF Leave, Return, Close
<1>2. CASE HidThread
  <2>1. CASE OpenHid \/ Subscribed BY <2>1 DEF OpenHid, Subscribed
  <2>2. CASE Compose \/ Tell BY <2>2 DEF Compose, Tell
  <2>3. CASE End BY <2>3 DEF End
  <2> QED BY <1>2, <2>1, <2>2, <2>3 DEF HidThread
<1>3. CASE BleThread
  <2>1. CASE Find \/ EndBle BY <2>1 DEF Find, EndBle
  <2>2. CASE FindFails BY <2>2 DEF FindFails
  <2>3. CASE Join \/ Listen BY <2>3 DEF Join, Listen
  <2>4. CASE Dropped BY <2>4 DEF Dropped, Drop
  <2>5. CASE GiveUp BY <2>5 DEF GiveUp, Drop, BleTypeOK
  <2> QED BY <1>3, <2>1, <2>2, <2>3, <2>4, <2>5 DEF BleThread
<1>4. CASE WriteFails \/ ClearBleFlag
  BY <1>4, BleBounds DEF WriteFails, ClearBleFlag, BleTypeOK
<1>5. CASE UNCHANGED bleVars BY <1>5 DEF bleVars
<1> QED BY <1>1, <1>2, <1>3, <1>4, <1>5 DEF BleNext

\* For any number of departures and GATT faults: while no write has failed, a
\* device announced as connected is connected and its notifications arrive,
\* unless a drop overtook the announcement (_set_connected of the BLE gateway).
THEOREM AnnouncedUpCorrect == BleSpec => []AnnouncedUpIsReal
<1>1. AnnounceInv => AnnouncedUpIsReal
  BY DEF AnnounceInv
<1> QED BY <1>1, BleInitType, BleNextType, InitAnnounce, NextAnnounce, PTL DEF BleSpec
=============================================================================
