----------------------------- MODULE GatewayBLE -----------------------------
(***************************************************************************)
(* The gateway of a Bluetooth device on macOS.  Three threads share the    *)
(* connected flag: the gateway thread opens the HID device and then waits  *)
(* for the subscription before it announces the connection; the BLE thread *)
(* (an event loop) subscribes while the flag is set, and its callback      *)
(* clears it; the drain thread clears it when a write fails.  The paths    *)
(* and the states of the HID transport are left to module HidGateway; the  *)
(* names say Ble where that module has one of the kind.                    *)
(***************************************************************************)
EXTENDS Naturals, Gateway

CONSTANTS MaxLeaves,    \* bound: times the device goes out of reach
          MaxBleFaults, \* bound: GATT operations that fail with the device in reach
          MaxFailures   \* bound: writes that fail

ASSUME BleBoundsAssumption == MaxLeaves \in Nat /\ MaxBleFaults \in Nat /\ MaxFailures \in Nat

VARIABLES
  near,        \* the device can be reached
  leaves, bleFaults, failed,
  subscribed,  \* _ble_subscribed
  client,      \* _ble_client is set
  ble,         \* the BLE thread: _ble_main and _connect_and_listen
  session,     \* the GATT connection of the BLE thread
  notice,      \* the connection event the gateway thread is about to publish
  crossed      \* history: a drop was published while that event was on its way

reachVars == <<near, leaves, bleFaults, failed>>
gattVars == <<subscribed, client, ble, session>>
noticeVars == <<notice, announced, crossed>>
bleVars == <<reachVars, connected, stop, gattVars, gw, writer, noticeVars>>

BleTypeOK ==
  /\ near \in BOOLEAN /\ leaves \in 0..MaxLeaves /\ bleFaults \in 0..MaxBleFaults
  /\ failed \in 0..MaxFailures
  /\ connected \in BOOLEAN /\ stop \in BOOLEAN /\ subscribed \in BOOLEAN /\ client \in BOOLEAN
  /\ gw \in {"loop", "waiting", "composing", "telling", "ended"}
  /\ ble \in {"loop", "finding", "joining", "listening", "ended"}
  /\ session \in {"none", "alive", "broken"}
  /\ writer \in {"idle", "failing"}
  /\ notice \in {"up", "down"} /\ announced \in {"none", "up", "down"} /\ crossed \in BOOLEAN
  /\ client => ble = "listening"

BleInit ==
  /\ near = TRUE /\ leaves = 0 /\ bleFaults = 0 /\ failed = 0
  /\ connected = FALSE /\ stop = FALSE /\ subscribed = FALSE /\ client = FALSE
  /\ gw = "loop" /\ ble = "loop" /\ session = "none" /\ writer = "idle"
  /\ notice = "down" /\ announced = "none" /\ crossed = FALSE

----------------------------------------------------------------------------
\* The device leaves, which breaks the GATT connection, or comes back.
Leave ==
  /\ near /\ leaves < MaxLeaves
  /\ near' = FALSE /\ leaves' = leaves + 1
  /\ session' = IF session = "alive" THEN "broken" ELSE session
  /\ UNCHANGED <<bleFaults, failed, connected, stop, subscribed, client, ble, gw, writer, noticeVars>>

Return ==
  /\ ~near /\ near' = TRUE
  /\ UNCHANGED <<leaves, bleFaults, failed, connected, stop, gattVars, gw, writer, noticeVars>>

Close ==
  /\ ~stop /\ stop' = TRUE
  /\ UNCHANGED <<reachVars, connected, gattVars, gw, writer, noticeVars>>

----------------------------------------------------------------------------
\* run and _try_connect: the HID device is opened and the flag is set.
OpenHid ==
  /\ gw = "loop" /\ ~stop /\ ~connected /\ near
  /\ connected' = TRUE
  /\ gw' = "waiting"
  /\ UNCHANGED <<reachVars, stop, gattVars, writer, noticeVars>>

\* _set_connected(True): _ble_subscribed.wait returns true.
Subscribed ==
  /\ gw = "waiting" /\ ~stop /\ subscribed
  /\ gw' = "composing"
  /\ UNCHANGED <<reachVars, connected, stop, gattVars, writer, noticeVars>>

\* The connection event is made of the flag as it is by now ...
Compose ==
  /\ gw = "composing" /\ gw' = "telling"
  /\ notice' = IF connected THEN "up" ELSE "down"
  /\ crossed' = FALSE
  /\ UNCHANGED <<reachVars, connected, stop, gattVars, writer, announced>>

\* ... and published.
Tell ==
  /\ gw = "telling" /\ gw' = "loop"
  /\ announced' = notice
  /\ UNCHANGED <<reachVars, connected, stop, gattVars, writer, notice, crossed>>

\* Mutant: the wait for the subscription does not look at the stop flag.
EndLoopOnly ==
  /\ gw = "loop" /\ stop
  /\ gw' = "ended"
  /\ UNCHANGED <<reachVars, connected, stop, gattVars, writer, noticeVars>>

\* Both loops end when the gateway is closed.
End ==
  /\ gw \in {"loop", "waiting"} /\ stop
  /\ gw' = "ended"
  /\ UNCHANGED <<reachVars, connected, stop, gattVars, writer, noticeVars>>

----------------------------------------------------------------------------
\* _ble_main: while the flag is set, look for the device ...
Find ==
  /\ ble = "loop" /\ ~stop /\ connected
  /\ ble' = "finding"
  /\ UNCHANGED <<reachVars, connected, stop, subscribed, client, session, gw, writer, noticeVars>>

\* ... in vain, or with an exception ...
FindFails ==
  /\ ble = "finding"
  /\ IF near THEN bleFaults < MaxBleFaults /\ bleFaults' = bleFaults + 1
             ELSE UNCHANGED bleFaults
  /\ ble' = "loop"
  /\ UNCHANGED <<near, leaves, failed, connected, stop, subscribed, client, session, gw, writer,
                 noticeVars>>

\* ... and connect to it.
Join ==
  /\ ble = "finding" /\ near
  /\ ble' = "joining" /\ session' = "alive"
  /\ UNCHANGED <<reachVars, connected, stop, subscribed, client, gw, writer, noticeVars>>

\* Mutant: the waiting gateway thread is not told.
ListenSilently ==
  /\ ble = "joining" /\ session = "alive"
  /\ client' = TRUE
  /\ ble' = "listening"
  /\ UNCHANGED <<reachVars, connected, stop, subscribed, session, gw, writer, noticeVars>>

\* start_notify has returned.
Listen ==
  /\ ble = "joining" /\ session = "alive"
  /\ client' = TRUE /\ subscribed' = TRUE
  /\ ble' = "listening"
  /\ UNCHANGED <<reachVars, connected, stop, session, gw, writer, noticeVars>>

\* Mutant of the callback: nobody is told.
DropSilently ==
  /\ client' = FALSE /\ subscribed' = FALSE
  /\ connected' = FALSE
  /\ UNCHANGED <<announced, crossed>>

\* disconnected_callback: _set_connected(False), whatever the gateway thread does.
Drop ==
  /\ client' = FALSE /\ subscribed' = FALSE
  /\ connected' = FALSE
  /\ announced' = "down"
  /\ crossed' = (crossed \/ gw = "telling")

\* The library calls it when it notices that the connection is broken ...
Dropped ==
  /\ session = "broken" /\ session' = "none"
  /\ Drop
  /\ UNCHANGED <<reachVars, stop, ble, gw, writer, notice>>

\* Mutant of GiveUp: the client is left set when no callback clears it.
GiveUpKeepsClient ==
  /\ \/ /\ ble = "joining"
        /\ IF session = "alive" THEN bleFaults < MaxBleFaults /\ bleFaults' = bleFaults + 1
                                ELSE UNCHANGED bleFaults
     \/ ble = "listening" /\ (~connected \/ stop) /\ UNCHANGED bleFaults
  /\ ble' = "loop" /\ session' = "none"
  /\ \/ session # "none" /\ Drop
     \/ UNCHANGED <<client, subscribed, connected, announced, crossed>>
  /\ UNCHANGED <<near, leaves, failed, stop, gw, writer, notice>>

\* ... and maybe when the BLE thread gives the connection up itself: because
\* start_notify failed, the flag was cleared, or the gateway was closed.
GiveUp ==
  /\ \/ /\ ble = "joining"
        /\ IF session = "alive" THEN bleFaults < MaxBleFaults /\ bleFaults' = bleFaults + 1
                                ELSE UNCHANGED bleFaults
     \/ ble = "listening" /\ (~connected \/ stop) /\ UNCHANGED bleFaults
  /\ ble' = "loop" /\ session' = "none"
  /\ \/ session # "none" /\ Drop
     \/ client' = FALSE /\ UNCHANGED <<subscribed, connected, announced, crossed>>
  /\ UNCHANGED <<near, leaves, failed, stop, gw, writer, notice>>

EndBle ==
  /\ ble = "loop" /\ stop
  /\ ble' = "ended"
  /\ UNCHANGED <<reachVars, connected, stop, subscribed, client, session, gw, writer, noticeVars>>

----------------------------------------------------------------------------
\* _do_write: neither the GATT write nor the HID write works.
WriteFails ==
  /\ writer = "idle" /\ connected /\ failed < MaxFailures
  /\ failed' = failed + 1
  /\ writer' = "failing"
  /\ UNCHANGED <<near, leaves, bleFaults, connected, stop, gattVars, gw, noticeVars>>

\* _write: the flag is cleared, and nothing else.
ClearBleFlag ==
  /\ writer = "failing" /\ writer' = "idle"
  /\ connected' = FALSE
  /\ UNCHANGED <<reachVars, stop, gattVars, gw, noticeVars>>

----------------------------------------------------------------------------
HidThread == OpenHid \/ Subscribed \/ Compose \/ Tell \/ End
BleThread == Find \/ FindFails \/ Join \/ Listen \/ Dropped \/ GiveUp \/ EndBle
BleNext == Leave \/ Return \/ Close \/ HidThread \/ BleThread \/ WriteFails \/ ClearBleFlag

BleSpec == BleInit /\ [][BleNext]_bleVars

\* The threads run; the device need not leave, come back or be written to.
BleFairness == WF_bleVars(HidThread) /\ WF_bleVars(BleThread) /\ WF_bleVars(ClearBleFlag)
BleFairSpec == BleSpec /\ BleFairness

----------------------------------------------------------------------------
\* As long as no write has failed, a device that is announced as connected is
\* connected, and the BLE thread receives its notifications - except for a
\* drop that was published while the connection event was on its way.
AnnouncedUpIsReal ==
  (announced = "up" /\ failed = 0 /\ ~crossed /\ ~stop) => (connected /\ client)

\* "Set _connected first so the BLE thread can proceed with subscribe": the
\* gateway thread waits for the subscription with the flag set.
WaitsConnected == (gw = "waiting" /\ ~stop) => (connected \/ subscribed)

\* The gateway thread waits for a subscription that nobody will make: the flag
\* was cleared meanwhile, or it was cleared and set again between two of the
\* BLE thread's looks at it, and that thread still listens on a dead session.
WaitsForever ==
  /\ gw = "waiting" /\ ~subscribed
  /\ ~connected \/ (ble = "listening" /\ session # "alive")

\* A device that stays in reach ends up announced and subscribed, or the
\* gateway is wedged.
ComesUp == <>[](near /\ ~stop) => <>[]((announced = "up" /\ client) \/ WaitsForever)

\* close() ends both threads, wherever they are.
CloseEndsThreads == stop ~> (gw = "ended" /\ ble = "ended")
=============================================================================
