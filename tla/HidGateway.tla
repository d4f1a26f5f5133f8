----------------------------- MODULE HidGateway -----------------------------
(***************************************************************************)
(* One HID collection of a receiver or of a Bluetooth device, and the      *)
(* three threads that use its transport without a lock: the gateway thread *)
(* (run: read, or reconnect), the drain thread of the write topic (notify) *)
(* and the main thread (close).  An unplugged device invalidates the open  *)
(* handle; a replugged one may get another path.  Announcing a connection  *)
(* re-arms a receiver by two writes through the write topic, counted as    *)
(* one here, and synthesizes a report for a Bluetooth device.              *)
(***************************************************************************)
EXTENDS Naturals, Gateway

CONSTANTS
  Kinds,          \* the gateways: "receiver" (HidGatewayReceiver), "bluetooth" (HidGatewayBT)
  Paths,          \* paths the operating system may give to the device
  MaxUnplugs,     \* bound: times the device is unplugged
  MaxRequests,    \* bound: WriteEvents other components publish
  MaxOpenFaults,  \* bound: openings of a plugged device that fail
  MaxWriteFaults  \* bound: writes to a plugged device that fail

ASSUME KindAssumption == Kinds \subseteq {"receiver", "bluetooth"}
ASSUME BoundsAssumption ==
  MaxUnplugs \in Nat /\ MaxRequests \in Nat /\ MaxOpenFaults \in Nat /\ MaxWriteFaults \in Nat

VARIABLES
  kind,            \* the class of the gateway; it never changes
  \* the device
  plugged, node,   \* whether it is there, and under which path
  rearmed,         \* a receiver sends notifications since it was plugged in
  unplugs, openFaults, writeFaults,
  \* the gateway object
  path,            \* _device_info.path
  handle,          \* _transport: None, or open, or open for a device that is gone, or closed
  everConnected,
  graceOver,       \* _grace_deadline has passed
  \* the threads
  item,            \* the event that notify has taken
  closer,          \* where close() is
  \* the write topic's queue, and what the others were told
  requests, sentRequests, rearms,
  unreported       \* history: a failed write cleared the flag since then

deviceVars == <<kind, plugged, node, rearmed, unplugs, openFaults, writeFaults>>
objectVars == <<path, handle, connected, everConnected, stop, graceOver>>
queueVars == <<requests, sentRequests, rearms>>
writerVars == <<writer, item>>
toldVars == <<announced, unreported>>
vars == <<deviceVars, objectVars, queueVars, gw, writerVars, closer, toldVars>>

Handles == {"none", "open", "stale", "closed"}
GwStates == {"loop", "reading", "enumerating", "reopening", "opening", "raising", "dead", "ended"}
Writes == {"request", "rearm"}

TypeOK ==
  /\ kind \in Kinds /\ plugged \in BOOLEAN /\ node \in Paths /\ rearmed \in BOOLEAN
  /\ unplugs \in 0..MaxUnplugs /\ openFaults \in 0..MaxOpenFaults
  /\ writeFaults \in 0..MaxWriteFaults
  /\ path \in Paths /\ handle \in Handles
  /\ connected \in BOOLEAN /\ everConnected \in BOOLEAN /\ stop \in BOOLEAN
  /\ graceOver \in BOOLEAN
  /\ gw \in GwStates /\ closer \in {"running", "stopping", "closed"}
  /\ writer \in {"idle", "waiting", "checking", "sending", "failing", "crashed"} /\ item \in Writes
  /\ requests \in Nat /\ sentRequests \in 0..MaxRequests /\ rearms \in Nat
  /\ announced \in {"none", "up", "down"} /\ unreported \in BOOLEAN

\* discover() has enumerated the device and starts the gateway.
Init ==
  /\ kind \in Kinds /\ plugged = TRUE /\ node \in Paths /\ path = node /\ rearmed = FALSE
  /\ unplugs = 0 /\ openFaults = 0 /\ writeFaults = 0
  /\ handle = "none" /\ connected = FALSE /\ everConnected = FALSE
  /\ stop = FALSE /\ graceOver = FALSE
  /\ gw = "loop" /\ writer = "idle" /\ item = "request" /\ closer = "running"
  /\ requests = 0 /\ sentRequests = 0 /\ rearms = 0
  /\ announced = "none" /\ unreported = FALSE

----------------------------------------------------------------------------
\* The device and the clock.
Unplug ==
  /\ plugged /\ unplugs < MaxUnplugs
  /\ plugged' = FALSE
  /\ unplugs' = unplugs + 1
  /\ rearmed' = FALSE
  /\ handle' = IF handle = "open" THEN "stale" ELSE handle
  /\ UNCHANGED <<kind, node, openFaults, writeFaults, path, connected, everConnected, stop,
                 graceOver, queueVars, gw, writerVars, closer, toldVars>>

Plug(p) ==
  /\ ~plugged
  /\ plugged' = TRUE /\ node' = p
  /\ UNCHANGED <<kind, rearmed, unplugs, openFaults, writeFaults, objectVars, queueVars, gw, writerVars,
                 closer, toldVars>>

GraceExpires ==
  /\ ~graceOver
  /\ graceOver' = TRUE
  /\ UNCHANGED <<deviceVars, path, handle, connected, everConnected, stop, queueVars, gw, writerVars,
                 closer, toldVars>>

\* Another component publishes a WriteEvent.
Request ==
  /\ sentRequests < MaxRequests
  /\ sentRequests' = sentRequests + 1
  /\ requests' = requests + 1
  /\ UNCHANGED <<deviceVars, objectVars, rearms, gw, writerVars, closer, toldVars>>

----------------------------------------------------------------------------
\* run: the loop condition and the branch on _connected.
Loop ==
  /\ gw = "loop"
  /\ gw' = IF stop THEN "ended" ELSE IF connected THEN "reading" ELSE "enumerating"
  /\ UNCHANGED <<deviceVars, objectVars, queueVars, writerVars, closer, toldVars>>

\* run: a packet was read and is passed on to the event listener.
Read ==
  /\ gw = "reading" /\ handle = "open"
  /\ gw' = "loop"
  /\ UNCHANGED <<deviceVars, objectVars, queueVars, writerVars, closer, toldVars>>

\* Mutant: the flag is cleared without telling anybody.
ReadFailsSilently ==
  /\ gw = "reading" /\ handle \in {"stale", "closed"}
  /\ gw' = IF stop THEN "ended" ELSE "loop"
  /\ connected' = (connected /\ stop)
  /\ UNCHANGED <<deviceVars, path, handle, everConnected, stop, graceOver, queueVars, writerVars,
                 closer, toldVars>>

\* run: TransportError; unless the gateway is closing, _set_connected(False)
\* clears the flag and announces the disconnection.
ReadFails ==
  /\ gw = "reading" /\ handle \in {"stale", "closed"}
  /\ IF stop
     THEN gw' = "ended" /\ UNCHANGED <<connected, toldVars>>
     ELSE gw' = "loop" /\ connected' = FALSE /\ announced' = "down" /\ unreported' = FALSE
  /\ UNCHANGED <<deviceVars, path, handle, everConnected, stop, graceOver, queueVars, writerVars,
                 closer>>

\* _try_connect: the device is not there (and run() waits a second).
FindNothing ==
  /\ gw = "enumerating" /\ ~plugged
  /\ gw' = "loop"
  /\ UNCHANGED <<deviceVars, objectVars, queueVars, writerVars, closer, toldVars>>

\* _try_connect: the device has the known path.
FindSamePath ==
  /\ gw = "enumerating" /\ plugged /\ node = path
  /\ gw' = IF handle = "none" THEN "opening" ELSE "reopening"
  /\ UNCHANGED <<deviceVars, objectVars, queueVars, writerVars, closer, toldVars>>

\* _try_connect: the path has changed.  The transport for the old one is
\* closed; if there is none, None.close() raises and the thread dies.
FindNewPath ==
  /\ gw = "enumerating" /\ plugged /\ node # path
  /\ path' = node
  /\ handle' = "none"
  /\ gw' = IF handle = "none" THEN "dead" ELSE "opening"
  /\ UNCHANGED <<deviceVars, connected, everConnected, stop, graceOver, queueVars, writerVars,
                 closer, toldVars>>

\* Mutant: the flag is set before the transport is opened again.
ReopenFlagged ==
  /\ gw = "reopening"
  /\ handle' = "closed"
  /\ connected' = TRUE
  /\ gw' = "opening"
  /\ UNCHANGED <<deviceVars, path, everConnected, stop, graceOver, queueVars, writerVars,
                 closer, toldVars>>

\* try_reopen: close() first.
Reopen ==
  /\ gw = "reopening"
  /\ handle' = "closed"
  /\ gw' = "opening"
  /\ UNCHANGED <<deviceVars, path, connected, everConnected, stop, graceOver, queueVars, writerVars,
                 closer, toldVars>>

\* HIDTransport() or try_open(), and the flags of _set_connected(True).
Open ==
  /\ gw = "opening" /\ plugged /\ node = path
  /\ handle' = "open"
  /\ connected' = TRUE /\ everConnected' = TRUE
  /\ gw' = "raising"
  /\ UNCHANGED <<deviceVars, path, stop, graceOver, queueVars, writerVars, closer, toldVars>>

\* Mutant: the error ends the thread.
OpenFailsUncaught ==
  /\ gw = "opening"
  /\ IF plugged /\ node = path
     THEN openFaults < MaxOpenFaults /\ openFaults' = openFaults + 1
     ELSE UNCHANGED openFaults
  /\ gw' = "dead"
  /\ UNCHANGED <<kind, plugged, node, rearmed, unplugs, writeFaults, objectVars, queueVars, writerVars,
                 closer, toldVars>>

\* The opening fails, always if the device is gone: OSError.
OpenFails ==
  /\ gw = "opening"
  /\ IF plugged /\ node = path
     THEN openFaults < MaxOpenFaults /\ openFaults' = openFaults + 1
     ELSE UNCHANGED openFaults
  /\ gw' = "loop"
  /\ UNCHANGED <<kind, plugged, node, rearmed, unplugs, writeFaults, objectVars, queueVars, writerVars,
                 closer, toldVars>>

\* Mutant: only the first connection triggers the writes.
RaiseOnce ==
  /\ gw = "raising"
  /\ gw' = "loop"
  /\ announced' = IF kind = "receiver" \/ connected THEN "up" ELSE "down"
  /\ unreported' = (announced' = "up" /\ ~connected)
  /\ rearms' = IF announced = "none" THEN rearms + 1 ELSE rearms
  /\ UNCHANGED <<deviceVars, objectVars, requests, sentRequests, writerVars, closer>>

\* The rest of _set_connected(True): a receiver's trigger() publishes the
\* writes that re-arm it; a Bluetooth device is announced in the state that
\* the flag has by now.
Raise ==
  /\ gw = "raising"
  /\ gw' = "loop"
  /\ announced' = IF kind = "receiver" \/ connected THEN "up" ELSE "down"
  /\ unreported' = (announced' = "up" /\ ~connected)
  /\ rearms' = IF kind = "receiver" THEN rearms + 1 ELSE rearms
  /\ UNCHANGED <<deviceVars, objectVars, requests, sentRequests, writerVars, closer>>

----------------------------------------------------------------------------
\* notify, in the drain thread of the write topic: the next WriteEvent.
Pending(write) == IF write = "request" THEN requests > 0 ELSE rearms > 0

\* Mutant: the queue is read without looking whether it holds anything.
TakeAlways(write) ==
  /\ writer = "idle"
  /\ requests' = IF write = "request" THEN requests - 1 ELSE requests
  /\ rearms' = IF write = "rearm" THEN rearms - 1 ELSE rearms
  /\ item' = write
  /\ writer' = IF connected THEN "checking" ELSE "idle"
  /\ UNCHANGED <<deviceVars, objectVars, sentRequests, gw, closer, toldVars>>

\* A write to a disconnected gateway is dropped, but the first connection may
\* be waited for until the grace period is over.
Take(write) ==
  /\ writer = "idle" /\ Pending(write)
  /\ requests' = IF write = "request" THEN requests - 1 ELSE requests
  /\ rearms' = IF write = "rearm" THEN rearms - 1 ELSE rearms
  /\ item' = write
  /\ writer' = IF connected THEN "checking"
               ELSE IF everConnected \/ graceOver THEN "idle" ELSE "waiting"
  /\ UNCHANGED <<deviceVars, objectVars, sentRequests, gw, closer, toldVars>>

\* notify: _connected_signal.wait(grace) returns.
Wait ==
  /\ writer = "waiting" /\ (connected \/ graceOver)
  /\ writer' = IF connected THEN "checking" ELSE "idle"
  /\ UNCHANGED <<deviceVars, objectVars, queueVars, gw, item, closer, toldVars>>

\* _write: the second check.
Check ==
  /\ writer = "checking"
  /\ writer' = IF connected /\ handle # "none" THEN "sending" ELSE "idle"
  /\ UNCHANGED <<deviceVars, objectVars, queueVars, gw, item, closer, toldVars>>

\* _do_write: the packet reaches the device.
Send ==
  /\ writer = "sending" /\ handle = "open"
  /\ rearmed' = (rearmed \/ item = "rearm")
  /\ writer' = "idle"
  /\ UNCHANGED <<kind, plugged, node, unplugs, openFaults, writeFaults, objectVars, queueVars, gw,
                 item, closer, toldVars>>

\* _do_write: TransportError.
SendFails ==
  /\ writer = "sending"
  /\ \/ handle \in {"stale", "closed"} /\ UNCHANGED writeFaults
     \/ handle = "open" /\ writeFaults < MaxWriteFaults /\ writeFaults' = writeFaults + 1
  /\ writer' = "failing"
  /\ UNCHANGED <<kind, plugged, node, rearmed, unplugs, openFaults, objectVars, queueVars, gw, item,
                 closer, toldVars>>

\* _write: the flag is cleared and nobody is told, even if the gateway thread
\* has reconnected since the write failed.
ClearFlag ==
  /\ writer = "failing"
  /\ connected' = FALSE
  /\ unreported' = (unreported \/ connected)
  /\ writer' = "idle"
  /\ UNCHANGED <<deviceVars, path, handle, everConnected, stop, graceOver, queueVars, gw, item,
                 closer, announced>>

\* _do_write on a transport that went away meanwhile: None.write raises and
\* the drain thread logs it; hid_write on a closed transport passes a null
\* pointer, which may also take the process down.
SendNowhere ==
  /\ writer = "sending"
  /\ \/ handle = "none" /\ writer' = "idle"
     \/ handle = "closed" /\ writer' = "crashed"
  /\ UNCHANGED <<deviceVars, objectVars, queueVars, gw, item, closer, toldVars>>

----------------------------------------------------------------------------
\* close, in the main thread.
StopGateway ==
  /\ closer = "running"
  /\ stop' = TRUE
  /\ closer' = "stopping"
  /\ UNCHANGED <<deviceVars, path, handle, connected, everConnected, graceOver, queueVars, gw,
                 writerVars, toldVars>>

\* Mutant: the transport is left open.
CloseNothing ==
  /\ closer = "stopping"
  /\ closer' = "closed"
  /\ UNCHANGED <<deviceVars, objectVars, queueVars, gw, writerVars, toldVars>>

\* The test for a transport and its closing are one step: if the transport goes
\* away between them, closing None raises in the main thread and closes nothing,
\* which is this step a moment later.  What is closed wakes a blocked read.
CloseTransport ==
  /\ closer = "stopping"
  /\ handle' = IF handle = "none" THEN "none" ELSE "closed"
  /\ closer' = "closed"
  /\ UNCHANGED <<deviceVars, path, connected, everConnected, stop, graceOver, queueVars, gw,
                 writerVars, toldVars>>

----------------------------------------------------------------------------
Connecting ==
  FindNothing \/ FindSamePath \/ FindNewPath \/ Reopen \/ Open \/ OpenFails \/ Raise
Running == writer # "crashed"
GatewayThread == Running /\ (Loop \/ ReadFails \/ Connecting)
Drain == (\E write \in Writes : Take(write)) \/ Wait \/ Check
         \/ Send \/ SendFails \/ ClearFlag \/ SendNowhere
Clock == Running /\ GraceExpires
Closing == Running /\ CloseTransport
Others == Running /\ (Unplug \/ (\E p \in Paths : Plug(p)) \/ Request \/ Read \/ StopGateway)

Next == GatewayThread \/ Drain \/ Clock \/ Closing \/ Others

Spec == Init /\ [][Next]_vars

\* The threads run and time passes.  A device need not send anything (Read),
\* be plugged in again, or be written to, and the daemon need not stop.
Fairness == WF_vars(GatewayThread) /\ WF_vars(Drain) /\ WF_vars(Clock) /\ WF_vars(Closing)
FairSpec == Spec /\ Fairness

----------------------------------------------------------------------------
\* The collection counts as connected only on a transport that was opened for
\* it: while the flag is set, neither the gateway thread nor a path change has
\* taken the transport away; only close() may have closed it.
ConnectedHasTransport ==
  connected => handle \in {"open", "stale"} \/ (handle = "closed" /\ closer = "closed")

\* Whenever the gateway thread is not about to tell the others something, they
\* know whether the collection is connected, unless a failed write has cleared
\* the flag since they were told.
Told == gw \notin {"raising", "dead", "ended"}
AnnouncedIsTrue == (Told /\ ~unreported) => (announced = "up" <=> connected)

\* Two ways in which a collection is lost although its device is there: a
\* failed write cleared the flag and the gateway thread waits in read() for a
\* packet; or the path changed when there was no transport to close.
Wedged == gw = "reading" /\ unreported /\ ~connected
Orphaned == gw = "dead" /\ handle = "none"
Lost == Wedged \/ Orphaned \/ ~Running

\* A device that stays plugged in ends up connected, however often it was
\* unplugged before and under whatever path it comes back, and a receiver sends
\* its notifications again, unless the collection is lost.
InService == connected /\ (kind = "receiver" => rearmed)
Reconnects == <>[](plugged /\ ~stop) => <>[](InService \/ Lost)

\* close() ends the gateway thread, wherever it is.
CloseEndsThread == stop ~> gw \in {"ended", "dead"} \/ ~Running
=============================================================================
