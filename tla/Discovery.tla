----------------------------- MODULE Discovery -----------------------------
(***************************************************************************)
(* How one Logitech device is discovered and set up: the connection        *)
(* reports handled by DeviceConnectionSubscriber, the discovery requests   *)
(* handled by DeviceInfoSubscriber, the InfoTask threads that read the     *)
(* device (one thread per attempt of one step), and the retries of         *)
(* InfoTaskOrchestrator.  The three subscribers and every task run in      *)
(* threads of their own and share one LogiDevice object, without a lock.   *)
(*                                                                         *)
(* Devices do not share any of this state, so one device is modelled.  The *)
(* exchange of a task with the device is abstracted to its outcome (module *)
(* TaskExchange has the requests and the answers).  link, losses, faults   *)
(* and armed describe the device itself; abandoned is a history variable.  *)
(***************************************************************************)
EXTENDS Naturals, Sequences

CONSTANTS
  Followed,       \* bound: the features whose discovery is followed
  FeatureIndex,   \* index of each feature in the device's table, 0: not supported
  DeviceRole,     \* what the device says it is
  ReportedType,   \* what its connection reports say; Bluetooth does not know
  Named,          \* whether it has a name and a friendly name to read
  Armable,        \* whether its Easy-Switch keys are divertable or report analytics
  InitiallyCached,\* whether the cache file has an entry for it: {TRUE}, {FALSE} or both
  MaxAttempts,    \* MAX_DISCOVERY_ATTEMPTS
  MaxReports,     \* bound: connection reports the device sends
  MaxLosses,      \* bound: how many of them report the loss of the link
  MaxFaults,      \* bound: requests that are answered by an error, or not at all
  MaxReaders      \* bound: tasks of one step, and results, that Shortcut may pile up

Features == {"CID_REPORTING", "CHANGE_HOST", "NAME_AND_TYPE", "FRIENDLY_NAME"}

\* The steps of LogiDevice.pending_steps: one resolves each feature, and some
\* read what the feature serves.  The features interact in few ways, so a run
\* may follow some of them only and leave the steps of the others out.
ReadersOf(f) ==
  CASE f = "CID_REPORTING" -> {"FIND_ES_CIDS_FLAGS"}
    [] f = "NAME_AND_TYPE" -> {"GET_DEVICE_TYPE", "GET_DEVICE_NAME"}
    [] f = "FRIENDLY_NAME" -> {"GET_DEVICE_FRIENDLY_NAME"}
    [] f = "CHANGE_HOST" -> {}

\* The feature a reading task needs.
FeatureOf(s) ==
  CASE s \in {"GET_DEVICE_TYPE", "GET_DEVICE_NAME"} -> "NAME_AND_TYPE"
    [] s = "GET_DEVICE_FRIENDLY_NAME" -> "FRIENDLY_NAME"
    [] s = "FIND_ES_CIDS_FLAGS" -> "CID_REPORTING"

FeatureSteps == Features \intersect Followed
ReadSteps == UNION {ReadersOf(f) : f \in FeatureSteps}
Steps == FeatureSteps \union ReadSteps
CappedSteps == {"CHANGE_HOST", "CID_REPORTING", "FIND_ES_CIDS_FLAGS"}

\* The HID++ 2.0 feature codes x1B04, x1814, x0005 and x0007.
FeatureCode == [CID_REPORTING |-> 6916, CHANGE_HOST |-> 6164,
                NAME_AND_TYPE |-> 5, FRIENDLY_NAME |-> 7]

Roles == {"none", "keyboard", "mouse"}
Phases == {"started", "asking", "ending"}

ASSUME FeatureIndexAssumption == FeatureIndex \in [Features -> 0..255]
ASSUME FollowedAssumption ==
  /\ Followed \subseteq Features
  /\ "CID_REPORTING" \in Followed => ("NAME_AND_TYPE" \in Followed \/ ReportedType # "none")
ASSUME DeviceAssumption ==
  /\ DeviceRole \in {"keyboard", "mouse"} /\ ReportedType \in Roles
  /\ Named \in BOOLEAN /\ Armable \in BOOLEAN /\ InitiallyCached \subseteq BOOLEAN
ASSUME BoundsAssumption ==
  /\ MaxAttempts \in Nat \ {0}
  /\ MaxReports \in Nat /\ MaxLosses \in Nat /\ MaxFaults \in Nat
  /\ MaxReaders \in Nat

VARIABLES
  \* the device and what is on its way from it
  link,        \* the device can be reached
  reports,     \* DeviceConnectedEvents not yet handled
  sentReports, \* number of reports the device has sent
  losses,      \* number of those that said the link was down
  faults,      \* number of requests that went wrong
  armed,       \* its Easy-Switch keys are being reported to this host
  \* the LogiDevice object
  registered,  \* it is in the registry
  cached,      \* the cache has an entry for it
  connected, pending, role,
  features,    \* keys of available_features
  name,        \* the name is known
  friendly,    \* friendly_name: "none", "own", or the "fallback" to the name
  flags,       \* supported_flags contains ANALYTICS or DIVERTABLE
  \* topics device_info (two subscribers), flags and info_progress
  requests, resets, flagEvents,
  successes, failures, \* InfoTaskProgressEvents; their order makes no difference
  \* threads, and the orchestrator
  running,     \* running[s][ph]: number of tasks for step s in phase ph
  attempts, announced,
  abandoned    \* history: capped steps that were refused another attempt

deviceVars == <<link, sentReports, losses, faults, armed>>
objectVars == <<registered, cached, connected, pending, role, features, name, friendly, flags>>
topicVars == <<reports, requests, resets, flagEvents, successes, failures>>
taskVars == <<running, attempts, announced, abandoned>>
vars == <<deviceVars, objectVars, topicVars, taskVars>>

Request == [type : BOOLEAN, name : BOOLEAN]

TypeOK ==
  /\ link \in BOOLEAN /\ armed \in BOOLEAN
  /\ sentReports \in Nat /\ losses \in Nat /\ faults \in Nat
  /\ registered \in BOOLEAN /\ cached \in BOOLEAN /\ connected \in BOOLEAN
  /\ pending \in SUBSET Steps /\ role \in Roles /\ features \in SUBSET FeatureSteps
  /\ name \in BOOLEAN /\ friendly \in {"none", "own", "fallback"} /\ flags \in BOOLEAN
  /\ reports \in Seq(BOOLEAN) /\ requests \in Seq(Request)
  /\ resets \in Nat /\ flagEvents \in Nat
  /\ successes \in Nat /\ failures \in [Steps -> Nat]
  /\ running \in [Steps -> [Phases -> Nat]]
  /\ attempts \in [CappedSteps -> Nat]
  /\ announced \in BOOLEAN /\ abandoned \in SUBSET CappedSteps

Supported == {s \in FeatureSteps : FeatureIndex[s] # 0}

\* What an earlier run of the daemon has left in the cache.  The orchestrator
\* saves a device with nothing pending; its role is unknown if it refused to
\* tell, and a fallback of its friendly name is saved with the next device.
\* AnalyticsRejectionSubscriber saves a keyboard whose keys have been found,
\* whatever else is pending then, and also between the moment a task stores its
\* result and the one it drops its step.  Readers start after their feature.
\* (A name that a second task cleared, see AnnouncedHasName, is left out.)
StoredOr(known, s) == IF s \in pending THEN {FALSE, known} ELSE {known}

Restored ==
  /\ connected \in BOOLEAN
  /\ role \in IF ReportedType = "none" THEN {DeviceRole, "none"} ELSE {ReportedType}
  /\ pending \in SUBSET (Steps \ {"CID_REPORTING"})
  /\ pending # {} => role = "keyboard" /\ FeatureIndex["CID_REPORTING"] # 0
  /\ \A s \in {"GET_DEVICE_NAME", "GET_DEVICE_FRIENDLY_NAME"} \intersect Steps :
       FeatureOf(s) \in pending => s \in pending
  /\ LET found == IF role = "keyboard" THEN Supported ELSE Supported \ {"CID_REPORTING"}
     IN \E stored \in SUBSET (found \intersect pending) : features = (found \ pending) \union stored
  /\ name \in StoredOr(Named /\ "NAME_AND_TYPE" \in features, "GET_DEVICE_NAME")
  /\ \E own \in StoredOr(Named /\ "FRIENDLY_NAME" \in features, "GET_DEVICE_FRIENDLY_NAME") :
       friendly \in IF own THEN {"own"} ELSE IF name /\ pending = {} THEN {"none", "fallback"} ELSE {"none"}
  /\ flags = (Armable /\ "CID_REPORTING" \in features)

\* A device never seen before is what LogiDevice() creates.
Fresh ==
  /\ connected = TRUE /\ pending = Steps /\ role = "none" /\ features = {}
  /\ name = FALSE /\ friendly = "none" /\ flags = FALSE

Init ==
  /\ link = FALSE /\ armed = FALSE /\ sentReports = 0 /\ losses = 0 /\ faults = 0
  /\ registered = FALSE
  /\ reports = <<>> /\ requests = <<>> /\ resets = 0 /\ flagEvents = 0
  /\ successes = 0 /\ failures = [s \in Steps |-> 0]
  /\ running = [s \in Steps |-> [ph \in Phases |-> 0]]
  /\ attempts = [s \in CappedSteps |-> 0]
  /\ announced = FALSE /\ abandoned = {}
  /\ cached \in InitiallyCached
  /\ IF cached THEN Restored ELSE Fresh

----------------------------------------------------------------------------
\* Helpers on the bag of task threads.
Live(s) == s \in Steps /\ \E ph \in Phases : running[s][ph] > 0
Asking(s) == s \in Steps /\ running[s]["asking"] > 0
NoTask == \A s \in Steps : ~Live(s)
Tasks(s) == running[s]["started"] + running[s]["asking"] + running[s]["ending"]

\* Task(...).start() for every step in started
StartAll(r, started) ==
  [s \in Steps |-> IF s \in started THEN [r[s] EXCEPT !["started"] = @ + 1] ELSE r[s]]

Ended(s, ph) == [running EXCEPT ![s][ph] = @ - 1]
Moved(s, from, to) == [running EXCEPT ![s][from] = @ - 1, ![s][to] = @ + 1]

----------------------------------------------------------------------------
\* The device loses or regains its link, or repeats its state.
Connection(up) ==
  /\ sentReports < MaxReports
  /\ up \/ losses < MaxLosses
  /\ sentReports' = sentReports + 1
  /\ losses' = IF up THEN losses ELSE losses + 1
  /\ link' = up
  /\ armed' = (armed /\ link /\ up)
  /\ reports' = Append(reports, up)
  /\ UNCHANGED <<faults, objectVars, requests, resets, flagEvents, successes, failures, taskVars>>

\* DeviceConnectionSubscriber.notify on the oldest report
NextReport == reports # <<>> /\ reports' = Tail(reports)

\* publish(DeviceInfoRequestEvent): DeviceInfoSubscriber and
\* InfoTaskOrchestrator both subscribe to device_info.
RequestInfo(type, nm) ==
  /\ requests' = Append(requests, [type |-> type, name |-> nm])
  /\ resets' = resets + 1

\* no change of state: the event is ignored
IgnoreReport ==
  /\ NextReport
  /\ registered /\ connected = Head(reports)
  /\ UNCHANGED <<deviceVars, objectVars, requests, resets, flagEvents, successes, failures, taskVars>>

\* _reconnection of a registered or cached device
Reconnection ==
  /\ NextReport
  /\ IF registered THEN connected # Head(reports) ELSE cached
  /\ registered' = TRUE
  /\ connected' = Head(reports)
  /\ flagEvents' = IF connected' /\ "CID_REPORTING" \in features
                   THEN flagEvents + 1 ELSE flagEvents
  /\ IF connected' /\ pending # {}
     THEN RequestInfo(role = "none", ~name)
     ELSE UNCHANGED <<requests, resets>>
  /\ UNCHANGED <<deviceVars, cached, pending, role, features, name, friendly, flags,
                 successes, failures, taskVars>>

\* _new_connection; a pair that is known to be offline is skipped
NewConnection ==
  /\ NextReport
  /\ ~registered /\ ~cached
  /\ IF Head(reports)
     THEN /\ registered' = TRUE
          /\ connected' = TRUE
          /\ role' = ReportedType
          /\ RequestInfo(ReportedType = "none", TRUE)
     ELSE UNCHANGED <<registered, connected, role, requests, resets>>
  /\ UNCHANGED <<deviceVars, cached, pending, features, name, friendly, flags, flagEvents,
                 successes, failures, taskVars>>

\* Mutant: the reading tasks are not left to the feature tasks.
HandleSetupEager ==
  /\ requests # <<>>
  /\ requests' = Tail(requests)
  /\ running' = StartAll(running, pending)
  /\ UNCHANGED <<deviceVars, objectVars, reports, resets, flagEvents, successes, failures,
                 attempts, announced, abandoned>>

\* DeviceInfoSubscriber._handle_setup
HandleSetup ==
  /\ requests # <<>>
  /\ requests' = Tail(requests)
  /\ pending' = pending \ (
       (IF Head(requests).type THEN {} ELSE {"GET_DEVICE_TYPE"}) \union
       (IF Head(requests).name THEN {} ELSE {"GET_DEVICE_NAME"}) \union
       (IF role \in {"none", "keyboard"} THEN {} ELSE {"CID_REPORTING", "FIND_ES_CIDS_FLAGS"}))
  /\ running' = StartAll(running,
       (IF role = "keyboard" THEN FeatureSteps ELSE FeatureSteps \ {"CID_REPORTING"}))
  /\ UNCHANGED <<deviceVars, registered, cached, connected, role, features, name, friendly,
                 flags, reports, resets, flagEvents, successes, failures, attempts, announced, abandoned>>

\* InfoTaskOrchestrator._reset_budget
ResetBudget ==
  /\ resets > 0
  /\ resets' = resets - 1
  /\ attempts' = [s \in CappedSteps |-> 0]
  /\ UNCHANGED <<deviceVars, objectVars, reports, requests, flagEvents, successes, failures, running,
                 announced, abandoned>>

\* SetReportFlagSubscriber, its write taken by a device that can be reached
SetReportFlag ==
  /\ flagEvents > 0
  /\ flagEvents' = flagEvents - 1
  /\ armed' = (armed \/ (link /\ flags /\ "CID_REPORTING" \in features))
  /\ UNCHANGED <<link, sentReports, losses, faults, objectVars, reports, requests, resets,
                 successes, failures, taskVars>>

----------------------------------------------------------------------------
\* Mutant: the type task leaves CID_REPORTING to DeviceInfoSubscriber.
DependentsWithoutKeys(s) == IF s \in FeatureSteps THEN ReadersOf(s) ELSE {}

\* _fire_dependent_steps of each task class: the tasks it starts, and the
\* steps it gives up because the device is no keyboard.
Dependents(s) ==
  CASE s \in FeatureSteps -> ReadersOf(s)
    [] s = "GET_DEVICE_TYPE" /\ role = "keyboard" -> {"CID_REPORTING"} \intersect pending
    [] OTHER -> {}

NotForThisRole(s) ==
  IF s = "GET_DEVICE_TYPE" /\ role # "keyboard"
  THEN {"CID_REPORTING", "FIND_ES_CIDS_FLAGS"} ELSE {}

\* FeatureTask.doTask compares the feature code with the known INDEXES.
TakenForResolved(s) ==
  s \in FeatureSteps /\ FeatureCode[s] \in {FeatureIndex[f] : f \in features}

\* What a reading task finds known already, or never to be known.
Known(s) ==
  \/ s = "GET_DEVICE_TYPE" /\ role # "none"
  \/ s = "GET_DEVICE_NAME" /\ "NAME_AND_TYPE" \in features /\ name
  \/ s = "GET_DEVICE_FRIENDLY_NAME" /\ "FRIENDLY_NAME" \in features /\ friendly # "none"

Missing(s) == s \in ReadSteps /\ ~Known(s) /\ FeatureOf(s) \notin features

\* InfoTask.run: the step is done already, another task was faster.
AlreadyDone(s) ==
  /\ running[s]["started"] > 0
  /\ s \notin pending
  /\ running' = Moved(s, "started", "ending")
  /\ UNCHANGED <<deviceVars, objectVars, topicVars, attempts, announced, abandoned>>

\* FeatureTask.doTask: "already resolved"; dependents start, the step stays.
\* It is retried without limit and each time starts the dependents again.
Shortcut(s) ==
  /\ running[s]["started"] > 0
  /\ s \in pending /\ TakenForResolved(s)
  /\ \A d \in Dependents(s) : Tasks(d) + failures[d] < MaxReaders
  /\ successes <= MaxReaders
  /\ running' = StartAll(Moved(s, "started", "ending"), Dependents(s))
  /\ UNCHANGED <<deviceVars, objectVars, topicVars, attempts, announced, abandoned>>

\* doTask of a reading task that has nothing to ask: the answer is known, or
\* the feature is not there (and its step is done, so it never will be).
NothingToAsk(s) ==
  /\ running[s]["started"] > 0
  /\ s \in pending
  /\ Known(s) \/ Missing(s)
  /\ pending' = IF Known(s) \/ FeatureOf(s) \notin pending THEN pending \ {s} ELSE pending
  /\ running' = Moved(s, "started", "ending")
  /\ UNCHANGED <<deviceVars, registered, cached, connected, role, features, name, friendly,
                 flags, topicVars, attempts, announced, abandoned>>

\* doTask: the (first) request is sent.
Ask(s) ==
  /\ running[s]["started"] > 0
  /\ s \in pending /\ ~TakenForResolved(s) /\ ~Known(s) /\ ~Missing(s)
  /\ running' = Moved(s, "started", "asking")
  /\ UNCHANGED <<deviceVars, objectVars, topicVars, attempts, announced, abandoned>>

\* FeatureTask.doTask: ROOT answered; index 0 means not supported.
FeatureAnswered(s) ==
  /\ s \in FeatureSteps
  /\ Asking(s)
  /\ link
  /\ features' = IF FeatureIndex[s] # 0 THEN features \union {s} ELSE features
  /\ pending' = pending \ {s}
  /\ running' = Moved(s, "asking", "ending")
  /\ UNCHANGED <<deviceVars, registered, cached, connected, role, name, friendly, flags,
                 topicVars, attempts, announced, abandoned>>

\* GetDeviceTypeTask.doTask: device type 0 is a keyboard.
TypeAnswered ==
  /\ Asking("GET_DEVICE_TYPE")
  /\ link
  /\ role' = DeviceRole
  /\ pending' = pending \ {"GET_DEVICE_TYPE"}
  /\ running' = Moved("GET_DEVICE_TYPE", "asking", "ending")
  /\ UNCHANGED <<deviceVars, registered, cached, connected, features, name, friendly, flags,
                 topicVars, attempts, announced, abandoned>>

\* GetDeviceTypeTask.doTask: an error answer settles the step without a role.
TypeRefused ==
  /\ Asking("GET_DEVICE_TYPE")
  /\ faults < MaxFaults
  /\ faults' = faults + 1
  /\ pending' = pending \ {"GET_DEVICE_TYPE"}
  /\ running' = Moved("GET_DEVICE_TYPE", "asking", "ending")
  /\ UNCHANGED <<link, sentReports, losses, armed, registered, cached, connected, role,
                 features, name, friendly, flags, topicVars, attempts, announced, abandoned>>

\* GetDeviceNameTask, GetDeviceFriendlyNameTask: the whole name was read, or
\* the device says that it has none (length 0).
NameAnswered ==
  /\ Asking("GET_DEVICE_NAME")
  /\ link
  /\ name' = (name \/ Named)
  /\ pending' = pending \ {"GET_DEVICE_NAME"}
  /\ running' = Moved("GET_DEVICE_NAME", "asking", "ending")
  /\ UNCHANGED <<deviceVars, registered, cached, connected, role, features, friendly, flags,
                 topicVars, attempts, announced, abandoned>>

FriendlyAnswered ==
  /\ Asking("GET_DEVICE_FRIENDLY_NAME")
  /\ link
  /\ friendly' = IF Named THEN "own" ELSE friendly
  /\ pending' = pending \ {"GET_DEVICE_FRIENDLY_NAME"}
  /\ running' = Moved("GET_DEVICE_FRIENDLY_NAME", "asking", "ending")
  /\ UNCHANGED <<deviceVars, registered, cached, connected, role, features, name, flags,
                 topicVars, attempts, announced, abandoned>>

\* Mutant: arming is requested before the flags are recorded.
KeysAnsweredEarly ==
  /\ Asking("FIND_ES_CIDS_FLAGS")
  /\ link
  /\ flags' = (flags \/ Armable)
  /\ flagEvents' = IF flags THEN flagEvents + 1 ELSE flagEvents
  /\ pending' = pending \ {"FIND_ES_CIDS_FLAGS"}
  /\ running' = Moved("FIND_ES_CIDS_FLAGS", "asking", "ending")
  /\ UNCHANGED <<deviceVars, registered, cached, connected, role, features, name, friendly,
                 reports, requests, resets, successes, failures, attempts, announced, abandoned>>

\* FindESCidsFlagsTask: an Easy-Switch key was found; its flags are recorded
\* and, if the key can be reported at all, arming is requested.
KeysAnswered ==
  /\ Asking("FIND_ES_CIDS_FLAGS")
  /\ link
  /\ flags' = (flags \/ Armable)
  /\ flagEvents' = IF flags' THEN flagEvents + 1 ELSE flagEvents
  /\ pending' = pending \ {"FIND_ES_CIDS_FLAGS"}
  /\ running' = Moved("FIND_ES_CIDS_FLAGS", "asking", "ending")
  /\ UNCHANGED <<deviceVars, registered, cached, connected, role, features, name, friendly,
                 reports, requests, resets, successes, failures, attempts, announced, abandoned>>

\* Mutant: every task settles its step on an error, as the type task does.
UnansweredSettles(s) ==
  /\ Asking(s)
  /\ IF link THEN faults < MaxFaults /\ faults' = faults + 1 ELSE UNCHANGED faults
  /\ pending' = pending \ {s}
  /\ running' = Moved(s, "asking", "ending")
  /\ UNCHANGED <<link, sentReports, losses, armed, registered, cached, connected, role, features,
                 name, friendly, flags, topicVars, attempts, announced, abandoned>>

\* Any task: no answer in time, an error, an incomplete read.  The name tasks
\* also clear the name, whatever another task has stored meanwhile.
Unanswered(s) ==
  /\ Asking(s)
  /\ IF link THEN faults < MaxFaults /\ faults' = faults + 1 ELSE UNCHANGED faults
  /\ name' = (name /\ s # "GET_DEVICE_NAME")
  /\ friendly' = IF s = "GET_DEVICE_FRIENDLY_NAME" THEN "none" ELSE friendly
  /\ running' = Moved(s, "asking", "ending")
  /\ UNCHANGED <<link, sentReports, losses, armed, registered, cached, connected, pending,
                 role, features, flags, topicVars, attempts, announced, abandoned>>

\* The rest of InfoTask.run: a task whose step is done marks the device
\* connected and starts the dependent steps; every task reports its result.
Succeed(s) ==
  /\ running[s]["ending"] > 0
  /\ s \notin pending
  /\ connected' = TRUE
  /\ pending' = pending \ NotForThisRole(s)
  /\ running' = StartAll(Ended(s, "ending"), Dependents(s))
  /\ successes' = successes + 1
  /\ UNCHANGED <<deviceVars, registered, cached, role, features, name, friendly, flags,
                 reports, requests, resets, flagEvents, failures, attempts, announced,
                 abandoned>>

Fail(s) ==
  /\ running[s]["ending"] > 0
  /\ s \in pending
  /\ running' = Ended(s, "ending")
  /\ failures' = [failures EXCEPT ![s] = @ + 1]
  /\ UNCHANGED <<deviceVars, objectVars, reports, requests, resets, flagEvents, successes,
                 attempts, announced, abandoned>>

----------------------------------------------------------------------------
\* InfoTaskOrchestrator._handle_progress.  A success that leaves nothing
\* pending announces the device, once, and saves it to the cache; after that
\* a missing friendly name falls back to the name.
HandleSuccess ==
  /\ successes > 0
  /\ successes' = successes - 1
  /\ IF pending = {} /\ ~announced
     THEN /\ announced' = TRUE
          /\ cached' = TRUE
          /\ friendly' = IF friendly = "none" /\ name THEN "fallback" ELSE friendly
     ELSE UNCHANGED <<announced, cached, friendly>>
  /\ UNCHANGED <<deviceVars, registered, connected, pending, role, features, name, flags,
                 reports, requests, resets, flagEvents, failures, running, attempts, abandoned>>

\* Mutant: the queue of failures is not checked for being empty.
NextFailureUnchecked(s) == failures' = [failures EXCEPT ![s] = @ - 1]
NextFailure(s) == failures[s] > 0 /\ failures' = [failures EXCEPT ![s] = @ - 1]

\* _consume_attempt counts a failure of a capped step.
Counted(s) == IF s \in CappedSteps THEN [attempts EXCEPT ![s] = @ + 1] ELSE attempts
WithinBudget(s) == s \in CappedSteps => attempts[s] + 1 < MaxAttempts

\* Mutant: a retry repeats the dependent tasks too.
RetryWithReaders(s) ==
  /\ NextFailure(s)
  /\ connected /\ WithinBudget(s)
  /\ attempts' = Counted(s)
  /\ running' = StartAll(running, {s} \union Dependents(s))
  /\ UNCHANGED <<deviceVars, objectVars, reports, requests, resets, flagEvents, successes,
                 announced, abandoned>>

\* A failure while the device is connected is retried within the budget.
Retry(s) ==
  /\ NextFailure(s)
  /\ connected /\ WithinBudget(s)
  /\ attempts' = Counted(s)
  /\ running' = StartAll(running, {s})
  /\ UNCHANGED <<deviceVars, objectVars, reports, requests, resets, flagEvents, successes,
                 announced, abandoned>>

GiveUp(s) ==
  /\ NextFailure(s)
  /\ connected /\ ~WithinBudget(s)
  /\ attempts' = Counted(s)
  /\ abandoned' = abandoned \union {s}
  /\ UNCHANGED <<deviceVars, objectVars, reports, requests, resets, flagEvents, successes,
                 running, announced>>

\* Mutant: a failure is dropped whether the device is connected or not.
LeaveFailureAlways(s) ==
  /\ NextFailure(s)
  /\ UNCHANGED <<deviceVars, objectVars, reports, requests, resets, flagEvents, successes,
                 taskVars>>

\* A failure while the device is disconnected is left to the reconnection.
LeaveFailure(s) ==
  /\ NextFailure(s)
  /\ ~connected
  /\ UNCHANGED <<deviceVars, objectVars, reports, requests, resets, flagEvents, successes,
                 taskVars>>

----------------------------------------------------------------------------
TaskStep(s) ==
  \/ AlreadyDone(s) \/ Shortcut(s) \/ NothingToAsk(s) \/ Ask(s)
  \/ FeatureAnswered(s) \/ Unanswered(s)
  \/ Succeed(s) \/ Fail(s)

ReadAnswered == TypeAnswered \/ TypeRefused \/ NameAnswered \/ FriendlyAnswered \/ KeysAnswered

HandleReport == IgnoreReport \/ Reconnection \/ NewConnection
HandleProgress ==
  HandleSuccess \/ \E s \in Steps : Retry(s) \/ GiveUp(s) \/ LeaveFailure(s)

Next ==
  \/ \E up \in BOOLEAN : Connection(up)
  \/ HandleReport \/ HandleSetup \/ ResetBudget \/ SetReportFlag
  \/ \E s \in Steps : TaskStep(s)
  \/ ReadAnswered
  \/ HandleProgress

Spec == Init /\ [][Next]_vars

\* Every drain thread and every task thread keeps running, and a device that
\* can be reached answers once MaxFaults requests have gone wrong.
Fairness ==
  /\ WF_vars(HandleReport) /\ WF_vars(HandleSetup) /\ WF_vars(ResetBudget)
  /\ WF_vars(SetReportFlag) /\ WF_vars(HandleProgress) /\ WF_vars(ReadAnswered)
  /\ \A s \in Steps : WF_vars(TaskStep(s))

FairSpec == Spec /\ Fairness

----------------------------------------------------------------------------
Quiet ==
  reports = <<>> /\ requests = <<>> /\ flagEvents = 0 /\ successes = 0 /\ NoTask
  /\ \A s \in Steps : failures[s] = 0

\* The step whose success starts the task for s.
Parent(s) ==
  CASE s \in ReadSteps -> FeatureOf(s)
    [] s = "CID_REPORTING" -> "GET_DEVICE_TYPE"
    [] OTHER -> s

\* No step is forgotten: as long as the link is not lost, somebody is going
\* to work on every pending step of a registered device (the request is
\* queued, a task for it runs, its failure is waiting to be retried, or the
\* step that starts it is pending or being finished), unless it was given up.
NobodyForgets ==
  (registered /\ losses = 0) =>
    \A s \in pending :
      \/ requests # <<>> \/ Live(s) \/ failures[s] > 0 \/ s \in abandoned
      \/ Parent(s) # s /\ (Parent(s) \in pending \/ Live(Parent(s)))

\* Why nobody forgets: the facts that make NobodyForgets inductive.  An
\* unregistered device has no tasks; one that keeps its link counts as
\* connected, so its failures are retried; and as long as the role is unknown,
\* the keyboard steps are untouched and wait for the type.
KeySteps == Steps \intersect {"CID_REPORTING", "FIND_ES_CIDS_FLAGS"}

IdleBeforeRegistered ==
  ~registered =>
    /\ requests = <<>> /\ successes = 0 /\ NoTask
    /\ \A s \in Steps : failures[s] = 0
    /\ IF cached THEN "CID_REPORTING" \notin pending ELSE pending = Steps

ConnectedWhileLinked ==
  losses = 0 =>
    /\ registered => connected
    /\ \A i \in 1..Len(reports) : reports[i]

KeysWaitForType ==
  role = "none" =>
    /\ \A i \in 1..Len(requests) : requests[i].type
    /\ \A s \in KeySteps : ~Live(s) /\ failures[s] = 0
    /\ "FIND_ES_CIDS_FLAGS" \in pending => "CID_REPORTING" \in pending
    /\ (registered /\ "CID_REPORTING" \in pending)
         => ("GET_DEVICE_TYPE" \in pending \/ Live("GET_DEVICE_TYPE"))

ForgetInv ==
  IdleBeforeRegistered /\ ConnectedWhileLinked /\ KeysWaitForType /\ NobodyForgets

\* The one way to start a reading task early: FeatureTask takes a feature for
\* resolved when an index of the device's table equals its code, and only the
\* codes of NAME_AND_TYPE and FRIENDLY_NAME are small enough for that.
MistakenForResolved(f) == FeatureCode[f] \in {FeatureIndex[g] : g \in FeatureSteps}

\* A task reads the name, the type, the friendly name or the Easy-Switch keys
\* only after the feature that serves it was resolved or found to be missing,
\* or, for the keys, given up because the device is no keyboard.
DependentsAfterFeature ==
  \A s \in ReadSteps :
    Live(s) => FeatureOf(s) \notin pending \/ MistakenForResolved(FeatureOf(s))

\* The features whose tasks start the ones for s, directly or not.
StartedBy(s) ==
  FeatureSteps \intersect
    (IF s \in KeySteps THEN {"NAME_AND_TYPE"} ELSE IF s \in ReadSteps THEN {FeatureOf(s)} ELSE {})

\* Retries replace the task that failed: every (re)connection adds at most one
\* task per step, running or waiting to be retried.  The two steps that set up
\* a keyboard may have two, because DeviceInfoSubscriber and the type task both
\* start them for a keyboard known from its connection report.  A feature that
\* is mistaken for resolved is retried for ever and adds readers every time,
\* and tasks for the keys if it is the one that serves the type.
TasksBounded ==
  \A s \in Steps :
    (\A f \in StartedBy(s) : ~MistakenForResolved(f)) =>
    Tasks(s) + failures[s] <= (1 + losses) * (IF s \in KeySteps THEN 2 ELSE 1)

\* "Fully discovered" means that the name was read, if the device has one: as
\* long as the link holds and the feature is not mistaken for resolved, there is
\* one task for the name and no other one can clear what it has read.
AnnouncedHasName ==
  (losses = 0 /\ ~MistakenForResolved("NAME_AND_TYPE")) =>
    ((announced /\ Named /\ "NAME_AND_TYPE" \in features) => name)

\* When everything has been handled, a device that can be reached and whose
\* Easy-Switch keys can be reported is reporting them.
ArmedWhenQuiet ==
  (registered /\ link /\ Quiet /\ flags /\ "CID_REPORTING" \in features) => armed

\* If the link holds, discovery comes to an end: nothing is pending but steps
\* given up after MAX_DISCOVERY_ATTEMPTS failures and those that wait for them.
Settled ==
  /\ Quiet
  /\ pending \subseteq abandoned \union
       (IF "CID_REPORTING" \in abandoned THEN {"FIND_ES_CIDS_FLAGS"} ELSE {})
DiscoverySettles == ([](losses = 0) /\ <>registered) => <>[]Settled

\* If the link holds, a keyboard ends up reporting its Easy-Switch keys,
\* unless it cannot, did not tell its type, or exhausted the attempts.
Excused ==
  \/ role # "keyboard" \/ ~Armable \/ "CID_REPORTING" \notin Supported
  \/ abandoned \intersect {"CID_REPORTING", "FIND_ES_CIDS_FLAGS"} # {}
KeyboardGetsArmed == ([](losses = 0) /\ <>registered) => <>[](armed \/ Excused)
=============================================================================
