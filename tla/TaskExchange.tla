---------------------------- MODULE TaskExchange ----------------------------
(***************************************************************************)
(* Questions to one device and the answers to them.  A task is a thread    *)
(* that subscribes to hid_event when it is made, publishes a request,      *)
(* waits up to two seconds for whatever comes into its own queue, and      *)
(* gives up when nothing does; the orchestrator then starts another.       *)
(* Nothing ties an answer to its request: slot, pid and software id are    *)
(* all that is compared.  Modelled are the two extremes: reading the name, *)
(* a conversation of several requests, and asking for the friendly-name    *)
(* feature, one request under the software id that key settings also use.  *)
(* Lengths are counted in pieces of a name.                                *)
(***************************************************************************)
EXTENDS Naturals, Sequences, FiniteSets, SequencesExt

CONSTANTS
  Workers,      \* task threads, numbered; one that has ended may be used again
  Unsettled,    \* sets of steps that may be pending at the start
  NameLens,     \* how long the name of the device may be
  Overlong,     \* a character of a name, taken for the length of one
  MaxTroubles   \* bound: messages lost, refused, late or of others, tasks started again

ASSUME WorkerAssumption ==
  /\ Workers \subseteq Nat /\ {1, 2} \subseteq Workers
  /\ Unsettled \subseteq SUBSET {"name", "feature"}
ASSUME LengthAssumption == NameLens \subseteq Nat /\ \A n \in NameLens : n < Overlong
ASSUME OverlongAssumption == Overlong \in Nat
ASSUME BoundsAssumption == MaxTroubles \in Nat

VARIABLES
  device,    \* what the device would answer
  \* the LogiDevice
  pending,   \* pending_steps
  name,      \* name: None, the right one or another
  verdict,   \* whether the friendly-name feature was found
  \* the tasks
  phase,     \* phase[w]: how far doTask has got; "idle" if w has no task
  step,      \* step[w]: _step_name
  inbox,     \* inbox[w]: _response_queue, with the queue of the subscription
  length, chars, good, \* name_len, len(chars) and whether these are the name's
  \* between them
  requests,  \* on their way: WriteEvents, and the answers to them
  failures,  \* InfoTaskProgressEvents with success = False
  troubles,  \* how many of them there were
  \* history
  mixed,     \* a name task started next to another one or its messages
  crossed    \* a feature task was given the answer to a key setting

taskVars == <<phase, step, inbox, length, chars, good>>
recordVars == <<pending, name, verdict>>
vars == <<device, recordVars, taskVars, requests, failures, troubles, mixed, crossed>>

Steps == {"name", "feature"}
Busy == {w \in Workers : phase[w] # "idle"}
Waiting == {w \in Workers : phase[w] \in {"counting", "reading", "asking"}}

\* Requests, and the answers to them; "at" is the piece that is asked for.
Requests == [what : {"count", "piece", "root", "keys"}, at : 0..Overlong]
Answers == [what : {"count", "piece", "root", "keys"}, at : 0..Overlong, own : BOOLEAN, error : BOOLEAN]
Ask(what, at) == [what |-> what, at |-> at]
Answer(request, isOwn, isError) ==
  [what |-> request.what, at |-> request.at, own |-> isOwn, error |-> isError]

\* GET_DEVICE_NAME_SW_ID; FEATURE_DEVICE_FRIENDLY_NAME_SW_ID, which is SW_ID_DIVERT
SwId(what) == IF what \in {"count", "piece"} THEN 13 ELSE 14
TaskSwId(s) == IF s = "name" THEN 13 ELSE 14

TypeOK ==
  /\ device \in [supports : BOOLEAN, nameLen : NameLens]
  /\ pending \subseteq Steps
  /\ name \in {"none", "right", "wrong"} /\ verdict \in {"unknown", "present", "absent"}
  /\ phase \in [Workers -> {"idle", "fresh", "counting", "reading", "asking", "leaving"}]
  /\ step \in [Workers -> Steps]
  /\ inbox \in [Workers -> Seq(Answers)]
  /\ length \in [Workers -> 0..Overlong] /\ chars \in [Workers -> 0..Overlong]
  /\ \A w \in Workers : chars[w] <= length[w]
  /\ good \in [Workers -> BOOLEAN]
  /\ requests \in Seq(Requests) /\ failures \in Seq(Steps)
  /\ troubles \in 0..MaxTroubles
  /\ mixed \in BOOLEAN /\ crossed \in BOOLEAN

\* The device was set up: one task asks for the friendly-name feature, the
\* other, started by the task that found DEVICE_TYPE_AND_NAME, reads the name.
\* What is not pending was found by an earlier setup.
Init ==
  /\ device \in [supports : BOOLEAN, nameLen : NameLens]
  /\ pending \in Unsettled
  /\ name = IF "name" \in pending \/ device.nameLen = 0 THEN "none" ELSE "right"
  /\ verdict = IF "feature" \in pending THEN "unknown"
               ELSE IF device.supports THEN "present" ELSE "absent"
  /\ step = [w \in Workers |-> IF w = 1 /\ "feature" \in pending THEN "feature" ELSE "name"]
  /\ phase = [w \in Workers |-> IF w \in 1..Cardinality(pending) THEN "fresh" ELSE "idle"]
  /\ inbox = [w \in Workers |-> <<>>]
  /\ length = [w \in Workers |-> 0] /\ chars = [w \in Workers |-> 0]
  /\ good = [w \in Workers |-> TRUE]
  /\ requests = <<>> /\ failures = <<>>
  /\ troubles = 0
  /\ mixed = FALSE /\ crossed = FALSE

----------------------------------------------------------------------------
\* Is a message of a conversation about s still on its way?
UnderWay(s) == \E i \in 1..Len(requests) : SwId(requests[i].what) = TaskSwId(s)

\* Nothing is left of a thread that has ended; threads are alike.
Forget(w) ==
  /\ step' = [step EXCEPT ![w] = "name"]
  /\ inbox' = [inbox EXCEPT ![w] = <<>>]
  /\ length' = [length EXCEPT ![w] = 0] /\ chars' = [chars EXCEPT ![w] = 0]
  /\ good' = [good EXCEPT ![w] = TRUE]

\* InfoTask.__init__ and start: the subscription is made at once.
Start(s) ==
  /\ \E w \in Workers \ Busy :
       /\ \A v \in Workers \ Busy : w <= v
       /\ phase' = [phase EXCEPT ![w] = "fresh"]
       /\ step' = [step EXCEPT ![w] = s]
  /\ mixed' = (mixed \/ (s = "name" /\ (UnderWay(s) \/ \E w \in Busy : step[w] = s)))
  /\ UNCHANGED <<inbox, length, chars, good>>

Trouble == troubles < MaxTroubles /\ troubles' = troubles + 1

\* InfoTaskOrchestrator._handle_progress: neither step is capped.
Retry ==
  /\ failures # <<>> /\ failures' = Tail(failures)
  /\ Start(Head(failures))
  /\ UNCHANGED <<device, recordVars, requests, troubles, crossed>>

\* Another DeviceInfoRequestEvent starts tasks whatever runs already.
SetUpAgain(s) ==
  /\ Trouble
  /\ Start(s)
  /\ UNCHANGED <<device, recordVars, requests, failures, crossed>>

\* SetReportFlagSubscriber writes the setting of a key (function 3).
WriteKey ==
  /\ Trouble
  /\ requests' = Append(requests, Ask("keys", 0))
  /\ UNCHANGED <<device, recordVars, taskVars, failures, mixed, crossed>>

----------------------------------------------------------------------------
\* Mutant: the slot is not compared.
MatchesAnySlot(w, answer) == SwId(answer.what) = TaskSwId(step[w])

\* InfoTask.notify
Matches(w, answer) == answer.own /\ SwId(answer.what) = TaskSwId(step[w])

\* EventListener, parse and hid_event: every subscribed task sees the packet.
Deliver(answer) ==
  LET takers == {w \in Busy : Matches(w, answer)}
  IN /\ inbox' = [w \in Workers |-> IF w \in takers THEN Append(inbox[w], answer) ELSE inbox[w]]
     /\ crossed' = (crossed \/ (answer.what = "keys" /\ takers # {}))

\* The device answers in order; a piece behind the end of the name is empty or
\* refused, and any other request may be refused too.
Reply ==
  /\ requests # <<>> /\ requests' = Tail(requests)
  /\ LET request == Head(requests)
         isBehind == request.what = "piece" /\ request.at >= device.nameLen
     IN \/ Deliver(Answer(request, TRUE, FALSE)) /\ UNCHANGED troubles
        \/ Deliver(Answer(request, TRUE, TRUE)) /\ IF isBehind THEN UNCHANGED troubles ELSE Trouble
  /\ UNCHANGED <<device, recordVars, phase, step, length, chars, good, failures, mixed>>

\* The request, or its answer, is lost.
Lose ==
  /\ requests # <<>> /\ requests' = Tail(requests)
  /\ Trouble
  /\ UNCHANGED <<device, recordVars, taskVars, failures, mixed, crossed>>

\* A device in another slot answers a question of the same kind.
OtherAnswers ==
  /\ Trouble
  /\ \E what \in {"count", "root"} : Deliver(Answer(Ask(what, 0), FALSE, FALSE))
  /\ UNCHANGED <<device, recordVars, phase, step, length, chars, good, requests, failures, mixed>>

----------------------------------------------------------------------------
Goto(w, p) == phase' = [phase EXCEPT ![w] = p]
Send(what, at) == requests' = Append(requests, Ask(what, at))

\* InfoTask.run up to the first request: nothing is asked when the step has
\* been settled meanwhile, or the name is known.
Begin(w) ==
  /\ phase[w] = "fresh"
  /\ LET known == step[w] = "name" /\ name # "none"
     IN IF step[w] \notin pending \/ known
        THEN /\ Goto(w, "leaving") /\ pending' = pending \ {step[w]} /\ UNCHANGED requests
        ELSE /\ IF step[w] = "name" THEN Goto(w, "counting") /\ Send("count", 0)
                                    ELSE Goto(w, "asking") /\ Send("root", 0)
             /\ UNCHANGED pending
  /\ UNCHANGED <<device, name, verdict, step, inbox, length, chars, good, failures,
                 troubles, mixed, crossed>>

\* payload[0] of an answer, whatever question it answers: the length, a
\* character of the name, an index, or the high byte of a key.
FirstByte(answer) ==
  CASE answer.what = "count" -> device.nameLen
    [] answer.what = "piece" -> IF answer.at < device.nameLen THEN Overlong ELSE 0
    [] answer.what = "root"  -> IF device.supports THEN 1 ELSE 0
    [] answer.what = "keys"  -> 0

\* No answer, or an error, ends the task; a name task clears the name.
Refused(w) ==
  /\ Goto(w, "leaving") /\ UNCHANGED pending
  /\ name' = IF step[w] = "name" THEN "none" ELSE name

\* Mutant: an empty name is read like any other.
TakeCountAlways(w, answer) ==
  /\ length' = [length EXCEPT ![w] = FirstByte(answer)]
  /\ Goto(w, "reading") /\ Send("piece", 0)
  /\ UNCHANGED <<pending, name, verdict, chars, good>>

\* GetDeviceNameTask.doTask: the answer to getDeviceNameCount.
TakeCount(w, answer) ==
  LET n == FirstByte(answer)
  IN /\ length' = [length EXCEPT ![w] = n]
     /\ IF n = 0 THEN Goto(w, "leaving") /\ pending' = pending \ {"name"} /\ UNCHANGED requests
                 ELSE Goto(w, "reading") /\ Send("piece", 0) /\ UNCHANGED pending
     /\ UNCHANGED <<name, verdict, chars, good>>

\* ... and to getDeviceName; the name ends at the first empty character.
TakePiece(w, answer) ==
  LET fits == good[w] /\ answer.what = "piece" /\ answer.at = chars[w]
      read == chars[w] + 1
  IN /\ chars' = [chars EXCEPT ![w] = read]
     /\ good' = [good EXCEPT ![w] = fits]
     /\ IF read = length[w]
        THEN /\ name' = IF fits /\ length[w] >= device.nameLen THEN "right" ELSE "wrong"
             /\ Goto(w, "leaving") /\ pending' = pending \ {"name"} /\ UNCHANGED requests
        ELSE Send("piece", read) /\ UNCHANGED <<name, phase, pending>>
     /\ UNCHANGED <<verdict, length>>

\* FeatureTask.doTask
TakeIndex(w, answer) ==
  /\ verdict' = IF FirstByte(answer) # 0 THEN "present" ELSE IF verdict = "present" THEN verdict ELSE "absent"
  /\ Goto(w, "leaving") /\ pending' = pending \ {"feature"}
  /\ UNCHANGED <<name, length, chars, good, requests>>

\* _wait_response returns what is in the queue, even from before the request.
Take(w) ==
  /\ w \in Waiting /\ inbox[w] # <<>>
  /\ inbox' = [inbox EXCEPT ![w] = Tail(@)]
  /\ LET answer == Head(inbox[w])
     IN IF answer.error THEN Refused(w) /\ UNCHANGED <<verdict, length, chars, good, requests>>
        ELSE CASE phase[w] = "counting" -> TakeCount(w, answer)
               [] phase[w] = "reading"  -> TakePiece(w, answer)
               [] phase[w] = "asking"   -> TakeIndex(w, answer)
  /\ UNCHANGED <<device, step, failures, troubles, mixed, crossed>>

\* Two seconds go by and nothing has come into the queue.
GiveUp(w) ==
  /\ w \in Waiting /\ inbox[w] = <<>>
  /\ Refused(w)
  /\ UNCHANGED <<device, verdict, step, inbox, length, chars, good, requests, failures, mixed, crossed>>
\* Nothing is coming any more; or it comes too late.
TimeOutOnLoss(w) == ~UnderWay(step[w]) /\ GiveUp(w) /\ UNCHANGED troubles
TimeOutEarly(w) ==
  /\ UnderWay(step[w]) /\ GiveUp(w)
  /\ Trouble

\* Mutant: the failure is not reported.
ReportNothing(s) == UNCHANGED failures

\* The rest of InfoTask.run
Report(s) == IF s \in pending THEN failures' = Append(failures, s) ELSE UNCHANGED failures
Leave(w) ==
  /\ phase[w] = "leaving" /\ Goto(w, "idle")
  /\ Report(step[w]) /\ Forget(w)
  /\ UNCHANGED <<device, recordVars, requests, troubles, mixed, crossed>>

Next ==
  \/ Retry \/ WriteKey \/ Reply \/ Lose \/ OtherAnswers
  \/ \E s \in Steps : SetUpAgain(s)
  \/ \E w \in Workers : Begin(w) \/ Take(w) \/ TimeOutOnLoss(w) \/ TimeOutEarly(w) \/ Leave(w)

Spec == Init /\ [][Next]_vars

\* Threads run, the device and the listener go on, a timeout comes to its end.
Fairness ==
  /\ WF_vars(Retry) /\ WF_vars(Reply)
  /\ \A w \in Workers :
       WF_vars(Begin(w)) /\ WF_vars(Take(w)) /\ WF_vars(TimeOutOnLoss(w)) /\ WF_vars(Leave(w))
FairSpec == Spec /\ Fairness

----------------------------------------------------------------------------
\* A name that is stored is the device's, and a settled name step has stored
\* it, unless a name task was started while another one or its messages were
\* about: lost, refused and foreign answers alone never make up a name.
NameIsTrue ==
  ~mixed => /\ name # "wrong"
            /\ "name" \notin pending => name = "right" \/ device.nameLen = 0

\* The friendly-name feature is never found on a device without it, and not
\* missed on one that has it unless its task was given the answer to a key
\* setting: late answers and duplicate tasks do no harm to a single question.
FeatureIsTrue ==
  /\ verdict = "present" => device.supports
  /\ ("feature" \notin pending /\ ~crossed /\ device.supports) => verdict = "present"

\* What comes out of a task is true, under any faults that do not mix up two
\* conversations.
OutcomesAreTrue == NameIsTrue /\ FeatureIsTrue

\* Faults that come to an end are overcome: every task ends and every step is
\* settled, also after conversations were mixed up and lengths misread.
StepsSettle == <>[](pending = {} /\ Busy = {})
=============================================================================
