-------------------------- MODULE DiscoveryProofs --------------------------
(***************************************************************************)
(* Proofs about Discovery, for every table of features, every bound and    *)
(* every choice of the device: type correctness; NobodyForgets, that no    *)
(* discovery step of a device that keeps its link is left to nobody;       *)
(* TasksBounded, that retries do not multiply tasks; DependentsAfterFeature*)
(* and AnnouncedHasName, which says what an announcement is worth.         *)
(***************************************************************************)
EXTENDS Discovery, FiniteSetTheorems, TLAPS

Bag == [Steps -> [Phases -> Nat]]

\* A task that moves to another phase stays alive, and so do all others.
LEMMA MovedLemma ==
  ASSUME running \in Bag, NEW s \in Steps, NEW from \in Phases, NEW to \in Phases,
         from # to, running[s][from] > 0
  PROVE  /\ Moved(s, from, to) \in Bag
         /\ Moved(s, from, to)[s][to] > 0
         /\ \A t \in Steps \ {s} : Moved(s, from, to)[t] = running[t]
<1> DEFINE r == Moved(s, from, to)
<1>1. running[s] \in [Phases -> Nat]
  BY DEF Bag
<1>2. r = [running EXCEPT ![s] = [running[s] EXCEPT ![from] = @ - 1, ![to] = @ + 1]]
  BY <1>1 DEF Moved, Bag
<1>3. [running[s] EXCEPT ![from] = @ - 1, ![to] = @ + 1] \in [Phases -> Nat]
  BY <1>1
<1>4. r \in Bag
  BY <1>2, <1>3 DEF Bag
<1>5. r[s] = [running[s] EXCEPT ![from] = @ - 1, ![to] = @ + 1]
  BY <1>2 DEF Bag
<1>6. r[s][to] = running[s][to] + 1
  BY <1>1, <1>5
<1>7. running[s][to] \in Nat
  BY <1>1
<1>8. \A t \in Steps \ {s} : r[t] = running[t]
  BY <1>2 DEF Bag
<1> QED BY <1>4, <1>6, <1>7, <1>8

\* Starting tasks keeps every task alive and makes the started ones alive.
LEMMA StartLemma ==
  ASSUME NEW r \in Bag, NEW started \in SUBSET Steps
  PROVE  /\ StartAll(r, started) \in Bag
         /\ \A t \in started : StartAll(r, started)[t]["started"] > 0
         /\ \A t \in Steps, ph \in Phases : StartAll(r, started)[t][ph] >= r[t][ph]
<1> DEFINE q == StartAll(r, started)
<1>1. ASSUME NEW t \in Steps
      PROVE  /\ q[t] \in [Phases -> Nat]
             /\ t \in started => q[t]["started"] > 0
             /\ \A ph \in Phases : q[t][ph] >= r[t][ph]
  <2>1. r[t] \in [Phases -> Nat]
    BY DEF Bag
  <2>2. q[t] = IF t \in started THEN [r[t] EXCEPT !["started"] = @ + 1] ELSE r[t]
    BY DEF StartAll
  <2> QED BY <2>1, <2>2 DEF Phases
<1> QED BY <1>1 DEF Bag, StartAll

\* A task that ends was one of running[s]["ending"].
LEMMA EndedLemma ==
  ASSUME running \in Bag, NEW s \in Steps, NEW ph \in Phases, running[s][ph] > 0
  PROVE  /\ Ended(s, ph) \in Bag
         /\ \A t \in Steps \ {s} : Ended(s, ph)[t] = running[t]
<1>1. running[s] \in [Phases -> Nat]
  BY DEF Bag
<1>2. Ended(s, ph) = [running EXCEPT ![s] = [running[s] EXCEPT ![ph] = @ - 1]]
  BY <1>1 DEF Ended, Bag
<1>3. [running[s] EXCEPT ![ph] = @ - 1] \in [Phases -> Nat]
  BY <1>1
<1> QED BY <1>2, <1>3 DEF Bag

\* Every step that a task starts, and every step a task is for, is a step.
LEMMA StepsLemma ==
  /\ FeatureSteps \subseteq Steps /\ ReadSteps \subseteq Steps
  /\ \A s \in FeatureSteps : ReadersOf(s) \subseteq Steps
  /\ \A s \in Steps : Dependents(s) \subseteq Steps \union pending
  /\ Steps \subseteq Features \union {"FIND_ES_CIDS_FLAGS", "GET_DEVICE_TYPE",
                                    "GET_DEVICE_NAME", "GET_DEVICE_FRIENDLY_NAME"}
<1>1. /\ FeatureSteps \subseteq Steps /\ ReadSteps \subseteq Steps
      /\ \A s \in FeatureSteps : ReadersOf(s) \subseteq ReadSteps
  BY DEF Steps, ReadSteps
<1>2. \A f \in Features : ReadersOf(f) \subseteq {"FIND_ES_CIDS_FLAGS", "GET_DEVICE_TYPE",
                                    "GET_DEVICE_NAME", "GET_DEVICE_FRIENDLY_NAME"}
  BY DEF ReadersOf, Features
<1>3. \A s \in Steps : Dependents(s) \subseteq Steps \union pending
  BY <1>1 DEF Dependents
<1>4. Steps \subseteq Features \union {"FIND_ES_CIDS_FLAGS", "GET_DEVICE_TYPE",
                                    "GET_DEVICE_NAME", "GET_DEVICE_FRIENDLY_NAME"}
  BY <1>2 DEF Steps, ReadSteps, FeatureSteps
<1> QED BY <1>1, <1>3, <1>4

----------------------------------------------------------------------------
LEMMA RestoredType ==
  ASSUME Restored
  PROVE  /\ pending \in SUBSET Steps /\ role \in Roles /\ features \in SUBSET FeatureSteps
         /\ connected \in BOOLEAN /\ name \in BOOLEAN /\ flags \in BOOLEAN
         /\ friendly \in {"none", "own", "fallback"}
<1>1. pending \in SUBSET Steps /\ role \in Roles /\ connected \in BOOLEAN
  BY DeviceAssumption DEF Restored, Roles
<1>2. features \in SUBSET FeatureSteps
  BY DEF Restored, Supported
<1>3. name \in BOOLEAN
  BY DeviceAssumption DEF Restored, StoredOr
<1>4. friendly \in {"none", "own", "fallback"}
  BY DEF Restored
<1>5. flags \in BOOLEAN
  BY DeviceAssumption DEF Restored
<1> QED BY <1>1, <1>2, <1>3, <1>4, <1>5

LEMMA InitType == Init => TypeOK
<1> SUFFICES ASSUME Init PROVE TypeOK
  OBVIOUS
<1>1. /\ pending \in SUBSET Steps /\ role \in Roles /\ features \in SUBSET FeatureSteps
      /\ connected \in BOOLEAN /\ name \in BOOLEAN /\ flags \in BOOLEAN
      /\ friendly \in {"none", "own", "fallback"}
  <2>1. CASE Restored
    BY <2>1, RestoredType
  <2>2. CASE Fresh
    BY <2>2 DEF Fresh, Roles
  <2> QED BY <2>1, <2>2 DEF Init
<1>2. /\ failures \in [Steps -> Nat] /\ attempts \in [CappedSteps -> Nat]
      /\ running \in [Steps -> [Phases -> Nat]]
  BY DEF Init
<1>3. reports \in Seq(BOOLEAN) /\ requests \in Seq(Request)
  BY DEF Init
<1>4. cached \in BOOLEAN /\ abandoned \in SUBSET CappedSteps
  BY DeviceAssumption DEF Init
<1> QED BY <1>1, <1>2, <1>3, <1>4 DEF Init, TypeOK

LEMMA NextType == TypeOK /\ [Next]_vars => TypeOK'
<1> SUFFICES ASSUME TypeOK, [Next]_vars PROVE TypeOK'
  OBVIOUS
<1>0. running \in Bag /\ \A s \in Steps : Dependents(s) \subseteq Steps
  BY StepsLemma DEF TypeOK, Bag
<1>a. ASSUME NEW s \in Steps, NEW from \in Phases, NEW to \in Phases,
             from # to, running[s][from] > 0
      PROVE  Moved(s, from, to) \in Bag
  BY <1>0, <1>a, MovedLemma
<1>b. ASSUME NextReport
      PROVE  reports' \in Seq(BOOLEAN) /\ Head(reports) \in BOOLEAN
  BY <1>b DEF NextReport, TypeOK
<1>c. ASSUME NEW type \in BOOLEAN, NEW nm \in BOOLEAN, RequestInfo(type, nm)
      PROVE  requests' \in Seq(Request) /\ resets' \in Nat
  <2>1. [type |-> type, name |-> nm] \in Request
    BY DEF Request
  <2> QED BY <1>c, <2>1 DEF RequestInfo, TypeOK
<1>1. ASSUME NEW up \in BOOLEAN, Connection(up) PROVE TypeOK'
  BY <1>1 DEF Connection, TypeOK, objectVars, taskVars
<1>2. CASE IgnoreReport
  BY <1>2 DEF IgnoreReport, NextReport, TypeOK, deviceVars, objectVars, taskVars
<1>3. CASE Reconnection
  <2>1. requests' \in Seq(Request) /\ resets' \in Nat
    <3>1. CASE connected' /\ pending # {}
      <4>1. RequestInfo(role = "none", ~name)
        BY <1>3, <3>1 DEF Reconnection
      <4> QED BY <1>c, <4>1 DEF TypeOK
    <3>2. CASE ~(connected' /\ pending # {})
      BY <1>3, <3>2 DEF Reconnection, TypeOK
    <3> QED BY <3>1, <3>2
  <2>2. reports' \in Seq(BOOLEAN) /\ connected' \in BOOLEAN /\ flagEvents' \in Nat
    BY <1>b, <1>3 DEF Reconnection, TypeOK
  <2> QED BY <1>3, <2>1, <2>2 DEF Reconnection, TypeOK, deviceVars, taskVars
<1>4. CASE NewConnection
  <2>1. reports' \in Seq(BOOLEAN)
    BY <1>b, <1>4 DEF NewConnection
  <2>2. CASE Head(reports)
    <3>1. RequestInfo(ReportedType = "none", TRUE)
      BY <1>4, <2>2 DEF NewConnection
    <3>2. requests' \in Seq(Request) /\ resets' \in Nat
      BY <1>c, <3>1
    <3> QED BY <1>4, <2>1, <2>2, <3>2, DeviceAssumption
        DEF NewConnection, TypeOK, deviceVars, taskVars
  <2>3. CASE ~Head(reports)
    BY <1>4, <2>1, <2>3 DEF NewConnection, TypeOK, deviceVars, taskVars
  <2> QED BY <2>2, <2>3
<1>5. CASE HandleSetup
  <2>1. running' \in Bag
    BY <1>0, <1>5, StartLemma DEF HandleSetup, Steps
  <2>2. requests' \in Seq(Request) /\ pending' \in SUBSET Steps
    BY <1>5 DEF HandleSetup, TypeOK
  <2> QED BY <1>5, <2>1, <2>2 DEF HandleSetup, TypeOK, Bag, deviceVars
<1>6. CASE ResetBudget
  BY <1>6 DEF ResetBudget, TypeOK, deviceVars, objectVars
<1>7. CASE SetReportFlag
  BY <1>7 DEF SetReportFlag, TypeOK, objectVars, taskVars
<1>8. ASSUME NEW s \in Steps, TaskStep(s) PROVE TypeOK'
  <2>1. CASE AlreadyDone(s)
    BY <1>a, <2>1 DEF AlreadyDone, TypeOK, Bag, Phases, deviceVars, objectVars, topicVars
  <2>2. CASE Shortcut(s)
    <3>1. Moved(s, "started", "ending") \in Bag /\ Dependents(s) \subseteq Steps
      BY <1>0, <1>a, <2>2 DEF Shortcut, Phases
    <3>2. running' \in Bag
      BY <2>2, <3>1, StartLemma DEF Shortcut
    <3> QED BY <2>2, <3>2 DEF Shortcut, TypeOK, Bag, deviceVars, objectVars, topicVars
  <2>3. CASE NothingToAsk(s)
    <3>1. running' \in Bag
      BY <1>a, <2>3 DEF NothingToAsk, Phases
    <3> QED BY <2>3, <3>1 DEF NothingToAsk, TypeOK, Bag, deviceVars, topicVars
  <2>4. CASE Ask(s)
    BY <1>a, <2>4 DEF Ask, TypeOK, Bag, Phases, deviceVars, objectVars, topicVars
  <2>5. CASE FeatureAnswered(s)
    <3>1. running' \in Bag
      BY <1>a, <2>5 DEF FeatureAnswered, Asking, Phases
    <3> QED BY <2>5, <3>1 DEF FeatureAnswered, TypeOK, Bag, deviceVars, topicVars
  <2>6. CASE Unanswered(s)
    <3>1. running' \in Bag
      BY <1>a, <2>6 DEF Unanswered, Asking, Phases
    <3> QED BY <2>6, <3>1 DEF Unanswered, TypeOK, Bag, topicVars
  <2>7. CASE Succeed(s)
    <3>1. Ended(s, "ending") \in Bag /\ Dependents(s) \subseteq Steps
      BY <1>0, <2>7, EndedLemma DEF Succeed, Phases
    <3>2. running' \in Bag
      BY <2>7, <3>1, StartLemma DEF Succeed
    <3> QED BY <2>7, <3>2 DEF Succeed, TypeOK, Bag, deviceVars
  <2>8. CASE Fail(s)
    <3>1. running' \in Bag
      BY <1>0, <2>8, EndedLemma DEF Fail, Phases
    <3> QED BY <2>8, <3>1 DEF Fail, TypeOK, Bag, deviceVars, objectVars
  <2> QED BY <1>8, <2>1, <2>2, <2>3, <2>4, <2>5, <2>6, <2>7, <2>8 DEF TaskStep
<1>9. CASE ReadAnswered
  <2>1. CASE TypeAnswered
    <3>1. running' \in Bag
      BY <1>a, <2>1 DEF TypeAnswered, Asking, Phases
    <3> QED BY <2>1, <3>1, DeviceAssumption
        DEF TypeAnswered, TypeOK, Roles, Bag, deviceVars, topicVars
  <2>2. CASE TypeRefused
    <3>1. running' \in Bag
      BY <1>a, <2>2 DEF TypeRefused, Asking, Phases
    <3> QED BY <2>2, <3>1 DEF TypeRefused, TypeOK, Bag, topicVars
  <2>3. CASE NameAnswered
    <3>1. running' \in Bag
      BY <1>a, <2>3 DEF NameAnswered, Asking, Phases
    <3> QED BY <2>3, <3>1, DeviceAssumption DEF NameAnswered, TypeOK, Bag, deviceVars, topicVars
  <2>4. CASE FriendlyAnswered
    <3>1. running' \in Bag
      BY <1>a, <2>4 DEF FriendlyAnswered, Asking, Phases
    <3> QED BY <2>4, <3>1 DEF FriendlyAnswered, TypeOK, Bag, deviceVars, topicVars
  <2>5. CASE KeysAnswered
    <3>1. running' \in Bag
      BY <1>a, <2>5 DEF KeysAnswered, Asking, Phases
    <3> QED BY <2>5, <3>1, DeviceAssumption DEF KeysAnswered, TypeOK, Bag, deviceVars
  <2> QED BY <1>9, <2>1, <2>2, <2>3, <2>4, <2>5 DEF ReadAnswered
<1>10. CASE HandleSuccess
  <2>1. successes' \in Nat
    BY <1>10 DEF HandleSuccess, TypeOK
  <2>2. CASE pending = {} /\ ~announced
    BY <1>10, <2>1, <2>2 DEF HandleSuccess, TypeOK, deviceVars
  <2>3. CASE ~(pending = {} /\ ~announced)
    BY <1>10, <2>1, <2>3 DEF HandleSuccess, TypeOK, deviceVars
  <2> QED BY <2>2, <2>3
<1>11. ASSUME NEW s \in Steps, Retry(s) \/ GiveUp(s) \/ LeaveFailure(s) PROVE TypeOK'
  <2>1. failures' \in [Steps -> Nat]
    <3>1. NextFailure(s)
      BY <1>11 DEF Retry, GiveUp, LeaveFailure
    <3> QED BY <3>1 DEF NextFailure, TypeOK
  <2>2. Counted(s) \in [CappedSteps -> Nat]
    BY DEF Counted, TypeOK
  <2>3. CASE Retry(s)
    <3>1. running' \in Bag
      BY <1>0, <2>3, StartLemma DEF Retry
    <3> QED BY <2>1, <2>2, <2>3, <3>1 DEF Retry, TypeOK, Bag, deviceVars, objectVars
  <2>4. CASE GiveUp(s)
    BY <2>1, <2>2, <2>4 DEF GiveUp, WithinBudget, TypeOK, deviceVars, objectVars
  <2>5. CASE LeaveFailure(s)
    BY <2>1, <2>5 DEF LeaveFailure, TypeOK, deviceVars, objectVars, taskVars
  <2> QED BY <1>11, <2>3, <2>4, <2>5
<1>12. CASE UNCHANGED vars
  BY <1>12 DEF TypeOK, vars, deviceVars, objectVars, topicVars, taskVars
<1> QED BY <1>1, <1>2, <1>3, <1>4, <1>5, <1>6, <1>7, <1>8, <1>9, <1>10, <1>11, <1>12
    DEF Next, HandleReport, HandleProgress

\* The state of the discovery always has the types declared in Discovery.
THEOREM TypeCorrect == Spec => []TypeOK
BY InitType, NextType, PTL DEF Spec
----------------------------------------------------------------------------
\* No step is forgotten: ForgetInv is inductive.

LiveIn(r, s) == s \in Steps /\ \E ph \in Phases : r[s][ph] > 0

\* A reading step waits for the feature it reads from, CID_REPORTING for the
\* device type, and the other steps for nobody.
LEMMA ParentLemma ==
  /\ \A s \in ReadSteps : /\ Parent(s) = FeatureOf(s) /\ FeatureOf(s) \in FeatureSteps
                          /\ s \in ReadersOf(FeatureOf(s)) /\ s \notin FeatureSteps
                          /\ s # "FIND_ES_CIDS_FLAGS" => FeatureOf(s) # "CID_REPORTING"
                          /\ s = "FIND_ES_CIDS_FLAGS" => FeatureOf(s) = "CID_REPORTING"
  /\ \A s \in FeatureSteps \ {"CID_REPORTING"} : Parent(s) = s
  /\ Parent("CID_REPORTING") = "GET_DEVICE_TYPE"
  /\ {"FIND_ES_CIDS_FLAGS", "GET_DEVICE_TYPE"} \intersect FeatureSteps = {}
  /\ "CID_REPORTING" \notin ReadSteps
  /\ "FIND_ES_CIDS_FLAGS" \in Steps => "CID_REPORTING" \in FeatureSteps
<1>1. ReadSteps \intersect Features = {} /\ "CID_REPORTING" \in Features
  BY DEF ReadSteps, ReadersOf, Features, FeatureSteps
<1>2. ASSUME NEW s \in ReadSteps
      PROVE  /\ FeatureOf(s) \in FeatureSteps /\ s \in ReadersOf(FeatureOf(s))
             /\ s # "FIND_ES_CIDS_FLAGS" => FeatureOf(s) # "CID_REPORTING"
             /\ s = "FIND_ES_CIDS_FLAGS" => FeatureOf(s) = "CID_REPORTING"
  <2>1. PICK f \in FeatureSteps : s \in ReadersOf(f)
    BY DEF ReadSteps
  <2>2. f \in Features
    BY DEF FeatureSteps
  <2>3. FeatureOf(s) = f
    BY <2>1, <2>2 DEF FeatureOf, ReadersOf, Features
  <2> QED BY <2>1, <2>2, <2>3 DEF ReadersOf, Features
<1>3. FeatureSteps \subseteq Features
  BY DEF FeatureSteps
<1>4. \A s \in ReadSteps : s \notin FeatureSteps /\ Parent(s) = FeatureOf(s)
  BY <1>1, <1>3 DEF Parent
<1>5. \A s \in FeatureSteps \ {"CID_REPORTING"} : Parent(s) = s
  BY <1>1, <1>3 DEF Parent
<1>6. "CID_REPORTING" \notin ReadSteps /\ Parent("CID_REPORTING") = "GET_DEVICE_TYPE"
  BY <1>1 DEF Parent
<1>7. {"FIND_ES_CIDS_FLAGS", "GET_DEVICE_TYPE"} \intersect FeatureSteps = {}
  BY DEF FeatureSteps, Features
<1>8. "FIND_ES_CIDS_FLAGS" \in Steps => "CID_REPORTING" \in FeatureSteps
  BY <1>2, <1>7 DEF Steps
<1> QED BY <1>2, <1>4, <1>5, <1>6, <1>7, <1>8

\* NobodyForgets survives a step that takes no work away: requests are not
\* used up, a task that goes away leaves a failure, a failure that goes away
\* leaves a task or gives up, and a step is done only by a task for it.
LEMMA NothingTakenAway ==
  ASSUME TypeOK, NobodyForgets,
         registered' = registered, losses' = 0 => losses = 0,
         requests # <<>> => requests' # <<>>,
         \A t \in Steps : Live(t) => LiveIn(running', t) \/ (t \in pending' /\ failures'[t] > 0),
         \A t \in Steps : failures[t] > 0 =>
            failures'[t] > 0 \/ LiveIn(running', t) \/ t \in abandoned',
         abandoned \subseteq abandoned', pending' \subseteq pending,
         \A t \in pending \ pending' : LiveIn(running', t)
  PROVE  NobodyForgets'
<1> SUFFICES ASSUME registered, losses = 0, NEW s \in pending, s \in pending',
                    ~(requests' # <<>> \/ LiveIn(running', s) \/ failures'[s] > 0
                      \/ s \in abandoned')
             PROVE  Parent(s) # s /\ (Parent(s) \in pending' \/ LiveIn(running', Parent(s)))
  BY DEF NobodyForgets, Live, LiveIn
<1>1. s \in Steps
  BY DEF TypeOK
<1>2. Parent(s) # s /\ (Parent(s) \in pending \/ Live(Parent(s)))
  BY <1>1 DEF NobodyForgets
<1>3. Live(Parent(s)) => Parent(s) \in Steps
  BY DEF Live
<1> QED BY <1>2, <1>3

\* The steps of a task that only move it from one phase to the next.
LEMMA TaskKeeps ==
  ASSUME TypeOK, ForgetInv, NEW s \in Steps, NEW from \in Phases, NEW to \in Phases,
         from # to, running[s][from] > 0, running' = Moved(s, from, to),
         pending' = pending \/ pending' = pending \ {s},
         role' = role \/ role' # "none",
         UNCHANGED <<registered, connected, cached, losses, reports, requests, successes,
                     failures, abandoned>>
  PROVE  ForgetInv'
<1>1. Live(s) /\ LiveIn(running', s) /\ \A t \in Steps : LiveIn(running', t) <=> Live(t)
  <2>1. running'[s][to] > 0 /\ \A t \in Steps \ {s} : running'[t] = running[t]
    BY MovedLemma DEF TypeOK, Bag
  <2>2. Live(s) /\ LiveIn(running', s)
    BY <2>1 DEF Live, LiveIn
  <2>3. \A t \in Steps \ {s} : LiveIn(running', t) <=> Live(t)
    BY <2>1 DEF Live, LiveIn
  <2> QED BY <2>2, <2>3
<1>2. registered
  BY <1>1 DEF ForgetInv, IdleBeforeRegistered, NoTask
<1>3. NobodyForgets'
  BY <1>1, NothingTakenAway DEF ForgetInv
<1>4. IdleBeforeRegistered'
  BY <1>2 DEF IdleBeforeRegistered
<1>5. ConnectedWhileLinked'
  BY DEF ForgetInv, ConnectedWhileLinked
<1>6. KeysWaitForType'
  <2> SUFFICES ASSUME role = "none", role' = "none" PROVE KeysWaitForType'
    BY DEF KeysWaitForType
  <2>1. s \notin KeySteps
    BY <1>1 DEF ForgetInv, KeysWaitForType
  <2>2. s \notin {"CID_REPORTING", "FIND_ES_CIDS_FLAGS"}
    BY <2>1 DEF KeySteps
  <2>3. \A t \in KeySteps : ~LiveIn(running', t) /\ failures'[t] = 0
    BY <1>1 DEF ForgetInv, KeysWaitForType, KeySteps
  <2>4. (registered /\ "CID_REPORTING" \in pending)
           => ("GET_DEVICE_TYPE" \in pending' \/ LiveIn(running', "GET_DEVICE_TYPE"))
    BY <1>1 DEF ForgetInv, KeysWaitForType, Live
  <2> QED BY <2>2, <2>3, <2>4 DEF ForgetInv, KeysWaitForType, Live, LiveIn
<1> QED BY <1>3, <1>4, <1>5, <1>6 DEF ForgetInv
\* After StartAll, exactly the tasks that were alive and the started ones are.
LEMMA StartLive ==
  ASSUME NEW r \in Bag, NEW started \in SUBSET Steps
  PROVE  \A t \in Steps : LiveIn(StartAll(r, started), t) <=> (t \in started \/ LiveIn(r, t))
<1>1. ASSUME NEW t \in started PROVE LiveIn(StartAll(r, started), t)
  BY StartLemma DEF LiveIn, Phases
<1>2. ASSUME NEW t \in Steps \ started PROVE StartAll(r, started)[t] = r[t]
  BY DEF StartAll
<1> QED BY <1>1, <1>2 DEF LiveIn

\* When a task ends, the tasks for other steps stay alive, and no other
\* becomes alive.
LEMMA EndedLive ==
  ASSUME running \in Bag, NEW s \in Steps, NEW ph \in Phases, running[s][ph] > 0
  PROVE  /\ Ended(s, ph) \in Bag /\ Live(s)
         /\ \A t \in Steps \ {s} : LiveIn(Ended(s, ph), t) <=> Live(t)
         /\ \A t \in Steps : LiveIn(Ended(s, ph), t) => Live(t)
BY EndedLemma DEF Live, LiveIn

LEMMA InitForget == Init => ForgetInv
<1> SUFFICES ASSUME Init PROVE ForgetInv
  OBVIOUS
<1>1. NoTask /\ \A s : ~Live(s)
  BY DEF Init, NoTask, Live
<1>2. IF cached THEN "CID_REPORTING" \notin pending ELSE pending = Steps
  BY DEF Init, Restored, Fresh
<1>3. \A s \in KeySteps : failures[s] = 0
  BY DEF Init, KeySteps
<1>4. role = "none" => ("FIND_ES_CIDS_FLAGS" \in pending => "CID_REPORTING" \in pending)
  <2>1. CASE cached
    <3>1. role = "none" => pending = {}
      BY <2>1 DEF Init, Restored
    <3> QED BY <3>1
  <2>2. CASE ~cached BY <1>2, <2>2, ParentLemma DEF KeySteps, Steps
  <2> QED BY <2>1, <2>2
<1>5. IdleBeforeRegistered
  BY <1>1, <1>2 DEF Init, IdleBeforeRegistered
<1>6. ConnectedWhileLinked /\ NobodyForgets
  BY DEF Init, ConnectedWhileLinked, NobodyForgets
<1>7. KeysWaitForType
  BY <1>1, <1>3, <1>4 DEF Init, KeysWaitForType
<1> QED BY <1>5, <1>6, <1>7 DEF ForgetInv
\* What holds of all requests holds of the oldest and of the others, and of
\* one more if it holds of that; the same for the reports.
LEMMA TailLemma ==
  ASSUME NEW S, NEW q \in Seq(S), q # <<>>
  PROVE  /\ Head(q) = q[1] /\ 1 \in 1..Len(q)
         /\ \A i \in 1..Len(Tail(q)) : i + 1 \in 1..Len(q) /\ Tail(q)[i] = q[i + 1]
OBVIOUS

LEMMA AppendLemma ==
  ASSUME NEW S, NEW q \in Seq(S), NEW x \in S
  PROVE  /\ Append(q, x) # <<>>
         /\ \A i \in 1..Len(Append(q, x)) :
              Append(q, x)[i] = x \/ (i \in 1..Len(q) /\ Append(q, x)[i] = q[i])
OBVIOUS

\* A connection report of a registered device is taken or ignored; the first
\* one of a device finds no work of an earlier one.
LEMMA ReportForget == TypeOK /\ ForgetInv /\ HandleReport => ForgetInv'
<1> SUFFICES ASSUME TypeOK, ForgetInv, HandleReport PROVE ForgetInv'
  OBVIOUS
<1>1. NextReport
  BY DEF HandleReport, IgnoreReport, Reconnection, NewConnection
<1>2. losses = 0 => Head(reports) /\ \A i \in 1..Len(reports') : reports'[i]
  <2>1. reports \in Seq(BOOLEAN) /\ reports # <<>> /\ reports' = Tail(reports)
    BY <1>1 DEF NextReport, TypeOK
  <2> QED BY <2>1, TailLemma DEF ForgetInv, ConnectedWhileLinked
<1>3. CASE IgnoreReport
  <2> USE <1>3 DEF IgnoreReport, deviceVars, objectVars, taskVars
  <2>1. NobodyForgets'
    BY DEF ForgetInv, NobodyForgets, Live
  <2>2. ConnectedWhileLinked'
    BY <1>2 DEF ForgetInv, ConnectedWhileLinked
  <2>3. IdleBeforeRegistered'
    BY DEF ForgetInv, IdleBeforeRegistered, NoTask, Live
  <2>4. KeysWaitForType'
    BY DEF ForgetInv, KeysWaitForType, Live
  <2> QED BY <2>1, <2>2, <2>3, <2>4 DEF ForgetInv
<1>4. CASE Reconnection
  <2>1. /\ UNCHANGED <<losses, pending, role, running, failures, abandoned>>
        /\ registered' /\ connected' = Head(reports)
    BY <1>4 DEF Reconnection, deviceVars, taskVars
  <2>2. requests' = IF connected' /\ pending # {}
                    THEN Append(requests, [type |-> (role = "none"), name |-> ~name]) ELSE requests
    BY <1>4 DEF Reconnection, RequestInfo
  <2>3. NobodyForgets'
    <3> SUFFICES ASSUME losses = 0, pending # {} PROVE requests' # <<>>
      BY <2>1 DEF NobodyForgets
    <3>1. connected' /\ [type |-> (role = "none"), name |-> ~name] \in Request
      BY <1>2, <2>1 DEF Request
    <3> QED BY <2>2, <3>1, AppendLemma DEF TypeOK
  <2>4. IdleBeforeRegistered' /\ ConnectedWhileLinked'
    BY <1>2, <2>1 DEF IdleBeforeRegistered, ConnectedWhileLinked
  <2>5. KeysWaitForType'
    <3> SUFFICES ASSUME role = "none" PROVE KeysWaitForType'
      BY <2>1 DEF KeysWaitForType
    <3>1. \A i \in 1..Len(requests') : requests'[i].type
      <4> DEFINE x == [type |-> (role = "none"), name |-> ~name]
      <4>1. x \in Request /\ x.type
        BY DEF Request
      <4>2. CASE requests' = requests
        BY <4>2 DEF ForgetInv, KeysWaitForType
      <4>3. CASE requests' = Append(requests, x)
        <5> HIDE DEF x
        <5>1. \A i \in 1..Len(requests') :
                requests'[i] = x \/ (i \in 1..Len(requests) /\ requests'[i] = requests[i])
          BY <4>1, <4>3, AppendLemma DEF TypeOK
        <5> QED BY <4>1, <5>1 DEF ForgetInv, KeysWaitForType
      <4> QED BY <2>2, <4>2, <4>3
    <3>2. ~registered => "CID_REPORTING" \notin pending
      BY <1>4 DEF Reconnection, ForgetInv, IdleBeforeRegistered, KeySteps, TypeOK
    <3> QED BY <2>1, <3>1, <3>2 DEF ForgetInv, KeysWaitForType, Live
  <2> QED BY <2>3, <2>4, <2>5 DEF ForgetInv
<1>5. CASE NewConnection /\ Head(reports)
  <2>1. /\ UNCHANGED <<losses, pending, running, failures, abandoned>>
        /\ registered' /\ connected' /\ role' = ReportedType
        /\ requests' = Append(requests, [type |-> (ReportedType = "none"), name |-> TRUE])
    BY <1>5 DEF NewConnection, RequestInfo, deviceVars, taskVars
  <2>2. requests = <<>> /\ NoTask /\ pending = Steps /\ \A s \in Steps : failures[s] = 0
    BY <1>5 DEF NewConnection, ForgetInv, IdleBeforeRegistered
  <2>3. NobodyForgets'
    BY <2>1, <2>2 DEF NobodyForgets
  <2>4. IdleBeforeRegistered' /\ ConnectedWhileLinked'
    BY <1>2, <2>1 DEF IdleBeforeRegistered, ConnectedWhileLinked
  <2>5. KeysWaitForType'
    <3> SUFFICES ASSUME ReportedType = "none" PROVE KeysWaitForType'
      BY <2>1 DEF KeysWaitForType
    <3>1. \A i \in 1..Len(requests') : requests'[i].type
      <4> DEFINE x == [type |-> (ReportedType = "none"), name |-> TRUE]
      <4>1. x.type /\ requests' = Append(<<>>, x)
        BY <2>1, <2>2
      <4> HIDE DEF x
      <4>2. requests' = <<x>>
        BY <4>1
      <4> QED BY <4>1, <4>2
    <3>2. "FIND_ES_CIDS_FLAGS" \in Steps => "CID_REPORTING" \in Steps
      BY ParentLemma DEF Steps
    <3>3. "CID_REPORTING" \in Steps => "GET_DEVICE_TYPE" \in Steps
      <4>1. "CID_REPORTING" \in Steps => "NAME_AND_TYPE" \in FeatureSteps
        BY ParentLemma, FollowedAssumption DEF Steps, FeatureSteps, Features
      <4>2. "NAME_AND_TYPE" \in FeatureSteps => "GET_DEVICE_TYPE" \in ReadSteps
        BY DEF ReadSteps, ReadersOf
      <4> QED BY <4>1, <4>2 DEF Steps
    <3>4. \A s \in KeySteps : ~Live(s)' /\ failures'[s] = 0
      BY <2>1, <2>2 DEF NoTask, Live, KeySteps
    <3> QED BY <2>1, <2>2, <3>1, <3>2, <3>3, <3>4 DEF KeysWaitForType
  <2> QED BY <2>3, <2>4, <2>5 DEF ForgetInv
<1>6. CASE NewConnection /\ ~Head(reports)
  <2>1. /\ UNCHANGED <<registered, connected, role, requests, losses, cached, pending, running,
                       successes, failures, abandoned>>
        /\ ~registered /\ losses # 0
    BY <1>2, <1>6 DEF NewConnection, deviceVars, taskVars
  <2> QED BY <2>1 DEF ForgetInv, NobodyForgets, ConnectedWhileLinked, IdleBeforeRegistered,
                      NoTask, KeysWaitForType, Live
<1> QED BY <1>3, <1>4, <1>5, <1>6 DEF HandleReport
\* A request starts the tasks that every pending step needs or waits for.
LEMMA SetupForget == TypeOK /\ ForgetInv /\ HandleSetup => ForgetInv'
<1> SUFFICES ASSUME TypeOK, ForgetInv, HandleSetup PROVE ForgetInv'
  OBVIOUS
<1> DEFINE started == IF role = "keyboard" THEN FeatureSteps ELSE FeatureSteps \ {"CID_REPORTING"}
<1>1. /\ UNCHANGED <<registered, cached, connected, role, losses, reports, successes, failures,
                     abandoned>>
      /\ pending' \subseteq pending
      /\ requests # <<>> /\ requests' = Tail(requests)
      /\ running' = StartAll(running, started)
  BY DEF HandleSetup, deviceVars
<1>2. started \in SUBSET Steps /\ FeatureSteps \ {"CID_REPORTING"} \subseteq started
  BY StepsLemma
<1>3. \A t \in Steps : LiveIn(running', t) <=> (t \in started \/ Live(t))
  <2> HIDE DEF started
  <2> QED BY <1>1, <1>2, StartLive DEF TypeOK, Bag, Live, LiveIn
<1>4. registered
  BY <1>1 DEF ForgetInv, IdleBeforeRegistered
<1>5. /\ Head(requests) = requests[1] /\ 1 \in 1..Len(requests)
      /\ \A i \in 1..Len(requests') : i + 1 \in 1..Len(requests) /\ requests'[i] = requests[i + 1]
  BY <1>1, TailLemma DEF TypeOK
<1>6. \A t \in pending \ pending' : t \in
        (IF Head(requests).type THEN {} ELSE {"GET_DEVICE_TYPE"}) \union {"GET_DEVICE_NAME"} \union
        (IF role \in {"none", "keyboard"} THEN {} ELSE {"CID_REPORTING", "FIND_ES_CIDS_FLAGS"})
  BY DEF HandleSetup
<1>7. role \notin {"none", "keyboard"} =>
         "CID_REPORTING" \notin pending' /\ "FIND_ES_CIDS_FLAGS" \notin pending'
  BY DEF HandleSetup
<1>8. role = "none" => /\ Head(requests).type
                       /\ \A i \in 1..Len(requests') : requests'[i].type
  BY <1>5 DEF ForgetInv, KeysWaitForType
<1>9. role = "none" /\ "CID_REPORTING" \in pending' =>
         "GET_DEVICE_TYPE" \in pending' \/ LiveIn(running', "GET_DEVICE_TYPE")
  <2> SUFFICES ASSUME role = "none", "CID_REPORTING" \in pending'
               PROVE "GET_DEVICE_TYPE" \in pending' \/ LiveIn(running', "GET_DEVICE_TYPE")
    OBVIOUS
  <2>1. "GET_DEVICE_TYPE" \in pending \/ Live("GET_DEVICE_TYPE")
    BY <1>1, <1>4 DEF ForgetInv, KeysWaitForType
  <2>2. "GET_DEVICE_TYPE" \in pending => "GET_DEVICE_TYPE" \in pending'
    BY <1>6, <1>8
  <2>3. Live("GET_DEVICE_TYPE") => LiveIn(running', "GET_DEVICE_TYPE")
    BY <1>3 DEF Live
  <2> QED BY <2>1, <2>2, <2>3
<1>10. role = "none" /\ "FIND_ES_CIDS_FLAGS" \in pending' => "CID_REPORTING" \in pending'
  BY <1>1, <1>6, <1>8 DEF ForgetInv, KeysWaitForType
<1>11. NobodyForgets'
  <2> SUFFICES ASSUME NEW s \in pending', ~LiveIn(running', s)
               PROVE  Parent(s) # s /\ (Parent(s) \in pending' \/ LiveIn(running', Parent(s)))
    BY DEF NobodyForgets, Live, LiveIn
  <2>1. s \in Steps /\ s \notin started
    BY <1>1, <1>3 DEF TypeOK
  <2>2. CASE s = "CID_REPORTING"
    <3>1. role = "none"
      BY <1>7, <2>1, <2>2, ParentLemma DEF Steps
    <3> QED BY <1>9, <2>2, <3>1, ParentLemma
  <2>3. CASE s = "FIND_ES_CIDS_FLAGS"
    <3>1. Parent(s) = "CID_REPORTING" /\ "CID_REPORTING" \in FeatureSteps
      BY <2>1, <2>3, ParentLemma DEF Steps
    <3>2. CASE role = "none"
      BY <1>10, <2>3, <3>1, <3>2
    <3>3. CASE role = "keyboard"
      BY <1>3, <2>3, <3>1, <3>3, StepsLemma
    <3> QED BY <1>7, <2>3, <3>2, <3>3
  <2>4. CASE s \notin {"CID_REPORTING", "FIND_ES_CIDS_FLAGS"}
    <3>1. s \in ReadSteps /\ Parent(s) = FeatureOf(s) /\ FeatureOf(s) \in started
      BY <1>2, <2>1, <2>4, ParentLemma DEF Steps
    <3>2. Parent(s) \in Steps /\ Parent(s) # s
      BY <3>1, ParentLemma, StepsLemma
    <3> QED BY <1>3, <3>1, <3>2
  <2> QED BY <2>2, <2>3, <2>4
<1>12. IdleBeforeRegistered' /\ ConnectedWhileLinked'
  BY <1>1, <1>4 DEF ForgetInv, IdleBeforeRegistered, ConnectedWhileLinked
<1>13. KeysWaitForType'
  <2> SUFFICES ASSUME role = "none" PROVE KeysWaitForType'
    BY <1>1 DEF KeysWaitForType
  <2>1. \A t \in KeySteps : ~LiveIn(running', t) /\ failures'[t] = 0
    BY <1>1, <1>3, ParentLemma DEF ForgetInv, KeysWaitForType, KeySteps
  <2> QED BY <1>8, <1>9, <1>10, <2>1 DEF KeysWaitForType, Live, LiveIn
<1> QED BY <1>11, <1>12, <1>13 DEF ForgetInv
\* A feature that is taken for resolved keeps its step pending and its task
\* alive until it fails; the readers are started early.
LEMMA ShortcutForget ==
  ASSUME TypeOK, ForgetInv, NEW s \in Steps, Shortcut(s) PROVE ForgetInv'
<1>1. /\ s \in FeatureSteps /\ running[s]["started"] > 0
      /\ running' = StartAll(Moved(s, "started", "ending"), Dependents(s))
      /\ UNCHANGED <<registered, connected, cached, pending, role, losses, reports, requests,
                     successes, failures, abandoned>>
  BY DEF Shortcut, TakenForResolved, deviceVars, objectVars, topicVars
<1>2. Moved(s, "started", "ending") \in Bag /\ Dependents(s) \in SUBSET Steps
  BY <1>1, MovedLemma, StepsLemma DEF TypeOK, Bag, Phases
<1>3. Live(s) /\ \A t \in Steps : LiveIn(Moved(s, "started", "ending"), t) <=> Live(t)
  <2>1. /\ Moved(s, "started", "ending")[s]["ending"] > 0
        /\ \A t \in Steps \ {s} : Moved(s, "started", "ending")[t] = running[t]
    BY <1>1, MovedLemma DEF TypeOK, Bag, Phases
  <2>2. Live(s) /\ LiveIn(Moved(s, "started", "ending"), s)
    BY <1>1, <2>1 DEF Live, LiveIn, Phases
  <2> QED BY <2>1, <2>2 DEF Live, LiveIn
<1>4. \A t \in Steps : LiveIn(running', t) <=> (t \in Dependents(s) \/ Live(t))
  BY <1>1, <1>2, <1>3, StartLive
<1>5. registered
  BY <1>3 DEF ForgetInv, IdleBeforeRegistered, NoTask
<1>6. NobodyForgets'
  BY <1>1, <1>4, NothingTakenAway DEF ForgetInv
<1>7. IdleBeforeRegistered' /\ ConnectedWhileLinked'
  BY <1>1, <1>5 DEF ForgetInv, IdleBeforeRegistered, ConnectedWhileLinked
<1>8. KeysWaitForType'
  <2> SUFFICES ASSUME role = "none" PROVE KeysWaitForType'
    BY <1>1 DEF KeysWaitForType
  <2>1. s # "CID_REPORTING"
    BY <1>3 DEF ForgetInv, KeysWaitForType, KeySteps
  <2>2. Dependents(s) \intersect {"CID_REPORTING", "FIND_ES_CIDS_FLAGS"} = {}
    BY <1>1, <2>1 DEF Dependents, ReadersOf, FeatureSteps, Features
  <2>3. \A t \in KeySteps : ~LiveIn(running', t) /\ failures'[t] = 0
    BY <1>1, <1>4, <2>2 DEF ForgetInv, KeysWaitForType, KeySteps
  <2>4. (registered /\ "CID_REPORTING" \in pending)
           => ("GET_DEVICE_TYPE" \in pending \/ LiveIn(running', "GET_DEVICE_TYPE"))
    BY <1>4 DEF ForgetInv, KeysWaitForType, Live
  <2> QED BY <1>1, <2>3, <2>4 DEF ForgetInv, KeysWaitForType, Live, LiveIn
<1> QED BY <1>6, <1>7, <1>8 DEF ForgetInv

\* A task that succeeds starts the tasks that wait for its step, or gives
\* their steps up.
LEMMA SucceedForget ==
  ASSUME TypeOK, ForgetInv, NEW s \in Steps, Succeed(s) PROVE ForgetInv'
<1>1. /\ running[s]["ending"] > 0 /\ s \notin pending
      /\ running' = StartAll(Ended(s, "ending"), Dependents(s))
      /\ pending' = pending \ NotForThisRole(s)
      /\ connected'
      /\ UNCHANGED <<registered, cached, role, losses, reports, requests, failures, abandoned>>
  BY DEF Succeed, deviceVars
<1>2. /\ Ended(s, "ending") \in Bag /\ Live(s)
      /\ \A t \in Steps \ {s} : LiveIn(Ended(s, "ending"), t) <=> Live(t)
      /\ \A t \in Steps : LiveIn(Ended(s, "ending"), t) => Live(t)
  BY <1>1, EndedLive DEF TypeOK, Bag, Phases
<1>3. Dependents(s) \in SUBSET Steps
  BY StepsLemma DEF TypeOK
<1>4. /\ \A t \in Steps : LiveIn(running', t) => t \in Dependents(s) \/ Live(t)
      /\ \A t \in Dependents(s) : LiveIn(running', t)
      /\ \A t \in Steps \ {s} : Live(t) => LiveIn(running', t)
  BY <1>1, <1>2, <1>3, StartLive
<1>5. registered
  BY <1>2 DEF ForgetInv, IdleBeforeRegistered, NoTask
<1>6. pending' \subseteq pending
      /\ (pending' # pending => s = "GET_DEVICE_TYPE" /\ role # "keyboard"
                                /\ pending' \intersect {"CID_REPORTING", "FIND_ES_CIDS_FLAGS"} = {}
                                /\ pending \ pending' \subseteq {"CID_REPORTING", "FIND_ES_CIDS_FLAGS"})
  BY <1>1 DEF NotForThisRole
<1>7. NobodyForgets'
  <2> SUFFICES ASSUME losses = 0, NEW t \in pending',
                      ~(requests # <<>> \/ LiveIn(running', t) \/ failures[t] > 0 \/ t \in abandoned)
               PROVE  Parent(t) # t /\ (Parent(t) \in pending' \/ LiveIn(running', Parent(t)))
    BY <1>1 DEF NobodyForgets, Live, LiveIn
  <2>1. t \in Steps /\ t # s /\ t \in pending
    BY <1>1, <1>6 DEF TypeOK
  <2>2. Parent(t) # t /\ (Parent(t) \in pending \/ Live(Parent(t)))
    BY <1>4, <1>5, <2>1 DEF ForgetInv, NobodyForgets
  <2>3. CASE Parent(t) = s
    <3>1. CASE t \in ReadSteps
      <4>1. s \in FeatureSteps /\ t \in ReadersOf(s)
        BY <2>3, <3>1, ParentLemma
      <4>2. s # "GET_DEVICE_TYPE"
        BY <4>1, ParentLemma
      <4>3. Dependents(s) = ReadersOf(s)
        BY <4>1, <4>2 DEF Dependents
      <4>4. LiveIn(running', t)
        BY <1>4, <4>1, <4>3
      <4> QED BY <1>1, <2>1, <4>4
    <3>2. CASE t = "CID_REPORTING"
      <4>1. s = "GET_DEVICE_TYPE" /\ s \notin FeatureSteps
        BY <2>3, <3>2, ParentLemma
      <4>2. role # "keyboard"
        BY <1>4, <2>1, <3>2, <4>1 DEF Dependents
      <4> QED BY <1>1, <3>2, <4>1, <4>2 DEF NotForThisRole
    <3> QED BY <2>1, <2>2, <3>1, <3>2, ParentLemma DEF Steps
  <2>4. CASE Parent(t) # s
    <3>1. Live(Parent(t)) => LiveIn(running', Parent(t))
      BY <1>4, <2>4 DEF Live
    <3>2. CASE Parent(t) \in pending \ pending'
      <4>1. Parent(t) \in {"CID_REPORTING", "FIND_ES_CIDS_FLAGS"}
            /\ t \notin {"CID_REPORTING", "FIND_ES_CIDS_FLAGS"}
        BY <1>6, <3>2
      <4>2. t \in ReadSteps
        BY <2>1, <2>2, <4>1, ParentLemma DEF Steps
      <4> QED BY <4>1, <4>2, ParentLemma
    <3> QED BY <2>2, <3>1, <3>2
  <2> QED BY <2>3, <2>4
<1>8. IdleBeforeRegistered' /\ ConnectedWhileLinked'
  BY <1>1, <1>5 DEF ForgetInv, IdleBeforeRegistered, ConnectedWhileLinked
<1>9. KeysWaitForType'
  <2> SUFFICES ASSUME role = "none" PROVE KeysWaitForType'
    BY <1>1 DEF KeysWaitForType
  <2>1. s \notin {"CID_REPORTING", "FIND_ES_CIDS_FLAGS"}
    BY <1>2 DEF ForgetInv, KeysWaitForType, KeySteps
  <2>2. Dependents(s) \intersect {"CID_REPORTING", "FIND_ES_CIDS_FLAGS"} = {}
    BY <2>1 DEF Dependents, ReadersOf, FeatureSteps, Features
  <2>3. \A t \in KeySteps : ~LiveIn(running', t) /\ failures'[t] = 0
    BY <1>1, <1>4, <2>2 DEF ForgetInv, KeysWaitForType, KeySteps
  <2>4. "CID_REPORTING" \in pending'
           => ("GET_DEVICE_TYPE" \in pending' \/ LiveIn(running', "GET_DEVICE_TYPE"))
    <3> SUFFICES ASSUME "CID_REPORTING" \in pending'
                 PROVE "GET_DEVICE_TYPE" \in pending' \/ LiveIn(running', "GET_DEVICE_TYPE")
      OBVIOUS
    <3>1. s # "GET_DEVICE_TYPE"
      BY <1>1 DEF NotForThisRole
    <3>2. "GET_DEVICE_TYPE" \in pending \/ Live("GET_DEVICE_TYPE")
      BY <1>5, <1>6 DEF ForgetInv, KeysWaitForType
    <3> QED BY <1>4, <1>6, <3>1, <3>2 DEF Live
  <2>5. "FIND_ES_CIDS_FLAGS" \in pending' => "CID_REPORTING" \in pending'
    BY <1>6 DEF ForgetInv, KeysWaitForType
  <2> QED BY <1>1, <2>3, <2>4, <2>5 DEF ForgetInv, KeysWaitForType, Live, LiveIn
<1> QED BY <1>7, <1>8, <1>9 DEF ForgetInv
\* A task that fails leaves its failure for the orchestrator.
LEMMA FailForget ==
  ASSUME TypeOK, ForgetInv, NEW s \in Steps, Fail(s) PROVE ForgetInv'
<1>1. /\ running[s]["ending"] > 0 /\ s \in pending /\ running' = Ended(s, "ending")
      /\ failures' = [failures EXCEPT ![s] = @ + 1]
      /\ UNCHANGED <<registered, connected, cached, pending, role, losses, reports, requests,
                     abandoned>>
  BY DEF Fail, deviceVars, objectVars
<1>2. /\ Live(s) /\ \A t \in Steps \ {s} : LiveIn(running', t) <=> Live(t)
      /\ \A t \in Steps : LiveIn(running', t) => Live(t)
  BY <1>1, EndedLive DEF TypeOK, Bag, Phases
<1>3. failures'[s] > 0 /\ \A t \in Steps \ {s} : failures'[t] = failures[t]
  BY <1>1 DEF TypeOK
<1>4. registered
  BY <1>2 DEF ForgetInv, IdleBeforeRegistered, NoTask
<1>5. NobodyForgets'
  BY <1>1, <1>2, <1>3, NothingTakenAway DEF ForgetInv
<1>6. IdleBeforeRegistered' /\ ConnectedWhileLinked'
  BY <1>1, <1>4 DEF ForgetInv, IdleBeforeRegistered, ConnectedWhileLinked
<1>7. KeysWaitForType'
  <2> SUFFICES ASSUME role = "none" PROVE KeysWaitForType'
    BY <1>1 DEF KeysWaitForType
  <2>1. s \notin KeySteps
    BY <1>2 DEF ForgetInv, KeysWaitForType
  <2>2. \A t \in KeySteps : ~LiveIn(running', t) /\ failures'[t] = 0
    BY <1>2, <1>3, <2>1 DEF ForgetInv, KeysWaitForType, KeySteps
  <2>3. (registered /\ "CID_REPORTING" \in pending)
           => ("GET_DEVICE_TYPE" \in pending \/ LiveIn(running', "GET_DEVICE_TYPE"))
    BY <1>1, <1>2 DEF ForgetInv, KeysWaitForType, Live
  <2> QED BY <1>1, <2>2, <2>3 DEF ForgetInv, KeysWaitForType, Live, LiveIn
<1> QED BY <1>5, <1>6, <1>7 DEF ForgetInv

\* The orchestrator turns a failure into a task or gives the step up; it
\* leaves a failure alone only when the device was disconnected.
LEMMA FailureForget ==
  ASSUME TypeOK, ForgetInv, NEW s \in Steps, Retry(s) \/ GiveUp(s) \/ LeaveFailure(s)
  PROVE  ForgetInv'
<1>1. /\ failures[s] > 0 /\ \A t \in Steps \ {s} : failures'[t] = failures[t]
      /\ UNCHANGED <<registered, connected, cached, pending, role, losses, reports, requests>>
  BY DEF Retry, GiveUp, LeaveFailure, NextFailure, TypeOK, deviceVars, objectVars, taskVars
<1>2. /\ abandoned \subseteq abandoned'
      /\ \A t \in Steps : LiveIn(running', t) => (t = s \/ Live(t))
      /\ \A t \in Steps : Live(t) => LiveIn(running', t)
      /\ connected => LiveIn(running', s) \/ s \in abandoned'
  <2>1. CASE Retry(s)
    <3>1. abandoned' = abandoned /\ running' = StartAll(running, {s})
      BY <2>1 DEF Retry
    <3>2. \A t \in Steps : LiveIn(running', t) <=> (t \in {s} \/ LiveIn(running, t))
      <4>1. {s} \in SUBSET Steps /\ running \in Bag
        BY DEF TypeOK, Bag
      <4>2. \A t \in Steps : LiveIn(StartAll(running, {s}), t) <=> (t \in {s} \/ LiveIn(running, t))
        BY <4>1, StartLive
      <4> QED BY <3>1, <4>2
    <3>3. \A t \in Steps : Live(t) <=> LiveIn(running, t)
      BY DEF Live, LiveIn
    <3> QED BY <3>1, <3>2, <3>3
  <2>2. CASE GiveUp(s)
    BY <2>2 DEF GiveUp, Live, LiveIn
  <2>3. CASE LeaveFailure(s)
    BY <2>3 DEF LeaveFailure, taskVars, Live, LiveIn
  <2> QED BY <2>1, <2>2, <2>3
<1>3. registered
  BY <1>1 DEF ForgetInv, IdleBeforeRegistered
<1>4. NobodyForgets'
  <2>1. CASE losses = 0
    <3>1. LiveIn(running', s) \/ s \in abandoned'
      BY <1>2, <1>3, <2>1 DEF ForgetInv, ConnectedWhileLinked
    <3> QED BY <1>1, <1>2, <3>1, NothingTakenAway DEF ForgetInv
  <2>2. CASE losses # 0
    BY <1>1, <2>2 DEF NobodyForgets
  <2> QED BY <2>1, <2>2
<1>5. IdleBeforeRegistered' /\ ConnectedWhileLinked'
  BY <1>1, <1>3 DEF ForgetInv, IdleBeforeRegistered, ConnectedWhileLinked
<1>6. KeysWaitForType'
  <2> SUFFICES ASSUME role = "none" PROVE KeysWaitForType'
    BY <1>1 DEF KeysWaitForType
  <2>1. s \notin KeySteps
    BY <1>1 DEF ForgetInv, KeysWaitForType
  <2>2. \A t \in KeySteps : ~LiveIn(running', t) /\ failures'[t] = 0
    BY <1>1, <1>2, <2>1 DEF ForgetInv, KeysWaitForType, KeySteps
  <2>3. (registered /\ "CID_REPORTING" \in pending)
           => ("GET_DEVICE_TYPE" \in pending \/ LiveIn(running', "GET_DEVICE_TYPE"))
    BY <1>2 DEF ForgetInv, KeysWaitForType, Live
  <2> QED BY <1>1, <2>2, <2>3 DEF ForgetInv, KeysWaitForType, Live, LiveIn
<1> QED BY <1>4, <1>5, <1>6 DEF ForgetInv

\* Steps that leave the steps, the tasks and the failures alone.
LEMMA IdleForget ==
  ASSUME TypeOK, ForgetInv,
         UNCHANGED <<registered, connected, pending, role, running, requests, failures, abandoned>>,
         cached' = cached \/ registered, successes' = successes \/ registered,
         losses' = 0 => losses = 0 /\ \A i \in 1..Len(reports') : reports'[i]
  PROVE  ForgetInv'
<1>1. NobodyForgets'
  BY DEF ForgetInv, NobodyForgets, Live
<1>2. IdleBeforeRegistered' /\ ConnectedWhileLinked'
  BY DEF ForgetInv, IdleBeforeRegistered, ConnectedWhileLinked, NoTask, Live
<1>3. KeysWaitForType'
  BY DEF ForgetInv, KeysWaitForType, Live
<1> QED BY <1>1, <1>2, <1>3 DEF ForgetInv

LEMMA NextForget == TypeOK /\ ForgetInv /\ [Next]_vars => ForgetInv'
<1> SUFFICES ASSUME TypeOK, ForgetInv, [Next]_vars PROVE ForgetInv'
  OBVIOUS
<1> USE DEF deviceVars, objectVars, topicVars, taskVars
<1>a. losses = 0 => \A i \in 1..Len(reports) : reports[i]
  BY DEF ForgetInv, ConnectedWhileLinked
<1>1. ASSUME NEW up \in BOOLEAN, Connection(up) PROVE ForgetInv'
  <2>1. losses' = 0 => losses = 0 /\ up
    BY <1>1 DEF Connection, TypeOK
  <2>2. \A i \in 1..Len(reports') :
           reports'[i] = up \/ (i \in 1..Len(reports) /\ reports'[i] = reports[i])
    BY <1>1, AppendLemma DEF Connection, TypeOK
  <2>3. losses' = 0 => \A i \in 1..Len(reports') : reports'[i]
    BY <1>a, <2>1, <2>2
  <2> QED BY <1>1, <2>1, <2>3, IdleForget DEF Connection
<1>2. CASE HandleReport
  BY <1>2, ReportForget
<1>3. CASE HandleSetup
  BY <1>3, SetupForget
<1>4. CASE ResetBudget
  BY <1>4, <1>a, IdleForget DEF ResetBudget
<1>5. CASE SetReportFlag
  BY <1>5, <1>a, IdleForget DEF SetReportFlag
<1>6. ASSUME NEW s \in Steps, TaskStep(s) PROVE ForgetInv'
  <2>1. CASE AlreadyDone(s)
    BY <2>1, TaskKeeps DEF AlreadyDone, Phases
  <2>2. CASE Shortcut(s)
    BY <2>2, ShortcutForget
  <2>3. CASE NothingToAsk(s)
    BY <2>3, TaskKeeps DEF NothingToAsk, Phases
  <2>4. CASE Ask(s)
    BY <2>4, TaskKeeps DEF Ask, Phases
  <2>5. CASE FeatureAnswered(s)
    BY <2>5, TaskKeeps DEF FeatureAnswered, Asking, Phases
  <2>6. CASE Unanswered(s)
    BY <2>6, TaskKeeps DEF Unanswered, Asking, Phases
  <2>7. CASE Succeed(s)
    BY <2>7, SucceedForget
  <2>8. CASE Fail(s)
    BY <2>8, FailForget
  <2> QED BY <1>6, <2>1, <2>2, <2>3, <2>4, <2>5, <2>6, <2>7, <2>8 DEF TaskStep
<1>7. CASE ReadAnswered
  <2>1. CASE TypeAnswered
    <3>1. role' # "none"
      BY <2>1, DeviceAssumption DEF TypeAnswered
    <3> QED BY <2>1, <3>1, TaskKeeps DEF TypeAnswered, Asking, Phases
  <2>2. CASE TypeRefused
    BY <2>2, TaskKeeps DEF TypeRefused, Asking, Phases
  <2>3. CASE NameAnswered
    BY <2>3, TaskKeeps DEF NameAnswered, Asking, Phases
  <2>4. CASE FriendlyAnswered
    BY <2>4, TaskKeeps DEF FriendlyAnswered, Asking, Phases
  <2>5. CASE KeysAnswered
    BY <2>5, TaskKeeps DEF KeysAnswered, Asking, Phases
  <2> QED BY <1>7, <2>1, <2>2, <2>3, <2>4, <2>5 DEF ReadAnswered
<1>8. CASE HandleSuccess
  <2>1. registered
    BY <1>8 DEF HandleSuccess, ForgetInv, IdleBeforeRegistered
  <2> QED BY <1>8, <1>a, <2>1, IdleForget DEF HandleSuccess
<1>9. ASSUME NEW s \in Steps, Retry(s) \/ GiveUp(s) \/ LeaveFailure(s) PROVE ForgetInv'
  BY <1>9, FailureForget
<1>10. CASE UNCHANGED vars
  BY <1>10, <1>a, IdleForget DEF vars
<1> QED BY <1>1, <1>2, <1>3, <1>4, <1>5, <1>6, <1>7, <1>8, <1>9, <1>10
    DEF Next, HandleProgress

\* For every device and every bound: as long as a registered device keeps its
\* link, each discovery step that is pending and was not given up has a
\* request, a task, a failure to be retried, or a step it waits for.
THEOREM NoStepForgotten == Spec => []NobodyForgets
<1>1. TypeOK /\ ForgetInv => NobodyForgets
  BY DEF ForgetInv
<1> QED BY <1>1, InitType, NextType, InitForget, NextForget, PTL DEF Spec
----------------------------------------------------------------------------
\* How many tasks there are.  Load counts the tasks for a step that run or
\* wait to be retried, and Coming the set-ups that may still be asked for
\* without another loss of the link.
TasksIn(r, s) == r[s]["started"] + r[s]["asking"] + r[s]["ending"]
LoadIn(r, f, s) == IF s \in Steps THEN TasksIn(r, s) + f[s] ELSE 0
Load(s) == LoadIn(running, failures, s)

Downs(q) == Cardinality({i \in 1..Len(q) : ~q[i]})
Absent == IF registered /\ connected THEN 0 ELSE 1
Coming == Len(requests) + Downs(reports) + Absent

\* A set-up starts one task per feature, and a feature task that has succeeded
\* makes room for the tasks of its readers.
Clear(f) == f \in FeatureSteps => ~MistakenForResolved(f)
LoadInv ==
  /\ \A f \in FeatureSteps \ {"CID_REPORTING"} : Load(f) + Coming <= 1 + losses
  /\ \A s \in ReadSteps \ {"FIND_ES_CIDS_FLAGS"} :
       Clear(FeatureOf(s)) => Load(s) + Load(FeatureOf(s)) + Coming <= 1 + losses
  /\ Clear("NAME_AND_TYPE") =>
       Load("FIND_ES_CIDS_FLAGS") + Load("CID_REPORTING") + Load("GET_DEVICE_TYPE")
         + Load("NAME_AND_TYPE") + Coming + Coming <= 1 + losses + 1 + losses

LEMMA TasksInType == \A r \in Bag, s \in Steps : TasksIn(r, s) \in Nat
<1> SUFFICES ASSUME NEW r \in Bag, NEW s \in Steps PROVE TasksIn(r, s) \in Nat
  OBVIOUS
<1>1. r[s] \in [Phases -> Nat]
  BY DEF Bag
<1>2. r[s]["started"] \in Nat /\ r[s]["asking"] \in Nat /\ r[s]["ending"] \in Nat
  BY <1>1 DEF Phases
<1> QED BY <1>2 DEF TasksIn

LEMMA LoadType ==
  ASSUME NEW r \in Bag, NEW f \in [Steps -> Nat], NEW s
  PROVE  LoadIn(r, f, s) \in Nat
BY TasksInType DEF LoadIn

\* What the operations on the bag of tasks do to the number of tasks.
LEMMA MovedCount ==
  ASSUME running \in Bag, NEW s \in Steps, NEW from \in Phases, NEW to \in Phases,
         from # to, running[s][from] > 0
  PROVE  \A t \in Steps : TasksIn(Moved(s, from, to), t) = TasksIn(running, t)
<1> SUFFICES ASSUME NEW t \in Steps
             PROVE  TasksIn(Moved(s, from, to), t) = TasksIn(running, t)
  OBVIOUS
<1>1. CASE t # s
  BY <1>1, MovedLemma DEF TasksIn
<1>2. CASE t = s
  <2>1. running[s] \in [Phases -> Nat]
    BY DEF Bag
  <2>2. Moved(s, from, to)[s] = [running[s] EXCEPT ![from] = @ - 1, ![to] = @ + 1]
    BY <2>1 DEF Moved, Bag
  <2>3. running[s]["started"] \in Nat /\ running[s]["asking"] \in Nat /\ running[s]["ending"] \in Nat
    BY <2>1 DEF Phases
  <2> QED BY <1>2, <2>1, <2>2, <2>3 DEF TasksIn, Phases
<1> QED BY <1>1, <1>2

LEMMA StartCount ==
  ASSUME NEW r \in Bag, NEW started \in SUBSET Steps
  PROVE  \A t \in Steps : TasksIn(StartAll(r, started), t) = TasksIn(r, t) + (IF t \in started THEN 1 ELSE 0)
<1> SUFFICES ASSUME NEW t \in Steps
             PROVE  TasksIn(StartAll(r, started), t) = TasksIn(r, t) + (IF t \in started THEN 1 ELSE 0)
  OBVIOUS
<1>1. r[t] \in [Phases -> Nat]
  BY DEF Bag
<1>2. r[t]["started"] \in Nat /\ r[t]["asking"] \in Nat /\ r[t]["ending"] \in Nat
  BY <1>1 DEF Phases
<1>3. StartAll(r, started)[t] = IF t \in started THEN [r[t] EXCEPT !["started"] = @ + 1] ELSE r[t]
  BY DEF StartAll
<1> QED BY <1>1, <1>2, <1>3 DEF TasksIn, Phases

LEMMA EndedCount ==
  ASSUME running \in Bag, NEW s \in Steps, running[s]["ending"] > 0
  PROVE  \A t \in Steps : TasksIn(Ended(s, "ending"), t) = TasksIn(running, t) - (IF t = s THEN 1 ELSE 0)
<1> SUFFICES ASSUME NEW t \in Steps
             PROVE  TasksIn(Ended(s, "ending"), t) = TasksIn(running, t) - (IF t = s THEN 1 ELSE 0)
  OBVIOUS
<1>1. running[t] \in [Phases -> Nat]
  BY DEF Bag
<1>2. running[t]["started"] \in Nat /\ running[t]["asking"] \in Nat /\ running[t]["ending"] \in Nat
  BY <1>1 DEF Phases
<1>3. Ended(s, "ending")[t] = IF t = s THEN [running[t] EXCEPT !["ending"] = @ - 1] ELSE running[t]
  BY <1>1 DEF Ended, Bag
<1> QED BY <1>1, <1>2, <1>3 DEF TasksIn, Phases

\* The losses of the link that are still to be handled.
LEMMA DownsType == \A q \in Seq(BOOLEAN) : Downs(q) \in Nat
<1> SUFFICES ASSUME NEW q \in Seq(BOOLEAN) PROVE Downs(q) \in Nat
  OBVIOUS
<1>1. IsFiniteSet(1..Len(q))
  BY FS_Interval
<1>2. IsFiniteSet({i \in 1..Len(q) : ~q[i]})
  BY <1>1, FS_Subset
<1> QED BY <1>2, FS_CardinalityType DEF Downs

LEMMA DownsAppend ==
  ASSUME NEW q \in Seq(BOOLEAN), NEW up \in BOOLEAN
  PROVE  Downs(Append(q, up)) = Downs(q) + (IF up THEN 0 ELSE 1)
<1> DEFINE S == {i \in 1..Len(q) : ~q[i]}
           T == {i \in 1..Len(Append(q, up)) : ~Append(q, up)[i]}
           n == Len(q) + 1
<1>1. n \in Nat /\ n \notin S /\ \A i : i \in T <=> i \in S \/ (i = n /\ ~up)
  OBVIOUS
<1>2. IsFiniteSet(S)
  <2>1. IsFiniteSet(1..Len(q))
    BY FS_Interval
  <2> QED BY <2>1, FS_Subset
<1>0. Downs(q) = Cardinality(S) /\ Downs(Append(q, up)) = Cardinality(T)
  BY DEF Downs
<1> HIDE DEF S, T, n
<1>3. CASE up
  <2>1. T = S
    BY <1>1, <1>3
  <2>2. Cardinality(S) \in Nat
    BY <1>2, FS_CardinalityType
  <2> QED BY <1>0, <1>3, <2>1, <2>2
<1>4. CASE ~up
  <2>1. T = S \union {n}
    BY <1>1, <1>4
  <2>2. Cardinality(S \union {n}) = Cardinality(S) + 1
    BY <1>1, <1>2, FS_AddElement
  <2> QED BY <1>0, <1>4, <2>1, <2>2
<1> QED BY <1>3, <1>4

LEMMA DownsTail ==
  ASSUME NEW q \in Seq(BOOLEAN), q # <<>>
  PROVE  Downs(q) = Downs(Tail(q)) + (IF Head(q) THEN 0 ELSE 1)
<1> DEFINE S == {i \in 1..Len(q) : ~q[i]}
           R == S \ {1}
           T == {i \in 1..Len(Tail(q)) : ~Tail(q)[i]}
           g == [i \in T |-> i + 1]
<1>1. Head(q) = q[1] /\ Len(q) \in Nat /\ Len(q) >= 1 /\ Len(Tail(q)) = Len(q) - 1
      /\ \A i \in 1..Len(Tail(q)) : Tail(q)[i] = q[i + 1]
  OBVIOUS
<1>2. IsFiniteSet(S) /\ IsFiniteSet(T)
  <2>1. IsFiniteSet(1..Len(q)) /\ IsFiniteSet(1..Len(Tail(q)))
    BY <1>1, FS_Interval
  <2> QED BY <2>1, FS_Subset
<1>3. Cardinality(R) = Cardinality(T)
  <2>1. \A i \in T : i + 1 \in R
    BY <1>1
  <2>2. \A j \in R : j - 1 \in T /\ (j - 1) + 1 = j
    BY <1>1
  <2>3. \A i, j \in T : i + 1 = j + 1 => i = j
    OBVIOUS
  <2> HIDE DEF S, R, T
  <2>4. g \in Bijection(T, R)
    <3>1. g \in [T -> R] /\ \A i, j \in T : g[i] = g[j] => i = j
      BY <2>1, <2>3
    <3>2. \A j \in R : \E i \in T : g[i] = j
      BY <2>2
    <3> QED BY <3>1, <3>2 DEF Bijection, Injection, Surjection, IsInjective
  <2> QED BY <1>2, <2>4, FS_Bijection DEF ExistsBijection
<1>4. 1 \in S <=> ~Head(q)
  <2>1. 1 \in 1..Len(q) /\ q[1] = Head(q)
    BY <1>1
  <2> QED BY <2>1
<1>0. Downs(q) = Cardinality(S) /\ Downs(Tail(q)) = Cardinality(T)
  BY DEF Downs
<1> HIDE DEF S, T
<1>5. Cardinality(S) \in Nat /\ Cardinality(T) \in Nat
  BY <1>2, FS_CardinalityType
<1>6. CASE Head(q)
  <2>1. R = S
    BY <1>4, <1>6
  <2>2. Downs(q) = Downs(Tail(q)) /\ Downs(Tail(q)) \in Nat
    BY <1>0, <1>3, <1>5, <2>1
  <2>3. (IF Head(q) THEN 0 ELSE 1) = 0
    BY ONLY <1>6
  <2>4. Downs(Tail(q)) + 0 = Downs(Tail(q))
    BY ONLY <2>2
  <2> QED BY ONLY <2>2, <2>3, <2>4
<1>7. CASE ~Head(q)
  <2>1. Cardinality(S \ {1}) = Cardinality(S) - 1
    BY <1>2, <1>4, <1>7, FS_RemoveElement
  <2>2. Downs(q) = Downs(Tail(q)) + 1
    BY <1>0, <1>3, <1>5, <2>1
  <2> QED BY <1>7, <2>2
<1> QED BY <1>6, <1>7

\* Who reads from a feature, and which features are taken for resolved.
LEMMA ReaderLemma ==
  /\ \A f \in FeatureSteps : \A t \in ReadersOf(f) : t \in ReadSteps /\ FeatureOf(t) = f
  /\ \A f \in FeatureSteps \ {"NAME_AND_TYPE"} : "GET_DEVICE_TYPE" \notin ReadersOf(f)
  /\ \A f \in FeatureSteps \ {"CID_REPORTING"} : "FIND_ES_CIDS_FLAGS" \notin ReadersOf(f)
  /\ Clear("CID_REPORTING")
<1>1. FeatureSteps \subseteq Features
  BY DEF FeatureSteps
<1>2. \A f \in FeatureSteps : \A t \in ReadersOf(f) : t \in ReadSteps
  BY DEF ReadSteps
<1>3. \A f \in Features : \A t \in ReadersOf(f) :
        /\ FeatureOf(t) = f /\ (t = "GET_DEVICE_TYPE" => f = "NAME_AND_TYPE")
        /\ t = "FIND_ES_CIDS_FLAGS" => f = "CID_REPORTING"
  BY DEF ReadersOf, FeatureOf, Features
<1>4. \A g \in Features : FeatureIndex[g] # 6916
  BY FeatureIndexAssumption
<1>5. Clear("CID_REPORTING")
  BY <1>1, <1>4 DEF Clear, MistakenForResolved, FeatureCode
<1> QED BY <1>1, <1>2, <1>3, <1>5

LEMMA LoadTypes ==
  ASSUME TypeOK
  PROVE  Coming \in Nat /\ losses \in Nat /\ \A s : Load(s) \in Nat
<1>1. \A s : Load(s) \in Nat
  BY LoadType DEF Load, TypeOK, Bag
<1>2. Len(requests) \in Nat /\ Downs(reports) \in Nat /\ Absent \in Nat /\ losses \in Nat
  BY DownsType DEF TypeOK, Absent
<1> QED BY <1>1, <1>2 DEF Coming

\* LoadInv survives whatever adds neither tasks nor set-ups, unless the link
\* is lost once for each.
LEMMA LoadFrame ==
  ASSUME TypeOK, TypeOK', LoadInv, \A s : Load(s)' <= Load(s), Coming' + losses <= Coming + losses'
  PROVE  LoadInv'
<1>1. Coming \in Nat /\ losses \in Nat /\ \A s : Load(s) \in Nat
  BY LoadTypes
<1>2. Coming' \in Nat /\ losses' \in Nat /\ \A s : Load(s)' \in Nat
  <2>1. \A s : Load(s)' \in Nat
    BY LoadType DEF Load, TypeOK, Bag
  <2>2. Len(requests') \in Nat /\ Downs(reports') \in Nat /\ Absent' \in Nat /\ losses' \in Nat
    BY DownsType DEF TypeOK, Absent
  <2> QED BY <2>1, <2>2 DEF Coming
<1>3. ASSUME NEW f \in FeatureSteps \ {"CID_REPORTING"} PROVE Load(f)' + Coming' <= 1 + losses'
  <2>1. Load(f) + Coming <= 1 + losses /\ Load(f)' <= Load(f)
    BY DEF LoadInv
  <2>2. {Load(f), Load(f)', Coming, Coming', losses, losses'} \subseteq Nat
    BY <1>1, <1>2
  <2> QED BY <2>1, <2>2
<1>4. ASSUME NEW s \in ReadSteps \ {"FIND_ES_CIDS_FLAGS"}, Clear(FeatureOf(s))
      PROVE  Load(s)' + Load(FeatureOf(s))' + Coming' <= 1 + losses'
  <2>1. /\ Load(s) + Load(FeatureOf(s)) + Coming <= 1 + losses
        /\ Load(s)' <= Load(s) /\ Load(FeatureOf(s))' <= Load(FeatureOf(s))
    BY <1>4 DEF LoadInv
  <2>2. /\ {Load(s), Load(s)', Load(FeatureOf(s)), Load(FeatureOf(s))'} \subseteq Nat
        /\ {Coming, Coming', losses, losses'} \subseteq Nat
    BY <1>1, <1>2
  <2> QED BY <2>1, <2>2
<1>5. ASSUME Clear("NAME_AND_TYPE")
      PROVE  Load("FIND_ES_CIDS_FLAGS")' + Load("CID_REPORTING")' + Load("GET_DEVICE_TYPE")'
               + Load("NAME_AND_TYPE")' + Coming' + Coming' <= 1 + losses' + 1 + losses'
  <2>1. /\ Load("FIND_ES_CIDS_FLAGS") + Load("CID_REPORTING") + Load("GET_DEVICE_TYPE")
            + Load("NAME_AND_TYPE") + Coming + Coming <= 1 + losses + 1 + losses
        /\ Load("FIND_ES_CIDS_FLAGS")' <= Load("FIND_ES_CIDS_FLAGS")
        /\ Load("CID_REPORTING")' <= Load("CID_REPORTING")
        /\ Load("GET_DEVICE_TYPE")' <= Load("GET_DEVICE_TYPE")
        /\ Load("NAME_AND_TYPE")' <= Load("NAME_AND_TYPE")
    BY <1>5 DEF LoadInv
  <2>2. /\ {Coming, Coming', losses, losses'} \subseteq Nat
        /\ {Load("FIND_ES_CIDS_FLAGS"), Load("FIND_ES_CIDS_FLAGS")'} \subseteq Nat
        /\ {Load("CID_REPORTING"), Load("CID_REPORTING")'} \subseteq Nat
        /\ {Load("GET_DEVICE_TYPE"), Load("GET_DEVICE_TYPE")'} \subseteq Nat
        /\ {Load("NAME_AND_TYPE"), Load("NAME_AND_TYPE")'} \subseteq Nat
    BY <1>1, <1>2
  <2> QED BY <2>1, <2>2
<1> QED BY <1>3, <1>4, <1>5 DEF LoadInv

LEMMA InitLoad == Init => LoadInv
<1> SUFFICES ASSUME Init PROVE LoadInv
  OBVIOUS
<1>1. \A s : Load(s) = 0
  BY DEF Init, Load, LoadIn, TasksIn, Phases
<1>2. Coming = 1 /\ losses = 0
  <2>1. {i \in 1..Len(reports) : ~reports[i]} = {}
    BY DEF Init
  <2>2. Downs(reports) = 0
    BY <2>1, FS_EmptySet DEF Downs
  <2> QED BY <2>2 DEF Init, Coming, Absent
<1> QED BY <1>1, <1>2 DEF LoadInv

\* The reports: a loss is one more set-up to come, until it is handled and the
\* device counts as absent; a set-up is asked for when it comes back.
LEMMA ReportLoad ==
  ASSUME TypeOK, TypeOK', LoadInv, HandleReport \/ \E up \in BOOLEAN : Connection(up)
  PROVE  LoadInv'
<1>1. UNCHANGED <<running, failures>>
  BY DEF HandleReport, IgnoreReport, Reconnection, NewConnection, Connection, taskVars
<1>2. \A s : Load(s)' <= Load(s)
  <2>1. \A s : Load(s)' = Load(s) /\ Load(s) \in Nat
    BY <1>1, LoadTypes DEF Load
  <2> QED BY <2>1
<1>3. reports \in Seq(BOOLEAN) /\ requests \in Seq(Request) /\ Downs(reports) \in Nat /\ losses \in Nat
  BY DownsType DEF TypeOK
<1>4. ASSUME NEW up \in BOOLEAN, Connection(up) PROVE Coming' + losses <= Coming + losses'
  <2>1. /\ UNCHANGED <<requests, registered, connected>>
        /\ reports' = Append(reports, up) /\ losses' = IF up THEN losses ELSE losses + 1
    BY <1>4 DEF Connection, objectVars
  <2>2. Downs(reports') = Downs(reports) + (IF up THEN 0 ELSE 1)
    BY <1>3, <2>1, DownsAppend
  <2>3. Absent' = Absent /\ Absent \in Nat /\ Len(requests) \in Nat
    BY <1>3, <2>1 DEF Absent
  <2>4. CASE up
    BY <1>3, <2>1, <2>2, <2>3, <2>4 DEF Coming
  <2>5. CASE ~up
    BY <1>3, <2>1, <2>2, <2>3, <2>5 DEF Coming
  <2> QED BY <2>4, <2>5
<1>5. ASSUME HandleReport PROVE Coming' + losses <= Coming + losses'
  <2>1. reports # <<>> /\ reports' = Tail(reports) /\ losses' = losses
    BY <1>5 DEF HandleReport, IgnoreReport, Reconnection, NewConnection, NextReport, deviceVars
  <2>2. Downs(reports) = Downs(reports') + (IF Head(reports) THEN 0 ELSE 1)
    BY <1>3, <2>1, DownsTail
  <2>3. Downs(reports') \in Nat /\ Absent \in {0, 1} /\ Absent' \in {0, 1} /\ Len(requests) \in Nat
    <3>1. reports' \in Seq(BOOLEAN)
      BY DEF TypeOK
    <3> QED BY <1>3, <3>1, DownsType DEF Absent
  <2>a. ASSUME NEW a, NEW b, RequestInfo(a, b) PROVE Len(requests') = Len(requests) + 1
    BY <1>3, <2>a DEF RequestInfo
  <2>4. ASSUME Head(reports) PROVE \/ Len(requests') = Len(requests) /\ Absent' = Absent
                                   \/ Len(requests') = Len(requests) /\ Absent' = 0
                                   \/ Len(requests') = Len(requests) + 1 /\ Absent' = 0 /\ Absent = 1
    <3>1. CASE IgnoreReport
      BY <3>1 DEF IgnoreReport, Absent, objectVars
    <3>2. CASE Reconnection
      <4>1. Absent' = 0 /\ Absent = 1
        BY <2>4, <3>2 DEF Reconnection, Absent
      <4>2. Len(requests') = Len(requests) \/ Len(requests') = Len(requests) + 1
        BY <2>a, <3>2 DEF Reconnection
      <4> QED BY <4>1, <4>2
    <3>3. CASE NewConnection
      BY <2>4, <2>a, <3>3 DEF NewConnection, Absent
    <3> QED BY <1>5, <3>1, <3>2, <3>3 DEF HandleReport
  <2>5. ASSUME ~Head(reports) PROVE Len(requests') = Len(requests)
    BY <1>5, <2>5 DEF HandleReport, IgnoreReport, Reconnection, NewConnection
  <2>6. /\ Coming = Len(requests) + Downs(reports) + Absent
        /\ Coming' = Len(requests') + Downs(reports') + Absent'
    BY DEF Coming
  <2>7. CASE Head(reports)
    <3>1. (IF Head(reports) THEN 0 ELSE 1) = 0
      BY <2>7
    <3>2. Downs(reports) = Downs(reports')
      <4>1. Downs(reports) = Downs(reports') + 0
        BY ONLY <2>2, <3>1
      <4>2. Downs(reports') \in Nat
        BY <2>3
      <4> QED BY ONLY <4>1, <4>2
    <3>3. \/ Len(requests') = Len(requests) /\ Absent' = Absent
          \/ Len(requests') = Len(requests) /\ Absent' = 0
          \/ Len(requests') = Len(requests) + 1 /\ Absent' = 0 /\ Absent = 1
      BY <2>4, <2>7
    <3>4. Coming' <= Coming /\ Coming \in Nat /\ Coming' \in Nat
      <4>1. {Len(requests), Downs(reports'), Absent, Absent'} \subseteq Nat
        BY <2>3
      <4> QED BY ONLY <2>6, <3>2, <3>3, <4>1
    <3>5. {losses, losses', Coming, Coming'} \subseteq Nat /\ losses' = losses
      BY <1>3, <2>1, <3>4
    <3> QED BY ONLY <3>4, <3>5
  <2>8. CASE ~Head(reports)
    <3>1. (IF Head(reports) THEN 0 ELSE 1) = 1
      BY <2>8
    <3>2. Downs(reports) = Downs(reports') + 1
      BY <2>2, <2>3, <3>1
    <3>3. Len(requests') = Len(requests)
      BY <2>5, <2>8
    <3>4. Coming' <= Coming /\ Coming \in Nat /\ Coming' \in Nat
      <4>1. {Len(requests), Downs(reports')} \subseteq Nat /\ {Absent, Absent'} \subseteq {0, 1}
        BY <2>3
      <4> QED BY ONLY <2>6, <3>2, <3>3, <4>1
    <3>5. {losses, losses', Coming, Coming'} \subseteq Nat /\ losses' = losses
      BY <1>3, <2>1, <3>4
    <3> QED BY ONLY <3>4, <3>5
  <2> QED BY <2>7, <2>8
<1> QED BY <1>2, <1>4, <1>5, LoadFrame

One(s, S) == IF s \in S THEN 1 ELSE 0

\* LoadInv survives when tasks take the place of others (of the same reader, of
\* the feature it reads from, or of a set-up that was still to come).
LEMMA LoadReplaced ==
  ASSUME TypeOK, TypeOK', LoadInv, losses' = losses,
         NEW plus, NEW minus, NEW made \in {0, 1}, Coming' <= Coming,
         made = 1 => Coming' + 1 <= Coming,
         \A s : Load(s)' + One(s, minus) <= Load(s) + One(s, plus),
         \A f \in FeatureSteps \ {"CID_REPORTING"} : One(f, plus) <= One(f, minus) + made,
         \A s \in ReadSteps \ {"FIND_ES_CIDS_FLAGS"} : Clear(FeatureOf(s)) =>
           One(s, plus) + One(FeatureOf(s), plus)
             <= One(s, minus) + One(FeatureOf(s), minus) + made,
         Clear("NAME_AND_TYPE") =>
           One("FIND_ES_CIDS_FLAGS", plus) + One("CID_REPORTING", plus)
             + One("GET_DEVICE_TYPE", plus) + One("NAME_AND_TYPE", plus)
             <= One("FIND_ES_CIDS_FLAGS", minus) + One("CID_REPORTING", minus)
                  + One("GET_DEVICE_TYPE", minus) + One("NAME_AND_TYPE", minus) + made + made
  PROVE  LoadInv'
<1>1. Coming \in Nat /\ losses \in Nat /\ \A s : Load(s) \in Nat
  BY LoadTypes
<1>2. Coming' \in Nat /\ \A s : Load(s)' \in Nat
  <2>1. \A s : Load(s)' \in Nat
    BY LoadType DEF Load, TypeOK, Bag
  <2>2. Len(requests') \in Nat /\ Downs(reports') \in Nat /\ Absent' \in Nat
    BY DownsType DEF TypeOK, Absent
  <2> QED BY <2>1, <2>2 DEF Coming
<1>3. made \in Nat /\ \A s, S : One(s, S) \in Nat
  BY DEF One
<1>a. Coming' + made <= Coming
  <2>1. {Coming, Coming'} \subseteq Nat /\ made \in {0, 1} /\ Coming' <= Coming
        /\ (made = 1 => Coming' + 1 <= Coming)
    BY <1>1, <1>2
  <2> QED BY ONLY <2>1
<1>4. ASSUME NEW f \in FeatureSteps \ {"CID_REPORTING"} PROVE Load(f)' + Coming' <= 1 + losses
  <2>1. /\ Load(f) + Coming <= 1 + losses /\ Coming' + made <= Coming
        /\ Load(f)' + One(f, minus) <= Load(f) + One(f, plus)
        /\ One(f, plus) <= One(f, minus) + made
    BY <1>a DEF LoadInv
  <2>2. {Load(f), Load(f)', Coming, Coming', losses, One(f, plus), One(f, minus), made} \subseteq Nat
    BY <1>1, <1>2, <1>3
  <2> QED BY ONLY <2>1, <2>2
<1>5. ASSUME NEW s \in ReadSteps \ {"FIND_ES_CIDS_FLAGS"}, Clear(FeatureOf(s))
      PROVE  Load(s)' + Load(FeatureOf(s))' + Coming' <= 1 + losses
  <2>1. Load(s) + Load(FeatureOf(s)) + Coming <= 1 + losses /\ Coming' + made <= Coming
    BY <1>5, <1>a DEF LoadInv
  <2>2. /\ Load(s)' + One(s, minus) <= Load(s) + One(s, plus)
        /\ Load(FeatureOf(s))' + One(FeatureOf(s), minus)
             <= Load(FeatureOf(s)) + One(FeatureOf(s), plus)
        /\ One(s, plus) + One(FeatureOf(s), plus)
             <= One(s, minus) + One(FeatureOf(s), minus) + made
    BY <1>5
  <2>3. /\ {Load(s), Load(s)', Load(FeatureOf(s)), Load(FeatureOf(s))'} \subseteq Nat
        /\ {One(s, plus), One(s, minus), One(FeatureOf(s), plus), One(FeatureOf(s), minus)} \subseteq Nat
        /\ {Coming, Coming', losses, made} \subseteq Nat
    BY <1>1, <1>2, <1>3
  <2> QED BY ONLY <2>1, <2>2, <2>3
<1>6. ASSUME Clear("NAME_AND_TYPE")
      PROVE  Load("FIND_ES_CIDS_FLAGS")' + Load("CID_REPORTING")' + Load("GET_DEVICE_TYPE")'
               + Load("NAME_AND_TYPE")' + Coming' + Coming' <= 1 + losses + 1 + losses
  <2>1. /\ Load("FIND_ES_CIDS_FLAGS") + Load("CID_REPORTING") + Load("GET_DEVICE_TYPE")
            + Load("NAME_AND_TYPE") + Coming + Coming <= 1 + losses + 1 + losses
        /\ Coming' + made <= Coming
    BY <1>6, <1>a DEF LoadInv
  <2>2. /\ Load("FIND_ES_CIDS_FLAGS")' + One("FIND_ES_CIDS_FLAGS", minus)
             <= Load("FIND_ES_CIDS_FLAGS") + One("FIND_ES_CIDS_FLAGS", plus)
        /\ Load("CID_REPORTING")' + One("CID_REPORTING", minus)
             <= Load("CID_REPORTING") + One("CID_REPORTING", plus)
        /\ Load("GET_DEVICE_TYPE")' + One("GET_DEVICE_TYPE", minus)
             <= Load("GET_DEVICE_TYPE") + One("GET_DEVICE_TYPE", plus)
        /\ Load("NAME_AND_TYPE")' + One("NAME_AND_TYPE", minus)
             <= Load("NAME_AND_TYPE") + One("NAME_AND_TYPE", plus)
    OBVIOUS
  <2>3. /\ {Coming, Coming', losses, made} \subseteq Nat
        /\ {Load("FIND_ES_CIDS_FLAGS"), Load("FIND_ES_CIDS_FLAGS")'} \subseteq Nat
        /\ {Load("CID_REPORTING"), Load("CID_REPORTING")'} \subseteq Nat
        /\ {Load("GET_DEVICE_TYPE"), Load("GET_DEVICE_TYPE")'} \subseteq Nat
        /\ {Load("NAME_AND_TYPE"), Load("NAME_AND_TYPE")'} \subseteq Nat
        /\ {One("FIND_ES_CIDS_FLAGS", plus), One("FIND_ES_CIDS_FLAGS", minus)} \subseteq Nat
        /\ {One("CID_REPORTING", plus), One("CID_REPORTING", minus)} \subseteq Nat
        /\ {One("GET_DEVICE_TYPE", plus), One("GET_DEVICE_TYPE", minus)} \subseteq Nat
        /\ {One("NAME_AND_TYPE", plus), One("NAME_AND_TYPE", minus)} \subseteq Nat
    BY <1>1, <1>2, <1>3
  <2>4. One("FIND_ES_CIDS_FLAGS", plus) + One("CID_REPORTING", plus)
             + One("GET_DEVICE_TYPE", plus) + One("NAME_AND_TYPE", plus)
             <= One("FIND_ES_CIDS_FLAGS", minus) + One("CID_REPORTING", minus)
                  + One("GET_DEVICE_TYPE", minus) + One("NAME_AND_TYPE", minus) + made + made
    BY <1>6
  <2> QED BY ONLY <2>1, <2>2, <2>3, <2>4
<1>7. UNCHANGED losses
  OBVIOUS
<1> QED BY <1>4, <1>5, <1>6, <1>7 DEF LoadInv, Clear

\* What the steps on the bag of tasks and on the failures do to the load.
LEMMA LoadCount ==
  ASSUME TypeOK, TypeOK', NEW plus, NEW minus,
         \A t \in Steps : TasksIn(running', t) + One(t, minus) = TasksIn(running, t) + One(t, plus),
         failures' = failures, plus \subseteq Steps, minus \subseteq Steps
  PROVE  \A s : Load(s)' + One(s, minus) <= Load(s) + One(s, plus)
<1>1. ASSUME NEW s \in Steps PROVE Load(s)' + One(s, minus) <= Load(s) + One(s, plus)
  <2>1. Load(s) = TasksIn(running, s) + failures[s] /\ Load(s)' = TasksIn(running', s) + failures[s]
    BY DEF Load, LoadIn
  <2>2. /\ failures[s] \in Nat /\ One(s, plus) \in Nat /\ One(s, minus) \in Nat
        /\ TasksIn(running, s) \in Nat /\ TasksIn(running', s) \in Nat
    BY TasksInType DEF TypeOK, Bag, One
  <2>3. TasksIn(running', s) + One(s, minus) = TasksIn(running, s) + One(s, plus)
    OBVIOUS
  <2> QED BY ONLY <2>1, <2>2, <2>3
<1>2. ASSUME NEW s, s \notin Steps PROVE Load(s)' + One(s, minus) <= Load(s) + One(s, plus)
  BY <1>2 DEF Load, LoadIn, One
<1> QED BY <1>1, <1>2

\* Each request for a set-up that is handled is one less to come, and each
\* feature has at most one more task.
LEMMA SetupLoad == TypeOK /\ TypeOK' /\ LoadInv /\ HandleSetup => LoadInv'
<1> SUFFICES ASSUME TypeOK, TypeOK', LoadInv, HandleSetup PROVE LoadInv'
  OBVIOUS
<1> DEFINE started == IF role = "keyboard" THEN FeatureSteps ELSE FeatureSteps \ {"CID_REPORTING"}
<1>1. /\ started \subseteq FeatureSteps /\ started \in SUBSET Steps
      /\ running' = StartAll(running, started) /\ failures' = failures
      /\ losses' = losses /\ running \in Bag
  BY StepsLemma DEF HandleSetup, TypeOK, Bag, deviceVars
<1>2. Coming' + 1 <= Coming /\ Coming' <= Coming
  <2>1. /\ Len(requests') = Len(requests) - 1 /\ Len(requests) \in Nat
        /\ Absent' = Absent /\ reports' = reports
    BY DEF HandleSetup, TypeOK, Absent
  <2>2. Downs(reports) \in Nat /\ Absent \in Nat
    BY DownsType DEF TypeOK, Absent
  <2>3. /\ Coming = Len(requests) + Downs(reports) + Absent
        /\ Coming' = Len(requests') + Downs(reports) + Absent
    BY <2>1 DEF Coming
  <2> QED BY ONLY <2>1, <2>2, <2>3
<1> HIDE DEF started
<1>3. \A s : Load(s)' + One(s, {}) <= Load(s) + One(s, started)
  <2>1. \A t \in Steps : TasksIn(running', t) = TasksIn(running, t) + (IF t \in started THEN 1 ELSE 0)
    BY <1>1, StartCount
  <2>2. ASSUME NEW t \in Steps
        PROVE  TasksIn(running', t) + One(t, {}) = TasksIn(running, t) + One(t, started)
    <3>1. TasksIn(running, t) \in Nat
      BY TasksInType DEF TypeOK, Bag
    <3> QED BY <2>1, <3>1 DEF One
  <2> QED BY <1>1, <2>2, LoadCount
<1>4. \A s \in ReadSteps : s \notin started
  BY <1>1, ParentLemma
<1>5. /\ "FIND_ES_CIDS_FLAGS" \notin started /\ "GET_DEVICE_TYPE" \notin started
  BY <1>1, ParentLemma
<1>6. \A f \in FeatureSteps \ {"CID_REPORTING"} : One(f, started) <= One(f, {}) + 1
  BY DEF One
<1>7. \A s \in ReadSteps \ {"FIND_ES_CIDS_FLAGS"} : Clear(FeatureOf(s)) =>
         One(s, started) + One(FeatureOf(s), started) <= One(s, {}) + One(FeatureOf(s), {}) + 1
  BY <1>4 DEF One
<1>8. One("FIND_ES_CIDS_FLAGS", started) + One("CID_REPORTING", started)
        + One("GET_DEVICE_TYPE", started) + One("NAME_AND_TYPE", started)
        <= One("FIND_ES_CIDS_FLAGS", {}) + One("CID_REPORTING", {})
             + One("GET_DEVICE_TYPE", {}) + One("NAME_AND_TYPE", {}) + 1 + 1
  BY <1>5 DEF One
<1> QED BY <1>1, <1>2, <1>3, <1>6, <1>7, <1>8, LoadReplaced

\* No task asks for a set-up; the one that succeeds can only find the device.
LEMMA ComingFrame ==
  ASSUME TypeOK, UNCHANGED <<registered, reports, requests>>, connected' \in {connected, TRUE}
  PROVE  Coming' <= Coming /\ Coming \in Nat /\ Coming' \in Nat
<1>1. Len(requests) \in Nat /\ Downs(reports) \in Nat
  BY DownsType DEF TypeOK
<1>2. Absent \in {0, 1} /\ Absent' \in {0, 1} /\ Absent' <= Absent
  <2>1. Absent \in {0, 1} /\ Absent' \in {0, 1} /\ (Absent = 0 => Absent' = 0)
    BY DEF Absent, TypeOK
  <2> QED BY ONLY <2>1
<1>3. Coming = Len(requests) + Downs(reports) + Absent
      /\ Coming' = Len(requests) + Downs(reports) + Absent'
  BY DEF Coming
<1> QED BY ONLY <1>1, <1>2, <1>3

\* A task that moves to its next phase is the same task.
LEMMA MoveLoad ==
  ASSUME TypeOK, TypeOK', LoadInv, NEW s \in Steps, NEW from \in Phases, NEW to \in Phases,
         from # to, running[s][from] > 0, running' = Moved(s, from, to),
         UNCHANGED <<failures, losses, registered, connected, reports, requests>>
  PROVE  LoadInv'
<1>1. \A t : Load(t)' = Load(t)
  BY MovedCount DEF Load, LoadIn, TypeOK, Bag
<1>2. \A t : Load(t)' <= Load(t)
  BY <1>1, LoadTypes
<1>3. Coming' + losses <= Coming + losses'
  <2>1. Coming' <= Coming /\ {Coming, Coming', losses, losses'} \subseteq Nat /\ losses' = losses
    BY ComingFrame, LoadTypes
  <2> QED BY ONLY <2>1
<1> QED BY <1>2, <1>3, LoadFrame

\* A feature that is taken for resolved is retried with its readers again.
LEMMA ShortcutLoad ==
  ASSUME TypeOK, TypeOK', LoadInv, NEW s \in Steps, Shortcut(s)
  PROVE  LoadInv'
<1>1. s \in FeatureSteps /\ ~Clear(s) /\ Dependents(s) = ReadersOf(s)
  <2>1. s \in FeatureSteps /\ FeatureCode[s] \in {FeatureIndex[f] : f \in features}
        /\ features \subseteq FeatureSteps
    BY DEF Shortcut, TakenForResolved, TypeOK
  <2>2. Dependents(s) = ReadersOf(s)
    BY <2>1, ParentLemma DEF Dependents
  <2>3. MistakenForResolved(s)
    BY <2>1 DEF MistakenForResolved
  <2> QED BY <2>1, <2>2, <2>3 DEF Clear
<1>2. /\ \A t \in Dependents(s) : t \in ReadSteps /\ FeatureOf(t) = s
      /\ s # "CID_REPORTING"
      /\ s # "NAME_AND_TYPE" => "GET_DEVICE_TYPE" \notin Dependents(s)
      /\ "FIND_ES_CIDS_FLAGS" \notin Dependents(s)
  BY <1>1, ReaderLemma
<1>3. /\ Dependents(s) \in SUBSET Steps
      /\ \A f \in FeatureSteps : f \notin Dependents(s)
      /\ "CID_REPORTING" \notin Dependents(s) /\ "NAME_AND_TYPE" \notin Dependents(s)
  <2>1. "NAME_AND_TYPE" \notin ReadSteps /\ "CID_REPORTING" \notin ReadSteps
    BY DEF ReadSteps, ReadersOf, FeatureSteps, Features
  <2> QED BY <1>2, <2>1, ParentLemma, StepsLemma
<1> DEFINE plus == Dependents(s)
           moved == Moved(s, "started", "ending")
<1>4. /\ moved \in Bag /\ running' = StartAll(moved, plus)
      /\ \A t \in Steps : TasksIn(moved, t) = TasksIn(running, t)
      /\ \A t \in Steps : TasksIn(running, t) \in Nat
      /\ failures' = failures /\ losses' = losses
      /\ Coming' <= Coming
  <2>1. moved \in Bag /\ \A t \in Steps : TasksIn(moved, t) = TasksIn(running, t)
    BY MovedLemma, MovedCount DEF Shortcut, TypeOK, Bag, Phases
  <2>2. /\ running' = StartAll(moved, plus) /\ failures' = failures /\ losses' = losses
        /\ UNCHANGED <<registered, connected, reports, requests>>
    BY DEF Shortcut, deviceVars, objectVars, topicVars
  <2>3. Coming' <= Coming /\ Coming \in Nat /\ Coming' \in Nat
    BY <2>2, ComingFrame
  <2>4. \A t \in Steps : TasksIn(running, t) \in Nat
    BY TasksInType DEF TypeOK, Bag
  <2> QED BY <2>1, <2>2, <2>3, <2>4
<1> HIDE DEF moved
<1>5. \A t : Load(t)' + One(t, {}) <= Load(t) + One(t, plus)
  <2>1. \A t \in Steps : TasksIn(running', t) = TasksIn(moved, t) + (IF t \in plus THEN 1 ELSE 0)
    BY <1>3, <1>4, StartCount
  <2>2. ASSUME NEW t \in Steps
        PROVE  TasksIn(running', t) + One(t, {}) = TasksIn(running, t) + One(t, plus)
    BY <1>4, <2>1 DEF One
  <2> QED BY <1>3, <1>4, <2>2, LoadCount
<1> HIDE DEF plus
<1>6. \A f \in FeatureSteps \ {"CID_REPORTING"} : One(f, plus) <= One(f, {}) + 0
  BY <1>3 DEF One, plus
<1>7. \A t \in ReadSteps \ {"FIND_ES_CIDS_FLAGS"} : Clear(FeatureOf(t)) =>
         One(t, plus) + One(FeatureOf(t), plus) <= One(t, {}) + One(FeatureOf(t), {}) + 0
  BY <1>1, <1>2, <1>3, ParentLemma DEF One, plus
<1>8. Clear("NAME_AND_TYPE") =>
        One("FIND_ES_CIDS_FLAGS", plus) + One("CID_REPORTING", plus)
          + One("GET_DEVICE_TYPE", plus) + One("NAME_AND_TYPE", plus)
        <= One("FIND_ES_CIDS_FLAGS", {}) + One("CID_REPORTING", {})
             + One("GET_DEVICE_TYPE", {}) + One("NAME_AND_TYPE", {}) + 0 + 0
  BY <1>1, <1>2, <1>3 DEF One, plus
<1> QED BY <1>4, <1>5, <1>6, <1>7, <1>8, LoadReplaced

\* A task that succeeds makes room for the tasks it starts.
LEMMA SucceedLoad ==
  ASSUME TypeOK, TypeOK', LoadInv, NEW s \in Steps, Succeed(s)
  PROVE  LoadInv'
<1> DEFINE plus == Dependents(s)
           ended == Ended(s, "ending")
<1>1. /\ s \in FeatureSteps => plus = ReadersOf(s)
      /\ s \notin FeatureSteps => plus \subseteq {"CID_REPORTING"}
      /\ s \notin FeatureSteps /\ s # "GET_DEVICE_TYPE" => plus = {}
      /\ "GET_DEVICE_TYPE" \notin FeatureSteps
      /\ plus \in SUBSET Steps
  BY StepsLemma, ParentLemma DEF Dependents, TypeOK
<1>2. /\ s \in FeatureSteps => \A t \in plus : t \in ReadSteps /\ FeatureOf(t) = s
      /\ s # "NAME_AND_TYPE" => "GET_DEVICE_TYPE" \notin plus
      /\ s # "CID_REPORTING" => "FIND_ES_CIDS_FLAGS" \notin plus
  BY <1>1, ReaderLemma
<1>3. "NAME_AND_TYPE" \notin ReadSteps /\ "CID_REPORTING" \notin ReadSteps
  BY DEF ReadSteps, ReadersOf, FeatureSteps, Features
<1>4. /\ ended \in Bag /\ running' = StartAll(ended, plus)
      /\ \A t \in Steps : TasksIn(ended, t) = TasksIn(running, t) - (IF t = s THEN 1 ELSE 0)
      /\ \A t \in Steps : TasksIn(running, t) \in Nat
      /\ failures' = failures /\ losses' = losses
      /\ Coming' <= Coming
  <2>1. /\ ended \in Bag
        /\ \A t \in Steps : TasksIn(ended, t) = TasksIn(running, t) - (IF t = s THEN 1 ELSE 0)
    BY EndedLemma, EndedCount DEF Succeed, TypeOK, Bag, Phases
  <2>2. /\ running' = StartAll(ended, plus) /\ failures' = failures /\ losses' = losses
        /\ UNCHANGED <<registered, reports, requests>> /\ connected' = TRUE
    BY DEF Succeed, deviceVars
  <2>3. Coming' <= Coming /\ Coming \in Nat /\ Coming' \in Nat
    BY <2>2, ComingFrame
  <2>4. \A t \in Steps : TasksIn(running, t) \in Nat
    BY TasksInType DEF TypeOK, Bag
  <2> QED BY <2>1, <2>2, <2>3, <2>4
<1> HIDE DEF ended, plus
<1>5. \A t : Load(t)' + One(t, {s}) <= Load(t) + One(t, plus)
  <2>1. \A t \in Steps : TasksIn(running', t) = TasksIn(ended, t) + (IF t \in plus THEN 1 ELSE 0)
    BY <1>1, <1>4, StartCount
  <2>2. ASSUME NEW t \in Steps
        PROVE  TasksIn(running', t) + One(t, {s}) = TasksIn(running, t) + One(t, plus)
    BY <1>4, <2>1 DEF One
  <2> QED BY <1>1, <1>4, <2>2, LoadCount
<1>6. \A f \in FeatureSteps \ {"CID_REPORTING"} : One(f, plus) <= One(f, {s}) + 0
  BY <1>1, <1>2, ParentLemma DEF One
<1>7. ASSUME NEW t \in ReadSteps \ {"FIND_ES_CIDS_FLAGS"}
      PROVE  Clear(FeatureOf(t)) =>
        One(t, plus) + One(FeatureOf(t), plus) <= One(t, {s}) + One(FeatureOf(t), {s}) + 0
  <2>1. t # "CID_REPORTING" /\ FeatureOf(t) # "CID_REPORTING" /\ t \notin FeatureSteps
        /\ FeatureOf(t) \in FeatureSteps
    BY <1>3, ParentLemma
  <2>2. FeatureOf(t) \notin plus
    BY <1>1, <1>2, <2>1, ParentLemma
  <2>3. t \in plus => FeatureOf(t) = s
    BY <1>1, <1>2, <2>1
  <2> QED BY <2>1, <2>2, <2>3 DEF One
<1>8. One("FIND_ES_CIDS_FLAGS", plus) + One("CID_REPORTING", plus)
          + One("GET_DEVICE_TYPE", plus) + One("NAME_AND_TYPE", plus)
        <= One("FIND_ES_CIDS_FLAGS", {s}) + One("CID_REPORTING", {s})
             + One("GET_DEVICE_TYPE", {s}) + One("NAME_AND_TYPE", {s}) + 0 + 0
  <2>1. "NAME_AND_TYPE" \notin plus
    BY <1>1, <1>2, <1>3
  <2>2. "CID_REPORTING" \in plus => s = "GET_DEVICE_TYPE"
    BY <1>1, <1>2, <1>3
  <2> QED BY <1>2, <2>1, <2>2 DEF One
<1> QED BY <1>4, <1>5, <1>6, <1>7, <1>8, LoadReplaced

\* A failure takes the place of its task, and a retry that of the failure.
LEMMA FailLoad ==
  ASSUME TypeOK, TypeOK', LoadInv, NEW s \in Steps, Fail(s) \/ Retry(s) \/ GiveUp(s) \/ LeaveFailure(s)
  PROVE  LoadInv'
<1>1. /\ losses' = losses /\ UNCHANGED <<registered, connected, reports, requests>>
  BY DEF Fail, Retry, GiveUp, LeaveFailure, deviceVars, objectVars
<1>2. Coming' + losses <= Coming + losses'
  <2>1. Coming' <= Coming /\ {Coming, Coming', losses, losses'} \subseteq Nat /\ losses' = losses
    BY <1>1, ComingFrame, LoadTypes
  <2> QED BY ONLY <2>1
<1>3. /\ running \in Bag /\ failures \in [Steps -> Nat]
      /\ \A t \in Steps : TasksIn(running, t) \in Nat /\ TasksIn(running', t) \in Nat
  BY TasksInType DEF TypeOK, Bag
<1>4. ASSUME NEW t \in Steps
      PROVE  TasksIn(running', t) + failures'[t] <= TasksIn(running, t) + failures[t]
  <2>1. CASE Fail(s)
    <3>1. TasksIn(running', t) = TasksIn(running, t) - (IF t = s THEN 1 ELSE 0)
      BY <1>3, <2>1, EndedCount DEF Fail
    <3>2. failures'[t] = failures[t] + (IF t = s THEN 1 ELSE 0)
      BY <1>3, <2>1 DEF Fail
    <3> QED BY <1>3, <3>1, <3>2
  <2>2. ASSUME NextFailure(s) PROVE failures'[t] = failures[t] - (IF t = s THEN 1 ELSE 0)
    BY <1>3, <2>2 DEF NextFailure
  <2>3. CASE Retry(s)
    <3>1. TasksIn(running', t) = TasksIn(running, t) + (IF t \in {s} THEN 1 ELSE 0)
      BY <1>3, <2>3, StartCount DEF Retry
    <3>2. failures'[t] = failures[t] - (IF t = s THEN 1 ELSE 0)
      BY <2>2, <2>3 DEF Retry
    <3> QED BY <1>3, <3>1, <3>2
  <2>4. CASE GiveUp(s) \/ LeaveFailure(s)
    <3>1. running' = running
      BY <2>4 DEF GiveUp, LeaveFailure, taskVars
    <3>2. failures'[t] = failures[t] - (IF t = s THEN 1 ELSE 0)
      BY <2>2, <2>4 DEF GiveUp, LeaveFailure
    <3> QED BY <1>3, <3>1, <3>2
  <2> QED BY <2>1, <2>3, <2>4
<1>5. \A t : Load(t)' <= Load(t)
  BY <1>4 DEF Load, LoadIn
<1> QED BY <1>2, <1>5, LoadFrame

LEMMA NextLoad == TypeOK /\ TypeOK' /\ LoadInv /\ [Next]_vars => LoadInv'
<1> SUFFICES ASSUME TypeOK, TypeOK', LoadInv, [Next]_vars PROVE LoadInv'
  OBVIOUS
<1>1. ASSUME UNCHANGED <<running, failures, losses, registered, connected, reports, requests>>
      PROVE  LoadInv'
  BY <1>1 DEF LoadInv, Load, Coming, Absent, Clear
<1>2. ASSUME NEW s \in Steps, TaskStep(s) PROVE LoadInv'
  <2>1. CASE AlreadyDone(s)
    BY <2>1, MoveLoad DEF AlreadyDone, Phases, deviceVars, objectVars, topicVars
  <2>2. CASE Shortcut(s)
    BY <2>2, ShortcutLoad
  <2>3. CASE NothingToAsk(s)
    BY <2>3, MoveLoad DEF NothingToAsk, Phases, deviceVars, topicVars
  <2>4. CASE Ask(s)
    BY <2>4, MoveLoad DEF Ask, Phases, deviceVars, objectVars, topicVars
  <2>5. CASE FeatureAnswered(s)
    BY <2>5, MoveLoad DEF FeatureAnswered, Asking, Phases, deviceVars, topicVars
  <2>6. CASE Unanswered(s)
    BY <2>6, MoveLoad DEF Unanswered, Asking, Phases, topicVars
  <2>7. CASE Succeed(s)
    BY <2>7, SucceedLoad
  <2>8. CASE Fail(s)
    BY <2>8, FailLoad
  <2> QED BY <1>2, <2>1, <2>2, <2>3, <2>4, <2>5, <2>6, <2>7, <2>8 DEF TaskStep
<1>3. CASE ReadAnswered
  <2>1. CASE TypeAnswered
    BY <2>1, MoveLoad DEF TypeAnswered, Asking, Phases, deviceVars, topicVars
  <2>2. CASE TypeRefused
    BY <2>2, MoveLoad DEF TypeRefused, Asking, Phases, topicVars
  <2>3. CASE NameAnswered
    BY <2>3, MoveLoad DEF NameAnswered, Asking, Phases, deviceVars, topicVars
  <2>4. CASE FriendlyAnswered
    BY <2>4, MoveLoad DEF FriendlyAnswered, Asking, Phases, deviceVars, topicVars
  <2>5. CASE KeysAnswered
    BY <2>5, MoveLoad DEF KeysAnswered, Asking, Phases, deviceVars
  <2> QED BY <1>3, <2>1, <2>2, <2>3, <2>4, <2>5 DEF ReadAnswered
<1>4. CASE HandleProgress
  <2>1. CASE HandleSuccess
    BY <1>1, <2>1 DEF HandleSuccess, deviceVars
  <2>2. ASSUME NEW s \in Steps, Retry(s) \/ GiveUp(s) \/ LeaveFailure(s) PROVE LoadInv'
    BY <2>2, FailLoad
  <2> QED BY <1>4, <2>1, <2>2 DEF HandleProgress
<1>5. CASE ResetBudget \/ SetReportFlag
  BY <1>1, <1>5 DEF ResetBudget, SetReportFlag, deviceVars, objectVars, taskVars
<1>6. CASE UNCHANGED vars
  BY <1>1, <1>6 DEF vars, deviceVars, objectVars, topicVars, taskVars
<1> QED BY <1>2, <1>3, <1>4, <1>5, <1>6, ReportLoad, SetupLoad DEF Next

\* The number of tasks for each step stays within what the connections explain.
LEMMA LoadBounds == TypeOK /\ LoadInv => TasksBounded
<1> SUFFICES ASSUME TypeOK, LoadInv, NEW s \in Steps, \A f \in StartedBy(s) : ~MistakenForResolved(f)
             PROVE  Tasks(s) + failures[s] <= (1 + losses) * (IF s \in KeySteps THEN 2 ELSE 1)
  BY DEF TasksBounded
<1>1. Load(s) = Tasks(s) + failures[s] /\ Coming \in Nat /\ losses \in Nat /\ \A t : Load(t) \in Nat
  BY LoadTypes DEF Load, LoadIn, Tasks, TasksIn
<1>2. CASE s \in KeySteps
  <2>1. Clear("NAME_AND_TYPE") /\ s \in {"FIND_ES_CIDS_FLAGS", "CID_REPORTING"}
    BY <1>2 DEF StartedBy, Clear, KeySteps
  <2>2. Load("FIND_ES_CIDS_FLAGS") + Load("CID_REPORTING") + Load("GET_DEVICE_TYPE")
          + Load("NAME_AND_TYPE") + Coming + Coming <= 1 + losses + 1 + losses
    BY <2>1 DEF LoadInv
  <2>3. Load(s) <= 1 + losses + 1 + losses
    BY <1>1, <2>1, <2>2
  <2>4. (1 + losses) * 2 = 1 + losses + 1 + losses
    BY <1>1
  <2> QED BY <1>1, <1>2, <2>3, <2>4
<1>3. CASE s \notin KeySteps
  <2>1. s \notin {"FIND_ES_CIDS_FLAGS", "CID_REPORTING"}
    BY <1>3 DEF KeySteps
  <2>2. Load(s) <= 1 + losses
    <3>1. CASE s \in FeatureSteps
      <4>1. Load(s) + Coming <= 1 + losses
        BY <2>1, <3>1 DEF LoadInv
      <4> QED BY <1>1, <4>1
    <3>2. CASE s \in ReadSteps
      <4>1. FeatureOf(s) \in FeatureSteps
        BY <3>2, ParentLemma
      <4>2. Clear(FeatureOf(s))
        BY <1>3, <3>2, <4>1 DEF StartedBy, Clear
      <4>3. Load(s) + Load(FeatureOf(s)) + Coming <= 1 + losses
        BY <2>1, <3>2, <4>2 DEF LoadInv
      <4>4. {Load(s), Load(FeatureOf(s)), Coming, losses} \subseteq Nat
        BY <1>1
      <4> QED BY ONLY <4>3, <4>4
    <3> QED BY <3>1, <3>2 DEF Steps
  <2>3. (1 + losses) * 1 = 1 + losses
    BY <1>1
  <2> QED BY <1>1, <1>3, <2>2, <2>3
<1> QED BY <1>2, <1>3

\* However often the device comes and goes, only its connections add tasks.
THEOREM TasksStayBounded == Spec => []TasksBounded
<1>1. Init => TypeOK /\ LoadInv
  BY InitType, InitLoad
<1>2. TypeOK /\ LoadInv /\ [Next]_vars => (TypeOK /\ LoadInv)'
  BY NextType, NextLoad
<1> QED BY <1>1, <1>2, LoadBounds, PTL DEF Spec

----------------------------------------------------------------------------
\* No task reads before the feature it reads from is known.
ReadersInv ==
  \A s \in ReadSteps :
    Live(s) \/ failures[s] > 0 => FeatureOf(s) \notin pending \/ MistakenForResolved(FeatureOf(s))

\* ReadersInv survives if a reader is started or fails only where there was
\* one, or after its feature.
LEMMA ReadersFrame ==
  ASSUME TypeOK, ReadersInv, pending' \subseteq pending,
         \A t \in ReadSteps : (LiveIn(running', t) \/ failures'[t] > 0) =>
            \/ Live(t) \/ failures[t] > 0
            \/ FeatureOf(t) \notin pending' \/ MistakenForResolved(FeatureOf(t))
  PROVE  ReadersInv'
<1> SUFFICES ASSUME NEW t \in ReadSteps, LiveIn(running', t) \/ failures'[t] > 0
             PROVE  FeatureOf(t) \notin pending' \/ MistakenForResolved(FeatureOf(t))
  BY DEF ReadersInv, Live, LiveIn, MistakenForResolved
<1> QED BY DEF ReadersInv

LEMMA NextReaders == TypeOK /\ ReadersInv /\ [Next]_vars => ReadersInv'
<1> SUFFICES ASSUME TypeOK, ReadersInv, [Next]_vars PROVE ReadersInv'
  OBVIOUS
<1> USE DEF deviceVars, objectVars, topicVars, taskVars
<1>1. ASSUME UNCHANGED <<running, failures>>, pending' = pending PROVE ReadersInv'
  BY <1>1 DEF ReadersInv, Live, MistakenForResolved
<1>2. ASSUME NEW s \in Steps, NEW from \in Phases, NEW to \in Phases, from # to,
             running[s][from] > 0, running' = Moved(s, from, to), failures' = failures,
             pending' \subseteq pending
      PROVE  ReadersInv'
  <2>1. \A t \in Steps \ {s} : running'[t] = running[t]
    BY <1>2, MovedLemma DEF TypeOK, Bag
  <2>2. Live(s)
    BY <1>2 DEF Live
  <2>3. \A t \in Steps : LiveIn(running', t) => Live(t)
    BY <2>1, <2>2 DEF Live, LiveIn
  <2> QED BY <1>2, <2>3, StepsLemma, ReadersFrame
<1>3. CASE HandleSetup
  <2> DEFINE started == IF role = "keyboard" THEN FeatureSteps ELSE FeatureSteps \ {"CID_REPORTING"}
  <2>1. /\ started \in SUBSET Steps /\ started \subseteq FeatureSteps /\ running \in Bag
        /\ running' = StartAll(running, started)
        /\ pending' \subseteq pending /\ failures' = failures
    BY <1>3, StepsLemma DEF HandleSetup, TypeOK, Bag
  <2> HIDE DEF started
  <2>2. \A t \in Steps : LiveIn(running', t) => t \in started \/ Live(t)
    BY <2>1, StartLive DEF Live, LiveIn
  <2>3. \A t \in ReadSteps : t \notin started /\ t \in Steps
    BY <2>1, StepsLemma, ParentLemma
  <2> QED BY <2>1, <2>2, <2>3, ReadersFrame
<1>4. ASSUME NEW s \in Steps, TaskStep(s) PROVE ReadersInv'
  <2>1. CASE AlreadyDone(s)
    BY <2>1, <1>2 DEF AlreadyDone, Phases
  <2>2. CASE Shortcut(s)
    <3>1. /\ s \in FeatureSteps /\ FeatureCode[s] \in {FeatureIndex[f] : f \in features}
          /\ features \subseteq FeatureSteps
      BY <2>2 DEF Shortcut, TakenForResolved, TypeOK
    <3>2. MistakenForResolved(s) /\ Dependents(s) = ReadersOf(s)
      BY <3>1, ParentLemma DEF MistakenForResolved, Dependents
    <3>3. \A t \in Dependents(s) : FeatureOf(t) = s
      BY <3>1, <3>2, ReaderLemma
    <3>4. /\ Moved(s, "started", "ending") \in Bag /\ Dependents(s) \in SUBSET Steps
          /\ \A t \in Steps : LiveIn(Moved(s, "started", "ending"), t) => Live(t)
      <4>1. running[s]["started"] > 0
        BY <2>2 DEF Shortcut
      <4>2. /\ Moved(s, "started", "ending") \in Bag
            /\ \A t \in Steps \ {s} : Moved(s, "started", "ending")[t] = running[t]
        BY <4>1, MovedLemma DEF TypeOK, Bag, Phases
      <4>3. Live(s)
        BY <4>1 DEF Live, Phases
      <4> QED BY <3>1, <3>2, <4>2, <4>3, StepsLemma DEF Live, LiveIn
    <3>5. \A t \in Steps : LiveIn(running', t) => t \in Dependents(s) \/ Live(t)
      BY <2>2, <3>4, StartLive DEF Shortcut
    <3> QED BY <2>2, <3>2, <3>3, <3>5, StepsLemma, ReadersFrame DEF Shortcut
  <2>3. CASE NothingToAsk(s)
    BY <2>3, <1>2 DEF NothingToAsk, Phases
  <2>4. CASE Ask(s)
    BY <2>4, <1>2 DEF Ask, Phases
  <2>5. CASE FeatureAnswered(s)
    BY <2>5, <1>2 DEF FeatureAnswered, Asking, Phases
  <2>6. CASE Unanswered(s)
    BY <2>6, <1>2 DEF Unanswered, Asking, Phases
  <2>7. CASE Succeed(s)
    <3>1. /\ Dependents(s) \in SUBSET Steps
          /\ \A t \in Dependents(s) \intersect ReadSteps : FeatureOf(t) = s
      <4>1. CASE s \in FeatureSteps
        BY <4>1, ReaderLemma, StepsLemma, ParentLemma DEF Dependents
      <4>2. CASE s \notin FeatureSteps
        BY <4>2, ParentLemma DEF Dependents, TypeOK
      <4> QED BY <4>1, <4>2
    <3>2. Ended(s, "ending") \in Bag /\ \A t \in Steps : LiveIn(Ended(s, "ending"), t) => Live(t)
      BY <2>7, EndedLive DEF Succeed, TypeOK, Bag, Phases
    <3>3. \A t \in Steps : LiveIn(running', t) => t \in Dependents(s) \/ Live(t)
      BY <2>7, <3>1, <3>2, StartLive DEF Succeed
    <3>4. s \notin pending' /\ pending' \subseteq pending /\ failures' = failures
      BY <2>7 DEF Succeed
    <3> QED BY <3>1, <3>3, <3>4, StepsLemma, ReadersFrame
  <2>8. CASE Fail(s)
    <3>1. running[s]["ending"] > 0 /\ running' = Ended(s, "ending") /\ pending' = pending
          /\ failures' = [failures EXCEPT ![s] = @ + 1]
      BY <2>8 DEF Fail
    <3>2. Live(s) /\ \A t \in Steps : LiveIn(running', t) => Live(t)
      BY <3>1, EndedLive DEF TypeOK, Bag, Phases
    <3>3. \A t \in Steps \ {s} : failures'[t] = failures[t]
      BY <3>1 DEF TypeOK
    <3> QED BY <3>1, <3>2, <3>3, StepsLemma, ReadersFrame
  <2> QED BY <1>4, <2>1, <2>2, <2>3, <2>4, <2>5, <2>6, <2>7, <2>8 DEF TaskStep
<1>5. CASE ReadAnswered
  <2>1. CASE TypeAnswered
    BY <2>1, <1>2 DEF TypeAnswered, Asking, Phases
  <2>2. CASE TypeRefused
    BY <2>2, <1>2 DEF TypeRefused, Asking, Phases
  <2>3. CASE NameAnswered
    BY <2>3, <1>2 DEF NameAnswered, Asking, Phases
  <2>4. CASE FriendlyAnswered
    BY <2>4, <1>2 DEF FriendlyAnswered, Asking, Phases
  <2>5. CASE KeysAnswered
    BY <2>5, <1>2 DEF KeysAnswered, Asking, Phases
  <2> QED BY <1>5, <2>1, <2>2, <2>3, <2>4, <2>5 DEF ReadAnswered
<1>6. ASSUME NEW s \in Steps, Retry(s) \/ GiveUp(s) \/ LeaveFailure(s) PROVE ReadersInv'
  <2>1. pending' = pending /\ failures[s] > 0 /\ failures' = [failures EXCEPT ![s] = @ - 1]
    BY <1>6 DEF Retry, GiveUp, LeaveFailure, NextFailure
  <2>2. \A t \in Steps \ {s} : failures'[t] = failures[t]
    BY <2>1 DEF TypeOK
  <2>3. \A t \in Steps : LiveIn(running', t) => t = s \/ Live(t)
    <3>1. CASE Retry(s)
      <4>1. running' = StartAll(running, {s}) /\ running \in Bag /\ {s} \in SUBSET Steps
        BY <3>1 DEF Retry, TypeOK, Bag
      <4>2. \A t \in Steps : LiveIn(running', t) => t \in {s} \/ LiveIn(running, t)
        BY <4>1, StartLive
      <4> QED BY <4>2 DEF Live, LiveIn
    <3>2. CASE GiveUp(s) \/ LeaveFailure(s)
      BY <3>2 DEF GiveUp, LeaveFailure, Live, LiveIn
    <3> QED BY <1>6, <3>1, <3>2
  <2> QED BY <2>1, <2>2, <2>3, StepsLemma, ReadersFrame
<1>7. ASSUME NEW up \in BOOLEAN, Connection(up) PROVE ReadersInv'
  BY <1>1, <1>7 DEF Connection
<1>8. CASE HandleReport
  BY <1>1, <1>8 DEF HandleReport, IgnoreReport, Reconnection, NewConnection
<1>9. CASE ResetBudget \/ SetReportFlag \/ HandleSuccess
  BY <1>1, <1>9 DEF ResetBudget, SetReportFlag, HandleSuccess
<1>10. CASE UNCHANGED vars
  BY <1>1, <1>10 DEF vars
<1> QED BY <1>3, <1>4, <1>5, <1>6, <1>7, <1>8, <1>9, <1>10 DEF Next, HandleProgress

\* Whatever fails and is retried, nothing is read from a feature that is
\* still to be resolved.
THEOREM ReadersWait == Spec => []DependentsAfterFeature
<1>1. Init => ReadersInv
  BY StepsLemma DEF Init, ReadersInv, Live
<1>2. ReadersInv => DependentsAfterFeature
  BY DEF ReadersInv, DependentsAfterFeature
<1> QED BY <1>1, <1>2, InitType, NextType, NextReaders, PTL DEF Spec

----------------------------------------------------------------------------
\* The name: while the link holds, its task is the only one.
NT == "NAME_AND_TYPE"
NM == "GET_DEVICE_NAME"
AskingIn(r, s) == s \in Steps /\ r[s]["asking"] > 0
OneNameTask == losses = 0 /\ NT \in FeatureSteps /\ ~MistakenForResolved(NT)

NameInv ==
  /\ NT \in features => FeatureIndex[NT] # 0
  /\ NT \in FeatureSteps \ pending => NT \in features \/ FeatureIndex[NT] = 0
  /\ announced => NM \notin pending
  /\ OneNameTask =>
       /\ Named /\ NM \notin pending => name \/ FeatureIndex[NT] = 0
       /\ Asking(NM) => NM \in pending
       /\ \A i \in 1..Len(requests) : requests[i].name \/ name

\* With one task for the name, no set-up that could settle its step is still
\* queued while the task asks.
LEMMA OneNameLemma ==
  ASSUME TypeOK, LoadInv, OneNameTask
  PROVE  /\ NM \in ReadSteps /\ NM \in Steps
         /\ Asking(NM) => running[NM]["started"] = 0 /\ running[NM]["asking"] = 1 /\ requests = <<>>
<1>1. NM \in ReadSteps /\ NM \in Steps /\ FeatureOf(NM) = NT /\ Clear(NT)
  BY DEF OneNameTask, ReadSteps, ReadersOf, Steps, NM, NT, FeatureOf, Clear
<1>2. Load(NM) + Load(NT) + Coming <= 1 + losses
  BY <1>1 DEF LoadInv, NM
<1>3. /\ Load(NT) \in Nat /\ losses = 0 /\ Load(NM) = TasksIn(running, NM) + failures[NM]
      /\ Coming = Len(requests) + Downs(reports) + Absent
  BY <1>1, LoadTypes DEF Load, LoadIn, OneNameTask, Coming
<1>4. Len(requests) \in Nat /\ Downs(reports) \in Nat /\ Absent \in Nat
  BY DownsType DEF TypeOK, Absent
<1>5. /\ running[NM]["started"] \in Nat /\ running[NM]["asking"] \in Nat
      /\ running[NM]["ending"] \in Nat /\ failures[NM] \in Nat
  BY <1>1 DEF TypeOK, Phases
<1>6. TasksIn(running, NM)
        = running[NM]["started"] + running[NM]["asking"] + running[NM]["ending"]
  BY DEF TasksIn
<1>7. running[NM]["asking"] > 0 =>
        running[NM]["started"] = 0 /\ running[NM]["asking"] = 1 /\ Len(requests) = 0
  <2>1. TasksIn(running, NM) \in Nat /\ Load(NM) \in Nat /\ Coming \in Nat
    BY <1>1, LoadTypes, TasksInType DEF TypeOK, Bag
  <2>2. Load(NM) + Coming <= 1
    BY ONLY <1>2, <1>3, <2>1
  <2>3. TasksIn(running, NM) <= Load(NM)
    BY ONLY <1>3, <1>5, <2>1
  <2>4. running[NM]["started"] + running[NM]["asking"] <= TasksIn(running, NM)
    BY ONLY <1>5, <1>6
  <2>5. Len(requests) <= Coming
    BY ONLY <1>3, <1>4
  <2>6. /\ running[NM]["started"] + running[NM]["asking"] <= 1
        /\ running[NM]["asking"] > 0 => Coming = 0
    BY ONLY <1>5, <2>1, <2>2, <2>3, <2>4
  <2> QED BY ONLY <1>4, <1>5, <2>5, <2>6
<1>8. Len(requests) = 0 => requests = <<>>
  BY DEF TypeOK
<1> QED BY <1>1, <1>7, <1>8 DEF Asking

\* What a step must respect to keep the name consistent with the steps.
LEMMA NameFrame ==
  ASSUME TypeOK, NameInv,
         features \subseteq features', NT \in features' => NT \in features \/ FeatureIndex[NT] # 0,
         pending' \subseteq pending,
         NT \in pending => NT \in pending' \/ NT \in features' \/ FeatureIndex[NT] = 0,
         announced' => announced \/ NM \notin pending,
         losses' = 0 => losses = 0,
         OneNameTask /\ NM \in pending \ pending' =>
           /\ Named => name' \/ FeatureIndex[NT] = 0
           /\ ~AskingIn(running', NM),
         AskingIn(running', NM) => Asking(NM) \/ NM \in pending',
         OneNameTask => \/ name => name'
                        \/ NM \in pending' /\ requests' = <<>>,
         \A i \in 1..Len(requests') : requests'[i].name \/ name
            \/ \E j \in 1..Len(requests) : requests'[i] = requests[j]
  PROVE  NameInv'
<1>1. (NT \in features => FeatureIndex[NT] # 0)'
  BY DEF NameInv, NT
<1>2. (NT \in FeatureSteps \ pending => NT \in features \/ FeatureIndex[NT] = 0)'
  BY DEF NameInv, NT
<1>3. (announced => NM \notin pending)'
  BY DEF NameInv, NM
<1>4. ASSUME OneNameTask'
      PROVE  /\ Named /\ NM \notin pending' => name' \/ FeatureIndex[NT] = 0
             /\ AskingIn(running', NM) => NM \in pending'
             /\ \A i \in 1..Len(requests') : requests'[i].name \/ name'
  <2>1. OneNameTask
    BY <1>4 DEF OneNameTask, MistakenForResolved
  <2>2. Named /\ NM \notin pending' => name' \/ FeatureIndex[NT] = 0
    BY <2>1 DEF NameInv
  <2>3. AskingIn(running', NM) => NM \in pending'
    BY <2>1 DEF NameInv
  <2>4. \A j \in 1..Len(requests) : requests[j].name \/ name
    BY <2>1 DEF NameInv
  <2>5. CASE name => name'
    BY <2>2, <2>3, <2>4, <2>5
  <2>6. CASE NM \in pending' /\ requests' = <<>>
    BY <2>2, <2>3, <2>6
  <2> QED BY <2>1, <2>5, <2>6
<1>5. NT' = NT /\ NM' = NM
  BY DEF NT, NM
<1> QED BY <1>1, <1>2, <1>3, <1>4 DEF NameInv, Asking, AskingIn, NT, NM

\* Which tasks ask after the operations on the bag of tasks.
LEMMA AskingLemma ==
  /\ \A r \in Bag, started \in SUBSET Steps :
       AskingIn(StartAll(r, started), NM) <=> AskingIn(r, NM)
  /\ running \in Bag =>
       \A s \in Steps, from \in Phases, to \in Phases :
         from # to /\ running[s][from] > 0 =>
           /\ s # NM \/ to # "asking" =>
                (AskingIn(Moved(s, from, to), NM) => AskingIn(running, NM))
           /\ s = NM /\ from = "asking" /\ running[NM]["asking"] = 1 =>
                ~AskingIn(Moved(s, from, to), NM)
  /\ running \in Bag =>
       \A s \in Steps : AskingIn(Ended(s, "ending"), NM) => AskingIn(running, NM)
<1>1. ASSUME NEW r \in Bag, NEW started \in SUBSET Steps
      PROVE  AskingIn(StartAll(r, started), NM) <=> AskingIn(r, NM)
  <2> SUFFICES ASSUME NM \in Steps
               PROVE  StartAll(r, started)[NM]["asking"] = r[NM]["asking"]
    BY DEF AskingIn
  <2>1. r[NM] \in [Phases -> Nat]
    BY DEF Bag
  <2> QED BY <2>1 DEF StartAll, Phases
<1>2. ASSUME running \in Bag, NEW s \in Steps, NEW from \in Phases, NEW to \in Phases,
             from # to, running[s][from] > 0
      PROVE  /\ s # NM \/ to # "asking" =>
                  (AskingIn(Moved(s, from, to), NM) => AskingIn(running, NM))
             /\ s = NM /\ from = "asking" /\ running[NM]["asking"] = 1 =>
                  ~AskingIn(Moved(s, from, to), NM)
  <2>1. running[s] \in [Phases -> Nat]
    BY <1>2 DEF Bag
  <2>2. Moved(s, from, to)[s] = [running[s] EXCEPT ![from] = @ - 1, ![to] = @ + 1]
    BY <1>2, <2>1 DEF Moved, Bag
  <2>3. \A t \in Steps \ {s} : Moved(s, from, to)[t] = running[t]
    BY <1>2, MovedLemma
  <2>4. running[s]["asking"] \in Nat
    BY <2>1 DEF Phases
  <2>5. to # "asking" => Moved(s, from, to)[s]["asking"]
                            = running[s]["asking"] - (IF from = "asking" THEN 1 ELSE 0)
    BY <1>2, <2>1, <2>2, <2>4 DEF Phases
  <2>6. to # "asking" /\ Moved(s, from, to)[s]["asking"] > 0 => running[s]["asking"] > 0
    BY <2>4, <2>5
  <2>7. from = "asking" /\ running[s]["asking"] = 1 => ~(Moved(s, from, to)[s]["asking"] > 0)
    BY <1>2, <2>5
  <2> QED BY <2>3, <2>6, <2>7 DEF AskingIn
<1>3. ASSUME running \in Bag, NEW s \in Steps, AskingIn(Ended(s, "ending"), NM)
      PROVE  AskingIn(running, NM)
  <2>1. running[s] \in [Phases -> Nat]
    BY <1>3 DEF Bag
  <2>2. \A t \in Steps : Ended(s, "ending")[t]
           = IF t = s THEN [running[s] EXCEPT !["ending"] = @ - 1] ELSE running[t]
    BY <1>3, <2>1 DEF Ended, Bag
  <2>3. Ended(s, "ending")[s]["asking"] = running[s]["asking"]
    BY <2>1, <2>2 DEF Phases
  <2> QED BY <1>3, <2>2, <2>3 DEF AskingIn
<1> QED BY <1>1, <1>2, <1>3

\* A step that leaves the name and the requests alone, settles neither the
\* feature nor the name, and starts no request for the name.
LEMMA NameIdle ==
  ASSUME TypeOK, NameInv, UNCHANGED <<features, name, announced>>,
         pending' \subseteq pending, pending \ pending' \subseteq Steps \ {NT, NM},
         losses' = 0 => losses = 0, AskingIn(running', NM) => Asking(NM),
         \A i \in 1..Len(requests') : requests'[i].name \/ name
            \/ \E j \in 1..Len(requests) : requests'[i] = requests[j]
  PROVE  NameInv'
BY NameFrame

LEMMA ReportName ==
  ASSUME TypeOK, NameInv, HandleReport \/ \E up \in BOOLEAN : Connection(up)
  PROVE  NameInv'
<1>1. UNCHANGED <<features, name, announced, running, pending>>
  BY DEF HandleReport, IgnoreReport, Reconnection, NewConnection, Connection, objectVars, taskVars
<1>2. losses' = 0 => losses = 0
  <2>1. CASE HandleReport
    BY <2>1 DEF HandleReport, IgnoreReport, Reconnection, NewConnection, deviceVars
  <2>2. ASSUME NEW up \in BOOLEAN, Connection(up) PROVE losses' = 0 => losses = 0
    BY <2>2 DEF Connection, TypeOK
  <2> QED BY <2>1, <2>2
<1>3. \A i \in 1..Len(requests') : requests'[i].name \/ name
            \/ \E j \in 1..Len(requests) : requests'[i] = requests[j]
  <2>1. ASSUME NEW type \in BOOLEAN, NEW nm \in BOOLEAN, RequestInfo(type, nm), nm \/ name
        PROVE  \A i \in 1..Len(requests') : requests'[i].name \/ name
                 \/ \E j \in 1..Len(requests) : requests'[i] = requests[j]
    <3> DEFINE new == [type |-> type, name |-> nm]
    <3>1. new \in Request /\ requests' = Append(requests, new) /\ requests \in Seq(Request)
          /\ new.name = nm
      BY <2>1 DEF RequestInfo, Request, TypeOK
    <3> HIDE DEF new
    <3>2. \A i \in 1..Len(requests') :
             requests'[i] = new \/ (i \in 1..Len(requests) /\ requests'[i] = requests[i])
      BY <3>1, AppendLemma
    <3> QED BY <2>1, <3>1, <3>2
  <2>2. CASE requests' = requests
    BY <2>2
  <2>3. CASE RequestInfo(role = "none", ~name)
    BY <2>1, <2>3 DEF TypeOK
  <2>4. CASE RequestInfo(ReportedType = "none", TRUE)
    BY <2>1, <2>4
  <2>5. \/ requests' = requests \/ RequestInfo(role = "none", ~name)
        \/ RequestInfo(ReportedType = "none", TRUE)
    BY DEF HandleReport, IgnoreReport, Reconnection, NewConnection, Connection
  <2> QED BY <2>2, <2>3, <2>4, <2>5
<1> QED BY <1>1, <1>2, <1>3, NameIdle DEF Asking, AskingIn

LEMMA SetupName ==
  ASSUME TypeOK, LoadInv, NameInv, HandleSetup
  PROVE  NameInv'
<1>1. /\ requests # <<>> /\ requests' = Tail(requests) /\ requests \in Seq(Request)
      /\ UNCHANGED <<features, name, announced, losses>>
  BY DEF HandleSetup, TypeOK, deviceVars
<1>2. /\ Head(requests) = requests[1] /\ 1 \in 1..Len(requests)
      /\ \A i \in 1..Len(requests') : i + 1 \in 1..Len(requests) /\ requests'[i] = requests[i + 1]
  BY <1>1, TailLemma
<1>3. AskingIn(running', NM) <=> Asking(NM)
  <2>1. running' = StartAll(running, IF role = "keyboard" THEN FeatureSteps
                                     ELSE FeatureSteps \ {"CID_REPORTING"})
    BY DEF HandleSetup
  <2>2. (IF role = "keyboard" THEN FeatureSteps ELSE FeatureSteps \ {"CID_REPORTING"})
          \in SUBSET Steps
    BY StepsLemma
  <2> QED BY <2>1, <2>2, AskingLemma DEF TypeOK, Bag, Asking, AskingIn
<1>4. /\ pending' \subseteq pending
      /\ NT \in pending => NT \in pending'
      /\ NM \in pending \ pending' => ~Head(requests).name
  BY DEF HandleSetup, NT, NM
<1>5. ASSUME OneNameTask, NM \in pending \ pending'
      PROVE  (Named => name \/ FeatureIndex[NT] = 0) /\ ~AskingIn(running', NM)
  <2>1. name
    BY <1>2, <1>4, <1>5 DEF NameInv
  <2>2. ~Asking(NM)
    BY <1>1, <1>5, OneNameLemma
  <2> QED BY <1>3, <2>1, <2>2
<1> QED BY <1>1, <1>2, <1>3, <1>4, <1>5, NameFrame

\* The steps of a task that change neither what is known nor the requests.
LEMMA MoveName ==
  ASSUME TypeOK, NameInv, NEW s \in Steps, NEW from \in Phases, NEW to \in Phases,
         from # to, running[s][from] > 0, running' = Moved(s, from, to),
         s # NM \/ (to # "asking" /\ pending' = pending),
         pending' = pending \/ (pending' = pending \ {s} /\ s # NT),
         UNCHANGED <<features, name, announced, requests, losses>>
  PROVE  NameInv'
<1>1. s # NM \/ to # "asking"
  OBVIOUS
<1>2. AskingIn(running', NM) => Asking(NM)
  BY <1>1, AskingLemma DEF TypeOK, Bag, Asking, AskingIn
<1>3. pending' \subseteq pending /\ pending \ pending' \subseteq Steps \ {NT, NM}
  BY DEF NT, NM
<1> QED BY <1>2, <1>3, NameIdle

LEMMA TaskName ==
  ASSUME TypeOK, LoadInv, NameInv, NEW s \in Steps, TaskStep(s)
  PROVE  NameInv'
<1> USE DEF deviceVars, objectVars, topicVars, taskVars
<1>1. CASE AlreadyDone(s)
  BY <1>1, MoveName DEF AlreadyDone, Phases
<1>2. CASE Shortcut(s)
  <2>1. running[s]["started"] > 0 /\ Dependents(s) \in SUBSET Steps
        /\ running' = StartAll(Moved(s, "started", "ending"), Dependents(s))
        /\ UNCHANGED <<features, name, announced, requests, losses, pending>>
    BY <1>2, StepsLemma DEF Shortcut, TypeOK
  <2>2. Moved(s, "started", "ending") \in Bag
        /\ (AskingIn(Moved(s, "started", "ending"), NM) => AskingIn(running, NM))
    BY <2>1, MovedLemma, AskingLemma DEF TypeOK, Bag, Phases
  <2>3. AskingIn(running', NM) => Asking(NM)
    BY <2>1, <2>2, AskingLemma DEF Asking, AskingIn
  <2> QED BY <2>1, <2>3, NameIdle
<1>3. CASE NothingToAsk(s)
  <2>1. s # NT
    <3>1. NT \notin ReadSteps
      BY DEF NT, ReadSteps, ReadersOf, FeatureSteps, Features
    <3> QED BY <1>3, <3>1 DEF NothingToAsk, Known, Missing, NT
  <2>2. CASE s # NM
    BY <1>3, <2>1, <2>2, MoveName DEF NothingToAsk, Phases
  <2>3. CASE s = NM
    <3>1. /\ running[NM]["started"] > 0 /\ running' = Moved(NM, "started", "ending")
          /\ UNCHANGED <<features, name, announced, requests, losses>>
          /\ pending' = pending \/ pending' = pending \ {NM}
          /\ NM \in pending \ pending' => Known(NM) \/ NT \notin pending
          /\ Known(NM) \/ Missing(NM)
      BY <1>3, <2>3 DEF NothingToAsk, FeatureOf, NT, NM
    <3>2. AskingIn(running', NM) => Asking(NM)
      BY <2>3, <3>1, AskingLemma DEF TypeOK, Bag, Asking, AskingIn, Phases
    <3>3. ASSUME OneNameTask, NM \in pending \ pending'
          PROVE  (Named => name \/ FeatureIndex[NT] = 0) /\ ~AskingIn(running', NM)
      <4>1. ~Asking(NM)
        BY <3>1, <3>3, OneNameLemma DEF Asking
      <4>2. CASE Known(NM)
        BY <3>2, <4>1, <4>2 DEF Known, NM
      <4>3. CASE ~Known(NM)
        <5>1. NT \notin pending /\ NT \notin features /\ NT \in FeatureSteps
          BY <3>1, <3>3, <4>3 DEF Missing, FeatureOf, NM, NT, OneNameTask
        <5> QED BY <3>2, <4>1, <5>1 DEF NameInv
      <4> QED BY <4>2, <4>3
    <3>4. NT \in pending => NT \in pending'
      BY <3>1 DEF NT, NM
    <3>5. pending' \subseteq pending
      BY <3>1
    <3> QED BY <3>1, <3>2, <3>3, <3>4, <3>5, NameFrame
  <2> QED BY <2>2, <2>3
<1>4. CASE Ask(s)
  <2>1. /\ running[s]["started"] > 0 /\ running' = Moved(s, "started", "asking")
        /\ UNCHANGED <<features, name, announced, requests, losses, pending>> /\ s \in pending
    BY <1>4 DEF Ask
  <2>2. CASE s # NM
    BY <2>1, <2>2, MoveName DEF Phases
  <2>3. CASE s = NM
    BY <2>1, <2>3, NameFrame
  <2> QED BY <2>2, <2>3
<1>5. CASE FeatureAnswered(s)
  <2>1. /\ s \in FeatureSteps /\ running[s]["asking"] > 0 /\ pending' = pending \ {s}
        /\ features' = IF FeatureIndex[s] # 0 THEN features \union {s} ELSE features
        /\ running' = Moved(s, "asking", "ending")
        /\ UNCHANGED <<name, announced, requests, losses>>
    BY <1>5 DEF FeatureAnswered, Asking
  <2>2. s # NM
    BY <2>1 DEF FeatureSteps, Features, NM
  <2>3. AskingIn(running', NM) => Asking(NM)
    BY <2>1, <2>2, AskingLemma DEF TypeOK, Bag, Asking, AskingIn, Phases
  <2>4. /\ pending' \subseteq pending /\ NM \in pending => NM \in pending'
        /\ features \subseteq features'
        /\ NT \in features' => NT \in features \/ FeatureIndex[NT] # 0
        /\ NT \in pending => NT \in pending' \/ NT \in features' \/ FeatureIndex[NT] = 0
    BY <2>1, <2>2
  <2> QED BY <2>1, <2>3, <2>4, NameFrame
<1>6. CASE Unanswered(s)
  <2>1. /\ running[s]["asking"] > 0 /\ running' = Moved(s, "asking", "ending")
        /\ UNCHANGED <<features, announced, requests, losses, pending>>
        /\ name' = (name /\ s # NM)
    BY <1>6 DEF Unanswered, Asking, NM
  <2>2. AskingIn(running', NM) => Asking(NM)
    BY <2>1, AskingLemma DEF TypeOK, Bag, Asking, AskingIn, Phases
  <2>3. OneNameTask => \/ name => name'
                       \/ NM \in pending' /\ requests' = <<>>
    <3>1. CASE s # NM
      BY <2>1, <3>1
    <3>2. CASE s = NM
      <4>1. Asking(NM)
        BY <2>1, <3>2 DEF Asking
      <4> QED BY <2>1, <4>1, OneNameLemma DEF NameInv
    <3> QED BY <3>1, <3>2
  <2> QED BY <2>1, <2>2, <2>3, NameFrame
<1>7. CASE Succeed(s)
  <2>1. /\ running[s]["ending"] > 0 /\ Dependents(s) \in SUBSET Steps
        /\ running' = StartAll(Ended(s, "ending"), Dependents(s))
        /\ UNCHANGED <<features, name, announced, requests, losses>>
        /\ pending' = pending \ NotForThisRole(s)
    BY <1>7, StepsLemma DEF Succeed, TypeOK
  <2>2. Ended(s, "ending") \in Bag
        /\ (AskingIn(Ended(s, "ending"), NM) => AskingIn(running, NM))
    BY <2>1, EndedLemma, AskingLemma DEF TypeOK, Bag, Phases
  <2>3. AskingIn(running', NM) => Asking(NM)
    BY <2>1, <2>2, AskingLemma DEF Asking, AskingIn
  <2>4. pending' \subseteq pending /\ pending \ pending' \subseteq Steps \ {NT, NM}
    BY <2>1 DEF NotForThisRole, NT, NM, TypeOK
  <2> QED BY <2>1, <2>3, <2>4, NameIdle
<1>8. CASE Fail(s)
  <2>1. /\ running[s]["ending"] > 0 /\ running' = Ended(s, "ending")
        /\ UNCHANGED <<features, name, announced, requests, losses, pending>>
    BY <1>8 DEF Fail
  <2>2. AskingIn(running', NM) => Asking(NM)
    BY <2>1, AskingLemma DEF TypeOK, Bag, Asking, AskingIn
  <2> QED BY <2>1, <2>2, NameIdle
<1> QED BY <1>1, <1>2, <1>3, <1>4, <1>5, <1>6, <1>7, <1>8 DEF TaskStep

LEMMA ReadName ==
  ASSUME TypeOK, LoadInv, NameInv, ReadAnswered
  PROVE  NameInv'
<1> USE DEF deviceVars, topicVars
<1>0. /\ "GET_DEVICE_TYPE" \notin {NT, NM} /\ "GET_DEVICE_FRIENDLY_NAME" \notin {NT, NM}
      /\ "FIND_ES_CIDS_FLAGS" \notin {NT, NM} /\ NM # NT
  BY DEF NT, NM
<1>1. CASE TypeAnswered
  BY <1>0, <1>1, MoveName DEF TypeAnswered, Asking, Phases
<1>2. CASE TypeRefused
  BY <1>0, <1>2, MoveName DEF TypeRefused, Asking, Phases
<1>3. CASE NameAnswered
  <2>1. /\ NM \in Steps /\ running[NM]["asking"] > 0 /\ running' = Moved(NM, "asking", "ending")
        /\ name' = (name \/ Named) /\ pending' = pending \ {NM}
        /\ UNCHANGED <<features, announced, requests, losses>>
    BY <1>3 DEF NameAnswered, Asking, NM
  <2>2. OneNameTask => ~AskingIn(running', NM)
    <3>1. OneNameTask => running[NM]["asking"] = 1
      BY <2>1, OneNameLemma DEF Asking
    <3> QED BY <2>1, <3>1, AskingLemma DEF TypeOK, Bag, Phases
  <2>3. AskingIn(running', NM) => Asking(NM)
    BY <2>1 DEF Asking
  <2>4. pending' \subseteq pending /\ (NT \in pending => NT \in pending')
    BY <1>0, <2>1
  <2> QED BY <2>1, <2>2, <2>3, <2>4, NameFrame
<1>4. CASE FriendlyAnswered
  BY <1>0, <1>4, MoveName DEF FriendlyAnswered, Asking, Phases
<1>5. CASE KeysAnswered
  BY <1>0, <1>5, MoveName DEF KeysAnswered, Asking, Phases
<1> QED BY <1>1, <1>2, <1>3, <1>4, <1>5 DEF ReadAnswered

LEMMA NextName == TypeOK /\ LoadInv /\ NameInv /\ [Next]_vars => NameInv'
<1> SUFFICES ASSUME TypeOK, LoadInv, NameInv, [Next]_vars PROVE NameInv'
  OBVIOUS
<1> USE DEF deviceVars, objectVars, topicVars, taskVars
<1>1. CASE HandleSuccess
  <2>1. /\ UNCHANGED <<features, name, requests, losses, pending, running>>
        /\ announced' => announced \/ pending = {}
    BY <1>1 DEF HandleSuccess
  <2> QED BY <2>1, NameFrame DEF Asking, AskingIn
<1>2. ASSUME NEW s \in Steps, Retry(s) \/ GiveUp(s) \/ LeaveFailure(s) PROVE NameInv'
  <2>1. UNCHANGED <<features, name, announced, requests, losses, pending>>
    BY <1>2 DEF Retry, GiveUp, LeaveFailure
  <2>2. AskingIn(running', NM) => Asking(NM)
    <3>1. CASE Retry(s)
      <4>1. running' = StartAll(running, {s}) /\ running \in Bag /\ {s} \in SUBSET Steps
        BY <3>1 DEF Retry, TypeOK, Bag
      <4> QED BY <4>1, AskingLemma DEF Asking, AskingIn
    <3>2. CASE GiveUp(s) \/ LeaveFailure(s)
      BY <3>2 DEF GiveUp, LeaveFailure, Asking, AskingIn
    <3> QED BY <1>2, <3>1, <3>2
  <2> QED BY <2>1, <2>2, NameIdle
<1>3. CASE ResetBudget \/ SetReportFlag
  <2>1. UNCHANGED <<features, name, announced, requests, losses, pending, running>>
    BY <1>3 DEF ResetBudget, SetReportFlag
  <2> QED BY <2>1, NameIdle DEF Asking, AskingIn
<1>4. CASE UNCHANGED vars
  <2>1. UNCHANGED <<features, name, announced, requests, losses, pending, running>>
    BY <1>4 DEF vars
  <2> QED BY <2>1, NameIdle DEF Asking, AskingIn
<1> QED BY <1>1, <1>2, <1>3, <1>4, ReportName, SetupName, TaskName, ReadName
    DEF Next, HandleProgress

LEMMA InitName == Init => NameInv
<1> SUFFICES ASSUME Init PROVE NameInv
  OBVIOUS
<1>1. ~announced /\ requests = <<>> /\ ~Asking(NM)
  BY DEF Init, Asking, Phases
<1>2. CASE cached
  <2>1. Restored
    BY <1>2 DEF Init
  <2>2. NT # "CID_REPORTING" /\ NM # "GET_DEVICE_FRIENDLY_NAME"
    BY DEF NT, NM
  <2>3. /\ NT \in features => NT \in Supported
        /\ NT \in Supported \ pending => NT \in features
    BY <2>1, <2>2 DEF Restored
  <2>4. NT \in Supported <=> NT \in FeatureSteps /\ FeatureIndex[NT] # 0
    BY DEF Supported
  <2>5. NM \notin pending => name = (Named /\ NT \in features)
    BY <2>1 DEF Restored, StoredOr, NT, NM
  <2>6. OneNameTask /\ NM \notin pending => NT \notin pending
    <3>1. OneNameTask => NM \in Steps /\ FeatureOf(NM) = NT
      BY DEF OneNameTask, Steps, ReadSteps, ReadersOf, FeatureOf, NT, NM
    <3> QED BY <2>1, <3>1 DEF Restored, NM
  <2>7. OneNameTask => (Named /\ NM \notin pending => name \/ FeatureIndex[NT] = 0)
    BY <2>3, <2>4, <2>5, <2>6 DEF OneNameTask
  <2> QED BY <1>1, <2>3, <2>4, <2>7 DEF NameInv
<1>3. CASE ~cached
  <2>1. features = {} /\ pending = Steps
    BY <1>3 DEF Init, Fresh
  <2>2. NT \in FeatureSteps => NT \in Steps /\ NM \in Steps
    BY DEF NT, NM, Steps, ReadSteps, ReadersOf
  <2> QED BY <1>1, <2>1, <2>2 DEF NameInv, OneNameTask
<1> QED BY <1>2, <1>3

\* A device that is announced and kept its link has its name, if it has one.
THEOREM NameIsKnown == Spec => []AnnouncedHasName
<1>1. TypeOK /\ NameInv => AnnouncedHasName
  BY DEF TypeOK, NameInv, AnnouncedHasName, OneNameTask, NT, NM
<1>2. Init => TypeOK /\ LoadInv /\ NameInv
  BY InitType, InitLoad, InitName
<1>3. (TypeOK /\ LoadInv /\ NameInv) /\ [Next]_vars => (TypeOK /\ LoadInv /\ NameInv)'
  BY NextType, NextLoad, NextName
<1> QED BY <1>1, <1>2, <1>3, PTL DEF Spec
=============================================================================
