------------------------- MODULE TaskExchangeProofs -------------------------
(***************************************************************************)
(* What the tasks make of the answers they get, for every number of task   *)
(* threads, every length of the name and every number of troubles.         *)
(***************************************************************************)
EXTENDS TaskExchange, SequenceTheorems, FiniteSetTheorems, TLAPS

\* The parts of TypeOK, and what makes it inductive: who reads has something
\* left to read, and who has not begun or has ended has read nothing.
Named == {"count", "piece"}
Phases == {"idle", "fresh", "counting", "reading", "asking", "leaving"}
DeviceTypes == device \in [supports : BOOLEAN, nameLen : NameLens]
RecordTypes ==
  /\ pending \subseteq Steps
  /\ name \in {"none", "right", "wrong"} /\ verdict \in {"unknown", "present", "absent"}
  /\ failures \in Seq(Steps) /\ troubles \in 0..MaxTroubles
TaskTypes ==
  /\ phase \in [Workers -> Phases] /\ step \in [Workers -> Steps]
  /\ length \in [Workers -> 0..Overlong] /\ chars \in [Workers -> 0..Overlong]
  /\ \A w \in Workers : chars[w] <= length[w]
MessageTypes == inbox \in [Workers -> Seq(Answers)] /\ requests \in Seq(Requests)
Flags == good \in [Workers -> BOOLEAN] /\ mixed \in BOOLEAN /\ crossed \in BOOLEAN

PhaseInv ==
  \A w \in Workers :
    /\ phase[w] \in {"idle", "fresh", "counting"} => chars[w] = 0
    /\ phase[w] = "reading" => chars[w] < length[w]
    /\ phase[w] \in {"counting", "reading"} => step[w] = "name"
    /\ phase[w] = "asking" => step[w] = "feature"
    /\ phase[w] = "idle" => inbox[w] = <<>> /\ good[w]

LEMMA TypeParts == TypeOK <=> DeviceTypes /\ RecordTypes /\ TaskTypes /\ MessageTypes /\ Flags
BY DEF TypeOK, DeviceTypes, RecordTypes, TaskTypes, MessageTypes, Flags, Phases

----------------------------------------------------------------------------
USE DEF recordVars, taskVars

LEMMA FirstByteType == ASSUME DeviceTypes, NEW a \in Answers PROVE FirstByte(a) \in 0..Overlong
<1>1. device.nameLen \in Nat /\ device.nameLen < Overlong /\ Overlong \in Nat
  BY LengthAssumption, OverlongAssumption DEF DeviceTypes
<1>2. a.what \in {"count", "piece", "root", "keys"}
  BY DEF Answers
<1> QED BY <1>1, <1>2 DEF FirstByte

LEMMA AskType == \A what \in {"count", "piece", "root", "keys"}, at \in 0..Overlong :
                   Ask(what, at) \in Requests /\ Ask(what, at).what = what /\ Ask(what, at).at = at
BY DEF Ask, Requests

LEMMA AnswerType ==
  ASSUME NEW r \in Requests, NEW own \in BOOLEAN, NEW error \in BOOLEAN
  PROVE  /\ Answer(r, own, error) \in Answers /\ Answer(r, own, error).what = r.what
         /\ Answer(r, own, error).at = r.at
         /\ (own => Answer(r, own, error).own) /\ (Answer(r, own, error).own => own)
BY DEF Answer, Answers, Requests

LEMMA ZeroType == 0 \in 0..Overlong /\ Overlong \in Nat
BY OverlongAssumption

LEMMA SameDevice == [Next]_vars => device' = device
BY DEF Next, vars, Retry, SetUpAgain, WriteKey, Reply, Lose, OtherAnswers, Begin, Take, TimeOutOnLoss,
       TimeOutEarly, GiveUp, Leave

LEMMA InitTypes == Init => TypeOK /\ PhaseInv
<1> SUFFICES ASSUME Init PROVE TypeOK /\ PhaseInv
  OBVIOUS
<1>1. DeviceTypes BY DEF Init, DeviceTypes
<1>2. RecordTypes BY WorkerAssumption, BoundsAssumption DEF Init, RecordTypes, Steps
<1>3. TaskTypes BY ZeroType DEF Init, TaskTypes, Phases, Steps
<1>4. MessageTypes BY DEF Init, MessageTypes
<1>5. Flags BY DEF Init, Flags
<1>6. PhaseInv
  <2> SUFFICES ASSUME NEW w \in Workers
               PROVE  phase[w] \in {"idle", "fresh"} /\ chars[w] = 0 /\ inbox[w] = <<>> /\ good[w]
    BY DEF PhaseInv
  <2> QED BY DEF Init
<1> QED BY <1>1, <1>2, <1>3, <1>4, <1>5, <1>6, TypeParts

\* Taking an answer, by what it is taken for.
LEMMA TakeCases ==
  ASSUME NEW w \in Workers, Take(w)
  PROVE  /\ w \in Waiting /\ inbox[w] # <<>> /\ inbox' = [inbox EXCEPT ![w] = Tail(@)]
         /\ UNCHANGED <<step, failures, troubles, mixed, crossed>>
         /\ \/ Refused(w) /\ UNCHANGED <<verdict, length, chars, good, requests>>
            \/ phase[w] = "counting" /\ TakeCount(w, Head(inbox[w]))
            \/ phase[w] = "reading" /\ TakePiece(w, Head(inbox[w]))
            \/ phase[w] = "asking" /\ TakeIndex(w, Head(inbox[w]))
<1>1. phase[w] \in {"counting", "reading", "asking"}
  BY DEF Take, Waiting
<1>2. CASE Head(inbox[w]).error BY <1>2 DEF Take
<1>3. CASE ~Head(inbox[w]).error
  <2>1. CASE phase[w] = "counting" BY <1>3, <2>1 DEF Take
  <2>2. CASE phase[w] = "reading" BY <1>3, <2>2 DEF Take
  <2>3. CASE phase[w] = "asking" BY <1>3, <2>3 DEF Take
  <2> QED BY <1>1, <2>1, <2>2, <2>3
<1> QED BY <1>2, <1>3

LEMMA NextRecordTypes == TypeOK /\ [Next]_vars => RecordTypes'
<1> SUFFICES ASSUME RecordTypes, TaskTypes, [Next]_vars PROVE RecordTypes'
  BY TypeParts
<1> USE BoundsAssumption DEF RecordTypes, TaskTypes, Trouble
<1>1. CASE Retry BY <1>1 DEF Retry
<1>2. ASSUME NEW s \in Steps, SetUpAgain(s) PROVE RecordTypes'
  BY <1>2 DEF SetUpAgain
<1>3. CASE WriteKey BY <1>3 DEF WriteKey
<1>4. CASE Reply
  <2>1. UNCHANGED troubles \/ Trouble
    BY <1>4 DEF Reply
  <2> QED BY <1>4, <2>1 DEF Reply
<1>5. CASE Lose BY <1>5 DEF Lose
<1>6. CASE OtherAnswers BY <1>6 DEF OtherAnswers
<1>7. ASSUME NEW w \in Workers, Begin(w) PROVE RecordTypes'
  BY <1>7 DEF Begin
<1>8. ASSUME NEW w \in Workers, Take(w) PROVE RecordTypes'
  <2>1. UNCHANGED <<failures, troubles>>
    BY <1>8, TakeCases
  <2> QED BY <1>8, <2>1, TakeCases DEF Refused, TakeCount, TakePiece, TakeIndex
<1>9. ASSUME NEW w \in Workers, GiveUp(w), UNCHANGED troubles \/ Trouble PROVE RecordTypes'
  BY <1>9 DEF GiveUp, Refused
<1>10. ASSUME NEW w \in Workers, Leave(w) PROVE RecordTypes'
  <2>1. step[w] \in Steps /\ UNCHANGED <<pending, name, verdict, troubles>>
    BY <1>10 DEF Leave
  <2>2. failures' = failures \/ failures' = Append(failures, step[w])
    BY <1>10 DEF Leave, Report
  <2>3. \A t \in Steps : Append(failures, t) \in Seq(Steps)
    OBVIOUS
  <2> QED BY <2>1, <2>2, <2>3
<1>11. CASE UNCHANGED vars BY <1>11 DEF vars
<1> QED BY <1>1, <1>2, <1>3, <1>4, <1>5, <1>6, <1>7, <1>8, <1>9, <1>10, <1>11
     DEF Next, TimeOutOnLoss, TimeOutEarly

LEMMA NextTaskTypes == TypeOK /\ PhaseInv /\ [Next]_vars => TaskTypes' /\ PhaseInv'
<1> SUFFICES ASSUME TypeOK, PhaseInv, [Next]_vars PROVE TaskTypes' /\ PhaseInv'
  OBVIOUS
<1> USE TypeParts, ZeroType DEF TaskTypes, PhaseInv, RecordTypes, Phases, Steps
<1>1. ASSUME NEW s \in Steps, Start(s) PROVE TaskTypes' /\ PhaseInv'
  <2>1. PICK w \in Workers : /\ phase[w] = "idle" /\ phase' = [phase EXCEPT ![w] = "fresh"]
                             /\ step' = [step EXCEPT ![w] = s]
    BY <1>1 DEF Start, Busy
  <2>2. UNCHANGED <<inbox, length, chars, good>>
    BY <1>1 DEF Start
  <2> QED BY <2>1, <2>2
<1>2. CASE Retry
  <2>1. Head(failures) \in Steps /\ Start(Head(failures))
    BY <1>2 DEF Retry
  <2> QED BY <1>1, <2>1
<1>3. ASSUME NEW s \in Steps, SetUpAgain(s) PROVE TaskTypes' /\ PhaseInv'
  BY <1>1, <1>3 DEF SetUpAgain
<1>4. CASE UNCHANGED <<phase, step, length, chars, good, inbox>>
  BY <1>4
<1>5. CASE Reply \/ OtherAnswers
  <2>1. UNCHANGED <<phase, step, length, chars, good>>
    BY <1>5 DEF Reply, OtherAnswers
  <2>2. PICK a : Deliver(a)
    BY <1>5 DEF Reply, OtherAnswers
  <2>3. \A w \in Workers : phase[w] = "idle" => inbox'[w] = inbox[w]
    BY <2>2 DEF Deliver, Busy
  <2> QED BY <2>1, <2>3
<1>6. ASSUME NEW w \in Workers, Begin(w) PROVE TaskTypes' /\ PhaseInv'
  <2>1. /\ phase[w] = "fresh" /\ UNCHANGED <<step, inbox, length, chars, good>>
        /\ \/ phase' = [phase EXCEPT ![w] = "leaving"]
           \/ step[w] = "name" /\ phase' = [phase EXCEPT ![w] = "counting"]
           \/ step[w] = "feature" /\ phase' = [phase EXCEPT ![w] = "asking"]
    BY <1>6 DEF Begin, Goto
  <2> QED BY <2>1
<1>7. ASSUME NEW w \in Workers, Take(w) PROVE TaskTypes' /\ PhaseInv'
  <2>1. inbox' = [inbox EXCEPT ![w] = Tail(@)] /\ UNCHANGED step
    BY <1>7, TakeCases
  <2>2. CASE Refused(w) /\ UNCHANGED <<verdict, length, chars, good, requests>>
    BY <2>1, <2>2 DEF Refused, Goto, MessageTypes
  <2>3. CASE phase[w] = "counting" /\ TakeCount(w, Head(inbox[w]))
    <3>1. FirstByte(Head(inbox[w])) \in 0..Overlong
      <4>1. Head(inbox[w]) \in Answers
        BY <1>7, TakeCases DEF MessageTypes
      <4> QED BY <4>1, FirstByteType
    <3>2. /\ length' = [length EXCEPT ![w] = FirstByte(Head(inbox[w]))] /\ UNCHANGED <<chars, good>>
          /\ \/ phase' = [phase EXCEPT ![w] = "leaving"]
             \/ FirstByte(Head(inbox[w])) # 0 /\ phase' = [phase EXCEPT ![w] = "reading"]
      BY <2>3 DEF TakeCount, Goto
    <3>3. chars'[w] = 0 /\ length'[w] \in 0..Overlong /\ (phase'[w] = "reading" => 0 < length'[w])
      BY <2>3, <3>1, <3>2
    <3>4. \A v \in Workers \ {w} : /\ phase'[v] = phase[v] /\ length'[v] = length[v]
                                   /\ inbox'[v] = inbox[v]
      BY <2>1, <3>2 DEF MessageTypes
    <3>5. phase'[w] \in {"leaving", "reading"} /\ step[w] = "name"
      BY <2>3, <3>2
    <3>6. phase' \in [Workers -> Phases] /\ length' \in [Workers -> 0..Overlong]
      BY <3>1, <3>2
    <3>7. TaskTypes'
      BY <2>1, <3>2, <3>3, <3>4, <3>6
    <3> QED BY <2>1, <3>2, <3>3, <3>4, <3>5, <3>7
  <2>4. CASE phase[w] = "reading" /\ TakePiece(w, Head(inbox[w]))
    <3>1. /\ chars' = [chars EXCEPT ![w] = chars[w] + 1] /\ UNCHANGED length
          /\ good' = [good EXCEPT ![w] = good'[w]]
          /\ \/ phase' = [phase EXCEPT ![w] = "leaving"]
             \/ chars[w] + 1 # length[w] /\ UNCHANGED phase
      BY <2>4 DEF TakePiece, Goto, Flags
    <3>2. chars[w] + 1 \in 0..Overlong /\ chars[w] + 1 <= length[w] /\ step[w] = "name"
      BY <2>4
    <3>3. \A v \in Workers \ {w} : /\ phase'[v] = phase[v] /\ chars'[v] = chars[v]
                                   /\ inbox'[v] = inbox[v] /\ good'[v] = good[v]
      <4>1. \A v \in Workers \ {w} : good'[v] = good[v]
        BY <3>1 DEF Flags
      <4> QED BY <2>1, <3>1, <4>1 DEF MessageTypes
    <3>4. /\ phase'[w] = "leaving" \/ (phase'[w] = "reading" /\ chars'[w] < length[w])
          /\ chars'[w] <= length[w]
      BY <2>4, <3>1, <3>2
    <3>5. phase' \in [Workers -> Phases] /\ chars' \in [Workers -> 0..Overlong]
      BY <3>1, <3>2
    <3>6. TaskTypes'
      BY <2>1, <3>1, <3>3, <3>4, <3>5
    <3> QED BY <2>1, <3>1, <3>2, <3>3, <3>4, <3>6
  <2>5. CASE phase[w] = "asking" /\ TakeIndex(w, Head(inbox[w]))
    <3>1. phase' = [phase EXCEPT ![w] = "leaving"] /\ UNCHANGED <<length, chars, good>>
      BY <2>5 DEF TakeIndex, Goto
    <3> QED BY <2>1, <2>5, <3>1 DEF MessageTypes
  <2> QED BY <1>7, <2>2, <2>3, <2>4, <2>5, TakeCases
<1>8. ASSUME NEW w \in Workers, GiveUp(w) PROVE TaskTypes' /\ PhaseInv'
  BY <1>8 DEF GiveUp, Refused, Goto
<1>9. ASSUME NEW w \in Workers, Leave(w) PROVE TaskTypes' /\ PhaseInv'
  BY <1>9 DEF Leave, Forget, Goto, MessageTypes, Flags
<1>10. CASE WriteKey \/ Lose \/ UNCHANGED vars
  BY <1>4, <1>10 DEF WriteKey, Lose, vars
<1> QED BY <1>2, <1>3, <1>5, <1>6, <1>7, <1>8, <1>9, <1>10 DEF Next, TimeOutOnLoss, TimeOutEarly

\* What is delivered: an answer of the device to the first request, or one of
\* another device, which is not its own.
LEMMA Delivered ==
  ASSUME MessageTypes, Reply \/ OtherAnswers
  PROVE  \E a \in Answers :
           /\ Deliver(a)
           /\ \/ /\ requests # <<>> /\ requests' = Tail(requests) /\ Head(requests) \in Requests
                 /\ a.what = Head(requests).what /\ a.at = Head(requests).at
              \/ ~a.own /\ UNCHANGED requests
<1>1. CASE Reply
  <2>1. requests # <<>> /\ requests' = Tail(requests) /\ Head(requests) \in Requests
    BY <1>1 DEF Reply, MessageTypes
  <2>2. \E e \in BOOLEAN : Deliver(Answer(Head(requests), TRUE, e))
    BY <1>1 DEF Reply
  <2> QED BY <2>1, <2>2, AnswerType
<1>2. CASE OtherAnswers
  <2>1. PICK what \in {"count", "root"} : Deliver(Answer(Ask(what, 0), FALSE, FALSE))
    BY <1>2 DEF OtherAnswers
  <2>2. Answer(Ask(what, 0), FALSE, FALSE) \in Answers /\ ~Answer(Ask(what, 0), FALSE, FALSE).own
    BY AskType, AnswerType, ZeroType
  <2> QED BY <1>2, <2>1, <2>2 DEF OtherAnswers
<1> QED BY <1>1, <1>2

LEMMA NextMessageTypes == TypeOK /\ PhaseInv /\ [Next]_vars => MessageTypes'
<1> SUFFICES ASSUME TypeOK, PhaseInv, [Next]_vars PROVE MessageTypes'
  OBVIOUS
<1> USE TypeParts, ZeroType, AskType DEF MessageTypes
<1>1. CASE UNCHANGED <<inbox, requests>>
  BY <1>1
<1>2. CASE WriteKey
  <2>1. Ask("keys", 0) \in Requests
    OBVIOUS
  <2> QED BY <1>2, <2>1 DEF WriteKey
<1>3. CASE Reply \/ OtherAnswers
  <2>1. PICK a \in Answers : Deliver(a)
    BY <1>3, Delivered
  <2>2. inbox' \in [Workers -> Seq(Answers)]
    BY <2>1 DEF Deliver
  <2>3. UNCHANGED requests \/ (requests # <<>> /\ requests' = Tail(requests))
    BY <1>3 DEF Reply, OtherAnswers
  <2>4. requests # <<>> => Tail(requests) \in Seq(Requests)
    OBVIOUS
  <2> QED BY <2>2, <2>3, <2>4
<1>4. CASE Lose
  BY <1>4 DEF Lose
<1>5. ASSUME NEW w \in Workers, Begin(w) PROVE MessageTypes'
  <2>1. UNCHANGED inbox /\ \/ UNCHANGED requests
                           \/ requests' = Append(requests, Ask("count", 0))
                           \/ requests' = Append(requests, Ask("root", 0))
    BY <1>5 DEF Begin, Send
  <2>2. Ask("count", 0) \in Requests /\ Ask("root", 0) \in Requests
    OBVIOUS
  <2>3. /\ requests \in Seq(Requests)
        /\ Append(requests, Ask("count", 0)) \in Seq(Requests)
        /\ Append(requests, Ask("root", 0)) \in Seq(Requests)
    BY <2>2
  <2>4. requests' \in Seq(Requests)
    BY ONLY <2>1, <2>3
  <2> QED BY <2>1, <2>4
<1>6. ASSUME NEW w \in Workers, Take(w) PROVE MessageTypes'
  <2>1. inbox' \in [Workers -> Seq(Answers)]
    <3>1. inbox[w] # <<>> /\ inbox' = [inbox EXCEPT ![w] = Tail(inbox[w])]
      BY <1>6, TakeCases
    <3>2. Tail(inbox[w]) \in Seq(Answers)
      BY <3>1
    <3> QED BY <3>1, <3>2
  <2>2. requests' \in Seq(Requests)
    <3>1. CASE UNCHANGED requests BY <3>1
    <3>2. CASE phase[w] = "counting" /\ TakeCount(w, Head(inbox[w]))
      <4>1. UNCHANGED requests \/ requests' = Append(requests, Ask("piece", 0))
        BY <3>2 DEF TakeCount, Send
      <4>2. Ask("piece", 0) \in Requests
        OBVIOUS
      <4> QED BY <4>1, <4>2
    <3>3. CASE phase[w] = "reading" /\ TakePiece(w, Head(inbox[w]))
      <4>1. UNCHANGED requests \/ requests' = Append(requests, Ask("piece", chars[w] + 1))
        BY <3>3 DEF TakePiece, Send
      <4>2. chars[w] + 1 \in 0..Overlong
        BY <3>3 DEF PhaseInv, TaskTypes
      <4>3. Ask("piece", chars[w] + 1) \in Requests
        BY <4>2
      <4> QED BY <4>1, <4>3
    <3> QED BY <1>6, <3>1, <3>2, <3>3, TakeCases DEF TakeIndex
  <2> QED BY <2>1, <2>2
<1>7. ASSUME NEW w \in Workers, Leave(w) PROVE MessageTypes'
  BY <1>7 DEF Leave, Forget
<1> QED BY <1>1, <1>2, <1>3, <1>4, <1>5, <1>6, <1>7
     DEF Next, vars, Retry, SetUpAgain, Start, TimeOutOnLoss, TimeOutEarly, GiveUp

LEMMA NextFlags == TypeOK /\ [Next]_vars => Flags'
<1> SUFFICES ASSUME Flags, [Next]_vars PROVE Flags'
  BY TypeParts
<1>1. good' \in [Workers -> BOOLEAN]
  <2>1. CASE UNCHANGED good BY <2>1 DEF Flags
  <2>2. ASSUME NEW w \in Workers, Take(w), good' # good PROVE good' \in [Workers -> BOOLEAN]
    <3>1. \E b \in BOOLEAN : good' = [good EXCEPT ![w] = b]
      BY <2>2, TakeCases DEF TakeCount, TakePiece, TakeIndex
    <3> QED BY <3>1 DEF Flags
  <2>3. ASSUME NEW w \in Workers, Leave(w) PROVE good' \in [Workers -> BOOLEAN]
    BY <2>3 DEF Leave, Forget, Flags
  <2> QED BY <2>1, <2>2, <2>3 DEF Next, vars, Retry, SetUpAgain, Start, WriteKey, Reply, Lose, OtherAnswers,
             Begin, TimeOutOnLoss, TimeOutEarly, GiveUp
<1>2. mixed' \in BOOLEAN
  <2>1. CASE UNCHANGED mixed BY <2>1 DEF Flags
  <2>2. ASSUME NEW s, Start(s) PROVE mixed' \in BOOLEAN
    BY <2>2 DEF Start
  <2> QED BY <2>1, <2>2, TakeCases DEF Next, vars, Retry, SetUpAgain, WriteKey, Reply, Lose, OtherAnswers,
             Begin, TimeOutOnLoss, TimeOutEarly, GiveUp, Leave
<1>3. crossed' \in BOOLEAN
  <2>1. CASE UNCHANGED crossed BY <2>1 DEF Flags
  <2>2. ASSUME NEW a, Deliver(a) PROVE crossed' \in BOOLEAN
    BY <2>2 DEF Deliver
  <2> QED BY <2>1, <2>2, TakeCases DEF Next, vars, Retry, SetUpAgain, WriteKey, Reply, Lose, OtherAnswers,
             Begin, TimeOutOnLoss, TimeOutEarly, GiveUp, Leave
<1> QED BY <1>1, <1>2, <1>3 DEF Flags

LEMMA NextTypes == TypeOK /\ PhaseInv /\ [Next]_vars => TypeOK' /\ PhaseInv'
<1>1. TypeOK' <=> DeviceTypes' /\ RecordTypes' /\ TaskTypes' /\ MessageTypes' /\ Flags'
  BY DEF TypeOK, DeviceTypes, RecordTypes, TaskTypes, MessageTypes, Flags, Phases
<1>2. TypeOK /\ [Next]_vars => DeviceTypes'
  BY SameDevice, TypeParts DEF DeviceTypes
<1> QED BY <1>1, <1>2, NextRecordTypes, NextTaskTypes, NextMessageTypes, NextFlags

----------------------------------------------------------------------------
\* What a task has in its queue is the device's and answers a question of its
\* kind; only a key setting answers a feature task beside its question.
OfKind(box, s) == \A i \in 1..Len(box) : box[i].own /\ SwId(box[i].what) = TaskSwId(s)
NoKeys(box) == \A i \in 1..Len(box) : box[i].what # "keys"

FeatureInv ==
  /\ FeatureIsTrue
  /\ \A w \in Workers : OfKind(inbox[w], step[w]) /\ (~crossed => NoKeys(inbox[w]))

LEMMA EmptyBox == \A s : OfKind(<<>>, s) /\ NoKeys(<<>>)
BY DEF OfKind, NoKeys

LEMMA BoxTail ==
  ASSUME NEW box \in Seq(Answers), box # <<>>, NEW s
  PROVE  /\ OfKind(box, s) => OfKind(Tail(box), s) /\ Head(box).own /\ SwId(Head(box).what) = TaskSwId(s)
         /\ NoKeys(box) => NoKeys(Tail(box)) /\ Head(box).what # "keys"
<1>1. Len(box) \in Nat /\ Len(box) > 0 /\ Len(Tail(box)) = Len(box) - 1 /\ Head(box) = box[1]
  OBVIOUS
<1>2. \A i \in 1..Len(Tail(box)) : i + 1 \in 1..Len(box) /\ Tail(box)[i] = box[i + 1]
  BY <1>1
<1> QED BY <1>1, <1>2 DEF OfKind, NoKeys

LEMMA BoxAppend ==
  ASSUME NEW box \in Seq(Answers), NEW a \in Answers, NEW s
  PROVE  /\ OfKind(box, s) /\ a.own /\ SwId(a.what) = TaskSwId(s) => OfKind(Append(box, a), s)
         /\ NoKeys(box) /\ a.what # "keys" => NoKeys(Append(box, a))
<1>1. Len(Append(box, a)) = Len(box) + 1 /\ Append(box, a)[Len(box) + 1] = a
  OBVIOUS
<1>2. \A i \in 1..Len(Append(box, a)) : i # Len(box) + 1 => i \in 1..Len(box) /\ Append(box, a)[i] = box[i]
  BY <1>1
<1> QED BY <1>1, <1>2 DEF OfKind, NoKeys

LEMMA InitFeatureInv == Init => FeatureInv
<1> SUFFICES ASSUME Init PROVE FeatureInv
  OBVIOUS
<1>1. FeatureIsTrue BY DEF Init, FeatureIsTrue
<1>2. \A w \in Workers : inbox[w] = <<>> BY DEF Init
<1> QED BY <1>1, <1>2, EmptyBox DEF FeatureInv

LEMMA NextFeatureInv == TypeOK /\ PhaseInv /\ FeatureInv /\ [Next]_vars => FeatureInv'
<1> SUFFICES ASSUME TypeOK, PhaseInv, FeatureInv, [Next]_vars PROVE FeatureInv'
  OBVIOUS
<1> USE TypeParts
<1> DEFINE Boxes == \A w \in Workers : OfKind(inbox[w], step[w]) /\ (~crossed => NoKeys(inbox[w]))
<1>1. device' = device BY SameDevice
<1>2. Boxes'
  <2>1. CASE UNCHANGED <<inbox, step, crossed>> BY <2>1 DEF FeatureInv
  <2>2. ASSUME NEW s \in Steps, Start(s), UNCHANGED crossed PROVE Boxes'
    <3>1. PICK w \in Workers : phase[w] = "idle" /\ step' = [step EXCEPT ![w] = s]
      BY <2>2 DEF Start, Busy
    <3>2. inbox[w] = <<>> /\ UNCHANGED inbox
      BY <2>2, <3>1 DEF PhaseInv, Start
    <3> QED BY <2>2, <3>1, <3>2, EmptyBox DEF FeatureInv, TaskTypes
  <2>3. CASE Reply \/ OtherAnswers
    <3>1. PICK a \in Answers : Deliver(a)
      BY <2>3, Delivered DEF MessageTypes
    <3>2. UNCHANGED step
      BY <2>3 DEF Reply, OtherAnswers
    <3> SUFFICES ASSUME NEW w \in Workers
                 PROVE  OfKind(inbox'[w], step[w]) /\ (~crossed' => NoKeys(inbox'[w]))
      BY <3>2
    <3>3. /\ inbox'[w] = inbox[w]
             \/ (inbox'[w] = Append(inbox[w], a) /\ Matches(w, a) /\ (~crossed' => a.what # "keys"))
          /\ ~crossed' => ~crossed
      BY <3>1 DEF Deliver
    <3> QED BY <3>1, <3>3, BoxAppend DEF FeatureInv, MessageTypes, Matches
  <2>4. ASSUME NEW w \in Workers, Take(w) PROVE Boxes'
    <3>1. inbox[w] # <<>> /\ inbox' = [inbox EXCEPT ![w] = Tail(inbox[w])] /\ UNCHANGED <<step, crossed>>
      BY <2>4, TakeCases
    <3>2. OfKind(Tail(inbox[w]), step[w]) /\ (~crossed => NoKeys(Tail(inbox[w])))
      BY <3>1, BoxTail DEF FeatureInv, MessageTypes
    <3> QED BY <3>1, <3>2 DEF FeatureInv, MessageTypes
  <2>5. ASSUME NEW w \in Workers, Leave(w) PROVE Boxes'
    BY <2>5, EmptyBox DEF Leave, Forget, FeatureInv, MessageTypes, TaskTypes
  <2>6. CASE Retry
    <3>1. Head(failures) \in Steps /\ Start(Head(failures)) /\ UNCHANGED crossed
      BY <2>6 DEF Retry, RecordTypes
    <3> QED BY <2>2, <3>1
  <2> HIDE DEF Boxes
  <2> QED BY <2>1, <2>2, <2>3, <2>4, <2>5, <2>6 DEF Next, vars, SetUpAgain, WriteKey, Lose, Begin,
             TimeOutOnLoss, TimeOutEarly, GiveUp
<1>3. FeatureIsTrue'
  <2>1. ASSUME UNCHANGED verdict, "feature" \in pending => "feature" \in pending', crossed => crossed'
        PROVE  FeatureIsTrue'
    BY <1>1, <2>1 DEF FeatureInv, FeatureIsTrue
  <2>2. ASSUME NEW w \in Workers, Begin(w) PROVE FeatureIsTrue'
    <3>1. pending' = pending \/ (pending' = pending \ {step[w]} /\ (step[w] \notin pending \/ step[w] = "name"))
      BY <2>2 DEF Begin
    <3> QED BY <2>1, <2>2, <3>1 DEF Begin
  <2>3. ASSUME NEW w \in Workers, Take(w) PROVE FeatureIsTrue'
    <3>1. inbox[w] # <<>> /\ UNCHANGED crossed
      BY <2>3, TakeCases
    <3>2. CASE phase[w] = "asking" /\ TakeIndex(w, Head(inbox[w]))
      <4>1. Head(inbox[w]).what \in {"root", "keys"} /\ (~crossed => Head(inbox[w]).what # "keys")
        <5>1. Head(inbox[w]) \in Answers /\ step[w] = "feature"
          BY <3>1, <3>2 DEF MessageTypes, PhaseInv
        <5>2. SwId(Head(inbox[w]).what) = 14 /\ (~crossed => Head(inbox[w]).what # "keys")
          BY <3>1, <5>1, BoxTail DEF FeatureInv, MessageTypes, TaskSwId
        <5>3. Head(inbox[w]).what \in {"count", "piece", "root", "keys"}
          BY <5>1 DEF Answers
        <5> QED BY <5>2, <5>3 DEF SwId
      <4>2. FirstByte(Head(inbox[w])) = IF Head(inbox[w]).what = "root" /\ device.supports THEN 1 ELSE 0
        BY <4>1 DEF FirstByte
      <4>3. /\ verdict' = "present" => device.supports
            /\ ~crossed /\ device.supports => verdict' = "present"
        BY <3>2, <4>1, <4>2 DEF TakeIndex, FeatureInv, FeatureIsTrue
      <4> QED BY <1>1, <3>1, <4>3 DEF FeatureIsTrue
    <3>3. CASE UNCHANGED verdict /\ ("feature" \in pending => "feature" \in pending')
      BY <2>1, <3>1, <3>3
    <3> QED BY <2>3, <3>2, <3>3, TakeCases DEF Refused, TakeCount, TakePiece
  <2>4. CASE Reply \/ OtherAnswers
    <3>1. crossed => crossed'
      BY <2>4 DEF Reply, OtherAnswers, Deliver
    <3> QED BY <2>1, <2>4, <3>1 DEF Reply, OtherAnswers
  <2>5. CASE UNCHANGED <<verdict, pending, crossed>>
    BY <2>1, <2>5
  <2> QED BY <2>2, <2>3, <2>4, <2>5 DEF Next, vars, Retry, SetUpAgain, WriteKey, Lose,
             TimeOutOnLoss, TimeOutEarly, GiveUp, Refused, Leave
<1> QED BY <1>2, <1>3 DEF FeatureInv

----------------------------------------------------------------------------
\* The conversation about the name: while conversations are not mixed up, at
\* most one of its requests is on its way or its answer in the queue, and it
\* is the one the task waits for.
Silent(q) == \A i \in 1..Len(q) : q[i].what \notin Named
Only(q, r) ==
  \A i, j \in 1..Len(q) : q[i].what \in Named /\ q[j].what \in Named => i = j /\ q[i] = r
Expects(box, q, r) ==
  \/ box = <<>> /\ Only(q, r)
  \/ Silent(q) /\ Len(box) = 1 /\ box[1].what = r.what /\ box[1].at = r.at

Talks(w) == phase[w] # "idle" /\ step[w] = "name"
InStep(w) ==
  /\ good[w]
  /\ phase[w] = "fresh" => inbox[w] = <<>> /\ Silent(requests)
  /\ phase[w] = "counting" => "name" \in pending /\ Expects(inbox[w], requests, Ask("count", 0))
  /\ phase[w] = "reading" =>
       /\ "name" \in pending /\ length[w] = device.nameLen
       /\ Expects(inbox[w], requests, Ask("piece", chars[w]))

NameInv ==
  ~mixed => /\ NameIsTrue
            /\ \A w \in Workers : Talks(w) => InStep(w) /\ \A v \in Workers : Talks(v) => v = w

LEMMA TailOf ==
  ASSUME NEW q \in Seq(Requests), q # <<>>
  PROVE  /\ Len(Tail(q)) \in Nat /\ Head(q) = q[1] /\ 1 \in 1..Len(q)
         /\ \A i \in 1..Len(Tail(q)) : i + 1 \in 1..Len(q) /\ i + 1 # 1 /\ Tail(q)[i] = q[i + 1]
OBVIOUS

LEMMA QuietTail ==
  ASSUME NEW q \in Seq(Requests), q # <<>>, NEW r
  PROVE  /\ Silent(q) => Silent(Tail(q)) /\ Head(q).what \notin Named
         /\ Only(q, r) => Only(Tail(q), r)
         /\ Only(q, r) /\ Head(q).what \in Named => Head(q) = r /\ Silent(Tail(q))
<1>1. Silent(q) => Silent(Tail(q)) /\ Head(q).what \notin Named
  BY TailOf DEF Silent
<1>2. ASSUME Only(q, r) PROVE Only(Tail(q), r)
  <2> SUFFICES ASSUME NEW i \in 1..Len(Tail(q)), NEW j \in 1..Len(Tail(q)),
                      Tail(q)[i].what \in Named, Tail(q)[j].what \in Named
               PROVE  i = j /\ Tail(q)[i] = r
    BY DEF Only
  <2>1. /\ i + 1 \in 1..Len(q) /\ j + 1 \in 1..Len(q)
        /\ Tail(q)[i] = q[i + 1] /\ Tail(q)[j] = q[j + 1]
    BY TailOf
  <2>2. i + 1 = j + 1 /\ q[i + 1] = r
    BY <1>2, <2>1 DEF Only
  <2> QED BY <2>1, <2>2
<1>3. ASSUME Only(q, r), Head(q).what \in Named PROVE Head(q) = r /\ Silent(Tail(q))
  BY <1>3, TailOf DEF Only, Silent
<1> QED BY <1>1, <1>2, <1>3

LEMMA QuietAppend ==
  ASSUME NEW q \in Seq(Requests), NEW a \in Requests, NEW r
  PROVE  /\ a.what \notin Named => /\ Silent(q) => Silent(Append(q, a))
                                   /\ Only(q, r) => Only(Append(q, a), r)
         /\ Silent(q) => Only(Append(q, a), a)
<1>1. /\ Len(Append(q, a)) = Len(q) + 1 /\ Len(q) \in Nat /\ Append(q, a)[Len(q) + 1] = a
      /\ \A i \in 1..Len(q) + 1 : i # Len(q) + 1 => i \in 1..Len(q) /\ Append(q, a)[i] = q[i]
  OBVIOUS
<1> QED BY <1>1 DEF Silent, Only

\* Who talks is not disturbed by what others do, as long as the requests they
\* answer, lose or make are not about the name.
LEMMA Undisturbed ==
  ASSUME TypeOK, NEW v \in Workers, InStep(v), device' = device,
         "name" \in pending => "name" \in pending',
         phase'[v] = phase[v], length'[v] = length[v], chars'[v] = chars[v],
         good'[v] = good[v], inbox'[v] = inbox[v],
         \/ requests' = requests
         \/ requests # <<>> /\ requests' = Tail(requests)
         \/ \E r \in Requests : r.what \notin Named /\ requests' = Append(requests, r)
  PROVE  InStep(v)'
<1>1. requests \in Seq(Requests) BY TypeParts DEF MessageTypes
<1>2. /\ Silent(requests) => Silent(requests')
      /\ \A r : Only(requests, r) => Only(requests', r)
  <2>1. CASE requests' = requests BY <2>1
  <2>2. CASE requests # <<>> /\ requests' = Tail(requests)
    BY <1>1, <2>2, QuietTail
  <2>3. CASE \E a \in Requests : a.what \notin Named /\ requests' = Append(requests, a)
    BY <1>1, <2>3, QuietAppend
  <2> QED BY <2>1, <2>2, <2>3
<1>3. \A r : Expects(inbox[v], requests, r) => Expects(inbox[v], requests', r)
  BY <1>2 DEF Expects
<1> QED BY <1>2, <1>3 DEF InStep

\* At the start there is at most one name task, and nothing was asked.
LEMMA InitNameInv == Init => NameInv
<1> SUFFICES ASSUME Init PROVE NameInv
  OBVIOUS
<1>1. NameIsTrue BY DEF Init, NameIsTrue
<1>2. ASSUME NEW w \in Workers PROVE Talks(w) => InStep(w)
  BY DEF Init, Talks, InStep, Silent
<1>3. ASSUME NEW v \in Workers, NEW w \in Workers, Talks(v), Talks(w) PROVE v = w
  <2>1. pending \subseteq {"name", "feature"}
    BY WorkerAssumption DEF Init
  <2>2. \A u \in {v, w} : u \in Nat /\ u \in 1..Cardinality(pending) /\ (u = 1 => "feature" \notin pending)
    BY <1>3, WorkerAssumption DEF Init, Talks
  <2>3. CASE "feature" \in pending
    <3>1. pending = {"feature"} \/ pending = {"name", "feature"}
      BY <2>1, <2>3
    <3>2. Cardinality({"feature"}) = 1 /\ Cardinality({"name", "feature"}) = 2
      <4>1. IsFiniteSet({"feature"}) /\ Cardinality({"feature"}) = 1
        BY FS_Singleton
      <4>2. "name" \notin {"feature"} /\ {"name", "feature"} = {"feature"} \union {"name"}
        OBVIOUS
      <4>3. Cardinality({"feature"} \union {"name"}) = Cardinality({"feature"}) + 1
        BY ONLY <4>1, <4>2, FS_AddElement
      <4> QED BY <4>1, <4>2, <4>3
    <3> QED BY <2>2, <2>3, <3>1, <3>2
  <2>4. CASE "feature" \notin pending
    <3>1. pending = {} \/ pending = {"name"}
      BY <2>1, <2>4
    <3>2. Cardinality({}) = 0 /\ Cardinality({"name"}) = 1
      BY FS_EmptySet, FS_Singleton
    <3> QED BY <2>2, <3>1, <3>2
  <2> QED BY <2>3, <2>4
<1> QED BY <1>1, <1>2, <1>3 DEF NameInv

\* A task is started: only a name task next to nothing else about the name
\* leaves the conversations apart.
LEMMA StartNameInv ==
  ASSUME TypeOK, PhaseInv, NameInv, NEW s \in Steps, Start(s),
         UNCHANGED <<device, name, pending, requests>>
  PROVE  NameInv'
<1> SUFFICES ASSUME ~mixed' PROVE NameInv'
  BY DEF NameInv
<1> USE TypeParts DEF TaskTypes
<1>1. ~mixed /\ (s = "name" => ~UnderWay(s) /\ \A v \in Busy : step[v] # s)
  BY DEF Start
<1>2. PICK w \in Workers : /\ phase[w] = "idle" /\ phase' = [phase EXCEPT ![w] = "fresh"]
                           /\ step' = [step EXCEPT ![w] = s]
  BY DEF Start, Busy
<1>3. UNCHANGED <<inbox, length, chars, good>>
  BY DEF Start
<1>4. NameIsTrue'
  BY <1>1 DEF NameInv, NameIsTrue
<1>5. ASSUME NEW v \in Workers, v # w
      PROVE  phase'[v] = phase[v] /\ (Talks(v)' => Talks(v)) /\ (Talks(v) => InStep(v)')
  <2>1. phase'[v] = phase[v] /\ step'[v] = step[v]
    BY <1>2, <1>5
  <2>2. Talks(v) => InStep(v)
    BY <1>1 DEF NameInv
  <2> QED BY <1>3, <2>1, <2>2, Undisturbed DEF Talks
<1>6. CASE s = "name"
  <2>1. \A v \in Workers : ~Talks(v)
    BY <1>1, <1>6 DEF Talks, Busy
  <2>2. Silent(requests)
    <3>1. \A i \in 1..Len(requests) : SwId(requests[i].what) # 13
      BY <1>1, <1>6 DEF UnderWay, TaskSwId
    <3> QED BY <3>1 DEF Silent, SwId, Named
  <2>3. InStep(w)'
    BY <1>2, <1>3, <2>2 DEF InStep, PhaseInv
  <2> QED BY <1>4, <1>5, <2>1, <2>3 DEF NameInv
<1>7. CASE s # "name"
  <2>1. ~Talks(w)'
    BY <1>2, <1>7 DEF Talks
  <2> QED BY <1>1, <1>4, <1>5, <2>1 DEF NameInv
<1> QED BY <1>6, <1>7

\* An answer is delivered: if it is about the name, whoever waits for it was
\* waiting for this one.
LEMMA DeliverNameInv ==
  ASSUME TypeOK, PhaseInv, NameInv, Reply \/ OtherAnswers
  PROVE  NameInv'
<1> USE TypeParts
<1>1. UNCHANGED <<device, pending, name, phase, step, length, chars, good, mixed>>
  BY DEF Reply, OtherAnswers, recordVars
<1> SUFFICES ASSUME ~mixed, NEW w \in Workers, Talks(w) PROVE InStep(w)'
  BY <1>1 DEF NameInv, NameIsTrue, Talks
<1>2. InStep(w)
  BY DEF NameInv
<1>3. PICK a \in Answers :
        /\ Deliver(a)
        /\ \/ /\ requests # <<>> /\ requests' = Tail(requests) /\ Head(requests) \in Requests
              /\ a.what = Head(requests).what /\ a.at = Head(requests).at
           \/ ~a.own /\ UNCHANGED requests
  BY Delivered DEF MessageTypes
<1>4. CASE ~Matches(w, a)
  <2>1. inbox'[w] = inbox[w]
    BY <1>3, <1>4 DEF Deliver
  <2> QED BY <1>1, <1>2, <1>3, <2>1, Undisturbed
<1>5. CASE Matches(w, a)
  <2>1. a.own /\ a.what \in Named
    <3>1. SwId(a.what) = 13
      BY <1>5 DEF Matches, Talks, TaskSwId
    <3> QED BY <1>5, <3>1 DEF Matches, SwId, Named
  <2>2. /\ requests \in Seq(Requests) /\ requests # <<>> /\ requests' = Tail(requests)
        /\ a.what = Head(requests).what /\ a.at = Head(requests).at
    BY <1>3, <2>1 DEF MessageTypes
  <2>3. inbox[w] \in Seq(Answers) /\ inbox'[w] = Append(inbox[w], a)
    BY <1>3, <1>5 DEF Deliver, MessageTypes, Busy, Talks
  <2>4. ~Silent(requests)
    BY <2>1, <2>2, QuietTail
  <2>5. ASSUME NEW r, Expects(inbox[w], requests, r) PROVE Expects(inbox'[w], requests', r)
    <3>1. inbox[w] = <<>> /\ Only(requests, r)
      BY <2>4, <2>5 DEF Expects
    <3>2. Head(requests) = r /\ Silent(Tail(requests))
      BY <2>1, <2>2, <3>1, QuietTail
    <3>3. Len(inbox'[w]) = 1 /\ inbox'[w][1] = a
      BY <2>3, <3>1
    <3> QED BY <2>2, <3>2, <3>3 DEF Expects
  <2> QED BY <1>1, <1>2, <2>4, <2>5 DEF InStep
<1> QED BY <1>4, <1>5

\* A step of one task, by which nobody starts to talk: the others go on as
\* before, unless it talks itself, and then there are none.
LEMMA TaskNameInv ==
  ASSUME TypeOK, PhaseInv, NameInv, ~mixed, NEW w \in Workers, UNCHANGED <<device, mixed>>,
         \A v \in Workers \ {w} : /\ phase'[v] = phase[v] /\ step'[v] = step[v]
                                  /\ length'[v] = length[v] /\ chars'[v] = chars[v]
                                  /\ good'[v] = good[v] /\ inbox'[v] = inbox[v],
         Talks(w)' => Talks(w), NameIsTrue', Talks(w)' => InStep(w)',
         ~Talks(w) => /\ "name" \in pending => "name" \in pending'
                      /\ \/ requests' = requests
                         \/ \E r \in Requests : r.what \notin Named /\ requests' = Append(requests, r)
  PROVE  NameInv'
<1>1. \A v \in Workers : Talks(v)' => Talks(v)
  BY DEF Talks
<1>2. ASSUME NEW v \in Workers, Talks(v)' PROVE InStep(v)'
  <2>1. CASE v = w BY <1>2, <2>1
  <2>2. CASE v # w
    <3>1. Talks(v) /\ InStep(v) /\ ~Talks(w)
      BY <1>1, <1>2, <2>2 DEF NameInv
    <3> QED BY <2>2, <3>1, Undisturbed
  <2> QED BY <2>1, <2>2
<1> QED BY <1>1, <1>2 DEF NameInv

LEMMA BeginNameInv ==
  ASSUME TypeOK, PhaseInv, NameInv, ~mixed, NEW w \in Workers, Begin(w)
  PROVE  NameInv'
<1> USE TypeParts, AskType, ZeroType DEF TaskTypes
<1>1. UNCHANGED <<device, name, verdict, step, inbox, length, chars, good, mixed>> /\ phase[w] = "fresh"
  BY DEF Begin
<1>2. \/ /\ phase' = [phase EXCEPT ![w] = "leaving"] /\ pending' = pending \ {step[w]} /\ UNCHANGED requests
         /\ step[w] \notin pending \/ (step[w] = "name" /\ name # "none")
      \/ /\ phase' = [phase EXCEPT ![w] = "counting"] /\ requests' = Append(requests, Ask("count", 0))
         /\ step[w] = "name" /\ "name" \in pending /\ UNCHANGED pending
      \/ /\ phase' = [phase EXCEPT ![w] = "asking"] /\ requests' = Append(requests, Ask("root", 0))
         /\ step[w] # "name" /\ UNCHANGED pending
  BY DEF Begin, Goto, Send
<1>3. NameIsTrue'
  BY <1>1, <1>2 DEF NameInv, NameIsTrue, RecordTypes
<1>4. Talks(w)' => InStep(w)'
  <2>1. Talks(w) => InStep(w)
    BY DEF NameInv
  <2>2. CASE phase' = [phase EXCEPT ![w] = "leaving"]
    BY <1>1, <2>1, <2>2 DEF InStep, Talks
  <2>3. CASE phase' = [phase EXCEPT ![w] = "asking"]
    BY <1>1, <2>1, <2>3 DEF InStep, Talks
  <2>4. CASE /\ phase' = [phase EXCEPT ![w] = "counting"] /\ requests' = Append(requests, Ask("count", 0))
             /\ step[w] = "name" /\ "name" \in pending /\ UNCHANGED pending
    <3>1. good[w] /\ inbox[w] = <<>> /\ Silent(requests)
      BY <1>1, <2>1, <2>4 DEF InStep, Talks
    <3>2. Ask("count", 0) \in Requests /\ requests \in Seq(Requests)
      BY DEF MessageTypes
    <3>3. Only(Append(requests, Ask("count", 0)), Ask("count", 0))
      BY <3>1, <3>2, QuietAppend
    <3> QED BY <1>1, <2>4, <3>1, <3>3 DEF InStep, Expects
  <2> QED BY <1>2, <2>2, <2>3, <2>4
<1>5. Talks(w)' => Talks(w)
  BY <1>1 DEF Talks
<1>6. ~Talks(w) => /\ "name" \in pending => "name" \in pending'
                   /\ \/ requests' = requests
                      \/ \E r \in Requests : r.what \notin Named /\ requests' = Append(requests, r)
  <2>1. ~Talks(w) => step[w] # "name"
    BY <1>1 DEF Talks
  <2>2. Ask("root", 0) \in Requests /\ Ask("root", 0).what \notin Named
    BY DEF Named
  <2> QED BY <1>2, <2>1, <2>2
<1>7. \A v \in Workers \ {w} : phase'[v] = phase[v]
  BY <1>2
<1> QED BY <1>1, <1>3, <1>4, <1>5, <1>6, <1>7, TaskNameInv

\* Giving up, or an error for an answer.
LEMMA RefusedNameInv ==
  ASSUME TypeOK, PhaseInv, NameInv, ~mixed, NEW w \in Workers, w \in Waiting, Refused(w),
         UNCHANGED <<device, step, length, chars, good, requests, mixed>>,
         \A v \in Workers \ {w} : inbox'[v] = inbox[v]
  PROVE  NameInv'
<1> USE TypeParts DEF TaskTypes
<1>1. phase' = [phase EXCEPT ![w] = "leaving"] /\ UNCHANGED pending
  BY DEF Refused, Goto
<1>2. Talks(w) => InStep(w) /\ phase[w] \in {"counting", "reading"}
  BY DEF NameInv, Talks, Waiting, PhaseInv
<1>3. Talks(w) <=> step[w] = "name"
  BY DEF Talks, Waiting
<1>4. NameIsTrue'
  BY <1>1, <1>2, <1>3 DEF Refused, InStep, NameInv, NameIsTrue
<1>5. Talks(w)' => Talks(w) /\ InStep(w)'
  BY <1>1, <1>2, <1>3 DEF Talks, InStep
<1>6. \A v \in Workers \ {w} : phase'[v] = phase[v]
  BY <1>1
<1> QED BY <1>1, <1>4, <1>5, <1>6, TaskNameInv

\* Taking the answer that was waited for.
LEMMA TakenAnswer ==
  ASSUME TypeOK, NEW w \in Workers, NEW r, inbox[w] # <<>>, Expects(inbox[w], requests, r)
  PROVE  /\ Head(inbox[w]) \in Answers /\ Head(inbox[w]).what = r.what /\ Head(inbox[w]).at = r.at
         /\ Tail(inbox[w]) = <<>> /\ Silent(requests) /\ requests \in Seq(Requests)
<1>1. inbox[w] \in Seq(Answers) /\ requests \in Seq(Requests)
  BY TypeParts DEF MessageTypes
<1>2. Silent(requests) /\ Len(inbox[w]) = 1 /\ inbox[w][1].what = r.what /\ inbox[w][1].at = r.at
  BY DEF Expects
<1>3. Head(inbox[w]) = inbox[w][1] /\ Head(inbox[w]) \in Answers /\ Len(Tail(inbox[w])) = 0
      /\ Tail(inbox[w]) \in Seq(Answers)
  BY <1>1, <1>2
<1>4. Tail(inbox[w]) = <<>>
  BY <1>3, EmptySeq
<1> QED BY <1>1, <1>2, <1>3, <1>4

LEMMA AskedNow ==
  ASSUME NEW q \in Seq(Requests), Silent(q), NEW r \in Requests
  PROVE  Expects(<<>>, Append(q, r), r)
BY QuietAppend DEF Expects

LEMMA TakeNameInv ==
  ASSUME TypeOK, PhaseInv, NameInv, ~mixed, NEW w \in Workers, Take(w)
  PROVE  NameInv'
<1> USE TypeParts DEF TaskTypes
<1>1. /\ inbox[w] # <<>> /\ inbox' = [inbox EXCEPT ![w] = Tail(inbox[w])] /\ w \in Waiting
      /\ UNCHANGED <<device, step, mixed>>
  BY TakeCases, SameDevice DEF Next
<1>2. \A v \in Workers \ {w} : inbox'[v] = inbox[v]
  BY <1>1 DEF MessageTypes
<1>3. CASE Refused(w) /\ UNCHANGED <<verdict, length, chars, good, requests>>
  BY <1>1, <1>2, <1>3, RefusedNameInv
<1>4. CASE phase[w] = "counting" /\ TakeCount(w, Head(inbox[w]))
  <2>1. Talks(w) /\ InStep(w)
    BY <1>4 DEF NameInv, Talks, PhaseInv
  <2>2. good[w] /\ "name" \in pending /\ Expects(inbox[w], requests, Ask("count", 0)) /\ chars[w] = 0
    BY <1>4, <2>1 DEF InStep, PhaseInv
  <2>3. /\ Head(inbox[w]).what = "count" /\ Tail(inbox[w]) = <<>>
        /\ Silent(requests) /\ requests \in Seq(Requests)
    BY <1>1, <2>2, TakenAnswer, AskType, ZeroType
  <2>4. FirstByte(Head(inbox[w])) = device.nameLen
    BY <2>3 DEF FirstByte
  <2>5. /\ UNCHANGED <<name, verdict, chars, good>>
        /\ length' = [length EXCEPT ![w] = device.nameLen]
        /\ \/ /\ device.nameLen = 0 /\ pending' = pending \ {"name"}
              /\ phase' = [phase EXCEPT ![w] = "leaving"]
           \/ /\ requests' = Append(requests, Ask("piece", 0)) /\ UNCHANGED pending
              /\ phase' = [phase EXCEPT ![w] = "reading"]
    BY <1>4, <2>4 DEF TakeCount, Goto, Send
  <2>6. NameIsTrue'
    BY <1>1, <2>5 DEF NameInv, NameIsTrue
  <2>7. InStep(w)'
    <3>1. CASE phase' = [phase EXCEPT ![w] = "leaving"]
      BY <2>2, <2>5, <3>1 DEF InStep
    <3>2. CASE /\ requests' = Append(requests, Ask("piece", 0)) /\ UNCHANGED pending
               /\ phase' = [phase EXCEPT ![w] = "reading"]
      <4>1. Expects(<<>>, requests', Ask("piece", 0))
        BY <2>3, <3>2, AskedNow, AskType, ZeroType
      <4>2. inbox'[w] = <<>> /\ chars'[w] = 0 /\ good'[w] /\ phase'[w] = "reading"
            /\ length'[w] = device'.nameLen /\ "name" \in pending'
        BY <1>1, <2>2, <2>3, <2>5, <3>2 DEF MessageTypes
      <4> QED BY <4>1, <4>2 DEF InStep
    <3> QED BY <2>5, <3>1, <3>2
  <2>8. \A v \in Workers \ {w} : phase'[v] = phase[v] /\ length'[v] = length[v]
    BY <2>5
  <2> QED BY <1>1, <1>2, <2>1, <2>5, <2>6, <2>7, <2>8, TaskNameInv
<1>5. CASE phase[w] = "reading" /\ TakePiece(w, Head(inbox[w]))
  <2>1. Talks(w) /\ InStep(w)
    BY <1>5 DEF NameInv, Talks, PhaseInv
  <2>2. /\ good[w] /\ "name" \in pending /\ Expects(inbox[w], requests, Ask("piece", chars[w]))
        /\ length[w] = device.nameLen /\ chars[w] < length[w]
    BY <1>5, <2>1 DEF InStep, PhaseInv
  <2>3. chars[w] \in 0..Overlong /\ chars[w] + 1 \in 0..Overlong /\ device.nameLen \in Nat
    BY <2>2, OverlongAssumption
  <2>4. /\ Head(inbox[w]).what = "piece" /\ Head(inbox[w]).at = chars[w] /\ Tail(inbox[w]) = <<>>
        /\ Silent(requests) /\ requests \in Seq(Requests)
    <3>1. Ask("piece", chars[w]).what = "piece" /\ Ask("piece", chars[w]).at = chars[w]
      BY <2>3, AskType
    <3> QED BY <1>1, <2>2, <3>1, TakenAnswer
  <2>5. /\ UNCHANGED <<verdict, length>> /\ chars' = [chars EXCEPT ![w] = chars[w] + 1]
        /\ good' = [good EXCEPT ![w] = TRUE]
        /\ \/ /\ name' = "right" /\ pending' = pending \ {"name"}
              /\ phase' = [phase EXCEPT ![w] = "leaving"]
           \/ /\ requests' = Append(requests, Ask("piece", chars[w] + 1))
              /\ UNCHANGED <<name, pending, phase>>
    <3> DEFINE fits == good[w] /\ Head(inbox[w]).what = "piece" /\ Head(inbox[w]).at = chars[w]
    <3>1. fits /\ length[w] >= device.nameLen
      BY <2>2, <2>3, <2>4
    <3>2. /\ UNCHANGED <<verdict, length>> /\ chars' = [chars EXCEPT ![w] = chars[w] + 1]
          /\ good' = [good EXCEPT ![w] = fits]
          /\ \/ /\ name' = IF fits /\ length[w] >= device.nameLen THEN "right" ELSE "wrong"
                /\ pending' = pending \ {"name"} /\ phase' = [phase EXCEPT ![w] = "leaving"]
             \/ /\ requests' = Append(requests, Ask("piece", chars[w] + 1))
                /\ UNCHANGED <<name, pending, phase>>
      BY <1>5 DEF TakePiece, Goto, Send
    <3>3. fits = TRUE
      BY <3>1
    <3> HIDE DEF fits
    <3> QED BY <3>1, <3>2, <3>3
  <2>6. NameIsTrue'
    BY <1>1, <2>5 DEF NameInv, NameIsTrue
  <2>7. good'[w] /\ \A v \in Workers \ {w} : good'[v] = good[v] /\ chars'[v] = chars[v]
    BY <2>5 DEF Flags
  <2>8. InStep(w)'
    <3>1. CASE phase' = [phase EXCEPT ![w] = "leaving"]
      BY <2>7, <3>1 DEF InStep
    <3>2. CASE /\ requests' = Append(requests, Ask("piece", chars[w] + 1))
               /\ UNCHANGED <<name, pending, phase>>
      <4>1. Expects(<<>>, requests', Ask("piece", chars[w] + 1))
        BY <2>3, <2>4, <3>2, AskedNow, AskType
      <4>2. inbox'[w] = <<>> /\ chars'[w] = chars[w] + 1 /\ phase'[w] = "reading"
            /\ length'[w] = device'.nameLen /\ "name" \in pending'
        BY <1>1, <1>5, <2>2, <2>4, <2>5, <3>2 DEF MessageTypes
      <4> QED BY <2>7, <4>1, <4>2 DEF InStep
    <3> QED BY <2>5, <3>1, <3>2
  <2>9. \A v \in Workers \ {w} : phase'[v] = phase[v]
    BY <2>5
  <2> QED BY <1>1, <1>2, <2>1, <2>5, <2>6, <2>7, <2>8, <2>9, TaskNameInv
<1>6. CASE phase[w] = "asking" /\ TakeIndex(w, Head(inbox[w]))
  <2>1. step[w] = "feature"
    BY <1>6 DEF PhaseInv
  <2>2. /\ phase' = [phase EXCEPT ![w] = "leaving"] /\ pending' = pending \ {"feature"}
        /\ UNCHANGED <<name, length, chars, good, requests>>
    BY <1>6 DEF TakeIndex, Goto
  <2>3. NameIsTrue' /\ ~Talks(w) /\ ~Talks(w)'
    BY <1>1, <2>1, <2>2 DEF NameInv, NameIsTrue, Talks
  <2>4. \A v \in Workers \ {w} : phase'[v] = phase[v]
    BY <2>2
  <2> QED BY <1>1, <1>2, <2>2, <2>3, <2>4, TaskNameInv
<1> QED BY <1>3, <1>4, <1>5, <1>6, TakeCases

LEMMA LeaveNameInv ==
  ASSUME TypeOK, PhaseInv, NameInv, ~mixed, NEW w \in Workers, Leave(w)
  PROVE  NameInv'
<1> USE TypeParts DEF TaskTypes
<1>1. ~Talks(w)' /\ NameIsTrue' /\ UNCHANGED <<device, name, pending, requests, mixed>>
  BY DEF Leave, Goto, Talks, NameInv, NameIsTrue
<1>2. \A v \in Workers \ {w} : /\ phase'[v] = phase[v] /\ step'[v] = step[v]
                               /\ length'[v] = length[v] /\ chars'[v] = chars[v]
                               /\ good'[v] = good[v] /\ inbox'[v] = inbox[v]
  BY DEF Leave, Goto, Forget, Flags, MessageTypes
<1> QED BY <1>1, <1>2, TaskNameInv

\* A key setting is written, or a message is lost.
LEMMA TrafficNameInv ==
  ASSUME TypeOK, PhaseInv, NameInv, WriteKey \/ Lose
  PROVE  NameInv'
<1>1. UNCHANGED <<device, pending, name, phase, step, inbox, length, chars, good, mixed>>
  BY DEF WriteKey, Lose
<1>2. \/ requests # <<>> /\ requests' = Tail(requests)
      \/ \E r \in Requests : r.what \notin Named /\ requests' = Append(requests, r)
  <2>1. Ask("keys", 0) \in Requests /\ Ask("keys", 0).what \notin Named
    BY AskType, ZeroType DEF Named
  <2> QED BY <2>1 DEF WriteKey, Lose
<1>3. \A v \in Workers : InStep(v) => InStep(v)'
  BY <1>1, <1>2, Undisturbed
<1> QED BY <1>1, <1>3 DEF NameInv, NameIsTrue, Talks

LEMMA NextNameInv == TypeOK /\ PhaseInv /\ NameInv /\ [Next]_vars => NameInv'
<1> SUFFICES ASSUME TypeOK, PhaseInv, NameInv, [Next]_vars PROVE NameInv'
  OBVIOUS
<1>1. CASE mixed
  <2>1. mixed'
    BY <1>1, TakeCases DEF Next, vars, Retry, SetUpAgain, Start, WriteKey, Reply, Lose, OtherAnswers, Begin,
       TimeOutOnLoss, TimeOutEarly, GiveUp, Leave
  <2> QED BY <2>1 DEF NameInv
<1>2. CASE Retry
  <2>1. Head(failures) \in Steps /\ Start(Head(failures))
    BY <1>2, TypeParts DEF Retry, RecordTypes
  <2> QED BY <1>2, <2>1, StartNameInv DEF Retry
<1>3. ASSUME NEW s \in Steps, SetUpAgain(s) PROVE NameInv'
  BY <1>3, StartNameInv DEF SetUpAgain
<1>4. ASSUME ~mixed, NEW w \in Workers, GiveUp(w) PROVE NameInv'
  BY <1>4, RefusedNameInv DEF GiveUp
<1>5. CASE UNCHANGED vars
  <2>1. \A v \in Workers : InStep(v) => InStep(v)'
    BY <1>5 DEF InStep, vars
  <2> QED BY <1>5, <2>1 DEF NameInv, NameIsTrue, Talks, vars
<1> QED BY <1>1, <1>2, <1>3, <1>4, <1>5, DeliverNameInv, BeginNameInv, TakeNameInv, LeaveNameInv,
           TrafficNameInv DEF Next, TimeOutOnLoss, TimeOutEarly

----------------------------------------------------------------------------
\* The exchange keeps its types: no task reads more of a name than the length
\* it believes in, also when it took the answer to another question for it.
THEOREM TypeCorrect == Spec => []TypeOK
BY InitTypes, NextTypes, PTL DEF Spec

\* What comes out of a task is true: no loss, refusal, late or foreign answer
\* makes up a name or a feature, as long as two conversations about the name
\* are not mixed up, and a feature task is not given the answer to a key setting.
THEOREM OutcomesCorrect == Spec => []OutcomesAreTrue
<1>1. NameInv /\ FeatureInv => OutcomesAreTrue
  BY DEF NameInv, FeatureInv, OutcomesAreTrue, NameIsTrue
<1> QED BY <1>1, InitTypes, NextTypes, InitNameInv, NextNameInv, InitFeatureInv, NextFeatureInv, PTL DEF Spec
=============================================================================
