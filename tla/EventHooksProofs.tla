-------------------------- MODULE EventHooksProofs --------------------------
(***************************************************************************)
(* That the jobs of every hook and device follow the changes of the device *)
(* in order, for every file, every number of hooks, devices and threads.   *)
(***************************************************************************)
EXTENDS EventHooks, SequenceTheorems, TLAPS

USE DEF worldVars, fireVars, poolVars, historyVars

\* What appending one element does, in the form that the proofs use.
LEMMA AppendFacts ==
  ASSUME NEW S, NEW s \in Seq(S), NEW x \in S
  PROVE  /\ Append(s, x) \in Seq(S)
         /\ Len(Append(s, x)) = Len(s) + 1 /\ Len(s) \in Nat
         /\ \A i \in 1..Len(s) : Append(s, x)[i] = s[i]
         /\ Append(s, x)[Len(s) + 1] = x
BY AppendProperties, LenProperties

LEMMA TailFacts ==
  ASSUME NEW S, NEW s \in Seq(S), s # <<>>
  PROVE  /\ Tail(s) \in Seq(S) /\ Head(s) \in S /\ Head(s) = s[1]
         /\ Len(Tail(s)) = Len(s) - 1 /\ Len(s) \in Nat \ {0}
         /\ \A i \in 1..(Len(s) - 1) : Tail(s)[i] = s[i + 1]
BY HeadTailProperties, EmptySeq, LenProperties

\* The names of the file are known, and each stands at one place.
LEMMA NamesFacts ==
  /\ Len(HookNames) \in Nat
  /\ \A k \in 1..Len(HookNames) : HookNames[k] \in HookSet
  /\ \A j, k \in 1..Len(HookNames) : HookNames[j] = HookNames[k] => j = k
BY NamesAssumption, LenProperties DEF HookSet, Range, IsInjective

LEMMA ParseType ==
  ASSUME NEW file \in RawConfigs
  PROVE  /\ DOMAIN ParseHooks(file) \subseteq HookSet
         /\ \A h \in DOMAIN ParseHooks(file) :
              ParseHooks(file)[h] \in [types : (SUBSET Types) \ {{}}, all : BOOLEAN]
<1>1. file.all \in BOOLEAN /\ \A h \in HookSet : (file.hooks[h].all = "yes") \in BOOLEAN
  BY ConfigAssumption
<1>2. \A h \in DOMAIN ParseHooks(file) : ParseTypes(file.hooks[h]) \in (SUBSET Types) \ {{}}
  BY DEF ParseHooks, WellFormed, ParseTypes
<1> QED BY <1>1, <1>2 DEF ParseHooks

\* The two halves of TypeOK: the subscriber with the pool, and everything else.
PoolType ==
  /\ next \in 1..(Len(HookNames) + 1) /\ (Handling => firing \in FiringSet)
  /\ jobs \in Seq(JobSet)
  /\ \A i \in 1..Len(jobs) : jobs[i].hook \in DOMAIN hooks
  /\ \A i \in 1..Len(jobs) : jobs[i].event.type \in hooks[jobs[i].hook].types
  /\ running \in [Workers -> JobSet \union {NoJob}]
  /\ started \subseteq {w \in Workers : running[w] # NoJob}
  /\ taken \in [HookSet -> [Devices -> Seq(Nat)]] /\ begun \in [HookSet -> [Devices -> Seq(Nat)]]

WorldType ==
  /\ raw \in RawConfigs
  /\ DOMAIN hooks \subseteq HookSet
  /\ \A h \in DOMAIN hooks : hooks[h] \in [types : (SUBSET Types) \ {{}}, all : BOOLEAN]
  /\ state \in {"running", "stopping", "ended"}
  /\ link \subseteq Devices /\ named \subseteq Devices
  /\ events \in Seq([dev : Devices, type : Types])
  /\ lastState \in [Devices -> {None, "connect", "disconnect"}]
  /\ \A d \in Devices \ named : lastState[d] = None
  /\ happened \in 0..MaxEvents
  /\ heard \in [Devices -> Seq(Types)]

LEMMA TypeParts == TypeOK <=> PoolType /\ WorldType
BY DEF TypeOK, PoolType, WorldType

LEMMA InitType == Init => TypeOK
<1> SUFFICES ASSUME Init PROVE PoolType /\ WorldType
  BY TypeParts
<1>1. PoolType
  BY NamesFacts DEF Init, PoolType, Handling
<1>2. WorldType
  BY ParseType, BoundsAssumption DEF Init, WorldType, None
<1> QED BY <1>1, <1>2

LEMMA HandleType ==
  ASSUME WorldType, HandleReport \/ HandleSwitch
  PROVE  WorldType'
<1> DEFINE d == Head(events).dev
           type == Head(events).type
<1>1. /\ events' \in Seq([dev : Devices, type : Types]) /\ d \in Devices /\ type \in Types
  <2>1. events # <<>> /\ events' = Tail(events) /\ events \in Seq([dev : Devices, type : Types])
    BY DEF HandleReport, HandleSwitch, WorldType
  <2>2. Head(events) \in [dev : Devices, type : Types] /\ Tail(events) \in Seq([dev : Devices, type : Types])
    BY <2>1, TailFacts
  <2> QED BY <2>1, <2>2
<1>2. heard' \in [Devices -> Seq(Types)]
  <2>1. heard' = heard \/ heard' = [heard EXCEPT ![d] = Append(@, type)]
    BY DEF HandleReport, HandleSwitch, Hear
  <2>2. heard[d] \in Seq(Types) /\ Append(heard[d], type) \in Seq(Types)
    BY <1>1, AppendFacts DEF WorldType
  <2> QED BY <2>1, <2>2 DEF WorldType
<1>3. /\ lastState' \in [Devices -> {None, "connect", "disconnect"}]
      /\ \A e \in Devices \ named' : lastState'[e] = None
  <2>1. CASE HandleReport
    <3>1. type \in {"connect", "disconnect"} BY <2>1, <1>1 DEF HandleReport, Types
    <3> QED BY <2>1, <3>1, <1>1 DEF HandleReport, WorldType
  <2>2. CASE HandleSwitch BY <2>2 DEF HandleSwitch, WorldType
  <2> QED BY <2>1, <2>2
<1>4. UNCHANGED <<worldVars, state>>
  BY DEF HandleReport, HandleSwitch
<1> QED BY <1>1, <1>2, <1>3, <1>4 DEF WorldType

LEMMA NextWorld == WorldType /\ [Next]_vars => WorldType'
<1> SUFFICES ASSUME WorldType, [Next]_vars PROVE WorldType'
  OBVIOUS
<1>1. ASSUME NEW d \in Devices, Report(d) PROVE WorldType'
  <2>1. Event(d, IF d \in link' THEN "connect" ELSE "disconnect") \in [dev : Devices, type : Types]
    BY DEF Event, Types
  <2>2. events' \in Seq([dev : Devices, type : Types])
    BY <1>1, <2>1, AppendFacts DEF Report, WorldType
  <2> QED BY <1>1, <2>2, BoundsAssumption DEF Report, WorldType
<1>2. ASSUME NEW d \in Devices, Press(d) PROVE WorldType'
  <2>1. Event(d, "switch") \in [dev : Devices, type : Types]
    BY DEF Event, Types
  <2>2. events' \in Seq([dev : Devices, type : Types])
    BY <1>2, <2>1, AppendFacts DEF Press, WorldType
  <2> QED BY <1>2, <2>2, BoundsAssumption DEF Press, WorldType
<1>3. ASSUME NEW d \in Devices, Name(d) PROVE WorldType'
  BY <1>3 DEF Name, WorldType
<1>4. CASE HandleReport \/ HandleSwitch BY <1>4, HandleType
<1>5. CASE Submit BY <1>5 DEF Submit, WorldType
<1>6. CASE Stop \/ End BY <1>6 DEF Stop, End, WorldType
<1>7. ASSUME NEW w \in Workers, Take(w) \/ Begin(w) \/ Finish(w) \/ Expire(w) PROVE WorldType'
  BY <1>7 DEF Take, Begin, Finish, Expire, WorldType
<1>8. CASE UNCHANGED vars BY <1>8 DEF vars, WorldType
<1> QED BY <1>1, <1>2, <1>3, <1>4, <1>5, <1>6, <1>7, <1>8 DEF Next

LEMMA NextPool == WorldType /\ PoolType /\ [Next]_vars => PoolType'
<1> SUFFICES ASSUME WorldType, PoolType, [Next]_vars PROVE PoolType'
  OBVIOUS
<1>1. ASSUME NEW d \in Devices, Report(d) \/ Press(d) \/ Name(d) PROVE PoolType'
  BY <1>1 DEF Report, Press, Name, PoolType, Handling
<1>2. CASE HandleReport \/ HandleSwitch
  <2>1. UNCHANGED <<hooks, jobs, poolVars, taken, begun>>
    BY <1>2 DEF HandleReport, HandleSwitch
  <2>2. next' \in 1..(Len(HookNames) + 1) /\ (Handling' => firing' \in FiringSet)
    <3>1. Head(events) \in [dev : Devices, type : Types]
      BY <1>2, TailFacts DEF HandleReport, HandleSwitch, WorldType
    <3>2. Len(heard[Head(events).dev]) + 1 \in Nat
      BY <3>1, LenProperties DEF WorldType
    <3>3. CASE UNCHANGED fireVars BY <3>3 DEF PoolType, Handling
    <3>4. CASE Fire(Head(events).dev, Head(events).type)
      BY <3>1, <3>2, <3>4, NamesFacts DEF Fire, Firing, FiringSet
    <3>5. CASE Fire(Head(events).dev, "switch")
      BY <3>1, <3>2, <3>5, NamesFacts DEF Fire, Firing, FiringSet, Types
    <3> QED BY <1>2, <3>3, <3>4, <3>5 DEF HandleReport, HandleSwitch
  <2> QED BY <2>1, <2>2 DEF PoolType
<1>3. CASE Submit
  <2>1. next' \in 1..(Len(HookNames) + 1) /\ firing' = firing /\ firing \in FiringSet
    BY <1>3, NamesFacts DEF Submit, PoolType, Handling
  <2>2. UNCHANGED <<hooks, poolVars, taken, begun>>
    BY <1>3 DEF Submit
  <2>3. CASE UNCHANGED jobs
    BY <2>1, <2>2, <2>3 DEF PoolType
  <2>4. CASE Wants(HookNames[next]) /\ jobs' = Append(jobs, Job(HookNames[next], firing))
    <3> DEFINE job == Job(HookNames[next], firing)
    <3>1. HookNames[next] \in DOMAIN hooks /\ firing.type \in hooks[HookNames[next]].types
      BY <2>4 DEF Wants
    <3>2. /\ job \in JobSet /\ job.hook = HookNames[next] /\ job.event = firing
      BY <3>1, <2>1 DEF Job, JobSet, WorldType
    <3> HIDE DEF job
    <3>3. /\ jobs' \in Seq(JobSet) /\ Len(jobs') = Len(jobs) + 1 /\ Len(jobs) \in Nat
          /\ \A i \in 1..Len(jobs) : jobs'[i] = jobs[i]
          /\ jobs'[Len(jobs) + 1] = job
      BY <2>4, <3>2, AppendFacts DEF PoolType, job
    <3>4. ASSUME NEW i \in 1..Len(jobs')
          PROVE  jobs'[i].hook \in DOMAIN hooks /\ jobs'[i].event.type \in hooks[jobs'[i].hook].types
      <4>1. CASE i \in 1..Len(jobs) BY <4>1, <3>3 DEF PoolType
      <4>2. CASE i = Len(jobs) + 1 BY <4>2, <3>1, <3>2, <3>3
      <4> QED BY <4>1, <4>2, <3>3
    <3> QED BY <2>1, <2>2, <3>3, <3>4 DEF PoolType
  <2> QED BY <1>3, <2>3, <2>4 DEF Submit
<1>4. CASE Stop \/ End BY <1>4 DEF Stop, End, PoolType, Handling
<1>5. ASSUME NEW w \in Workers, Take(w) PROVE PoolType'
  <2>1. /\ jobs' \in Seq(JobSet) /\ Head(jobs) \in JobSet /\ Len(jobs') = Len(jobs) - 1 /\ Len(jobs) \in Nat
        /\ \A i \in 1..(Len(jobs) - 1) : jobs'[i] = jobs[i + 1]
    BY <1>5, TailFacts DEF Take, PoolType
  <2>2. /\ running' \in [Workers -> JobSet \union {NoJob}]
        /\ started' \subseteq {v \in Workers : running'[v] # NoJob}
    BY <1>5, <2>1 DEF Take, PoolType
  <2>3. taken' \in [HookSet -> [Devices -> Seq(Nat)]]
    <3> DEFINE h == Head(jobs).hook
               d == Head(jobs).event.dev
               nr == Head(jobs).event.nr
    <3>1. h \in HookSet /\ d \in Devices /\ nr \in Nat
      BY <2>1 DEF JobSet, FiringSet
    <3>2. taken[h][d] \in Seq(Nat) /\ taken[h] \in [Devices -> Seq(Nat)]
      BY <3>1 DEF PoolType
    <3>3. Append(taken[h][d], nr) \in Seq(Nat)
      BY <3>1, <3>2, AppendFacts
    <3>4. taken' = [taken EXCEPT ![h][d] = Append(@, nr)]
      BY <1>5 DEF Take
    <3> HIDE DEF h, d, nr
    <3> QED BY <3>1, <3>2, <3>3, <3>4 DEF PoolType
  <2>4. \A i \in 1..Len(jobs') : i + 1 \in 1..Len(jobs) /\ jobs'[i] = jobs[i + 1]
    BY <2>1
  <2>5. \A i \in 1..Len(jobs') : jobs'[i].hook \in DOMAIN hooks /\ jobs'[i].event.type \in hooks[jobs'[i].hook].types
    BY <2>4 DEF PoolType
  <2>6. UNCHANGED <<hooks, firing, next, begun>>
    BY <1>5 DEF Take
  <2> QED BY <2>1, <2>2, <2>3, <2>5, <2>6 DEF PoolType, Handling
<1>6. ASSUME NEW w \in Workers, Finish(w) \/ Expire(w) PROVE PoolType'
  BY <1>6 DEF Finish, Expire, Free, PoolType, Handling
<1>7. ASSUME NEW w \in Workers, Begin(w) PROVE PoolType'
  <2>1. running[w] \in JobSet
    BY <1>7 DEF Begin, PoolType
  <2>2. running[w].hook \in HookSet /\ running[w].event.dev \in Devices /\ running[w].event.nr \in Nat
    BY <2>1 DEF JobSet, FiringSet
  <2>3. /\ begun[running[w].hook] \in [Devices -> Seq(Nat)]
        /\ Append(begun[running[w].hook][running[w].event.dev], running[w].event.nr) \in Seq(Nat)
    BY <2>2, AppendFacts DEF PoolType
  <2>4. begun' \in [HookSet -> [Devices -> Seq(Nat)]]
    <3> DEFINE h == running[w].hook
               d == running[w].event.dev
               nr == running[w].event.nr
    <3>1. begun' = begun \/ begun' = [begun EXCEPT ![h][d] = Append(@, nr)]
      BY <1>7 DEF Begin
    <3> HIDE DEF h, d, nr
    <3>2. h \in HookSet /\ d \in Devices /\ begun[h] \in [Devices -> Seq(Nat)] /\ Append(begun[h][d], nr) \in Seq(Nat)
      BY <2>2, <2>3 DEF h, d, nr
    <3>3. begun \in [HookSet -> [Devices -> Seq(Nat)]]
      BY DEF PoolType
    <3>4. CASE begun' = [begun EXCEPT ![h][d] = Append(@, nr)] BY <3>2, <3>3, <3>4
    <3> QED BY <3>1, <3>3, <3>4
  <2>5. /\ running' \in [Workers -> JobSet \union {NoJob}]
        /\ started' \subseteq {v \in Workers : running'[v] # NoJob}
    BY <1>7 DEF Begin, PoolType
  <2>6. UNCHANGED <<hooks, jobs, firing, next, taken>>
    BY <1>7 DEF Begin
  <2> QED BY <2>4, <2>5, <2>6 DEF PoolType, Handling
<1>8. CASE UNCHANGED vars BY <1>8 DEF vars, PoolType, Handling
<1> QED BY <1>1, <1>2, <1>3, <1>4, <1>5, <1>6, <1>7, <1>8 DEF Next

LEMMA NextType == TypeOK /\ [Next]_vars => TypeOK'
<1>1. TypeOK' <=> PoolType' /\ WorldType'
  BY DEF TypeOK, PoolType, WorldType
<1> QED BY <1>1, TypeParts, NextPool, NextWorld

\* The subscriber and the pool keep their types, for every file; no hook has a
\* job of another type than the file says.
THEOREM TypeCorrect == Spec => []TypeOK
BY InitType, NextType, PTL DEF Spec
----------------------------------------------------------------------------
\* Job i is one of h for d; event n of d has had its job of h submitted.
IsJob(i, h, d) == jobs[i].hook = h /\ jobs[i].event.dev = d
Submitted(h, d, n) ==
  \/ \E k \in 1..Len(taken[h][d]) : taken[h][d][k] = n
  \/ \E i \in 1..Len(jobs) : IsJob(i, h, d) /\ jobs[i].event.nr = n

FileInv == hooks = ParseHooks(raw)

\* _last_state is the last report heard of a device, whatever was pressed since.
LastInv ==
  \A d \in Devices :
    IF lastState[d] = None
    THEN \A i \in 1..Len(heard[d]) : heard[d][i] = "switch"
    ELSE \E i \in 1..Len(heard[d]) :
           heard[d][i] = lastState[d] /\ \A k \in (i + 1)..Len(heard[d]) : heard[d][k] = "switch"

\* The event being fired is the last one of its device and news, and the hooks
\* the subscriber has not come to have no job for it or a later one.
FiringInv ==
  Handling =>
    /\ firing.nr = Len(heard[firing.dev]) /\ firing.nr \in 1..Len(heard[firing.dev])
    /\ heard[firing.dev][firing.nr] = firing.type
    /\ IsNews(firing.dev, firing.nr)
    /\ \A k \in next..Len(HookNames), n \in Nat :
         Submitted(HookNames[k], firing.dev, n) => n < firing.nr

\* The jobs of a hook and a device are taken and wait in the order of the events.
OrderInv ==
  \A h \in HookSet, d \in Devices :
    /\ \A j, k \in 1..Len(taken[h][d]) : j < k => taken[h][d][j] < taken[h][d][k]
    /\ \A i, j \in 1..Len(jobs) :
         (IsJob(i, h, d) /\ IsJob(j, h, d) /\ i < j) => jobs[i].event.nr < jobs[j].event.nr
    /\ \A i \in 1..Len(jobs), k \in 1..Len(taken[h][d]) :
         IsJob(i, h, d) => taken[h][d][k] < jobs[i].event.nr

DueInv ==
  \A h \in HookSet, d \in Devices, n \in Nat : Submitted(h, d, n) => n \in Due(h, d)

\* What is due and not submitted comes after all that is; and while the daemon
\* runs, the subscriber is about to submit it.
AboutTo(h, d, i) ==
  Handling /\ firing.dev = d /\ firing.nr = i /\ \E k \in next..Len(HookNames) : HookNames[k] = h
MissingInv ==
  \A h \in HookSet, d \in Devices : \A i \in Due(h, d) :
    \/ Submitted(h, d, i)
    \/ /\ \A n \in Nat : Submitted(h, d, n) => n < i
       /\ state = "running" => AboutTo(h, d, i)

\* What threads do with the jobs they took: every one is begun, or held by one
\* thread, or of a script that is not there.
Taken(h, d, n) == \E k \in 1..Len(taken[h][d]) : taken[h][d][k] = n
Begun(h, d, n) == \E k \in 1..Len(begun[h][d]) : begun[h][d][k] = n
Holds(w, h, d, n) ==
  w \notin started /\ running[w].hook = h /\ running[w].event.dev = d /\ running[w].event.nr = n
JobInv(h, d, n) ==
  /\ Begun(h, d, n) => Taken(h, d, n) /\ ~NotThere(h)
  /\ Taken(h, d, n) => Begun(h, d, n) \/ NotThere(h) \/ \E w \in Workers : Holds(w, h, d, n)
  /\ \A w \in Workers : Holds(w, h, d, n) => Taken(h, d, n) /\ ~Begun(h, d, n)
  /\ \A v, w \in Workers : Holds(v, h, d, n) /\ Holds(w, h, d, n) => v = w
BegunInv ==
  /\ \A w \in Workers : running[w] # NoJob => running[w].event.nr # 0
  /\ \A h \in HookSet, d \in Devices :
       /\ \A j, k \in 1..Len(begun[h][d]) : begun[h][d][j] = begun[h][d][k] => j = k
       /\ \A k \in 1..Len(begun[h][d]) : begun[h][d][k] # 0
       /\ \A n \in Nat \ {0} : JobInv(h, d, n)

HooksInv == FileInv /\ LastInv /\ FiringInv /\ OrderInv /\ DueInv /\ MissingInv

\* The two readings of the file agree: the parser's and the one of the promise.
LEMMA FileFacts ==
  ASSUME TypeOK, FileInv, NEW h \in HookSet, NEW d \in Devices, NEW type \in Types
  PROVE  (h \in DOMAIN hooks /\ type \in hooks[h].types /\ (hooks[h].all \/ d \in Keyboards))
         <=> (IsFor(h, d) /\ type \in Promised(h))
<1> DEFINE spec == raw.hooks[h]
<1>1. /\ spec.isMapping \in BOOLEAN /\ spec.path \in BOOLEAN /\ spec.command \in BOOLEAN
      /\ spec.all \in {"unset", "yes", "no"} /\ raw.all \in BOOLEAN /\ spec \in RawHooks
  BY ConfigAssumption DEF TypeOK, RawHooks
<1>2. h \in DOMAIN hooks <=> WellFormed(spec)
  BY DEF FileInv, ParseHooks
<1>3. WellFormed(spec) => /\ hooks[h].types = ParseTypes(spec)
                          /\ hooks[h].all = IF spec.all = "unset" THEN raw.all ELSE spec.all = "yes"
  BY DEF FileInv, ParseHooks
<1>4. type \in Promised(h) <=> WellFormed(spec) /\ type \in ParseTypes(spec)
  <2>1. type # "other" BY DEF Types
  <2>2. (spec.path # spec.command) <=> ((spec.path \/ spec.command) /\ ~(spec.path /\ spec.command))
    BY <1>1
  <2>3. type \in ParseTypes(spec) <=> type \in spec.type
    BY DEF ParseTypes
  <2> HIDE DEF spec
  <2>4. WellFormed(spec) <=> spec.isMapping /\ spec.path # spec.command /\ ParseTypes(spec) # {}
    BY DEF WellFormed
  <2>5. type \in Promised(h) <=>
          spec.isMapping /\ (spec.path \/ spec.command) /\ ~(spec.path /\ spec.command)
          /\ type \in spec.type
    BY <2>1 DEF Promised, spec
  <2> QED BY <2>2, <2>3, <2>4, <2>5
<1>5. WellFormed(spec) => (IsFor(h, d) <=> (hooks[h].all \/ d \in Keyboards))
  BY <1>1, <1>3 DEF IsFor
<1> QED BY <1>2, <1>3, <1>4, <1>5

\* What hearing of one more event of d changes.
LEMMA HearFacts ==
  ASSUME TypeOK, NEW d \in Devices, NEW type \in Types, Hear(d, type)
  PROVE  /\ \A e \in Devices : Len(heard[e]) \in Nat
         /\ \A e \in Devices : e # d => heard'[e] = heard[e]
         /\ Len(heard'[d]) = Len(heard[d]) + 1
         /\ \A i \in 1..Len(heard[d]) : heard'[d][i] = heard[d][i]
         /\ heard'[d][Len(heard[d]) + 1] = type
<1>1. \A e \in Devices : heard[e] \in Seq(Types) /\ Len(heard[e]) \in Nat
  BY LenProperties DEF TypeOK
<1>2. heard'[d] = Append(heard[d], type) /\ \A e \in Devices : e # d => heard'[e] = heard[e]
  BY DEF Hear, TypeOK
<1> QED BY <1>1, <1>2, AppendFacts

LEMMA DueKept ==
  ASSUME TypeOK, NEW d \in Devices, NEW type \in Types, Hear(d, type), raw' = raw,
         NEW h \in HookSet, NEW e \in Devices, NEW i \in 1..Len(heard[e])
  PROVE  i \in Due(h, e)' <=> i \in Due(h, e)
<1>1. /\ Len(heard[e]) \in Nat /\ Len(heard'[e]) \in {Len(heard[e]), Len(heard[e]) + 1}
      /\ \A k \in 1..Len(heard[e]) : heard'[e][k] = heard[e][k]
  BY HearFacts
<1>2. \A j \in 1..(i - 1) : j \in 1..Len(heard[e]) /\ \A k \in (j + 1)..(i - 1) : k \in 1..Len(heard[e])
  BY <1>1
<1>3. IsNews(e, i)' <=> IsNews(e, i)
  BY <1>1, <1>2 DEF IsNews
<1>4. IsFor(h, e)' = IsFor(h, e) /\ Promised(h)' = Promised(h)
  BY DEF IsFor, Promised
<1>5. i \in 1..Len(heard'[e]) /\ heard'[e][i] = heard[e][i]
  BY <1>1
<1> QED BY <1>3, <1>4, <1>5 DEF Due

\* An event is news if it is a press or differs from _last_state.
LEMMA HearNews ==
  ASSUME TypeOK, LastInv, NEW d \in Devices, NEW type \in Types, Hear(d, type),
         NEW n \in Nat, n = Len(heard[d]) + 1
  PROVE  IsNews(d, n)' <=> (type = "switch" \/ lastState[d] # type)
<1>1. /\ Len(heard[d]) \in Nat /\ heard'[d][n] = type
      /\ \A k \in 1..Len(heard[d]) : heard'[d][k] = heard[d][k]
  BY HearFacts
<1>2. IsNews(d, n)' <=> (type = "switch" \/ ~\E j \in 1..(n - 1) :
                            heard[d][j] = type /\ \A k \in (j + 1)..(n - 1) : heard[d][k] = "switch")
  <2> DEFINE Was(j) == heard[d][j] = type /\ \A k \in (j + 1)..(n - 1) : heard[d][k] = "switch"
             Is(j) == heard'[d][j] = heard'[d][n] /\ \A k \in (j + 1)..(n - 1) : heard'[d][k] = "switch"
  <2>1. ASSUME NEW j \in 1..(n - 1) PROVE Is(j) <=> Was(j)
    <3>1. j \in 1..Len(heard[d]) /\ \A k \in (j + 1)..(n - 1) : k \in 1..Len(heard[d])
      BY <1>1
    <3> QED BY <1>1, <3>1
  <2>2. IsNews(d, n)' <=> heard'[d][n] = "switch" \/ ~\E j \in 1..(n - 1) : Is(j)
    BY DEF IsNews
  <2> HIDE DEF Was, Is
  <2>3. IsNews(d, n)' <=> type = "switch" \/ ~\E j \in 1..(n - 1) : Was(j)
    BY <1>1, <2>1, <2>2
  <2> QED BY <2>3 DEF Was
<1>3. CASE lastState[d] = None
  <2>1. \A j \in 1..(n - 1) : heard[d][j] = "switch"
    BY <1>1, <1>3 DEF LastInv
  <2>2. type # None
    BY DEF Types, None
  <2> QED BY <1>2, <1>3, <2>1, <2>2
<1>4. CASE lastState[d] # None
  <2>1. PICK l \in 1..(n - 1) : heard[d][l] = lastState[d] /\ \A k \in (l + 1)..(n - 1) : heard[d][k] = "switch"
    BY <1>1, <1>4 DEF LastInv
  <2>2. lastState[d] \in {"connect", "disconnect"}
    BY <1>4 DEF TypeOK
  <2>3. ASSUME type # "switch", lastState[d] # type,
               NEW j \in 1..(n - 1), heard[d][j] = type, \A k \in (j + 1)..(n - 1) : heard[d][k] = "switch"
        PROVE  FALSE
    <3>1. j # l BY <2>1, <2>3
    <3>2. CASE j < l
      <4>1. l \in (j + 1)..(n - 1) BY <3>2, <1>1
      <4> QED BY <4>1, <2>1, <2>2, <2>3
    <3>3. CASE l < j
      <4>1. j \in (l + 1)..(n - 1) BY <3>3, <1>1
      <4> QED BY <4>1, <2>1, <2>3
    <3> QED BY <3>1, <3>2, <3>3, <1>1
  <2> QED BY <1>2, <2>1, <2>3
<1> QED BY <1>3, <1>4

----------------------------------------------------------------------------
LEMMA InitHooks == Init => HooksInv
<1> SUFFICES ASSUME Init PROVE HooksInv
  OBVIOUS
<1>1. \A h \in HookSet, d \in Devices : Len(taken[h][d]) = 0 /\ Len(heard[d]) = 0
  BY EmptySeq DEF Init
<1>2. Len(jobs) = 0 /\ Len(HookNames) \in Nat
  BY EmptySeq, NamesFacts DEF Init
<1>3. \A h \in HookSet, d \in Devices, n \in Nat : ~Submitted(h, d, n)
  BY <1>1, <1>2 DEF Submitted
<1>4. FileInv /\ FiringInv
  BY <1>2 DEF Init, FileInv, FiringInv, Handling
<1>5. LastInv
  BY <1>1 DEF LastInv, Init
<1>6. OrderInv
  BY <1>1, <1>2 DEF OrderInv
<1>7. DueInv /\ MissingInv
  BY <1>1, <1>3 DEF DueInv, MissingInv, Due
<1> QED BY <1>4, <1>5, <1>6, <1>7 DEF HooksInv

\* A step that leaves the subscriber and its jobs alone.
LEMMA SameHooks ==
  ASSUME HooksInv, UNCHANGED <<raw, hooks, lastState, fireVars, jobs, heard, taken>>,
         state' = "running" => state = "running"
  PROVE  HooksInv'
<1>1. \A h, d, n : Submitted(h, d, n)' = Submitted(h, d, n)
  BY DEF Submitted, IsJob
<1>2. \A h, d : Due(h, d)' = Due(h, d)
  BY DEF Due, IsFor, Promised, IsNews
<1>3. FileInv' /\ LastInv'
  BY DEF HooksInv, FileInv, LastInv
<1>4. FiringInv'
  BY <1>1 DEF HooksInv, FiringInv, Handling, IsNews
<1>5. OrderInv'
  BY DEF HooksInv, OrderInv, IsJob
<1>6. DueInv'
  BY <1>1, <1>2 DEF HooksInv, DueInv
<1>7. \A h, d, i : AboutTo(h, d, i)' = AboutTo(h, d, i)
  BY DEF AboutTo, Handling
<1>8. MissingInv'
  BY <1>1, <1>2, <1>7 DEF HooksInv, MissingInv
<1> QED BY <1>3, <1>4, <1>5, <1>6, <1>8 DEF HooksInv

\* The subscriber hears of an event and fires its hooks exactly if it is news.
LEMMA HearHooks ==
  ASSUME TypeOK, HooksInv, ~Handling, NEW d \in Devices, NEW type \in Types, Hear(d, type),
         UNCHANGED <<raw, hooks, state, jobs, taken>>,
         lastState' = IF type = "switch" THEN lastState ELSE [lastState EXCEPT ![d] = type],
         IF type = "switch" \/ lastState[d] # type THEN Fire(d, type) ELSE UNCHANGED fireVars
  PROVE  HooksInv'
<1> DEFINE last == Len(heard[d]) + 1
<1>1. PICK n \in Nat : n = last
  BY HearFacts
<1>2. /\ \A e \in Devices : Len(heard[e]) \in Nat /\ (e # d => heard'[e] = heard[e])
      /\ Len(heard'[d]) = n /\ Len(heard[d]) = n - 1
      /\ \A i \in 1..(n - 1) : heard'[d][i] = heard[d][i]
      /\ heard'[d][n] = type
  BY <1>1, HearFacts
<1>3. IsNews(d, n)' <=> (type = "switch" \/ lastState[d] # type)
  BY <1>1, HearNews DEF HooksInv
<1>4. \A h, e, m : Submitted(h, e, m)' = Submitted(h, e, m)
  BY DEF Submitted, IsJob
<1>5. \A h \in HookSet, e \in Devices, i \in Nat :
        i \in 1..Len(heard[e]) => (i \in Due(h, e)' <=> i \in Due(h, e))
  BY DueKept
<1>6. \A h \in HookSet, e \in Devices, i \in Nat : Submitted(h, e, i) => i \in 1..Len(heard[e])
  BY DEF HooksInv, DueInv, Due
<1>7. FileInv' /\ OrderInv'
  BY DEF HooksInv, FileInv, OrderInv, IsJob
<1>8. LastInv'
  <2> SUFFICES ASSUME NEW e \in Devices
               PROVE  IF lastState'[e] = None
                      THEN \A i \in 1..Len(heard'[e]) : heard'[e][i] = "switch"
                      ELSE \E i \in 1..Len(heard'[e]) :
                             heard'[e][i] = lastState'[e]
                             /\ \A k \in (i + 1)..Len(heard'[e]) : heard'[e][k] = "switch"
    BY DEF LastInv
  <2>1. CASE e # d
    <3>1. heard'[e] = heard[e] /\ lastState'[e] = lastState[e]
      BY <2>1, <1>2 DEF TypeOK
    <3> QED BY <3>1 DEF HooksInv, LastInv
  <2>2. CASE e = d /\ type = "switch"
    <3>1. lastState'[d] = lastState[d]
      BY <2>2
    <3>2. CASE lastState[d] = None
      <4>1. \A i \in 1..(n - 1) : heard[d][i] = "switch"
        BY <3>2, <1>2 DEF HooksInv, LastInv
      <4>2. \A i \in 1..n : heard'[d][i] = "switch"
        BY <4>1, <1>2, <2>2
      <4> QED BY <3>1, <3>2, <4>2, <1>2, <2>2
    <3>3. CASE lastState[d] # None
      <4>1. PICK i \in 1..(n - 1) : heard[d][i] = lastState[d] /\ \A k \in (i + 1)..(n - 1) : heard[d][k] = "switch"
        BY <3>3, <1>2 DEF HooksInv, LastInv
      <4>2. heard'[d][i] = lastState[d] /\ \A k \in (i + 1)..n : heard'[d][k] = "switch"
        <5>1. n = Len(heard[d]) + 1 /\ Len(heard[d]) \in Nat /\ heard'[d][n] = "switch"
          BY <1>2, <2>2
        <5>2. heard'[d][i] = heard[d][i]
          BY <1>2, <5>1
        <5>3. ASSUME NEW k \in (i + 1)..n, k # n PROVE heard'[d][k] = "switch"
          <6>1. k \in (i + 1)..(n - 1) /\ k \in 1..Len(heard[d])
            BY <5>1, <5>3
          <6> QED BY <4>1, <6>1, <1>2
        <5> QED BY <4>1, <5>1, <5>2, <5>3
      <4>3. i \in 1..Len(heard'[d])
        BY <1>2
      <4>4. lastState'[e] # None /\ Len(heard'[e]) = n
        BY <3>1, <3>3, <1>2, <2>2
      <4> QED BY <3>1, <4>2, <4>3, <4>4, <2>2
    <3> QED BY <3>2, <3>3
  <2>3. CASE e = d /\ type # "switch"
    <3>1. lastState'[d] = type /\ type # None
      BY <2>3 DEF TypeOK, Types, None
    <3>2. heard'[d][n] = lastState'[d] /\ n \in 1..n /\ \A k \in (n + 1)..n : heard'[d][k] = "switch"
      BY <3>1, <1>2
    <3> QED BY <2>3, <3>1, <3>2, <1>2
  <2> QED BY <2>1, <2>2, <2>3
<1>9. \A h \in HookSet, e \in Devices : \A i \in Due(h, e) :
         Submitted(h, e, i) \/ ((\A m \in Nat : Submitted(h, e, m) => m < i) /\ state # "running")
  <2> SUFFICES ASSUME NEW h \in HookSet, NEW e \in Devices, NEW i \in Due(h, e), ~Submitted(h, e, i)
               PROVE  (\A m \in Nat : Submitted(h, e, m) => m < i) /\ state # "running"
    OBVIOUS
  <2>1. ~AboutTo(h, e, i)
    BY DEF AboutTo
  <2>2. /\ \A m \in Nat : Submitted(h, e, m) => m < i
        /\ state = "running" => AboutTo(h, e, i)
    BY DEF HooksInv, MissingInv
  <2> QED BY <2>1, <2>2
<1>10. CASE Fire(d, type) /\ IsNews(d, n)'
  <2>1. firing'.dev = d /\ firing'.type = type /\ firing'.nr = n /\ next' = 1
    BY <1>10, <1>1 DEF Fire, Firing
  <2>2. FiringInv'
    <3>1. \A k \in next'..Len(HookNames), m \in Nat : Submitted(HookNames[k], firing.dev, m)' => m < firing'.nr
      <4> SUFFICES ASSUME NEW k \in 1..Len(HookNames), NEW m \in Nat, Submitted(HookNames[k], d, m)
                   PROVE  m < n
        BY <2>1 DEF Submitted, IsJob
      <4>1. HookNames[k] \in HookSet
        BY NamesFacts
      <4>2. m \in 1..Len(heard[d])
        BY <4>1, <1>6
      <4> QED BY <4>2, <1>2
    <3>2. /\ firing'.nr = Len(heard'[firing'.dev]) /\ firing'.nr \in 1..Len(heard'[firing'.dev])
          /\ heard'[firing'.dev][firing'.nr] = firing'.type
      BY <1>2, <2>1
    <3>3. IsNews(firing.dev, firing.nr)'
      BY <1>10, <2>1 DEF IsNews
    <3> QED BY <3>1, <3>2, <3>3 DEF FiringInv, IsNews
  <2>3. ASSUME NEW h \in HookSet PROVE AboutTo(h, d, n)'
    <3>1. PICK k \in 1..Len(HookNames) : HookNames[k] = h
      BY NamesAssumption, LenProperties DEF HookSet, Range
    <3> QED BY <2>1, <3>1, NamesFacts DEF AboutTo, Handling
  <2>4. MissingInv'
    <3> SUFFICES ASSUME NEW h \in HookSet, NEW e \in Devices, NEW i \in Due(h, e)'
                 PROVE  \/ Submitted(h, e, i)'
                        \/ /\ \A m \in Nat : Submitted(h, e, m)' => m < i
                           /\ (state = "running")' => AboutTo(h, e, i)'
      BY DEF MissingInv
    <3>1. i \in Nat /\ i \in 1..Len(heard'[e])
      BY <1>2 DEF Due
    <3>2. CASE i \in 1..Len(heard[e])
      <4>1. i \in Due(h, e) BY <1>5, <3>1, <3>2
      <4>2. Submitted(h, e, i) \/ ((\A m \in Nat : Submitted(h, e, m) => m < i) /\ state # "running")
        BY <4>1, <1>9
      <4> QED BY <4>2, <1>4
    <3>3. CASE i \notin 1..Len(heard[e])
      <4>1. e = d /\ i = n BY <1>2, <3>1, <3>3
      <4>2. \A m \in Nat : Submitted(h, e, m)' => m < i
        BY <1>2, <1>4, <1>6, <4>1
      <4> QED BY <4>1, <4>2, <2>3
    <3> QED BY <3>2, <3>3
  <2> QED BY <1>4, <1>5, <1>6, <1>7, <1>8, <2>2, <2>4 DEF HooksInv, DueInv
<1>11. CASE UNCHANGED fireVars /\ ~IsNews(d, n)'
  <2>1. FiringInv'
    BY <1>11 DEF FiringInv, Handling
  <2>2. MissingInv'
    <3> SUFFICES ASSUME NEW h \in HookSet, NEW e \in Devices, NEW i \in Due(h, e)'
                 PROVE  \/ Submitted(h, e, i)'
                        \/ /\ \A m \in Nat : Submitted(h, e, m)' => m < i
                           /\ (state = "running")' => AboutTo(h, e, i)'
      BY DEF MissingInv
    <3>1. i \in Nat /\ i \in 1..Len(heard'[e]) /\ IsNews(e, i)'
      BY <1>2 DEF Due
    <3>2. i \in 1..Len(heard[e])
      BY <1>2, <1>11, <3>1
    <3>3. i \in Due(h, e) BY <1>5, <3>1, <3>2
    <3>4. Submitted(h, e, i) \/ ((\A m \in Nat : Submitted(h, e, m) => m < i) /\ state # "running")
      BY <3>3, <1>9
    <3> QED BY <3>4, <1>4
  <2> QED BY <1>4, <1>5, <1>6, <1>7, <1>8, <2>1, <2>2 DEF HooksInv, DueInv
<1> QED BY <1>3, <1>10, <1>11

LEMMA HandleHooks ==
  ASSUME TypeOK, HooksInv, HandleReport \/ HandleSwitch
  PROVE  HooksInv'
<1> DEFINE d == Head(events).dev
           type == Head(events).type
<1>1. d \in Devices /\ type \in Types /\ ~Handling /\ UNCHANGED <<raw, hooks, named, state, jobs, taken>>
  <2>1. events # <<>> /\ events \in Seq([dev : Devices, type : Types])
    BY DEF HandleReport, HandleSwitch, TypeOK
  <2>2. Head(events) \in [dev : Devices, type : Types]
    BY <2>1, TailFacts
  <2> QED BY <2>2 DEF HandleReport, HandleSwitch
<1>2. CASE d \notin named
  BY <1>2, SameHooks DEF HandleReport, HandleSwitch
<1>3. CASE d \in named
  <2>1. Hear(d, type)
    BY <1>3 DEF HandleReport, HandleSwitch
  <2>2. lastState' = IF type = "switch" THEN lastState ELSE [lastState EXCEPT ![d] = type]
    BY <1>3 DEF HandleReport, HandleSwitch
  <2>3. IF type = "switch" \/ lastState[d] # type THEN Fire(d, type) ELSE UNCHANGED fireVars
    BY <1>3 DEF HandleReport, HandleSwitch
  <2> HIDE DEF d, type
  <2> QED BY <1>1, <2>1, <2>2, <2>3, HearHooks
<1> QED BY <1>2, <1>3

\* The subscriber wants a hook exactly if the event is due to it.
LEMMA WantsDue ==
  ASSUME TypeOK, HooksInv, Handling
  PROVE  /\ HookNames[next] \in HookSet /\ firing.dev \in Devices /\ firing.nr \in Nat
         /\ Wants(HookNames[next]) <=> firing.nr \in Due(HookNames[next], firing.dev)
<1>1. HookNames[next] \in HookSet /\ firing \in FiringSet
  BY NamesFacts DEF TypeOK, Handling
<1>2. firing.dev \in Devices /\ firing.nr \in Nat /\ firing.type \in Types
  BY <1>1 DEF FiringSet
<1>3. Wants(HookNames[next]) <=> (IsFor(HookNames[next], firing.dev) /\ firing.type \in Promised(HookNames[next]))
  BY <1>1, <1>2, FileFacts DEF HooksInv, Wants
<1>4. firing.nr \in Due(HookNames[next], firing.dev)
      <=> (IsFor(HookNames[next], firing.dev) /\ firing.type \in Promised(HookNames[next]))
  BY DEF HooksInv, FiringInv, Due
<1> QED BY <1>1, <1>2, <1>3, <1>4

\* The next hook gets its job, or is passed over.
LEMMA SubmitHooks ==
  ASSUME TypeOK, HooksInv, Submit, state = "running"
  PROVE  HooksInv'
<1> DEFINE hook == HookNames[next]
<1>1. PICK h0 \in HookSet, d0 \in Devices, n0 \in Nat :
        h0 = hook /\ d0 = firing.dev /\ n0 = firing.nr /\ (Wants(hook) <=> n0 \in Due(h0, d0))
  BY WantsDue DEF Submit
<1>2. /\ Handling /\ next' = next + 1 /\ next \in 1..Len(HookNames) /\ Len(HookNames) \in Nat
      /\ UNCHANGED <<raw, hooks, state, lastState, firing, heard, taken>>
      /\ jobs' = IF Wants(hook) THEN Append(jobs, Job(h0, firing)) ELSE jobs
  BY <1>1, NamesFacts DEF Submit, TypeOK, Handling
<1>3. /\ Len(jobs) \in Nat
      /\ Len(jobs') = IF Wants(hook) THEN Len(jobs) + 1 ELSE Len(jobs)
      /\ \A i \in 1..Len(jobs) : jobs'[i] = jobs[i]
      /\ Wants(hook) => jobs'[Len(jobs) + 1] = Job(h0, firing)
  <2>1. Job(h0, firing) \in JobSet /\ jobs \in Seq(JobSet)
    BY <1>1, <1>2 DEF TypeOK, Job, JobSet
  <2>2. Len(jobs) \in Nat
    BY <2>1, LenProperties
  <2>3. CASE Wants(hook)
    <3>1. jobs' = Append(jobs, Job(h0, firing)) BY <1>2, <2>3
    <3> HIDE DEF hook
    <3> QED BY <2>1, <2>2, <2>3, <3>1, AppendFacts
  <2>4. CASE ~Wants(hook)
    <3>1. jobs' = jobs BY <1>2, <2>4
    <3> HIDE DEF hook
    <3> QED BY <2>2, <2>4, <3>1
  <2> QED BY <2>3, <2>4
<1>4. Job(h0, firing).hook = h0 /\ Job(h0, firing).event.dev = d0 /\ Job(h0, firing).event.nr = n0
  BY <1>1 DEF Job
<1> HIDE DEF hook
<1>5. \A h, d, n : Submitted(h, d, n)' <=> Submitted(h, d, n) \/ (Wants(hook) /\ h = h0 /\ d = d0 /\ n = n0)
  <2> SUFFICES ASSUME NEW h, NEW d, NEW n
               PROVE  Submitted(h, d, n)' <=> Submitted(h, d, n) \/ (Wants(hook) /\ h = h0 /\ d = d0 /\ n = n0)
    OBVIOUS
  <2> DEFINE Started == \E k \in 1..Len(taken[h][d]) : taken[h][d][k] = n
             Waits(queue) == \E i \in 1..Len(queue) :
                               queue[i].hook = h /\ queue[i].event.dev = d /\ queue[i].event.nr = n
  <2>1. (Submitted(h, d, n) <=> Started \/ Waits(jobs)) /\ (Submitted(h, d, n)' <=> Started \/ Waits(jobs'))
    BY <1>2 DEF Submitted, IsJob
  <2>2. CASE Wants(hook)
    <3>1. \A i \in 1..Len(jobs') : i \in 1..Len(jobs) \/ i = Len(jobs) + 1
      BY <1>3, <2>2
    <3>2. Len(jobs) + 1 \in 1..Len(jobs') /\ \A i \in 1..Len(jobs) : i \in 1..Len(jobs')
      BY <1>3, <2>2
    <3>3. Waits(jobs') <=> Waits(jobs) \/ (h = h0 /\ d = d0 /\ n = n0)
      BY <1>3, <1>4, <2>2, <3>1, <3>2
    <3> HIDE DEF Started, Waits
    <3> QED BY <2>1, <2>2, <3>3
  <2>3. CASE ~Wants(hook)
    <3>1. Waits(jobs') <=> Waits(jobs)
      BY <1>3, <2>3
    <3> HIDE DEF Started, Waits
    <3> QED BY <2>1, <2>3, <3>1
  <2> QED BY <2>2, <2>3
<1>6. /\ n0 = Len(heard[d0]) /\ n0 \in 1..Len(heard[d0]) /\ heard[d0][n0] = firing.type /\ IsNews(d0, n0)
      /\ \A k \in next..Len(HookNames), n \in Nat : Submitted(HookNames[k], d0, n) => n < n0
  BY <1>1, <1>2 DEF HooksInv, FiringInv
<1>7. FileInv' /\ LastInv'
  BY <1>2 DEF HooksInv, FileInv, LastInv
<1>8. \A h, d : Due(h, d)' = Due(h, d)
  BY <1>2 DEF Due, IsFor, Promised, IsNews
<1>9. FiringInv'
  <2>1. IsNews(firing.dev, firing.nr)'
    BY <1>1, <1>2, <1>6 DEF IsNews
  <2>2. ASSUME NEW k \in next'..Len(HookNames), NEW n \in Nat, Submitted(HookNames[k], d0, n)' PROVE n < n0
    <3>1. k \in next..Len(HookNames) /\ k \in 1..Len(HookNames) /\ k # next
      BY <1>2
    <3>2. HookNames[k] # h0
      BY <3>1, <1>1, <1>2, NamesFacts DEF hook
    <3>3. Submitted(HookNames[k], d0, n)
      BY <2>2, <3>2, <1>5
    <3> QED BY <3>1, <3>3, <1>6
  <2>3. \A k \in next'..Len(HookNames), n \in Nat : Submitted(HookNames[k], firing.dev, n)' => n < n0
    <3>1. firing'.dev = d0
      BY <1>1, <1>2
    <3> QED BY <2>2, <3>1 DEF Submitted, IsJob
  <2> QED BY <1>1, <1>2, <1>6, <2>1, <2>3 DEF FiringInv
<1>10. OrderInv'
  <2> SUFFICES ASSUME NEW h \in HookSet, NEW d \in Devices
               PROVE  /\ \A i, j \in 1..Len(jobs') :
                           (IsJob(i, h, d)' /\ IsJob(j, h, d)' /\ i < j) => jobs'[i].event.nr < jobs'[j].event.nr
                      /\ \A i \in 1..Len(jobs'), k \in 1..Len(taken[h][d]) :
                           IsJob(i, h, d)' => taken[h][d][k] < jobs'[i].event.nr
    BY <1>2 DEF HooksInv, OrderInv
  <2>1. \A i \in 1..Len(jobs) : (IsJob(i, h, d)' <=> IsJob(i, h, d)) /\ jobs'[i] = jobs[i]
    BY <1>3 DEF IsJob
  <2>2. CASE ~Wants(hook)
    BY <2>1, <2>2, <1>3 DEF HooksInv, OrderInv
  <2>3. CASE Wants(hook)
    <3>0. PICK new \in Nat : new = Len(jobs) + 1
      BY <1>3
    <3>1. \A i \in 1..Len(jobs') : i \in 1..Len(jobs) \/ i = new
      BY <1>3, <2>3, <3>0
    <3>2. jobs'[new].event.nr = n0 /\ (IsJob(new, h, d)' => h = h0 /\ d = d0)
      BY <1>3, <1>4, <2>3, <3>0 DEF IsJob
    <3>3. \A i \in 1..Len(jobs) : IsJob(i, h, d) => Submitted(h, d, jobs[i].event.nr)
      BY DEF Submitted
    <3>4. \A k \in 1..Len(taken[h][d]) : Submitted(h, d, taken[h][d][k])
      BY DEF Submitted
    <3>5. \A n \in Nat : Submitted(h0, d0, n) => n < n0
      BY <1>1, <1>2, <1>6 DEF hook
    <3>6. \A i \in 1..Len(jobs) : jobs[i].event.nr \in Nat
      <4>1. \A i \in 1..Len(jobs) : jobs[i] \in JobSet
        BY ElementOfSeq DEF TypeOK
      <4> QED BY <4>1 DEF JobSet, FiringSet
    <3>7. \A k \in 1..Len(taken[h][d]) : taken[h][d][k] \in Nat
      <4>1. taken[h][d] \in Seq(Nat)
        BY DEF TypeOK
      <4> QED BY <4>1, ElementOfSeq
    <3>8. ASSUME NEW i \in 1..Len(jobs'), NEW j \in 1..Len(jobs'), IsJob(i, h, d)', IsJob(j, h, d)', i < j
          PROVE  jobs'[i].event.nr < jobs'[j].event.nr
      <4>1. i \in 1..Len(jobs)
        BY <1>3, <2>3, <3>0, <3>8
      <4>2. CASE j \in 1..Len(jobs)
        BY <4>1, <4>2, <3>8, <2>1 DEF HooksInv, OrderInv
      <4>3. CASE j = new
        <5>1. h = h0 /\ d = d0 /\ jobs'[j].event.nr = n0
          BY <4>3, <3>2, <3>8
        <5>2. Submitted(h, d, jobs[i].event.nr) /\ jobs[i].event.nr \in Nat
          BY <4>1, <2>1, <3>3, <3>6, <3>8
        <5> QED BY <5>1, <5>2, <4>1, <2>1, <3>5
      <4> QED BY <4>2, <4>3, <3>1
    <3>9. ASSUME NEW i \in 1..Len(jobs'), NEW k \in 1..Len(taken[h][d]), IsJob(i, h, d)'
          PROVE  taken[h][d][k] < jobs'[i].event.nr
      <4>1. CASE i \in 1..Len(jobs)
        BY <4>1, <3>9, <2>1 DEF HooksInv, OrderInv
      <4>2. CASE i = new
        <5>1. h = h0 /\ d = d0 /\ jobs'[i].event.nr = n0
          BY <4>2, <3>2, <3>9
        <5> QED BY <5>1, <3>4, <3>5, <3>7
      <4> QED BY <4>1, <4>2, <3>1
    <3> QED BY <3>8, <3>9
  <2> QED BY <2>2, <2>3
<1>11. DueInv'
  BY <1>1, <1>5, <1>8 DEF HooksInv, DueInv
<1>12. MissingInv'
  <2> SUFFICES ASSUME NEW h \in HookSet, NEW d \in Devices, NEW i \in Due(h, d), ~Submitted(h, d, i)'
               PROVE  /\ \A n \in Nat : Submitted(h, d, n)' => n < i
                      /\ AboutTo(h, d, i)'
    BY <1>8 DEF MissingInv
  <2>1. ~Submitted(h, d, i)
    BY <1>5
  <2>2. (\A n \in Nat : Submitted(h, d, n) => n < i) /\ AboutTo(h, d, i)
    BY <2>1 DEF HooksInv, MissingInv
  <2>3. d = d0 /\ i = n0
    BY <2>2, <1>1 DEF AboutTo
  <2>4. h # h0
    <3>1. Wants(hook) => Submitted(h0, d0, n0)'
      BY <1>5
    <3> QED BY <3>1, <1>1, <2>3
  <2>5. PICK k \in next..Len(HookNames) : HookNames[k] = h
    BY <2>2 DEF AboutTo
  <2>6. k # next
    BY <2>4, <2>5, <1>1 DEF hook
  <2>7. k \in next'..Len(HookNames) /\ Handling'
    BY <1>2, <2>5, <2>6 DEF Handling
  <2>8. AboutTo(h, d, i)'
    BY <1>1, <1>2, <2>3, <2>5, <2>7 DEF AboutTo
  <2> QED BY <2>2, <2>4, <2>8, <1>5
<1> QED BY <1>7, <1>9, <1>10, <1>11, <1>12 DEF HooksInv

\* A thread of the pool takes the first job.
LEMMA TakeHooks ==
  ASSUME TypeOK, HooksInv, NEW w \in Workers, Take(w)
  PROVE  HooksInv'
<1>1. PICK h0 \in HookSet, d0 \in Devices, n0 \in Nat :
        jobs[1].hook = h0 /\ jobs[1].event.dev = d0 /\ jobs[1].event.nr = n0 /\ Head(jobs) = jobs[1]
  <2>1. jobs \in Seq(JobSet) /\ jobs # <<>>
    BY DEF Take, TypeOK
  <2>2. jobs[1] \in JobSet /\ Head(jobs) = jobs[1]
    BY <2>1, TailFacts
  <2>3. jobs[1].hook \in HookSet /\ jobs[1].event \in FiringSet
    BY <2>2 DEF JobSet
  <2>4. jobs[1].event.dev \in Devices /\ jobs[1].event.nr \in Nat
    BY <2>3 DEF FiringSet
  <2> QED BY <2>2, <2>3, <2>4
<1>2. /\ Len(jobs) \in Nat \ {0} /\ Len(jobs') = Len(jobs) - 1
      /\ \A i \in 1..(Len(jobs) - 1) : jobs'[i] = jobs[i + 1]
  <2>1. jobs \in Seq(JobSet) /\ jobs # <<>> /\ jobs' = Tail(jobs)
    BY DEF Take, TypeOK
  <2> QED BY <2>1, TailFacts
<1>3. UNCHANGED <<raw, hooks, state, lastState, firing, next, heard>>
  BY DEF Take
<1>4. /\ \A h \in HookSet, d \in Devices : Len(taken[h][d]) \in Nat
      /\ \A h \in HookSet, d \in Devices : (h # h0 \/ d # d0) => taken'[h][d] = taken[h][d]
      /\ Len(taken'[h0][d0]) = Len(taken[h0][d0]) + 1
      /\ \A k \in 1..Len(taken[h0][d0]) : taken'[h0][d0][k] = taken[h0][d0][k]
      /\ taken'[h0][d0][Len(taken[h0][d0]) + 1] = n0
  <2>1. \A h \in HookSet, d \in Devices : taken[h][d] \in Seq(Nat) /\ Len(taken[h][d]) \in Nat
    BY LenProperties DEF TypeOK
  <2>2. taken' = [taken EXCEPT ![h0][d0] = Append(@, n0)]
    BY <1>1 DEF Take
  <2>3. /\ taken'[h0][d0] = Append(taken[h0][d0], n0)
        /\ \A h \in HookSet, d \in Devices : (h # h0 \/ d # d0) => taken'[h][d] = taken[h][d]
    BY <2>2 DEF TypeOK
  <2> QED BY <2>1, <2>3, AppendFacts
<1>5. \A h \in HookSet, d \in Devices, n \in Nat : Submitted(h, d, n)' <=> Submitted(h, d, n)
  <2> SUFFICES ASSUME NEW h \in HookSet, NEW d \in Devices, NEW n \in Nat
               PROVE  (\/ \E k \in 1..Len(taken'[h][d]) : taken'[h][d][k] = n
                       \/ \E i \in 1..Len(jobs') : jobs'[i].hook = h /\ jobs'[i].event.dev = d /\ jobs'[i].event.nr = n)
                      <=> (\/ \E k \in 1..Len(taken[h][d]) : taken[h][d][k] = n
                           \/ \E i \in 1..Len(jobs) : jobs[i].hook = h /\ jobs[i].event.dev = d /\ jobs[i].event.nr = n)
    BY DEF Submitted, IsJob
  <2>1. (\E i \in 1..Len(jobs) : jobs[i].hook = h /\ jobs[i].event.dev = d /\ jobs[i].event.nr = n)
        <=> \/ h = h0 /\ d = d0 /\ n = n0
            \/ \E i \in 1..Len(jobs') : jobs'[i].hook = h /\ jobs'[i].event.dev = d /\ jobs'[i].event.nr = n
    <3>1. \A i \in 1..Len(jobs') : i + 1 \in 1..Len(jobs) /\ jobs'[i] = jobs[i + 1]
      BY <1>2
    <3>2. \A i \in 1..Len(jobs) : i = 1 \/ (i - 1 \in 1..Len(jobs') /\ jobs'[i - 1] = jobs[i])
      BY <1>2
    <3>3. 1 \in 1..Len(jobs)
      BY <1>2
    <3>4. ASSUME NEW i \in 1..Len(jobs), jobs[i].hook = h /\ jobs[i].event.dev = d /\ jobs[i].event.nr = n
          PROVE  \/ h = h0 /\ d = d0 /\ n = n0
                 \/ \E j \in 1..Len(jobs') : jobs'[j].hook = h /\ jobs'[j].event.dev = d /\ jobs'[j].event.nr = n
      BY <3>2, <3>4, <1>1
    <3>5. ASSUME h = h0 /\ d = d0 /\ n = n0
          PROVE  \E i \in 1..Len(jobs) : jobs[i].hook = h /\ jobs[i].event.dev = d /\ jobs[i].event.nr = n
      BY <3>3, <3>5, <1>1
    <3>6. ASSUME NEW j \in 1..Len(jobs'), jobs'[j].hook = h /\ jobs'[j].event.dev = d /\ jobs'[j].event.nr = n
          PROVE  \E i \in 1..Len(jobs) : jobs[i].hook = h /\ jobs[i].event.dev = d /\ jobs[i].event.nr = n
      BY <3>1, <3>6
    <3> QED BY <3>4, <3>5, <3>6
  <2>2. (\E k \in 1..Len(taken'[h][d]) : taken'[h][d][k] = n)
        <=> \/ h = h0 /\ d = d0 /\ n = n0
            \/ \E k \in 1..Len(taken[h][d]) : taken[h][d][k] = n
    <3>1. CASE h = h0 /\ d = d0
      <4>1. \A k \in 1..Len(taken'[h0][d0]) : k \in 1..Len(taken[h0][d0]) \/ k = Len(taken[h0][d0]) + 1
        BY <1>4
      <4>2. Len(taken[h0][d0]) + 1 \in 1..Len(taken'[h0][d0]) /\ \A k \in 1..Len(taken[h0][d0]) : k \in 1..Len(taken'[h0][d0])
        BY <1>4
      <4> QED BY <3>1, <4>1, <4>2, <1>4
    <3>2. CASE h # h0 \/ d # d0 BY <3>2, <1>4
    <3> QED BY <3>1, <3>2
  <2> QED BY <2>1, <2>2
<1>6. FileInv' /\ LastInv'
  BY <1>3 DEF HooksInv, FileInv, LastInv
<1>7. \A h, d : Due(h, d)' = Due(h, d)
  BY <1>3 DEF Due, IsFor, Promised, IsNews
<1>8. FiringInv'
  <2> SUFFICES ASSUME Handling' PROVE FiringInv'
    BY DEF FiringInv
  <2>1. /\ firing.nr = Len(heard[firing.dev]) /\ firing.nr \in 1..Len(heard[firing.dev])
        /\ heard[firing.dev][firing.nr] = firing.type /\ IsNews(firing.dev, firing.nr)
        /\ \A k \in next..Len(HookNames), n \in Nat : Submitted(HookNames[k], firing.dev, n) => n < firing.nr
    BY <1>3 DEF HooksInv, FiringInv, Handling
  <2>2. PICK e \in Devices : e = firing.dev
    BY <1>3 DEF TypeOK, Handling, FiringSet
  <2>3. \A k \in next..Len(HookNames), n \in Nat : Submitted(HookNames[k], e, n)' => n < firing.nr
    <3>1. \A k \in next..Len(HookNames) : HookNames[k] \in HookSet
      BY NamesFacts DEF TypeOK
    <3> QED BY <3>1, <2>1, <2>2, <1>5
  <2>4. \A k \in next..Len(HookNames), n \in Nat : Submitted(HookNames[k], firing.dev, n)' => n < firing.nr
    BY <2>2, <2>3, <1>3 DEF Submitted, IsJob
  <2>5. IsNews(firing.dev, firing.nr)'
    BY <2>1, <1>3 DEF IsNews
  <2> QED BY <2>1, <2>4, <2>5, <1>3 DEF FiringInv
<1>9. OrderInv'
  <2> SUFFICES ASSUME NEW h \in HookSet, NEW d \in Devices
               PROVE  /\ \A j, k \in 1..Len(taken'[h][d]) : j < k => taken'[h][d][j] < taken'[h][d][k]
                      /\ \A i, j \in 1..Len(jobs') :
                           (IsJob(i, h, d)' /\ IsJob(j, h, d)' /\ i < j) => jobs'[i].event.nr < jobs'[j].event.nr
                      /\ \A i \in 1..Len(jobs'), k \in 1..Len(taken'[h][d]) :
                           IsJob(i, h, d)' => taken'[h][d][k] < jobs'[i].event.nr
    BY DEF OrderInv
  <2>1. \A i \in 1..Len(jobs') : /\ i + 1 \in 1..Len(jobs) /\ jobs'[i] = jobs[i + 1]
                                 /\ IsJob(i, h, d)' <=> IsJob(i + 1, h, d)
    BY <1>2 DEF IsJob
  <2>2. /\ \A j, k \in 1..Len(taken[h][d]) : j < k => taken[h][d][j] < taken[h][d][k]
        /\ \A i, j \in 1..Len(jobs) :
             (IsJob(i, h, d) /\ IsJob(j, h, d) /\ i < j) => jobs[i].event.nr < jobs[j].event.nr
        /\ \A i \in 1..Len(jobs), k \in 1..Len(taken[h][d]) :
             IsJob(i, h, d) => taken[h][d][k] < jobs[i].event.nr
    BY DEF HooksInv, OrderInv
  <2>3. \A i, j \in 1..Len(jobs') :
          (IsJob(i, h, d)' /\ IsJob(j, h, d)' /\ i < j) => jobs'[i].event.nr < jobs'[j].event.nr
    <3> SUFFICES ASSUME NEW i \in 1..Len(jobs'), NEW j \in 1..Len(jobs'), IsJob(i, h, d)', IsJob(j, h, d)', i < j
                 PROVE  jobs'[i].event.nr < jobs'[j].event.nr
      OBVIOUS
    <3>1. IsJob(i + 1, h, d) /\ IsJob(j + 1, h, d) /\ i + 1 < j + 1
      BY <2>1
    <3> QED BY <3>1, <2>1, <2>2
  <2>4. CASE h # h0 \/ d # d0
    BY <2>1, <2>2, <2>3, <2>4, <1>4
  <2>5. CASE h = h0 /\ d = d0
    <3> DEFINE new == Len(taken[h][d]) + 1
    <3>1. \A k \in 1..Len(taken'[h][d]) : k \in 1..Len(taken[h][d]) \/ k = new
      BY <1>4, <2>5
    <3>2. Len(taken[h][d]) \in Nat /\ taken'[h][d][new] = n0 /\ \A k \in 1..Len(taken[h][d]) : taken'[h][d][k] = taken[h][d][k]
      BY <1>4, <2>5
    <3>3. 1 \in 1..Len(jobs) /\ IsJob(1, h, d) /\ jobs[1].event.nr = n0
      BY <1>1, <1>2, <2>5 DEF IsJob
    <3>4. \A k \in 1..Len(taken[h][d]) : taken[h][d][k] < n0
      BY <3>3, <2>2
    <3>5. \A i \in 1..Len(jobs') : IsJob(i, h, d)' => n0 < jobs'[i].event.nr
      BY <3>3, <2>1, <2>2
    <3>6. \A j, k \in 1..Len(taken'[h][d]) : j < k => taken'[h][d][j] < taken'[h][d][k]
      <4> SUFFICES ASSUME NEW j \in 1..Len(taken'[h][d]), NEW k \in 1..Len(taken'[h][d]), j < k
                   PROVE  taken'[h][d][j] < taken'[h][d][k]
        OBVIOUS
      <4>1. j \in 1..Len(taken[h][d])
        BY <3>1, <3>2
      <4>2. CASE k \in 1..Len(taken[h][d]) BY <4>1, <4>2, <3>2, <2>2
      <4>3. CASE k = new BY <4>1, <4>3, <3>2, <3>4
      <4> QED BY <4>2, <4>3, <3>1
    <3>7. \A i \in 1..Len(jobs'), k \in 1..Len(taken'[h][d]) : IsJob(i, h, d)' => taken'[h][d][k] < jobs'[i].event.nr
      <4> SUFFICES ASSUME NEW i \in 1..Len(jobs'), NEW k \in 1..Len(taken'[h][d]), IsJob(i, h, d)'
                   PROVE  taken'[h][d][k] < jobs'[i].event.nr
        OBVIOUS
      <4>1. CASE k \in 1..Len(taken[h][d])
        BY <4>1, <3>2, <2>1, <2>2
      <4>2. CASE k = new BY <4>2, <3>2, <3>5
      <4> QED BY <4>1, <4>2, <3>1
    <3> QED BY <2>3, <3>6, <3>7
  <2> QED BY <2>4, <2>5
<1>10. DueInv'
  BY <1>5, <1>7 DEF HooksInv, DueInv
<1>11. MissingInv'
  <2>1. \A h, d, i : AboutTo(h, d, i)' = AboutTo(h, d, i)
    BY <1>3 DEF AboutTo, Handling
  <2>2. \A h \in HookSet, d \in Devices : \A i \in Due(h, d) : i \in Nat
    BY DEF Due
  <2> SUFFICES ASSUME NEW h \in HookSet, NEW d \in Devices, NEW i \in Due(h, d), ~Submitted(h, d, i)'
               PROVE  /\ \A n \in Nat : Submitted(h, d, n)' => n < i
                      /\ (state = "running")' => AboutTo(h, d, i)'
    BY <1>7 DEF MissingInv
  <2>3. ~Submitted(h, d, i)
    BY <2>2, <1>5
  <2>4. /\ \A n \in Nat : Submitted(h, d, n) => n < i
        /\ state = "running" => AboutTo(h, d, i)
    BY <2>3 DEF HooksInv, MissingInv
  <2> QED BY <2>1, <2>4, <1>3, <1>5
<1> QED BY <1>6, <1>8, <1>9, <1>10, <1>11 DEF HooksInv

LEMMA NextHooks == TypeOK /\ HooksInv /\ [Next]_vars => HooksInv'
<1> SUFFICES ASSUME TypeOK, HooksInv, [Next]_vars PROVE HooksInv'
  OBVIOUS
<1>1. ASSUME NEW d \in Devices, Report(d) \/ Press(d) \/ Name(d) PROVE HooksInv'
  BY <1>1, SameHooks DEF Report, Press, Name
<1>2. CASE HandleReport \/ HandleSwitch
  BY <1>2, HandleHooks
<1>3. CASE Submit
  <2>1. CASE state = "running" BY <1>3, <2>1, SubmitHooks
  <2>2. CASE state # "running"
    <3>1. /\ ~Handling' /\ state' # "running"
          /\ UNCHANGED <<raw, hooks, lastState, jobs, historyVars>>
      BY <1>3, <2>2, NamesFacts DEF Submit, Handling
    <3>2. \A h, d, n : Submitted(h, d, n)' = Submitted(h, d, n)
      BY <3>1 DEF Submitted, IsJob
    <3>3. \A h, d : Due(h, d)' = Due(h, d)
      BY <3>1 DEF Due, IsFor, Promised, IsNews
    <3>4. FileInv' /\ LastInv' /\ FiringInv' /\ OrderInv'
      BY <3>1 DEF HooksInv, FileInv, LastInv, FiringInv, OrderInv, IsJob
    <3>5. DueInv'
      BY <3>2, <3>3 DEF HooksInv, DueInv
    <3>6. MissingInv'
      BY <3>1, <3>2, <3>3 DEF HooksInv, MissingInv
    <3> QED BY <3>4, <3>5, <3>6 DEF HooksInv
  <2> QED BY <2>1, <2>2
<1>4. CASE Stop \/ End
  BY <1>4, SameHooks DEF Stop, End
<1>5. ASSUME NEW w \in Workers, Take(w) PROVE HooksInv'
  BY <1>5, TakeHooks
<1>6. ASSUME NEW w \in Workers, Begin(w) \/ Finish(w) \/ Expire(w) PROVE HooksInv'
  BY <1>6, SameHooks DEF Begin, Finish, Expire
<1>7. CASE UNCHANGED vars
  BY <1>7, SameHooks DEF vars
<1> QED BY <1>1, <1>2, <1>3, <1>4, <1>5, <1>6, <1>7 DEF Next

----------------------------------------------------------------------------
\* No job has the number 0, which is that of no event.
LEMMA NumberFacts ==
  ASSUME HooksInv, NEW h \in HookSet, NEW d \in Devices, NEW n \in Nat, Submitted(h, d, n)
  PROVE  n # 0
BY DEF HooksInv, DueInv, Due

LEMMA InitBegun == Init => BegunInv
<1> SUFFICES ASSUME Init PROVE BegunInv
  OBVIOUS
<1>1. \A h \in HookSet, d \in Devices : Len(taken[h][d]) = 0 /\ Len(begun[h][d]) = 0
  BY EmptySeq DEF Init
<1>2. \A w \in Workers : \A h, d, n : Holds(w, h, d, n) => n = 0
  BY DEF Init, Holds, NoJob, Job, Firing
<1>3. \A h \in HookSet, d \in Devices, n \in Nat \ {0} : JobInv(h, d, n)
  BY <1>1, <1>2 DEF JobInv, Taken, Begun
<1>4. \A w \in Workers : running[w] = NoJob
  BY DEF Init
<1> QED BY <1>1, <1>3, <1>4 DEF BegunInv

LEMMA SameBegun ==
  ASSUME BegunInv, UNCHANGED <<raw, poolVars, taken, begun>>
  PROVE  BegunInv'
<1>1. \A h, d, n : JobInv(h, d, n)' <=> JobInv(h, d, n)
  BY DEF JobInv, Taken, Begun, Holds, NotThere
<1> QED BY <1>1 DEF BegunInv

\* A job that is taken was nobody's before.
LEMMA TakeBegun ==
  ASSUME TypeOK, HooksInv, BegunInv, NEW w \in Workers, Take(w)
  PROVE  BegunInv'
<1>1. PICK h0 \in HookSet, d0 \in Devices, n0 \in Nat :
        jobs[1].hook = h0 /\ jobs[1].event.dev = d0 /\ jobs[1].event.nr = n0 /\ Head(jobs) = jobs[1]
  <2>1. jobs \in Seq(JobSet) /\ jobs # <<>>
    BY DEF Take, TypeOK
  <2>2. jobs[1] \in JobSet /\ Head(jobs) = jobs[1]
    BY <2>1, TailFacts
  <2>3. jobs[1].hook \in HookSet /\ jobs[1].event \in FiringSet
    BY <2>2 DEF JobSet
  <2>4. jobs[1].event.dev \in Devices /\ jobs[1].event.nr \in Nat
    BY <2>3 DEF FiringSet
  <2> QED BY <2>2, <2>3, <2>4
<1>2. 1 \in 1..Len(jobs) /\ IsJob(1, h0, d0)
  <2>1. jobs \in Seq(JobSet) /\ jobs # <<>>
    BY DEF Take, TypeOK
  <2>2. 1 \in 1..Len(jobs)
    BY <2>1, TailFacts
  <2> QED BY <1>1, <2>2 DEF IsJob
<1>3. n0 # 0 /\ ~Taken(h0, d0, n0)
  <2>1. Submitted(h0, d0, n0)
    BY <1>1, <1>2 DEF Submitted
  <2>2. \A k \in 1..Len(taken[h0][d0]) : taken[h0][d0][k] < n0
    BY <1>1, <1>2 DEF HooksInv, OrderInv
  <2>3. \A k \in 1..Len(taken[h0][d0]) : taken[h0][d0][k] \in Nat
    BY ElementOfSeq DEF TypeOK
  <2> QED BY <2>1, <2>2, <2>3, NumberFacts DEF Taken
<1>4. \A h \in HookSet, d \in Devices, n \in Nat :
         Taken(h, d, n)' <=> Taken(h, d, n) \/ (h = h0 /\ d = d0 /\ n = n0)
  <2>1. \A h \in HookSet, d \in Devices : taken[h][d] \in Seq(Nat) /\ Len(taken[h][d]) \in Nat
    BY LenProperties DEF TypeOK
  <2>2. taken' = [taken EXCEPT ![h0][d0] = Append(@, n0)]
    BY <1>1 DEF Take
  <2>3. /\ taken'[h0][d0] = Append(taken[h0][d0], n0)
        /\ \A h \in HookSet, d \in Devices : (h # h0 \/ d # d0) => taken'[h][d] = taken[h][d]
    BY <2>2 DEF TypeOK
  <2>4. /\ Len(taken'[h0][d0]) = Len(taken[h0][d0]) + 1
        /\ \A k \in 1..Len(taken[h0][d0]) : taken'[h0][d0][k] = taken[h0][d0][k]
        /\ taken'[h0][d0][Len(taken[h0][d0]) + 1] = n0
    BY <2>1, <2>3, AppendFacts
  <2> SUFFICES ASSUME NEW h \in HookSet, NEW d \in Devices, NEW n \in Nat
               PROVE  Taken(h, d, n)' <=> Taken(h, d, n) \/ (h = h0 /\ d = d0 /\ n = n0)
    OBVIOUS
  <2>5. CASE h # h0 \/ d # d0
    BY <2>3, <2>5 DEF Taken
  <2>6. CASE h = h0 /\ d = d0
    <3>1. \A k \in 1..Len(taken'[h0][d0]) : k \in 1..Len(taken[h0][d0]) \/ k = Len(taken[h0][d0]) + 1
      BY <2>1, <2>4
    <3>2. /\ Len(taken[h0][d0]) + 1 \in 1..Len(taken'[h0][d0])
          /\ \A k \in 1..Len(taken[h0][d0]) : k \in 1..Len(taken'[h0][d0])
      BY <2>1, <2>4
    <3> QED BY <2>4, <2>6, <3>1, <3>2 DEF Taken
  <2> QED BY <2>5, <2>6
<1>5. \A v \in Workers, h \in HookSet, d \in Devices, n \in Nat \ {0} :
         Holds(v, h, d, n)' <=> Holds(v, h, d, n) \/ (v = w /\ h = h0 /\ d = d0 /\ n = n0)
  <2>1. running' = [running EXCEPT ![w] = jobs[1]] /\ started' = started /\ running \in [Workers -> JobSet \union {NoJob}]
    BY <1>1 DEF Take, TypeOK
  <2>2. w \notin started
    BY DEF Take, TypeOK
  <2>3. running[w].event.nr = 0
    BY DEF Take, NoJob, Job, Firing
  <2> SUFFICES ASSUME NEW v \in Workers, NEW h \in HookSet, NEW d \in Devices, NEW n \in Nat \ {0}
               PROVE  Holds(v, h, d, n)' <=> Holds(v, h, d, n) \/ (v = w /\ h = h0 /\ d = d0 /\ n = n0)
    OBVIOUS
  <2>4. CASE v # w BY <2>1, <2>4 DEF Holds
  <2>5. CASE v = w
    <3>1. running'[w] = jobs[1]
      BY <2>1
    <3> QED BY <1>1, <2>1, <2>2, <2>3, <2>5, <3>1 DEF Holds
  <2> QED BY <2>4, <2>5
<1>6. UNCHANGED <<raw, begun>>
  BY DEF Take
<1>7. \A h, d, n : (Begun(h, d, n)' <=> Begun(h, d, n)) /\ (NotThere(h)' <=> NotThere(h))
  BY <1>6 DEF Begun, NotThere
<1>8. \A h \in HookSet, d \in Devices, n \in Nat \ {0} : JobInv(h, d, n)'
  <2> SUFFICES ASSUME NEW h \in HookSet, NEW d \in Devices, NEW n \in Nat \ {0} PROVE JobInv(h, d, n)'
    OBVIOUS
  <2>1. JobInv(h, d, n)
    BY DEF BegunInv
  <2>2. CASE h = h0 /\ d = d0 /\ n = n0
    <3>1. ~Begun(h, d, n) /\ \A v \in Workers : ~Holds(v, h, d, n)
      BY <1>3, <2>1, <2>2 DEF JobInv
    <3> QED BY <1>4, <1>5, <1>7, <2>2, <3>1 DEF JobInv
  <2>3. CASE ~(h = h0 /\ d = d0 /\ n = n0)
    BY <1>4, <1>5, <1>7, <2>1, <2>3 DEF JobInv
  <2> QED BY <2>2, <2>3
<1>9. \A v \in Workers : running'[v] # NoJob => running'[v].event.nr # 0
  <2>1. \A v \in Workers : running'[v] = running[v] \/ running'[v] = jobs[1]
    BY <1>1 DEF Take, TypeOK
  <2> QED BY <1>1, <1>3, <2>1 DEF BegunInv
<1> QED BY <1>6, <1>8, <1>9 DEF BegunInv

\* A thread starts its command, unless the script is not there.
LEMMA BeginBegun ==
  ASSUME TypeOK, BegunInv, NEW w \in Workers, Begin(w)
  PROVE  BegunInv'
<1>1. PICK h0 \in HookSet, d0 \in Devices, n0 \in Nat :
        running[w].hook = h0 /\ running[w].event.dev = d0 /\ running[w].event.nr = n0
  <2>1. running[w] \in JobSet
    BY DEF Begin, TypeOK
  <2> QED BY <2>1 DEF JobSet, FiringSet
<1>2. UNCHANGED <<raw, taken>> /\ w \notin started
  BY DEF Begin
<1>3. \A h, d, n : (Taken(h, d, n)' <=> Taken(h, d, n)) /\ (NotThere(h)' <=> NotThere(h))
  BY <1>2 DEF Taken, NotThere
<1>4. \A v \in Workers, h \in HookSet, d \in Devices, n \in Nat \ {0} :
         Holds(v, h, d, n)' <=> v # w /\ Holds(v, h, d, n)
  <2> SUFFICES ASSUME NEW v \in Workers, NEW h \in HookSet, NEW d \in Devices, NEW n \in Nat \ {0}
               PROVE  Holds(v, h, d, n)' <=> v # w /\ Holds(v, h, d, n)
    OBVIOUS
  <2>1. CASE v # w
    <3>1. running'[v] = running[v] /\ (v \in started' <=> v \in started)
      BY <2>1 DEF Begin, TypeOK
    <3> QED BY <2>1, <3>1 DEF Holds
  <2>2. CASE v = w
    <3>1. w \in started' \/ running'[w] = NoJob
      BY DEF Begin, TypeOK
    <3> QED BY <2>2, <3>1 DEF Holds, NoJob, Job, Firing
  <2> QED BY <2>1, <2>2
<1>5. Holds(w, h0, d0, n0)
  BY <1>1, <1>2 DEF Holds
<1>6. \A h, d, n : Holds(w, h, d, n) => h = h0 /\ d = d0 /\ n = n0
  BY <1>1 DEF Holds
<1>7. \A v \in Workers : running'[v] # NoJob => running'[v].event.nr # 0
  <2>1. \A v \in Workers : running'[v] = running[v] \/ running'[v] = NoJob
    BY DEF Begin, TypeOK
  <2> QED BY <2>1 DEF BegunInv
<1>8. CASE NotThere(h0)
  <2>1. begun' = begun
    BY <1>1, <1>8 DEF Begin, NotThere
  <2>2. \A h, d, n : Begun(h, d, n)' <=> Begun(h, d, n)
    BY <2>1 DEF Begun
  <2>3. ASSUME NEW h \in HookSet, NEW d \in Devices, NEW n \in Nat \ {0} PROVE JobInv(h, d, n)'
    <3>1. JobInv(h, d, n)
      BY DEF BegunInv
    <3>2. h # h0 => ~Holds(w, h, d, n)
      BY <1>6
    <3> QED BY <1>3, <1>4, <1>8, <2>2, <3>1, <3>2 DEF JobInv
  <2> QED BY <1>7, <2>1, <2>3 DEF BegunInv
<1>9. CASE ~NotThere(h0) /\ n0 # 0
  <2>1. begun' = [begun EXCEPT ![h0][d0] = Append(@, n0)]
    BY <1>1, <1>9 DEF Begin, NotThere
  <2>2. \A h \in HookSet, d \in Devices : begun[h][d] \in Seq(Nat) /\ Len(begun[h][d]) \in Nat
    BY LenProperties DEF TypeOK
  <2>3. /\ begun'[h0][d0] = Append(begun[h0][d0], n0)
        /\ \A h \in HookSet, d \in Devices : (h # h0 \/ d # d0) => begun'[h][d] = begun[h][d]
    BY <2>1 DEF TypeOK
  <2>4. /\ Len(begun'[h0][d0]) = Len(begun[h0][d0]) + 1
        /\ \A k \in 1..Len(begun[h0][d0]) : begun'[h0][d0][k] = begun[h0][d0][k]
        /\ begun'[h0][d0][Len(begun[h0][d0]) + 1] = n0
    BY <2>2, <2>3, AppendFacts
  <2>5. /\ \A k \in 1..Len(begun'[h0][d0]) : k \in 1..Len(begun[h0][d0]) \/ k = Len(begun[h0][d0]) + 1
        /\ Len(begun[h0][d0]) + 1 \in 1..Len(begun'[h0][d0])
        /\ \A k \in 1..Len(begun[h0][d0]) : k \in 1..Len(begun'[h0][d0])
    BY <2>2, <2>4
  <2>6. \A h \in HookSet, d \in Devices, n \in Nat :
           Begun(h, d, n)' <=> Begun(h, d, n) \/ (h = h0 /\ d = d0 /\ n = n0)
    <3> SUFFICES ASSUME NEW h \in HookSet, NEW d \in Devices, NEW n \in Nat
                 PROVE  Begun(h, d, n)' <=> Begun(h, d, n) \/ (h = h0 /\ d = d0 /\ n = n0)
      OBVIOUS
    <3>1. CASE h # h0 \/ d # d0 BY <2>3, <3>1 DEF Begun
    <3>2. CASE h = h0 /\ d = d0 BY <2>4, <2>5, <3>2 DEF Begun
    <3> QED BY <3>1, <3>2
  <2>7. ~Begun(h0, d0, n0) /\ Taken(h0, d0, n0) /\ \A v \in Workers : Holds(v, h0, d0, n0) => v = w
    <3>1. JobInv(h0, d0, n0)
      BY <1>9 DEF BegunInv
    <3> QED BY <1>5, <3>1 DEF JobInv
  <2>8. ASSUME NEW h \in HookSet, NEW d \in Devices, NEW n \in Nat \ {0} PROVE JobInv(h, d, n)'
    <3>1. JobInv(h, d, n)
      BY DEF BegunInv
    <3>2. CASE h = h0 /\ d = d0 /\ n = n0
      BY <1>3, <1>4, <1>9, <2>6, <2>7, <3>2 DEF JobInv
    <3>3. CASE ~(h = h0 /\ d = d0 /\ n = n0)
      <4>1. ~Holds(w, h, d, n)
        BY <1>6, <3>3
      <4> QED BY <1>3, <1>4, <2>6, <3>1, <3>3, <4>1 DEF JobInv
    <3> QED BY <3>2, <3>3
  <2>9. ASSUME NEW h \in HookSet, NEW d \in Devices
        PROVE  /\ \A j, k \in 1..Len(begun'[h][d]) : begun'[h][d][j] = begun'[h][d][k] => j = k
               /\ \A k \in 1..Len(begun'[h][d]) : begun'[h][d][k] # 0
    <3>1. /\ \A j, k \in 1..Len(begun[h][d]) : begun[h][d][j] = begun[h][d][k] => j = k
          /\ \A k \in 1..Len(begun[h][d]) : begun[h][d][k] # 0
      BY DEF BegunInv
    <3>2. CASE h # h0 \/ d # d0 BY <2>3, <3>1, <3>2
    <3>3. CASE h = h0 /\ d = d0
      <4>1. \A k \in 1..Len(begun[h0][d0]) : begun[h0][d0][k] # n0
        BY <2>7 DEF Begun
      <4> DEFINE new == Len(begun[h0][d0]) + 1
      <4>2. \A k \in 1..Len(begun'[h0][d0]) : k \in 1..Len(begun[h0][d0]) \/ k = new
        BY <2>5
      <4>3. begun'[h0][d0][new] = n0 /\ \A k \in 1..Len(begun[h0][d0]) : begun'[h0][d0][k] = begun[h0][d0][k]
        BY <2>4
      <4> HIDE DEF new
      <4>4. ASSUME NEW j \in 1..Len(begun'[h0][d0]), NEW k \in 1..Len(begun'[h0][d0]),
                   begun'[h0][d0][j] = begun'[h0][d0][k]
            PROVE  j = k
        <5>1. CASE j \in 1..Len(begun[h0][d0]) /\ k \in 1..Len(begun[h0][d0])
          BY <3>1, <3>3, <4>3, <4>4, <5>1
        <5>2. CASE j = new \/ k = new
          BY <4>1, <4>2, <4>3, <4>4, <5>2
        <5> QED BY <4>2, <5>1, <5>2
      <4>5. \A k \in 1..Len(begun'[h0][d0]) : begun'[h0][d0][k] # 0
        BY <1>9, <3>1, <3>3, <4>2, <4>3
      <4> QED BY <3>3, <4>4, <4>5
    <3> QED BY <3>2, <3>3
  <2> QED BY <1>7, <2>8, <2>9 DEF BegunInv
<1>10. n0 # 0
  BY <1>1 DEF Begin, BegunInv
<1> QED BY <1>8, <1>9, <1>10

\* A thread that has started its command holds no job any more.
LEMMA FreeBegun ==
  ASSUME TypeOK, BegunInv, NEW w \in Workers, Finish(w) \/ Expire(w)
  PROVE  BegunInv'
<1>1. UNCHANGED <<raw, taken, begun>> /\ Free(w) /\ w \in started
  BY DEF Finish, Expire
<1>2. \A v \in Workers, h \in HookSet, d \in Devices, n \in Nat \ {0} :
         Holds(v, h, d, n)' <=> Holds(v, h, d, n)
  <2> SUFFICES ASSUME NEW v \in Workers, NEW h \in HookSet, NEW d \in Devices, NEW n \in Nat \ {0}
               PROVE  Holds(v, h, d, n)' <=> Holds(v, h, d, n)
    OBVIOUS
  <2>1. CASE v # w
    <3>1. running'[v] = running[v] /\ (v \in started' <=> v \in started)
      BY <1>1, <2>1 DEF Free, TypeOK
    <3> QED BY <3>1 DEF Holds
  <2>2. CASE v = w
    <3>1. running'[w] = NoJob
      BY <1>1 DEF Free, TypeOK
    <3> QED BY <1>1, <2>2, <3>1 DEF Holds, NoJob, Job, Firing
  <2> QED BY <2>1, <2>2
<1>3. \A h, d, n : /\ Taken(h, d, n)' <=> Taken(h, d, n)
                   /\ Begun(h, d, n)' <=> Begun(h, d, n)
                   /\ NotThere(h)' <=> NotThere(h)
  BY <1>1 DEF Taken, Begun, NotThere
<1>4. \A h \in HookSet, d \in Devices, n \in Nat \ {0} : JobInv(h, d, n)'
  BY <1>2, <1>3 DEF BegunInv, JobInv
<1>5. \A v \in Workers : running'[v] # NoJob => running'[v].event.nr # 0
  <2>1. \A v \in Workers : running'[v] = running[v] \/ running'[v] = NoJob
    BY <1>1 DEF Free, TypeOK
  <2> QED BY <2>1 DEF BegunInv
<1> QED BY <1>1, <1>4, <1>5 DEF BegunInv

LEMMA NextBegun == TypeOK /\ HooksInv /\ BegunInv /\ [Next]_vars => BegunInv'
<1> SUFFICES ASSUME TypeOK, HooksInv, BegunInv, [Next]_vars PROVE BegunInv'
  OBVIOUS
<1>1. ASSUME NEW d \in Devices, Report(d) \/ Press(d) \/ Name(d) PROVE BegunInv'
  BY <1>1, SameBegun DEF Report, Press, Name
<1>2. CASE HandleReport \/ HandleSwitch \/ Submit \/ Stop \/ End
  BY <1>2, SameBegun DEF HandleReport, HandleSwitch, Submit, Stop, End
<1>3. ASSUME NEW w \in Workers, Take(w) PROVE BegunInv'
  BY <1>3, TakeBegun
<1>4. ASSUME NEW w \in Workers, Begin(w) PROVE BegunInv'
  BY <1>4, BeginBegun
<1>5. ASSUME NEW w \in Workers, Finish(w) \/ Expire(w) PROVE BegunInv'
  BY <1>5, FreeBegun
<1>6. CASE UNCHANGED vars
  BY <1>6, SameBegun DEF vars
<1> QED BY <1>1, <1>2, <1>3, <1>4, <1>5, <1>6 DEF Next

LEMMA HooksFollow ==
  ASSUME TypeOK, HooksInv, BegunInv
  PROVE  HooksFollowReports
<1> SUFFICES ASSUME NEW h \in HookSet, NEW d \in Devices
             PROVE  LET ran == Range(begun[h][d])
                    IN /\ \A j, k \in 1..Len(taken[h][d]) : j < k => taken[h][d][j] < taken[h][d][k]
                       /\ IsInjective(begun[h][d]) /\ ran \subseteq Due(h, d)
                       /\ \A i \in Due(h, d), j \in ran : i < j => i \in ran \/ Held(h, d, i)
                       /\ (Idle /\ ~Handling /\ state = "running")
                            => ran = IF NotThere(h) THEN {} ELSE Due(h, d)
  BY DEF HooksFollowReports
<1> DEFINE ran == Range(begun[h][d])
<1>1. /\ begun[h][d] \in Seq(Nat) /\ ran \subseteq Nat
      /\ \A n \in Nat : n \in ran <=> Begun(h, d, n)
  <2>1. begun[h][d] \in Seq(Nat)
    BY DEF TypeOK
  <2> QED BY <2>1, ElementOfSeq, LenProperties DEF Range, Begun
<1>2. Due(h, d) \subseteq Nat \ {0}
  BY DEF Due
<1>3. IsInjective(begun[h][d])
  <2>1. DOMAIN begun[h][d] = 1..Len(begun[h][d])
    BY <1>1, LenProperties
  <2>2. \A j, k \in 1..Len(begun[h][d]) : begun[h][d][j] = begun[h][d][k] => j = k
    BY DEF BegunInv
  <2> QED BY <2>1, <2>2 DEF IsInjective
<1> HIDE DEF ran
<1>4. \A n \in ran : n \in Nat \ {0} /\ Taken(h, d, n) /\ ~NotThere(h)
  <2> SUFFICES ASSUME NEW n \in ran PROVE n \in Nat \ {0} /\ Taken(h, d, n) /\ ~NotThere(h)
    OBVIOUS
  <2>1. n \in Nat /\ Begun(h, d, n)
    BY <1>1
  <2>2. n # 0
    BY <2>1 DEF Begun, BegunInv
  <2>3. JobInv(h, d, n)
    BY <2>1, <2>2 DEF BegunInv
  <2> QED BY <2>1, <2>2, <2>3 DEF JobInv
<1>5. \A n \in Nat : Taken(h, d, n) => Submitted(h, d, n)
  BY DEF Taken, Submitted
<1>6. ran \subseteq Due(h, d)
  BY <1>4, <1>5 DEF HooksInv, DueInv
<1>7. ASSUME NEW i \in Nat \ {0}, Taken(h, d, i), ~NotThere(h)
      PROVE  i \in ran \/ Held(h, d, i)
  <2>1. JobInv(h, d, i)
    BY DEF BegunInv
  <2>2. Begun(h, d, i) \/ \E w \in Workers : Holds(w, h, d, i)
    BY <1>7, <2>1 DEF JobInv
  <2> QED BY <1>1, <2>2 DEF Holds, Held
<1>8. ASSUME NEW i \in Due(h, d), NEW j \in ran, i < j PROVE i \in ran \/ Held(h, d, i)
  <2>1. i \in Nat \ {0} /\ j \in Nat \ {0} /\ Taken(h, d, j) /\ ~NotThere(h) /\ Submitted(h, d, j)
    BY <1>2, <1>4, <1>5
  <2>2. Submitted(h, d, i)
    BY <1>8, <2>1 DEF HooksInv, MissingInv
  <2>3. PICK k \in 1..Len(taken[h][d]) : taken[h][d][k] = j
    BY <2>1 DEF Taken
  <2>4. \A l \in 1..Len(jobs) : IsJob(l, h, d) => j < jobs[l].event.nr
    BY <2>3 DEF HooksInv, OrderInv
  <2>5. ~\E l \in 1..Len(jobs) : IsJob(l, h, d) /\ jobs[l].event.nr = i
    BY <1>8, <2>1, <2>4
  <2>6. Taken(h, d, i)
    BY <2>2, <2>5 DEF Submitted, Taken
  <2> QED BY <1>7, <2>1, <2>6
<1>9. ASSUME Idle, ~Handling, state = "running", ~NotThere(h), NEW i \in Due(h, d) PROVE i \in ran
  <2>1. Submitted(h, d, i)
    BY <1>9 DEF HooksInv, MissingInv, AboutTo
  <2>2. Len(jobs) = 0
    BY <1>9, EmptySeq DEF Idle
  <2>3. i \in Nat \ {0} /\ Taken(h, d, i)
    BY <1>2, <2>1, <2>2 DEF Submitted, Taken
  <2>4. ~Held(h, d, i)
    BY <1>9, <2>3 DEF Held, Idle, NoJob, Job, Firing
  <2> QED BY <1>7, <1>9, <2>3, <2>4
<1>10. \A j, k \in 1..Len(taken[h][d]) : j < k => taken[h][d][j] < taken[h][d][k]
  BY DEF HooksInv, OrderInv
<1>11. (Idle /\ ~Handling /\ state = "running") => ran = IF NotThere(h) THEN {} ELSE Due(h, d)
  BY <1>4, <1>6, <1>9
<1> QED BY <1>3, <1>6, <1>8, <1>10, <1>11 DEF ran

\* For every hook and device the jobs are taken in the order of the events, and
\* their commands are started once for each change; a command starts before that
\* of an earlier change only while other threads hold all those earlier ones,
\* whatever else the file contains and however slowly the pool works
\* (EventHookSubscriber, hooks.fire, hooks._run, _parse_hooks).
THEOREM HooksCorrect == Spec => []HooksFollowReports
<1>1. TypeOK /\ HooksInv /\ BegunInv => HooksFollowReports
  BY HooksFollow
<1> QED BY <1>1, InitType, NextType, InitHooks, NextHooks, InitBegun, NextBegun, PTL DEF Spec
=============================================================================
