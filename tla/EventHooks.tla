----------------------------- MODULE EventHooks -----------------------------
(***************************************************************************)
(* Commands of the user that run when a device connects, disconnects or    *)
(* switches.  The configuration is read once; a subscriber of hid_event    *)
(* turns reports about devices that discovery has named into jobs, and a   *)
(* pool of threads runs the jobs with a timeout.  The process ends when    *)
(* the pool has worked off what it was given.                              *)
(***************************************************************************)
EXTENDS Naturals, Sequences, Functions

CONSTANTS
  Devices, Keyboards, \* role tells the keyboards from the others
  HookNames,    \* names of the hooks, in the order of the file
  RawConfigs,   \* files: what is written under "hooks"
  Workers,      \* threads of the pool
  MaxEvents     \* bound: reports and switches

ASSUME KeyboardAssumption == Keyboards \subseteq Devices
ASSUME BoundsAssumption == MaxEvents \in Nat
ASSUME NamesAssumption == HookNames \in Seq(Range(HookNames)) /\ IsInjective(HookNames)

None == "none"
Types == {"connect", "disconnect", "switch"}
HookSet == Range(HookNames)

\* A hook of the file: its type may list words that are no type, a script may
\* be missing or hang, and a timeout may not be a number.
RawHooks == [isMapping : BOOLEAN, path : BOOLEAN, command : BOOLEAN,
             type : SUBSET (Types \union {"other"}), all : {"unset", "yes", "no"},
             timeout : {"number", "text"}, script : {"ends", "hangs", "missing"}]
ASSUME ConfigAssumption ==
  \A file \in RawConfigs :
    file.all \in BOOLEAN /\ file.isEmpty \in BOOLEAN /\ file.hooks \in [HookSet -> RawHooks]

VARIABLES
  raw,       \* the file that was read
  hooks,     \* hooks_config.hooks: what became of it
  state,     \* of the daemon: "running", "stopping" or "ended"
  link,      \* devices that are connected
  named,     \* devices whose name and role discovery has stored
  events,    \* hid_event, for EventHookSubscriber
  lastState, \* _last_state
  firing,    \* fire: the event whose hooks the subscriber submits,
  next,      \* and how far it is in the order of the file
  jobs,      \* the queue of _executor
  running,   \* running[w]: the job that a thread has taken
  started,   \* threads that have come as far as starting its command
  happened,  \* number of reports and switches
  \* history
  heard,     \* heard[d]: events of d handled since it was named
  taken,     \* taken[h][d]: numbers of the events whose job a thread has taken,
  begun      \* begun[h][d]: and whose command it has started

worldVars == <<raw, hooks, link, named, happened>>
fireVars == <<firing, next>>
poolVars == <<running, started>>
historyVars == <<heard, taken, begun>>
vars == <<worldVars, state, events, lastState, fireVars, jobs, poolVars, historyVars>>

\* An event has a number among those of its device, which only the history uses.
Firing(d, type, nr) == [dev |-> d, type |-> type, nr |-> nr]
FiringSet == [dev : Devices, type : Types, nr : Nat]
Job(h, event) == [hook |-> h, event |-> event]
JobSet == [hook : HookSet, event : FiringSet]
NoJob == Job(None, Firing(None, None, 0))
Event(d, type) == [dev |-> d, type |-> type]
Handling == next <= Len(HookNames)

\* _parse_hook_types and the checks of _parse_hooks: entries that are not
\* well-formed are skipped.
ParseTypes(spec) == spec.type \intersect Types
WellFormed(spec) == spec.isMapping /\ spec.path # spec.command /\ ParseTypes(spec) # {}

\* Mutant: an entry is kept when none of its types is valid.
ParseHooksLoose(file) ==
  [h \in {n \in HookSet : file.hooks[n].isMapping /\ file.hooks[n].path # file.hooks[n].command} |->
     [types |-> ParseTypes(file.hooks[h]),
      all |-> IF file.hooks[h].all = "unset" THEN file.all ELSE file.hooks[h].all = "yes"]]

\* _parse_hooks; HookEntry.fire_for_all_devices is None if the hook does not
\* say anything, and the global setting holds.
ParseHooks(file) ==
  [h \in {n \in HookSet : WellFormed(file.hooks[n])} |->
     [types |-> ParseTypes(file.hooks[h]),
      all |-> IF file.hooks[h].all = "unset" THEN file.all ELSE file.hooks[h].all = "yes"]]

\* int(...) of a timeout that is not a number raises, and so does a section
\* without content: the daemon does not start.
Rejected(file) == file.isEmpty \/ \E h \in HookSet : WellFormed(file.hooks[h]) /\ file.hooks[h].timeout = "text"

TypeOK ==
  /\ raw \in RawConfigs
  /\ DOMAIN hooks \subseteq HookSet
  /\ \A h \in DOMAIN hooks : hooks[h] \in [types : (SUBSET Types) \ {{}}, all : BOOLEAN]
  /\ state \in {"running", "stopping", "ended"}
  /\ link \subseteq Devices /\ named \subseteq Devices
  /\ events \in Seq([dev : Devices, type : Types])
  /\ lastState \in [Devices -> {None, "connect", "disconnect"}]
  /\ \A d \in Devices \ named : lastState[d] = None
  /\ next \in 1..(Len(HookNames) + 1) /\ (Handling => firing \in FiringSet)
  /\ jobs \in Seq(JobSet)
  /\ \A i \in 1..Len(jobs) : jobs[i].hook \in DOMAIN hooks
  /\ \A i \in 1..Len(jobs) : jobs[i].event.type \in hooks[jobs[i].hook].types
  /\ running \in [Workers -> JobSet \union {NoJob}]
  /\ started \subseteq {w \in Workers : running[w] # NoJob}
  /\ happened \in 0..MaxEvents
  /\ heard \in [Devices -> Seq(Types)]
  /\ taken \in [HookSet -> [Devices -> Seq(Nat)]] /\ begun \in [HookSet -> [Devices -> Seq(Nat)]]

Init ==
  /\ raw \in RawConfigs
  /\ hooks = ParseHooks(raw)
  /\ state = IF Rejected(raw) THEN "ended" ELSE "running"
  /\ link = {} /\ named = {} /\ happened = 0
  /\ events = <<>> /\ lastState = [d \in Devices |-> None]
  /\ firing = NoJob.event /\ next = Len(HookNames) + 1
  /\ jobs = <<>> /\ running = [w \in Workers |-> NoJob] /\ started = {}
  /\ heard = [d \in Devices |-> <<>>]
  /\ taken = [h \in HookSet |-> [d \in Devices |-> <<>>]] /\ begun = taken

----------------------------------------------------------------------------
\* The receiver reports a device, again or because its link has changed; a
\* lost receiver is reported device by device.
Report(d) ==
  /\ state # "ended"
  /\ happened < MaxEvents /\ happened' = happened + 1
  /\ link' \in {link \union {d}, link \ {d}}
  /\ events' = Append(events, Event(d, IF d \in link' THEN "connect" ELSE "disconnect"))
  /\ UNCHANGED <<raw, hooks, state, named, lastState, fireVars, jobs, poolVars, historyVars>>

\* An Easy-Switch key is pressed, or a device says that it changes its host:
\* this may be a mouse, and one whose link has not been reported.
Press(d) ==
  /\ state # "ended"
  /\ happened < MaxEvents /\ happened' = happened + 1
  /\ events' = Append(events, Event(d, "switch"))
  /\ UNCHANGED <<raw, hooks, state, link, named, lastState, fireVars, jobs, poolVars, historyVars>>

\* Tasks of discovery store the name and the role of a device.
Name(d) ==
  /\ state # "ended" /\ d \notin named /\ named' = named \union {d}
  /\ UNCHANGED <<raw, hooks, state, link, happened, events, lastState, fireVars, jobs, poolVars, historyVars>>

\* The subscriber takes the next event of d and sets out to fire its hooks, or
\* only takes it.
Hear(d, type) == heard' = [heard EXCEPT ![d] = Append(@, type)]
Fire(d, type) == firing' = Firing(d, type, Len(heard[d]) + 1) /\ next' = 1

\* Mutant: the state is kept also of a device without a name.
HandleReportEarly ==
  /\ events # <<>> /\ Head(events).type # "switch" /\ state # "ended" /\ ~Handling
  /\ events' = Tail(events)
  /\ LET d == Head(events).dev
         type == Head(events).type
     IN /\ lastState' = [lastState EXCEPT ![d] = type]
        /\ IF d \in named THEN Hear(d, type) ELSE UNCHANGED heard
        /\ IF d \in named /\ lastState[d] # type THEN Fire(d, type) ELSE UNCHANGED fireVars
  /\ UNCHANGED <<worldVars, state, jobs, poolVars, taken, begun>>

\* EventHookSubscriber._on_device_connected
HandleReport ==
  /\ events # <<>> /\ Head(events).type # "switch" /\ state # "ended" /\ ~Handling
  /\ events' = Tail(events)
  /\ LET d == Head(events).dev
         type == Head(events).type
     IN IF d \in named
        THEN /\ Hear(d, type)
             /\ lastState' = [lastState EXCEPT ![d] = type]
             /\ IF lastState[d] # type THEN Fire(d, type) ELSE UNCHANGED fireVars
        ELSE UNCHANGED <<heard, lastState, fireVars>>
  /\ UNCHANGED <<worldVars, state, jobs, poolVars, taken, begun>>

\* EventHookSubscriber._on_host_change
HandleSwitch ==
  /\ events # <<>> /\ Head(events).type = "switch" /\ state # "ended" /\ ~Handling
  /\ events' = Tail(events)
  /\ LET d == Head(events).dev
     IN IF d \in named
        THEN Hear(d, "switch") /\ Fire(d, "switch")
        ELSE UNCHANGED <<heard, fireVars>>
  /\ UNCHANGED <<worldVars, state, lastState, jobs, poolVars, taken, begun>>

\* fire: the loop over the hooks in the order of the file; threads of the pool
\* may start the first job before the last is submitted.  Once the interpreter
\* shuts down submit raises, and the bus logs it.
Wants(h) ==
  h \in DOMAIN hooks /\ firing.type \in hooks[h].types /\ (hooks[h].all \/ firing.dev \in Keyboards)
Submit ==
  /\ Handling /\ state # "ended"
  /\ next' = IF state = "running" THEN next + 1 ELSE Len(HookNames) + 1
  /\ jobs' = IF state = "running" /\ Wants(HookNames[next])
             THEN Append(jobs, Job(HookNames[next], firing)) ELSE jobs
  /\ UNCHANGED <<worldVars, state, events, lastState, firing, poolVars, historyVars>>

----------------------------------------------------------------------------
\* A thread of the pool takes the next job off the queue, and that is all the
\* queue orders.
Take(w) ==
  /\ running[w] = NoJob /\ jobs # <<>> /\ jobs' = Tail(jobs)
  /\ LET job == Head(jobs)
     IN /\ running' = [running EXCEPT ![w] = job]
        /\ taken' = [taken EXCEPT ![job.hook][job.event.dev] = Append(@, job.event.nr)]
  /\ UNCHANGED <<worldVars, state, events, lastState, fireVars, started, heard, begun>>

\* _run as far as subprocess.run, at the thread's own pace: the other one may
\* have taken a later job and be here first.  A script that is not there ends
\* the job.
Begin(w) ==
  /\ running[w] # NoJob /\ w \notin started
  /\ LET job == running[w]
         spec == raw.hooks[job.hook]
     IN \/ /\ spec.path /\ spec.script = "missing"
           /\ running' = [running EXCEPT ![w] = NoJob] /\ UNCHANGED <<started, begun>>
        \/ /\ ~(spec.path /\ spec.script = "missing")
           /\ started' = started \union {w}
           /\ begun' = [begun EXCEPT ![job.hook][job.event.dev] = Append(@, job.event.nr)]
           /\ UNCHANGED running
  /\ UNCHANGED <<worldVars, state, events, lastState, fireVars, jobs, heard, taken>>

Free(w) == running' = [running EXCEPT ![w] = NoJob] /\ started' = started \ {w}

\* The command ends, with whatever code or exception.
Finish(w) ==
  /\ w \in started /\ raw.hooks[running[w].hook].script # "hangs"
  /\ Free(w)
  /\ UNCHANGED <<worldVars, state, events, lastState, fireVars, jobs, historyVars>>

\* Mutant: nobody waits for the timeout of a command, only of a script.
ExpireScript(w) ==
  /\ w \in started /\ raw.hooks[running[w].hook].script = "hangs"
  /\ raw.hooks[running[w].hook].path
  /\ Free(w)
  /\ UNCHANGED <<worldVars, state, events, lastState, fireVars, jobs, historyVars>>

\* subprocess.TimeoutExpired
Expire(w) ==
  /\ w \in started /\ raw.hooks[running[w].hook].script = "hangs"
  /\ Free(w)
  /\ UNCHANGED <<worldVars, state, events, lastState, fireVars, jobs, historyVars>>

\* The main thread is done; the interpreter waits for the pool.
Stop ==
  /\ state = "running" /\ state' = "stopping"
  /\ UNCHANGED <<worldVars, events, lastState, fireVars, jobs, poolVars, historyVars>>
Idle == jobs = <<>> /\ \A w \in Workers : running[w] = NoJob
End ==
  /\ state = "stopping" /\ Idle /\ state' = "ended"
  /\ UNCHANGED <<worldVars, events, lastState, fireVars, jobs, poolVars, historyVars>>

Next ==
  \/ \E d \in Devices : Report(d) \/ Press(d) \/ Name(d)
  \/ HandleReport \/ HandleSwitch \/ Submit \/ Stop \/ End
  \/ \E w \in Workers : Take(w) \/ Begin(w) \/ Finish(w) \/ Expire(w)

Spec == Init /\ [][Next]_vars

\* The threads run, and a command ends or its timeout does.
Fairness ==
  /\ WF_vars(HandleReport) /\ WF_vars(HandleSwitch) /\ WF_vars(Submit) /\ WF_vars(End)
  /\ \A w \in Workers :
       WF_vars(Take(w)) /\ WF_vars(Begin(w)) /\ WF_vars(Finish(w)) /\ WF_vars(Expire(w))
FairSpec == Spec /\ Fairness

----------------------------------------------------------------------------
\* What the file promises: h is to run for these events of d, and a report
\* counts if it differs from the report before it.
IsFor(h, d) ==
  d \in Keyboards \/ raw.hooks[h].all = "yes" \/ (raw.hooks[h].all = "unset" /\ raw.all)
Promised(h) ==
  LET spec == raw.hooks[h]
  IN IF spec.isMapping /\ (spec.path \/ spec.command) /\ ~(spec.path /\ spec.command)
     THEN spec.type \ {"other"} ELSE {}
IsNews(d, i) ==
  heard[d][i] = "switch" \/ ~\E j \in 1..(i - 1) : heard[d][j] = heard[d][i]
                                                   /\ \A k \in (j + 1)..(i - 1) : heard[d][k] = "switch"
Due(h, d) ==
  {i \in 1..Len(heard[d]) : IsFor(h, d) /\ heard[d][i] \in Promised(h) /\ IsNews(d, i)}

NotThere(h) == raw.hooks[h].path /\ raw.hooks[h].script = "missing"

\* A thread has taken the job of h for event i of d and not started its command.
Held(h, d, i) ==
  \E w \in Workers \ started :
    running[w].hook = h /\ running[w].event.dev = d /\ running[w].event.nr = i

\* For every hook and device the jobs are taken in the order of the events.
\* Their commands are started once for each change that is heard of since the
\* device has a name and for nothing besides; the commands of two threads may
\* start in either order, but none starts before that of an earlier change
\* unless the other threads hold all those earlier ones.  When all is handled
\* none is missing, but those of a script that is not there.  Another entry of
\* the file that is not well-formed makes no difference, unless its timeout is
\* not a number or the section is empty: then the daemon does not start at all.
HooksFollowReports ==
  \A h \in HookSet, d \in Devices :
    LET ran == Range(begun[h][d])
    IN /\ \A j, k \in 1..Len(taken[h][d]) : j < k => taken[h][d][j] < taken[h][d][k]
       /\ IsInjective(begun[h][d]) /\ ran \subseteq Due(h, d)
       /\ \A i \in Due(h, d), j \in ran : i < j => i \in ran \/ Held(h, d, i)
       /\ (Idle /\ ~Handling /\ state = "running") => ran = IF NotThere(h) THEN {} ELSE Due(h, d)

\* "Hooks are executed asynchronously and never block": scripts that hang, are
\* missing or fail cost no thread of the pool; every job ends, and with the
\* last one the process.
HooksEnd == <>[]Idle /\ (state = "stopping" ~> state = "ended")
=============================================================================
