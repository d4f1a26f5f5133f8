---------------------------- MODULE DeviceCache ----------------------------
(***************************************************************************)
(* The file that keeps what was found out about devices across restarts.   *)
(* The objects of the cache are those of the registry: while one thread    *)
(* writes them into the file, entry by entry, tasks go on changing them.   *)
(* The orchestrator saves a device once it is complete, and the thread     *)
(* that sees a keyboard reject analytics saves the change of its flags     *)
(* before it asks for the keys again; a lock keeps the two apart.  The     *)
(* process may die at any time, and another one may clear the cache.       *)
(***************************************************************************)
EXTENDS Naturals, Sequences, FiniteSets

CONSTANTS
  Devices,
  Keyboards,   \* devices whose keys are set up; all of them reject analytics
  MaxCrashes,  \* bound: ends of the process, followed by a new start
  MaxFailures, \* bound: errors of the file system
  MaxClears    \* bound: runs of --clear-cache

ASSUME KeyboardAssumption == Keyboards \subseteq Devices
ASSUME BoundsAssumption == MaxCrashes \in Nat /\ MaxFailures \in Nat /\ MaxClears \in Nat

None == "none"
ASSUME NoneAssumption == None \notin Devices
Threads == {"orchestrator", "rejection"}

\* The steps of a device: features to find, and the keys, which need one.
Features(d) == IF d \in Keyboards THEN {"reprog", "host"} ELSE {"host"}
Steps(d) == Features(d) \union (IF d \in Keyboards THEN {"keys"} ELSE {})
KeyFlags == {"divertable", "analytics"}
AllFeatures == {"reprog", "host"}
Objects == [known : SUBSET AllFeatures, flags : SUBSET KeyFlags,
            pending : SUBSET (AllFeatures \union {"keys"})]
Fresh(d) == [known |-> {}, flags |-> {}, pending |-> Steps(d)]

VARIABLES
  \* the process
  object,     \* object[d]: the LogiDevice
  half,       \* half[d]: steps whose task has stored its result, no more
  registered, \* devices of the registry
  cached,     \* devices of _cache_registry
  announced,  \* InfoTaskOrchestrator._announced
  progress,   \* successes the orchestrator has still to handle
  echoes,     \* rejections the other thread has still to handle
  \* saving
  saving,     \* saving[t]: the device t wants to save
  holder,     \* the thread that has the lock
  todo,       \* entries still to be written
  entry,      \* the one that is being written
  tmp,        \* the temporary file
  file,       \* the cache file: absent, or what it says of devices
  \* what happens to it
  crashes, failures, clears,
  \* history
  torn,       \* devices of which a step was settled while they were written
  stale,      \* since the last save that went well the disk failed or was cleared
  unread,     \* the file could not be read at the last start
  rejected, rearmed, interrupted \* keyboards since then: analytics rejected;
              \* asked for their keys again; their save ended by an exception

objectVars == <<object, half, registered, announced, progress, echoes>>
saveVars == <<cached, saving, holder, todo, entry, tmp>>
worldVars == <<crashes, failures, clears>>
historyVars == <<torn, stale, unread, rejected, rearmed, interrupted>>
vars == <<objectVars, saveVars, file, worldVars, historyVars>>

NoEntry == [dev |-> None, at |-> "next", value |-> Fresh(None)]
NoFile == <<>>

TypeOK ==
  /\ object \in [Devices -> Objects]
  /\ half \in [Devices -> SUBSET (AllFeatures \union {"keys"})]
  /\ \A d \in Devices : half[d] = {} \/ (d \in registered /\ half[d] \subseteq Steps(d))
  /\ registered \subseteq Devices /\ cached \subseteq Devices /\ announced \subseteq registered
  /\ progress \in Seq(registered) /\ echoes \in Seq(registered)
  /\ saving \in [Threads -> Devices \union {None}] /\ saving["rejection"] \in rejected \union {None}
  /\ holder \in Threads \union {None} /\ (holder # None => saving[holder] \in cached)
  /\ todo \subseteq cached /\ (holder = None => todo = {})
  /\ tmp \in [DOMAIN tmp -> Objects] /\ DOMAIN tmp \subseteq cached \ todo
  /\ entry \in [dev : Devices \union {None}, at : {"next", "features", "flags", "steps"}, value : Objects]
  /\ entry = NoEntry \/ (entry.at # "next" /\ entry.dev \in todo)
  /\ file \in [DOMAIN file -> Objects] /\ DOMAIN file \subseteq Devices
  /\ crashes \in 0..MaxCrashes /\ failures \in 0..MaxFailures /\ clears \in 0..MaxClears
  /\ torn \subseteq Devices /\ stale \in BOOLEAN /\ unread \in BOOLEAN
  /\ rejected \subseteq Devices /\ rearmed \subseteq rejected /\ interrupted \subseteq rejected

\* DeviceCache(path) and load; an unreadable file counts as empty.
Load(readable) ==
  LET found == IF readable THEN DOMAIN file ELSE {}
  IN /\ object' = [d \in Devices |-> IF d \in found THEN file[d] ELSE Fresh(d)]
     /\ cached' = found
     /\ unread' = (~readable /\ file # NoFile)

\* Everything else starts empty.
Started ==
  /\ half' = [d \in Devices |-> {}] /\ registered' = {} /\ announced' = {}
  /\ progress' = <<>> /\ echoes' = <<>>
  /\ saving' = [t \in Threads |-> None] /\ holder' = None
  /\ todo' = {} /\ entry' = NoEntry /\ tmp' = <<>>
  /\ rejected' = {} /\ rearmed' = {} /\ interrupted' = {}

\* The first start, without a file.
Init ==
  /\ object = [d \in Devices |-> Fresh(d)] /\ cached = {} /\ unread = FALSE
  /\ half = [d \in Devices |-> {}] /\ registered = {} /\ announced = {}
  /\ progress = <<>> /\ echoes = <<>>
  /\ saving = [t \in Threads |-> None] /\ holder = None
  /\ todo = {} /\ entry = NoEntry /\ tmp = <<>>
  /\ rejected = {} /\ rearmed = {} /\ interrupted = {}
  /\ file = NoFile /\ crashes = 0 /\ failures = 0 /\ clears = 0
  /\ torn = {} /\ stale = FALSE

\* The process dies, at any point of a save, and is started again.
Restart ==
  /\ crashes < MaxCrashes /\ crashes' = crashes + 1
  /\ \/ Load(TRUE) /\ UNCHANGED failures
     \/ Load(FALSE) /\ failures < MaxFailures /\ failures' = failures + 1
  /\ Started
  /\ UNCHANGED <<file, clears, torn, stale>>

\* main() with --clear-cache, in a process of its own: DeviceCache.clear.
Clear ==
  /\ clears < MaxClears /\ clears' = clears + 1
  /\ file' = NoFile /\ stale' = TRUE
  /\ UNCHANGED <<objectVars, saveVars, crashes, failures, torn, unread, rejected, rearmed, interrupted>>

----------------------------------------------------------------------------
\* DeviceConnectionSubscriber: the object of the cache, if there is one, is
\* registered itself.
Connect(d) ==
  /\ d \notin registered /\ registered' = registered \union {d}
  /\ UNCHANGED <<object, half, announced, progress, echoes, saveVars, file, worldVars, historyVars>>

\* Mutant: the step is settled first.
StoreAfter(d, s) ==
  /\ d \in registered /\ s \in object[d].pending \ half[d]
  /\ s = "keys" => "reprog" \in object[d].known
  /\ object' = [object EXCEPT ![d].pending = @ \ {s}]
  /\ half' = [half EXCEPT ![d] = @ \union {s}]
  /\ UNCHANGED <<registered, announced, progress, echoes, saveVars, file, worldVars, historyVars>>

\* A task has its answer: it stores what it found ...
Found(o, s) ==
  IF s = "keys" THEN [o EXCEPT !.flags = KeyFlags] ELSE [o EXCEPT !.known = @ \union {s}]
Store(d, s) ==
  /\ d \in registered /\ s \in object[d].pending \ half[d]
  /\ s = "keys" => "reprog" \in object[d].known
  /\ object' = [object EXCEPT ![d] = Found(@, s)]
  /\ half' = [half EXCEPT ![d] = @ \union {s}]
  /\ UNCHANGED <<registered, announced, progress, echoes, saveVars, file, worldVars, historyVars>>

\* ... and then takes the step off pending_steps and reports success.
Discard(d, s) ==
  /\ s \in half[d] /\ half' = [half EXCEPT ![d] = @ \ {s}]
  /\ object' = [object EXCEPT ![d].pending = @ \ {s}]
  /\ progress' = Append(progress, d)
  /\ torn' = IF entry.dev = d THEN torn \union {d} ELSE torn
  /\ UNCHANGED <<registered, announced, echoes, saveVars, file, worldVars, stale, unread, rejected,
                 rearmed, interrupted>>

\* The keys are set through analytics; the keyboard echoes a cleared byte.
Echo(d) ==
  /\ d \in registered /\ "analytics" \in object[d].flags
  /\ \A i \in 1..Len(echoes) : echoes[i] # d
  /\ echoes' = Append(echoes, d)
  /\ UNCHANGED <<object, half, registered, announced, progress, saveVars, file, worldVars, historyVars>>

----------------------------------------------------------------------------
\* InfoTaskOrchestrator._handle_progress
HandleProgress ==
  /\ saving["orchestrator"] = None /\ progress # <<>> /\ progress' = Tail(progress)
  /\ LET d == Head(progress)
     IN IF object[d].pending = {} /\ d \notin announced
        THEN /\ announced' = announced \union {d}
             /\ saving' = [saving EXCEPT !["orchestrator"] = d]
        ELSE UNCHANGED <<announced, saving>>
  /\ UNCHANGED <<object, half, registered, echoes, cached, holder, todo, entry, tmp, file, worldVars,
                 historyVars>>

\* AnalyticsRejectionSubscriber.notify
HandleEcho ==
  /\ saving["rejection"] = None /\ echoes # <<>> /\ echoes' = Tail(echoes)
  /\ LET d == Head(echoes)
     IN IF "analytics" \in object[d].flags
        THEN /\ object' = [object EXCEPT ![d].flags = @ \ {"analytics"}]
             /\ saving' = [saving EXCEPT !["rejection"] = d]
             /\ rejected' = rejected \union {d} /\ rearmed' = rearmed \ {d}
        ELSE UNCHANGED <<object, saving, rejected, rearmed>>
  /\ UNCHANGED <<half, registered, announced, progress, cached, holder, todo, entry, tmp, file,
                 worldVars, torn, stale, unread, interrupted>>

\* Mutants: only the device itself is written; the file itself is written.
LockForOne(t) ==
  /\ holder = None /\ saving[t] # None /\ holder' = t
  /\ cached' = cached \union {saving[t]} /\ todo' = {saving[t]} /\ tmp' = <<>>
  /\ UNCHANGED <<objectVars, saving, entry, file, worldVars, historyVars>>
LockInPlace(t) ==
  /\ holder = None /\ saving[t] # None /\ holder' = t
  /\ cached' = cached \union {saving[t]} /\ todo' = cached' /\ tmp' = <<>>
  /\ file' = [d \in {} |-> Fresh(d)]
  /\ UNCHANGED <<objectVars, saving, entry, worldVars, historyVars>>

\* DeviceCache.save takes the lock; _write_to_disk opens the temporary file
\* and begins to write all devices of the cache.
Lock(t) ==
  /\ holder = None /\ saving[t] # None /\ holder' = t
  /\ cached' = cached \union {saving[t]} /\ todo' = cached' /\ tmp' = <<>>
  /\ UNCHANGED <<objectVars, saving, entry, file, worldVars, historyVars>>

\* json.dump walks over the live objects: it begins with the features, ...
BeginEntry(d) ==
  /\ d \in todo /\ entry.at = "next"
  /\ entry' = [dev |-> d, at |-> "features", value |-> object[d]]
  /\ UNCHANGED <<objectVars, cached, saving, holder, todo, tmp, file, worldVars, historyVars>>

\* Mutant: the entry that was begun is not given up.
UnlockOnly ==
  /\ holder' = None /\ saving' = [saving EXCEPT ![holder] = None]
  /\ todo' = {} /\ tmp' = <<>> /\ UNCHANGED entry

Unlock ==
  /\ holder' = None /\ saving' = [saving EXCEPT ![holder] = None]
  /\ todo' = {} /\ entry' = NoEntry /\ tmp' = <<>>

\* ... which must not grow meanwhile: the RuntimeError is not caught, and ends
\* the handler that wanted to save; then come the flags, ...
EndFeatures ==
  /\ entry.at = "features"
  /\ IF object[entry.dev].known = entry.value.known
     THEN /\ entry' = [entry EXCEPT !.at = "flags"]
          /\ UNCHANGED <<saving, holder, todo, tmp, interrupted>>
     ELSE /\ Unlock
          /\ interrupted' = IF holder = "rejection" THEN interrupted \union {saving[holder]}
                                                    ELSE interrupted
  /\ UNCHANGED <<objectVars, cached, file, worldVars, torn, stale, unread, rejected, rearmed>>

WriteFlags ==
  /\ entry.at = "flags"
  /\ entry' = [entry EXCEPT !.at = "steps", !.value.flags = object[entry.dev].flags]
  /\ UNCHANGED <<objectVars, cached, saving, holder, todo, tmp, file, worldVars, historyVars>>

\* ... and the steps.
WriteSteps ==
  /\ entry.at = "steps"
  /\ LET d == entry.dev
     IN /\ tmp' = [e \in DOMAIN tmp \union {d} |->
             IF e = d THEN [entry.value EXCEPT !.pending = object[d].pending] ELSE tmp[e]]
        /\ todo' = todo \ {d}
  /\ entry' = NoEntry
  /\ UNCHANGED <<objectVars, cached, saving, holder, file, worldVars, historyVars>>

\* The handler goes on after save: the rejection is followed by a
\* SetReportFlagEvent.
GoOn ==
  /\ Unlock
  /\ rearmed' = IF holder = "rejection" THEN rearmed \union {saving[holder]} ELSE rearmed

\* os.replace
Replace ==
  /\ holder # None /\ todo = {}
  /\ file' = tmp /\ stale' = FALSE
  /\ GoOn
  /\ UNCHANGED <<objectVars, cached, worldVars, torn, unread, rejected, interrupted>>

\* Mutant: the error is passed on to the handler.
FailToWriteLoudly ==
  /\ holder # None
  /\ failures < MaxFailures /\ failures' = failures + 1
  /\ stale' = TRUE
  /\ Unlock
  /\ UNCHANGED <<objectVars, cached, file, crashes, clears, torn, unread, rejected, rearmed, interrupted>>

\* An OSError on the way is logged, and that is all.
FailToWrite ==
  /\ holder # None
  /\ failures < MaxFailures /\ failures' = failures + 1
  /\ stale' = TRUE
  /\ GoOn
  /\ UNCHANGED <<objectVars, cached, file, crashes, clears, torn, unread, rejected, interrupted>>

Next ==
  \/ Restart \/ Clear \/ HandleProgress \/ HandleEcho
  \/ \E d \in Devices :
       \/ Connect(d) \/ Echo(d) \/ BeginEntry(d)
       \/ \E s \in Steps(d) : Store(d, s) \/ Discard(d, s)
  \/ \E t \in Threads : Lock(t)
  \/ EndFeatures \/ WriteFlags \/ WriteSteps \/ Replace \/ FailToWrite

Spec == Init /\ [][Next]_vars

----------------------------------------------------------------------------
HasAll(d, o) == o.known = Features(d) /\ (d \in Keyboards => "divertable" \in o.flags)
NothingLost(d, o) ==
  /\ Features(d) \ o.known \subseteq o.pending
  /\ (d \in Keyboards /\ "divertable" \notin o.flags) => "keys" \in o.pending

\* Neither the file nor an object restored from it ever takes for settled what
\* was not found, so that it would never be asked for again, whenever the
\* process died; unless a step was settled while the entry was being written.
NothingMissed ==
  \A d \in Devices \ torn :
    /\ NothingLost(d, object[d])
    /\ d \in DOMAIN file => NothingLost(d, file[d])

\* A device that the file once has completely stays so: crashes, failed writes
\* and the saves of other devices do not take it away, unless the cache is
\* cleared or could not be read at the last start.
Finished(d) == d \in DOMAIN file /\ file[d].pending = {} /\ HasAll(d, file[d])
FinishedStays ==
  [][\A d \in Devices : (Finished(d) /\ ~unread /\ clears' = clears) => Finished(d)']_vars

Quiet ==
  /\ progress = <<>> /\ echoes = <<>> /\ saving = [t \in Threads |-> None]
  /\ \A d \in registered : object[d].pending = {} /\ "analytics" \notin object[d].flags

\* At rest the file says of every announced device what the daemon knows, also
\* when a save was ended by a device that was still growing: unless the last
\* save met an error of the file system or the cache was cleared after it.
RestIsSaved ==
  (Quiet /\ ~stale) => \A d \in announced : d \in DOMAIN file /\ file[d] = object[d]

\* A keyboard that rejected analytics is asked for its keys again, whatever
\* the file system says, unless a device grew while the file was written.
RejectionRearms == Quiet => rejected \subseteq rearmed \union interrupted
=============================================================================
