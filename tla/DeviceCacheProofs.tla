-------------------------- MODULE DeviceCacheProofs --------------------------
(***************************************************************************)
(* What the cache keeps and does not lose, for every set of devices and    *)
(* every number of crashes, errors of the file system and clearings.       *)
(***************************************************************************)
EXTENDS DeviceCache, SequenceTheorems, TLAPS

\* What can be said of every copy of a device: that of the process, the entry
\* being written, the temporary file and the file.
Proper(d, o) == o \in Objects /\ o.known \subseteq Features(d) /\ o.pending \subseteq Steps(d)
ProperCopies ==
  /\ \A d \in Devices : Proper(d, object[d])
  /\ \A d \in Devices : entry.dev = d => Proper(d, entry.value)
  /\ \A d \in DOMAIN tmp : Proper(d, tmp[d])
  /\ \A d \in DOMAIN file : Proper(d, file[d])

\* A step is taken off pending_steps only after its result was stored.
HalfFound ==
  \A d \in Devices : \A s \in half[d] :
    IF s = "keys" THEN "divertable" \in object[d].flags ELSE s \in object[d].known

\* An entry that is not torn misses nothing at any point of being written,
\* because the steps that come last are still those it was begun with.
EntryMissesNothing ==
  \A d \in Devices \ torn :
    entry.dev = d => NothingLost(d, entry.value) /\ entry.value.pending = object[d].pending
MissInv ==
  /\ HalfFound
  /\ EntryMissesNothing
  /\ \A d \in Devices \ torn : d \in DOMAIN tmp => NothingLost(d, tmp[d])
  /\ NothingMissed

\* A device that the file has completely is complete in every copy that may
\* replace the file: objects only ever gain results and lose steps.
Complete(d, o) == o.pending = {} /\ HasAll(d, o)
Grows(o, p) ==
  /\ o.known \subseteq p.known /\ p.pending \subseteq o.pending
  /\ "divertable" \in o.flags => "divertable" \in p.flags
KeepInv ==
  /\ \A d \in Devices : entry.dev = d => Grows(entry.value, object[d])
  /\ \A d \in DOMAIN tmp : Grows(tmp[d], object[d])
  /\ \A d \in Devices : (Finished(d) /\ ~unread) =>
       /\ d \in cached /\ Complete(d, object[d])
       /\ entry.dev = d => HasAll(d, entry.value)
       /\ (holder # None /\ d \notin todo) => d \in DOMAIN tmp /\ Complete(d, tmp[d])

\* Somebody will save all devices again: a thread that wants to and has not
\* begun, or the orchestrator, once a device that it has not announced is complete.
Waiting == \E t \in Threads : saving[t] # None /\ holder # t
Reported(d) == \E i \in 1..Len(progress) : progress[i] = d
Unsettled(d) == d \in registered \ announced /\ (object[d].pending # {} \/ Reported(d))
WillSave == Waiting \/ \E d \in Devices : Unsettled(d)

\* Either that, or the save that is going on, or the file, has the device as it is.
Saved(d) == d \in DOMAIN file /\ file[d] = object[d]
BeingSaved(d) ==
  /\ d \in cached
  /\ d \notin todo => d \in DOMAIN tmp /\ tmp[d] = object[d]
  /\ entry.dev = d => /\ entry.value.known = object[d].known
                      /\ entry.at = "steps" => entry.value.flags = object[d].flags
RestInv ==
  /\ \A d \in announced : object[d].pending = {}
  /\ \A d \in Devices :
       (entry.dev = d /\ entry.at = "features" /\ entry.value.known # object[d].known) => WillSave
  /\ \A d \in announced : holder # None => Waiting \/ BeingSaved(d)
  /\ \A d \in announced : d \in cached \/ saving["orchestrator"] = d
  /\ \A d \in announced : ~stale => Saved(d) \/ WillSave \/ holder # None
RearmInv == \A d \in rejected \ (rearmed \union interrupted) : saving["rejection"] = d

----------------------------------------------------------------------------
USE DEF objectVars, saveVars, worldVars, historyVars

\* The parts of TypeOK.
Entries ==
  [dev : Devices \union {None}, at : {"next", "features", "flags", "steps"}, value : Objects]
ObjectTypes ==
  /\ object \in [Devices -> Objects]
  /\ half \in [Devices -> SUBSET (AllFeatures \union {"keys"})]
  /\ \A d \in Devices : half[d] = {} \/ (d \in registered /\ half[d] \subseteq Steps(d))
QueueTypes ==
  /\ registered \subseteq Devices /\ announced \subseteq registered
  /\ progress \in Seq(registered) /\ echoes \in Seq(registered)
SavingTypes ==
  /\ cached \subseteq Devices /\ saving \in [Threads -> Devices \union {None}]
  /\ holder \in Threads \union {None} /\ (holder # None => saving[holder] \in cached)
  /\ todo \subseteq cached /\ (holder = None => todo = {})
  /\ tmp \in [DOMAIN tmp -> Objects] /\ DOMAIN tmp \subseteq cached \ todo
  /\ entry \in Entries /\ (entry = NoEntry \/ (entry.at # "next" /\ entry.dev \in todo))
FileTypes ==
  /\ file \in [DOMAIN file -> Objects] /\ DOMAIN file \subseteq Devices
  /\ crashes \in 0..MaxCrashes /\ failures \in 0..MaxFailures /\ clears \in 0..MaxClears
  /\ torn \subseteq Devices
  /\ rejected \subseteq Devices /\ rearmed \subseteq rejected /\ interrupted \subseteq rejected
  /\ saving["rejection"] \in rejected \union {None}
Flags == stale \in BOOLEAN /\ unread \in BOOLEAN

LEMMA TypeParts == TypeOK <=> ObjectTypes /\ QueueTypes /\ SavingTypes /\ FileTypes /\ Flags
BY DEF TypeOK, ObjectTypes, QueueTypes, SavingTypes, FileTypes, Flags, Entries

\* What the types need to know of objects and entries.
LEMMA StepTypes == \A d : Steps(d) \subseteq AllFeatures \union {"keys"} /\ Features(d) \subseteq AllFeatures
BY DEF Steps, Features, AllFeatures

LEMMA FreshType == \A d : Fresh(d) \in Objects
BY StepTypes DEF Fresh, Objects

LEMMA NoEntryType == NoEntry \in Entries /\ NoEntry.at = "next" /\ NoEntry.dev = None
BY FreshType DEF NoEntry, Entries

LEMMA ObjectFields ==
  ASSUME NEW o \in Objects
  PROVE  /\ o.known \subseteq AllFeatures /\ o.flags \subseteq KeyFlags
         /\ o.pending \subseteq AllFeatures \union {"keys"}
         /\ \A S \in SUBSET AllFeatures : [o EXCEPT !.known = S] \in Objects
         /\ \A S \in SUBSET KeyFlags : [o EXCEPT !.flags = S] \in Objects
         /\ \A S \in SUBSET (AllFeatures \union {"keys"}) : [o EXCEPT !.pending = S] \in Objects
BY DEF Objects

LEMMA InitType == Init => TypeOK
<1> SUFFICES ASSUME Init PROVE TypeOK
  OBVIOUS
<1>1. ObjectTypes BY FreshType, StepTypes DEF Init, ObjectTypes
<1>2. QueueTypes BY DEF Init, QueueTypes
<1>3. SavingTypes BY NoEntryType DEF Init, SavingTypes, Threads
<1>4. FileTypes BY BoundsAssumption DEF Init, FileTypes, NoFile, Threads
<1>5. Flags BY DEF Init, Flags
<1> QED BY <1>1, <1>2, <1>3, <1>4, <1>5, TypeParts

LEMMA NextObjectTypes == TypeOK /\ [Next]_vars => ObjectTypes'
<1> SUFFICES ASSUME ObjectTypes, QueueTypes, FileTypes, [Next]_vars PROVE ObjectTypes'
  BY TypeParts
<1> USE FreshType, StepTypes, ObjectFields
<1> USE DEF ObjectTypes, QueueTypes, FileTypes
<1>1. CASE Restart BY <1>1 DEF Restart, Load, Started
<1>2. CASE Clear BY <1>2 DEF Clear
<1>3. CASE HandleProgress BY <1>3 DEF HandleProgress
<1>4. CASE HandleEcho
  <2>1. Head(echoes) \in Devices
    BY <1>4 DEF HandleEcho
  <2>2. [object[Head(echoes)] EXCEPT !.flags = @ \ {"analytics"}] \in Objects
    BY <2>1
  <2> QED BY <1>4, <2>1, <2>2 DEF HandleEcho
<1>5. ASSUME NEW d \in Devices, Connect(d) PROVE ObjectTypes'
  BY <1>5 DEF Connect
<1>6. ASSUME NEW d \in Devices, Echo(d) PROVE ObjectTypes'
  BY <1>6 DEF Echo
<1>7. ASSUME NEW d \in Devices, BeginEntry(d) PROVE ObjectTypes'
  BY <1>7 DEF BeginEntry
<1>8. ASSUME NEW d \in Devices, NEW s \in Steps(d), Store(d, s) PROVE ObjectTypes'
  BY <1>8 DEF Store, Found
<1>9. ASSUME NEW d \in Devices, NEW s \in Steps(d), Discard(d, s) PROVE ObjectTypes'
  BY <1>9 DEF Discard
<1>10. ASSUME NEW t \in Threads, Lock(t) PROVE ObjectTypes'
  BY <1>10 DEF Lock
<1>11. CASE EndFeatures BY <1>11 DEF EndFeatures, Unlock
<1>12. CASE WriteFlags BY <1>12 DEF WriteFlags
<1>13. CASE WriteSteps BY <1>13 DEF WriteSteps
<1>14. CASE Replace BY <1>14 DEF Replace, GoOn, Unlock
<1>15. CASE FailToWrite BY <1>15 DEF FailToWrite, GoOn, Unlock
<1>16. CASE UNCHANGED vars BY <1>16 DEF vars
<1> QED BY <1>1, <1>2, <1>3, <1>4, <1>5, <1>6, <1>7, <1>8,
  <1>9, <1>10, <1>11, <1>12, <1>13, <1>14, <1>15, <1>16 DEF Next

LEMMA NextQueueTypes == TypeOK /\ [Next]_vars => QueueTypes'
<1> SUFFICES ASSUME ObjectTypes, QueueTypes, [Next]_vars PROVE QueueTypes'
  BY TypeParts
<1> USE DEF ObjectTypes, QueueTypes
<1>1. CASE Restart BY <1>1 DEF Restart, Load, Started
<1>2. CASE Clear BY <1>2 DEF Clear
<1>3. CASE HandleProgress BY <1>3 DEF HandleProgress
<1>4. CASE HandleEcho BY <1>4 DEF HandleEcho
<1>5. ASSUME NEW d \in Devices, Connect(d) PROVE QueueTypes'
  BY <1>5 DEF Connect
<1>6. ASSUME NEW d \in Devices, Echo(d) PROVE QueueTypes'
  BY <1>6 DEF Echo
<1>7. ASSUME NEW d \in Devices, BeginEntry(d) PROVE QueueTypes'
  BY <1>7 DEF BeginEntry
<1>8. ASSUME NEW d \in Devices, NEW s \in Steps(d), Store(d, s) PROVE QueueTypes'
  BY <1>8 DEF Store, Found
<1>9. ASSUME NEW d \in Devices, NEW s \in Steps(d), Discard(d, s) PROVE QueueTypes'
  BY <1>9 DEF Discard
<1>10. ASSUME NEW t \in Threads, Lock(t) PROVE QueueTypes'
  BY <1>10 DEF Lock
<1>11. CASE EndFeatures BY <1>11 DEF EndFeatures, Unlock
<1>12. CASE WriteFlags BY <1>12 DEF WriteFlags
<1>13. CASE WriteSteps BY <1>13 DEF WriteSteps
<1>14. CASE Replace BY <1>14 DEF Replace, GoOn, Unlock
<1>15. CASE FailToWrite BY <1>15 DEF FailToWrite, GoOn, Unlock
<1>16. CASE UNCHANGED vars BY <1>16 DEF vars
<1> QED BY <1>1, <1>2, <1>3, <1>4, <1>5, <1>6, <1>7, <1>8,
  <1>9, <1>10, <1>11, <1>12, <1>13, <1>14, <1>15, <1>16 DEF Next

LEMMA NextSavingTypes == TypeOK /\ [Next]_vars => SavingTypes'
<1> SUFFICES ASSUME ObjectTypes, QueueTypes, SavingTypes, FileTypes, [Next]_vars PROVE SavingTypes'
  BY TypeParts
<1> USE FreshType, NoEntryType, ObjectFields, NoneAssumption
<1> USE DEF ObjectTypes, QueueTypes, SavingTypes, FileTypes, Threads, Entries
<1>1. CASE Restart BY <1>1 DEF Restart, Load, Started
<1>2. CASE Clear BY <1>2 DEF Clear
<1>3. CASE HandleProgress
  <2>1. Head(progress) \in Devices /\ holder # "orchestrator"
    BY <1>3 DEF HandleProgress, None
  <2> QED BY <1>3, <2>1 DEF HandleProgress
<1>4. CASE HandleEcho BY <1>4 DEF HandleEcho
<1>5. ASSUME NEW d \in Devices, Connect(d) PROVE SavingTypes'
  BY <1>5 DEF Connect
<1>6. ASSUME NEW d \in Devices, Echo(d) PROVE SavingTypes'
  BY <1>6 DEF Echo
<1>7. ASSUME NEW d \in Devices, BeginEntry(d) PROVE SavingTypes'
  BY <1>7 DEF BeginEntry
<1>8. ASSUME NEW d \in Devices, NEW s \in Steps(d), Store(d, s) PROVE SavingTypes'
  BY <1>8 DEF Store, Found
<1>9. ASSUME NEW d \in Devices, NEW s \in Steps(d), Discard(d, s) PROVE SavingTypes'
  BY <1>9 DEF Discard
<1>10. ASSUME NEW t \in Threads, Lock(t) PROVE SavingTypes'
  <2>1. saving[t] \in Devices /\ entry = NoEntry /\ todo = {} /\ t # None
    BY <1>10 DEF Lock, None
  <2> QED BY <1>10, <2>1 DEF Lock
<1>11. CASE EndFeatures
  <2>1. holder # None /\ entry.dev \in todo
    BY <1>11 DEF EndFeatures
  <2>2. CASE object[entry.dev].known = entry.value.known
    <3>1. entry' = [entry EXCEPT !.at = "flags"] /\ UNCHANGED <<cached, saving, holder, todo, tmp>>
      BY <1>11, <2>2 DEF EndFeatures
    <3>2. entry' \in Entries /\ entry'.dev = entry.dev /\ entry'.at # "next"
      BY <3>1
    <3> QED BY <2>1, <3>1, <3>2
  <2>3. CASE object[entry.dev].known # entry.value.known
    BY <1>11, <2>1, <2>3 DEF EndFeatures, Unlock
  <2> QED BY <2>2, <2>3
<1>12. CASE WriteFlags BY <1>12 DEF WriteFlags
<1>13. CASE WriteSteps BY <1>13 DEF WriteSteps
<1>14. CASE Replace BY <1>14 DEF Replace, GoOn, Unlock
<1>15. CASE FailToWrite BY <1>15 DEF FailToWrite, GoOn, Unlock
<1>16. CASE UNCHANGED vars BY <1>16 DEF vars
<1> QED BY <1>1, <1>2, <1>3, <1>4, <1>5, <1>6, <1>7, <1>8,
  <1>9, <1>10, <1>11, <1>12, <1>13, <1>14, <1>15, <1>16 DEF Next

LEMMA NextFileTypes == TypeOK /\ [Next]_vars => FileTypes'
<1> SUFFICES ASSUME QueueTypes, SavingTypes, FileTypes, [Next]_vars PROVE FileTypes'
  BY TypeParts
<1> USE BoundsAssumption, NoneAssumption
<1> USE DEF QueueTypes, SavingTypes, FileTypes, NoFile, Threads
<1>1. CASE Restart BY <1>1 DEF Restart, Load, Started
<1>2. CASE Clear BY <1>2 DEF Clear
<1>3. CASE HandleProgress BY <1>3 DEF HandleProgress
<1>4. CASE HandleEcho BY <1>4 DEF HandleEcho
<1>5. ASSUME NEW d \in Devices, Connect(d) PROVE FileTypes'
  BY <1>5 DEF Connect
<1>6. ASSUME NEW d \in Devices, Echo(d) PROVE FileTypes'
  BY <1>6 DEF Echo
<1>7. ASSUME NEW d \in Devices, BeginEntry(d) PROVE FileTypes'
  BY <1>7 DEF BeginEntry
<1>8. ASSUME NEW d \in Devices, NEW s \in Steps(d), Store(d, s) PROVE FileTypes'
  BY <1>8 DEF Store, Found
<1>9. ASSUME NEW d \in Devices, NEW s \in Steps(d), Discard(d, s) PROVE FileTypes'
  BY <1>9 DEF Discard
<1>10. ASSUME NEW t \in Threads, Lock(t) PROVE FileTypes'
  BY <1>10 DEF Lock
<1>11. CASE EndFeatures
  <2>1. holder # None
    BY <1>11 DEF EndFeatures, NoEntry
  <2>2. holder = "rejection" => saving[holder] \in rejected
    BY <2>1
  <2> QED BY <1>11, <2>1, <2>2 DEF EndFeatures, Unlock
<1>12. CASE WriteFlags BY <1>12 DEF WriteFlags
<1>13. CASE WriteSteps BY <1>13 DEF WriteSteps
<1>14. CASE Replace BY <1>14 DEF Replace, GoOn, Unlock
<1>15. CASE FailToWrite BY <1>15 DEF FailToWrite, GoOn, Unlock
<1>16. CASE UNCHANGED vars BY <1>16 DEF vars
<1> QED BY <1>1, <1>2, <1>3, <1>4, <1>5, <1>6, <1>7, <1>8,
  <1>9, <1>10, <1>11, <1>12, <1>13, <1>14, <1>15, <1>16 DEF Next

LEMMA NextFlags == TypeOK /\ [Next]_vars => Flags'
<1> SUFFICES ASSUME Flags, [Next]_vars PROVE Flags'
  BY TypeParts
<1> USE DEF Flags
<1>1. CASE Restart BY <1>1 DEF Restart, Load, Started
<1>2. CASE Clear BY <1>2 DEF Clear
<1>3. CASE HandleProgress BY <1>3 DEF HandleProgress
<1>4. CASE HandleEcho BY <1>4 DEF HandleEcho
<1>5. ASSUME NEW d \in Devices, Connect(d) PROVE Flags'
  BY <1>5 DEF Connect
<1>6. ASSUME NEW d \in Devices, Echo(d) PROVE Flags'
  BY <1>6 DEF Echo
<1>7. ASSUME NEW d \in Devices, BeginEntry(d) PROVE Flags'
  BY <1>7 DEF BeginEntry
<1>8. ASSUME NEW d \in Devices, NEW s \in Steps(d), Store(d, s) PROVE Flags'
  BY <1>8 DEF Store, Found
<1>9. ASSUME NEW d \in Devices, NEW s \in Steps(d), Discard(d, s) PROVE Flags'
  BY <1>9 DEF Discard
<1>10. ASSUME NEW t \in Threads, Lock(t) PROVE Flags'
  BY <1>10 DEF Lock
<1>11. CASE EndFeatures BY <1>11 DEF EndFeatures, Unlock
<1>12. CASE WriteFlags BY <1>12 DEF WriteFlags
<1>13. CASE WriteSteps BY <1>13 DEF WriteSteps
<1>14. CASE Replace BY <1>14 DEF Replace, GoOn, Unlock
<1>15. CASE FailToWrite BY <1>15 DEF FailToWrite, GoOn, Unlock
<1>16. CASE UNCHANGED vars BY <1>16 DEF vars
<1> QED BY <1>1, <1>2, <1>3, <1>4, <1>5, <1>6, <1>7, <1>8,
  <1>9, <1>10, <1>11, <1>12, <1>13, <1>14, <1>15, <1>16 DEF Next

LEMMA NextType == TypeOK /\ [Next]_vars => TypeOK'
<1>1. TypeOK' <=> ObjectTypes' /\ QueueTypes' /\ SavingTypes' /\ FileTypes' /\ Flags'
  BY DEF TypeOK, ObjectTypes, QueueTypes, SavingTypes, FileTypes, Flags, Entries
<1> QED BY <1>1, NextObjectTypes, NextQueueTypes, NextSavingTypes, NextFileTypes, NextFlags

\* The cache keeps its types, for every set of devices and every bound on faults.
THEOREM TypeCorrect == Spec => []TypeOK
BY InitType, NextType, PTL DEF Spec

----------------------------------------------------------------------------
LEMMA Heads ==
  ASSUME TypeOK
  PROVE  /\ progress # <<>> => Head(progress) \in registered /\ Tail(progress) \in Seq(registered)
         /\ echoes # <<>> => Head(echoes) \in registered
         /\ registered \subseteq Devices
BY DEF TypeOK

LEMMA RearmInit == Init => RearmInv
BY DEF Init, RearmInv

LEMMA RearmNext == TypeOK /\ RearmInv /\ [Next]_vars => RearmInv'
<1> SUFFICES ASSUME TypeOK, RearmInv, [Next]_vars PROVE RearmInv'
  OBVIOUS
<1> USE TypeParts
<1> USE DEF RearmInv, QueueTypes, SavingTypes, FileTypes, Threads, None
<1>1. CASE Restart BY <1>1 DEF Restart, Load, Started
<1>2. CASE Clear BY <1>2 DEF Clear
<1>3. CASE HandleProgress BY <1>3 DEF HandleProgress
<1>4. CASE HandleEcho
  <2>1. PICK d \in Devices : d = Head(echoes)
    BY <1>4, Heads DEF HandleEcho
  <2>2. CASE "analytics" \in object[d].flags
    <3>1. /\ saving["rejection"] = None /\ saving' = [saving EXCEPT !["rejection"] = d]
          /\ rejected' = rejected \union {d} /\ rearmed' = rearmed \ {d} /\ interrupted' = interrupted
      BY <1>4, <2>1, <2>2 DEF HandleEcho
    <3>2. \A e \in rejected \ (rearmed \union interrupted) : FALSE
      BY <3>1, NoneAssumption
    <3> QED BY <3>1, <3>2
  <2>3. CASE "analytics" \notin object[d].flags
    BY <1>4, <2>1, <2>3 DEF HandleEcho
  <2> QED BY <2>2, <2>3
<1>5. ASSUME NEW d \in Devices, Connect(d) PROVE RearmInv'
  BY <1>5 DEF Connect
<1>6. ASSUME NEW d \in Devices, Echo(d) PROVE RearmInv'
  BY <1>6 DEF Echo
<1>7. ASSUME NEW d \in Devices, BeginEntry(d) PROVE RearmInv'
  BY <1>7 DEF BeginEntry
<1>8. ASSUME NEW d \in Devices, NEW s \in Steps(d), Store(d, s) PROVE RearmInv'
  BY <1>8 DEF Store, Found
<1>9. ASSUME NEW d \in Devices, NEW s \in Steps(d), Discard(d, s) PROVE RearmInv'
  BY <1>9 DEF Discard
<1>10. ASSUME NEW t \in Threads, Lock(t) PROVE RearmInv'
  BY <1>10 DEF Lock
<1>11. CASE EndFeatures BY <1>11 DEF EndFeatures, Unlock
<1>12. CASE WriteFlags BY <1>12 DEF WriteFlags
<1>13. CASE WriteSteps BY <1>13 DEF WriteSteps
<1>14. CASE Replace BY <1>14 DEF Replace, GoOn, Unlock
<1>15. CASE FailToWrite BY <1>15 DEF FailToWrite, GoOn, Unlock
<1>16. CASE UNCHANGED vars BY <1>16 DEF vars
<1> QED BY <1>1, <1>2, <1>3, <1>4, <1>5, <1>6, <1>7, <1>8,
  <1>9, <1>10, <1>11, <1>12, <1>13, <1>14, <1>15, <1>16 DEF Next

\* A keyboard that rejected analytics is asked for its keys again, whatever the
\* file system says and however often: the handler goes on when a save has
\* failed (AnalyticsRejectionSubscriber), except after a RuntimeError.
THEOREM RejectionCorrect == Spec => []RejectionRearms
<1>1. TypeOK /\ RearmInv => RejectionRearms
  <2> SUFFICES ASSUME TypeOK, RearmInv, Quiet PROVE rejected \subseteq rearmed \union interrupted
    BY DEF RejectionRearms
  <2>1. saving["rejection"] = None
    BY DEF Quiet, Threads
  <2> QED BY <2>1, NoneAssumption DEF RearmInv, TypeOK
<1> QED BY <1>1, InitType, NextType, RearmInit, RearmNext, PTL DEF Spec

----------------------------------------------------------------------------
LEMMA ProperUpdates ==
  ASSUME NEW d \in Devices, NEW o, Proper(d, o)
  PROVE  /\ \A f : [o EXCEPT !.flags = @ \ {f}] \in Objects /\ Proper(d, [o EXCEPT !.flags = @ \ {f}])
         /\ \A s \in Steps(d) : Found(o, s) \in Objects /\ Proper(d, Found(o, s))
         /\ \A s : Proper(d, [o EXCEPT !.pending = @ \ {s}])
         /\ \A p \in Objects : Proper(d, [o EXCEPT !.flags = p.flags])
         /\ \A p : Proper(d, p) => Proper(d, [o EXCEPT !.pending = p.pending])
<1>1. Steps(d) \ {"keys"} \subseteq Features(d) /\ Features(d) \subseteq AllFeatures
  BY DEF Steps, Features, AllFeatures
<1>2. o.known \subseteq AllFeatures /\ o.flags \subseteq KeyFlags
  BY DEF Proper, Objects
<1> QED BY <1>1, <1>2 DEF Proper, Objects, Found, KeyFlags

LEMMA FreshProper == \A d : Proper(d, Fresh(d))
BY FreshType DEF Proper, Fresh

LEMMA ProperInit == Init => ProperCopies
<1> SUFFICES ASSUME Init PROVE ProperCopies
  OBVIOUS
<1>1. entry.dev = None /\ DOMAIN tmp = {} /\ DOMAIN file = {}
  BY NoEntryType DEF Init, NoFile
<1> QED BY FreshProper, <1>1, NoneAssumption DEF Init, ProperCopies

LEMMA ProperNext == TypeOK /\ ProperCopies /\ [Next]_vars => ProperCopies'
<1> SUFFICES ASSUME TypeOK, ProperCopies, [Next]_vars PROVE ProperCopies'
  OBVIOUS
<1> USE TypeParts, NoEntryType, NoneAssumption
<1> USE DEF ProperCopies, ObjectTypes, QueueTypes, SavingTypes, FileTypes
<1>1. CASE Restart BY <1>1, FreshProper DEF Restart, Load, Started
<1>2. CASE Clear
  <2>1. DOMAIN file' = {}
    BY <1>2 DEF Clear, NoFile
  <2> QED BY <1>2, <2>1 DEF Clear
<1>3. CASE HandleProgress BY <1>3 DEF HandleProgress
<1>4. CASE HandleEcho
  <2>1. PICK d \in Devices : d = Head(echoes)
    BY <1>4, Heads DEF HandleEcho
  <2>2. CASE "analytics" \in object[d].flags
    <3>1. Proper(d, [object[d] EXCEPT !.flags = @ \ {"analytics"}])
      BY ProperUpdates
    <3>2. object' = [object EXCEPT ![d] = [object[d] EXCEPT !.flags = @ \ {"analytics"}]]
      BY <1>4, <2>1, <2>2 DEF HandleEcho
    <3> QED BY <1>4, <3>1, <3>2 DEF HandleEcho
  <2>3. CASE "analytics" \notin object[d].flags
    BY <1>4, <2>1, <2>3 DEF HandleEcho
  <2> QED BY <2>2, <2>3
<1>5. ASSUME NEW d \in Devices, Connect(d) PROVE ProperCopies'
  BY <1>5 DEF Connect
<1>6. ASSUME NEW d \in Devices, Echo(d) PROVE ProperCopies'
  BY <1>6 DEF Echo
<1>7. ASSUME NEW d \in Devices, BeginEntry(d) PROVE ProperCopies'
  BY <1>7 DEF BeginEntry
<1>8. ASSUME NEW d \in Devices, NEW s \in Steps(d), Store(d, s) PROVE ProperCopies'
  BY <1>8, ProperUpdates DEF Store, Found
<1>9. ASSUME NEW d \in Devices, NEW s \in Steps(d), Discard(d, s) PROVE ProperCopies'
  BY <1>9, ProperUpdates DEF Discard
<1>10. ASSUME NEW t \in Threads, Lock(t) PROVE ProperCopies'
  BY <1>10 DEF Lock
<1>11. CASE EndFeatures
  <2>1. \/ entry.dev \in Devices /\ entry'.value = entry.value /\ entry'.dev = entry.dev
        \/ entry' = NoEntry
    BY <1>11 DEF EndFeatures, Unlock, Entries
  <2> QED BY <1>11, <2>1 DEF EndFeatures, Unlock
<1>12. CASE WriteFlags
  <2>1. entry' = [entry EXCEPT !.at = "steps", !.value = [entry.value EXCEPT !.flags = object[entry.dev].flags]]
    BY <1>12 DEF WriteFlags
  <2>2. entry.dev \in Devices
    BY <1>12 DEF WriteFlags
  <2>3. Proper(entry.dev, [entry.value EXCEPT !.flags = object[entry.dev].flags])
    BY <2>2, ProperUpdates
  <2>4. entry'.dev = entry.dev /\ entry'.value = [entry.value EXCEPT !.flags = object[entry.dev].flags]
    BY <2>1 DEF Entries
  <2> QED BY <1>12, <2>3, <2>4 DEF WriteFlags
<1>13. CASE WriteSteps
  <2>1. entry.dev \in Devices
    BY <1>13 DEF WriteSteps
  <2>2. Proper(entry.dev, [entry.value EXCEPT !.pending = object[entry.dev].pending])
    BY <2>1, ProperUpdates
  <2> QED BY <1>13, <2>1, <2>2 DEF WriteSteps
<1>14. CASE Replace BY <1>14 DEF Replace, GoOn, Unlock
<1>15. CASE FailToWrite BY <1>15 DEF FailToWrite, GoOn, Unlock
<1>16. CASE UNCHANGED vars BY <1>16 DEF vars
<1> QED BY <1>1, <1>2, <1>3, <1>4, <1>5, <1>6, <1>7, <1>8,
  <1>9, <1>10, <1>11, <1>12, <1>13, <1>14, <1>15, <1>16 DEF Next

----------------------------------------------------------------------------
LEMMA FreshLosesNothing == \A d : NothingLost(d, Fresh(d))
BY DEF NothingLost, Fresh, Steps

LEMMA FoundLosesNothing ==
  ASSUME NEW d \in Devices, NEW o \in Objects, NEW s \in Steps(d)
  PROVE  /\ NothingLost(d, o) => NothingLost(d, Found(o, s))
         /\ o.known \subseteq Found(o, s).known
         /\ "divertable" \in o.flags => "divertable" \in Found(o, s).flags
         /\ Found(o, s).pending = o.pending
         /\ IF s = "keys" THEN "divertable" \in Found(o, s).flags ELSE s \in Found(o, s).known
BY DEF NothingLost, Found, KeyFlags, Objects

LEMMA MissInit == Init => MissInv
<1> SUFFICES ASSUME Init PROVE MissInv
  OBVIOUS
<1>1. entry.dev = None /\ DOMAIN tmp = {} /\ DOMAIN file = {}
  BY NoEntryType DEF Init, NoFile
<1> QED BY FreshLosesNothing, <1>1, NoneAssumption
     DEF Init, MissInv, HalfFound, EntryMissesNothing, NothingMissed

LEMMA MissNext == TypeOK /\ MissInv /\ [Next]_vars => MissInv'
<1> SUFFICES ASSUME TypeOK, MissInv, [Next]_vars PROVE MissInv'
  OBVIOUS
<1> USE TypeParts, NoEntryType, NoneAssumption
<1> USE DEF MissInv, HalfFound, EntryMissesNothing, NothingMissed, ObjectTypes, QueueTypes, SavingTypes, FileTypes
<1>1. CASE Restart
  <2>1. \A d \in Devices : object'[d] = Fresh(d) \/ (d \in DOMAIN file /\ object'[d] = file[d])
    BY <1>1 DEF Restart, Load
  <2> QED BY <1>1, <2>1, FreshLosesNothing DEF Restart, Started
<1>2. CASE Clear
  <2>1. DOMAIN file' = {}
    BY <1>2 DEF Clear, NoFile
  <2> QED BY <1>2, <2>1 DEF Clear
<1>3. CASE HandleProgress BY <1>3 DEF HandleProgress
<1>4. CASE HandleEcho
  <2>1. PICK d \in Devices : d = Head(echoes)
    BY <1>4, Heads DEF HandleEcho
  <2>2. CASE "analytics" \in object[d].flags
    <3> DEFINE o == object[d]
               p == [object[d] EXCEPT !.flags = @ \ {"analytics"}]
    <3>1. object' = [object EXCEPT ![d] = p]
      BY <1>4, <2>1, <2>2 DEF HandleEcho
    <3>2. UNCHANGED <<half, entry, tmp, file, torn>>
      BY <1>4 DEF HandleEcho
    <3>3. p.known = o.known /\ p.pending = o.pending /\ ("divertable" \in p.flags <=> "divertable" \in o.flags)
      BY DEF Objects
    <3>4. NothingLost(d, o) => NothingLost(d, p)
      BY <3>3 DEF NothingLost
    <3> HIDE DEF p
    <3>5. \A e \in Devices :
            /\ object'[e].known = object[e].known /\ object'[e].pending = object[e].pending
            /\ "divertable" \in object[e].flags => "divertable" \in object'[e].flags
            /\ NothingLost(e, object[e]) => NothingLost(e, object'[e])
      BY <3>1, <3>3, <3>4
    <3>6. HalfFound'
      BY <3>2, <3>5
    <3> QED BY <3>2, <3>5, <3>6
  <2>3. CASE "analytics" \notin object[d].flags
    BY <1>4, <2>1, <2>3 DEF HandleEcho
  <2> QED BY <2>2, <2>3
<1>5. ASSUME NEW d \in Devices, Connect(d) PROVE MissInv'
  BY <1>5 DEF Connect
<1>6. ASSUME NEW d \in Devices, Echo(d) PROVE MissInv'
  BY <1>6 DEF Echo
<1>7. ASSUME NEW d \in Devices, BeginEntry(d) PROVE MissInv'
  <2>1. entry'.dev = d /\ entry'.value = object[d] /\ UNCHANGED <<object, half, tmp, file, torn>>
    BY <1>7 DEF BeginEntry
  <2> QED BY <2>1
<1>8. ASSUME NEW d \in Devices, NEW s \in Steps(d), Store(d, s) PROVE MissInv'
  <2>1. object' = [object EXCEPT ![d] = Found(object[d], s)] /\ half' = [half EXCEPT ![d] = @ \union {s}]
    BY <1>8 DEF Store
  <2>2. UNCHANGED <<entry, tmp, file, torn>>
    BY <1>8 DEF Store
  <2>3. /\ NothingLost(d, object[d]) => NothingLost(d, Found(object[d], s))
        /\ object[d].known \subseteq Found(object[d], s).known
        /\ "divertable" \in object[d].flags => "divertable" \in Found(object[d], s).flags
        /\ Found(object[d], s).pending = object[d].pending
        /\ IF s = "keys" THEN "divertable" \in Found(object[d], s).flags ELSE s \in Found(object[d], s).known
    BY FoundLosesNothing
  <2>4. HalfFound'
    BY <2>1, <2>3 DEF HalfFound
  <2> QED BY <2>1, <2>2, <2>3, <2>4
<1>9. ASSUME NEW d \in Devices, NEW s \in Steps(d), Discard(d, s) PROVE MissInv'
  <2> DEFINE p == [object[d] EXCEPT !.pending = @ \ {s}]
  <2>1. object' = [object EXCEPT ![d] = p] /\ half' = [half EXCEPT ![d] = @ \ {s}] /\ s \in half[d]
    BY <1>9 DEF Discard
  <2>2. UNCHANGED <<entry, tmp, file>> /\ torn \subseteq torn' /\ (entry.dev = d => d \in torn')
    BY <1>9 DEF Discard
  <2>3. p.known = object[d].known /\ p.flags = object[d].flags /\ p.pending = object[d].pending \ {s}
    BY DEF Objects
  <2>4. NothingLost(d, object[d]) => NothingLost(d, p)
    BY <2>1, <2>3 DEF NothingLost, Features
  <2> HIDE DEF p
  <2> QED BY <2>1, <2>2, <2>3, <2>4
<1>10. ASSUME NEW t \in Threads, Lock(t) PROVE MissInv'
  BY <1>10 DEF Lock
<1>11. CASE EndFeatures
  <2>1. (entry'.value = entry.value /\ entry'.dev = entry.dev) \/ entry' = NoEntry
    BY <1>11 DEF EndFeatures, Unlock, Entries
  <2> QED BY <1>11, <2>1 DEF EndFeatures, Unlock
<1>12. CASE WriteFlags
  <2> DEFINE d == entry.dev
             p == [entry.value EXCEPT !.flags = object[d].flags]
  <2>1. entry' = [entry EXCEPT !.at = "steps", !.value = p]
    BY <1>12 DEF WriteFlags
  <2>2. d \in Devices
    BY <1>12 DEF WriteFlags
  <2>3. p.known = entry.value.known /\ p.pending = entry.value.pending /\ p.flags = object[d].flags
    BY DEF Entries, Objects
  <2>4. d \notin torn => NothingLost(d, p)
    BY <2>2, <2>3 DEF NothingLost
  <2> HIDE DEF p
  <2>5. entry'.dev = d /\ entry'.value = p
    BY <2>1 DEF Entries
  <2> QED BY <1>12, <2>3, <2>4, <2>5 DEF WriteFlags
<1>13. CASE WriteSteps
  <2> DEFINE d == entry.dev
             p == [entry.value EXCEPT !.pending = object[d].pending]
  <2>1. d \in Devices
    BY <1>13 DEF WriteSteps
  <2>2. p.known = entry.value.known /\ p.pending = object[d].pending /\ p.flags = entry.value.flags
    BY DEF Entries, Objects
  <2>3. d \notin torn => NothingLost(d, p)
    BY <2>1, <2>2 DEF NothingLost
  <2>4. tmp' = [e \in DOMAIN tmp \union {d} |-> IF e = d THEN p ELSE tmp[e]] /\ entry' = NoEntry
    BY <1>13 DEF WriteSteps
  <2> HIDE DEF p
  <2> QED BY <1>13, <2>3, <2>4 DEF WriteSteps
<1>14. CASE Replace BY <1>14 DEF Replace, GoOn, Unlock
<1>15. CASE FailToWrite BY <1>15 DEF FailToWrite, GoOn, Unlock
<1>16. CASE UNCHANGED vars BY <1>16 DEF vars
<1> QED BY <1>1, <1>2, <1>3, <1>4, <1>5, <1>6, <1>7, <1>8,
  <1>9, <1>10, <1>11, <1>12, <1>13, <1>14, <1>15, <1>16 DEF Next

\* Neither the file nor what is restored from it takes for settled what was not
\* found, whenever the process died and whatever was written when: save writes
\* pending_steps last, and a task takes a step off only after storing its result.
THEOREM NothingMissedCorrect == Spec => []NothingMissed
<1>1. MissInv => NothingMissed
  BY DEF MissInv
<1> QED BY <1>1, InitType, NextType, MissInit, MissNext, PTL DEF Spec

----------------------------------------------------------------------------
LEMMA GrowsTransitive == \A o, p, q : Grows(o, p) /\ Grows(p, q) => Grows(o, q)
BY DEF Grows

LEMMA GrowsComplete ==
  ASSUME NEW d, NEW o, NEW p, Proper(d, p), Complete(d, o), Grows(o, p)
  PROVE  Complete(d, p)
BY DEF Grows, Complete, HasAll, Proper

\* While the process lives, objects only gain results and lose steps.
LEMMA ObjectsGrow ==
  TypeOK /\ [Next]_vars => Restart \/ \A d \in Devices : Grows(object[d], object'[d])
<1> SUFFICES ASSUME TypeOK, [Next]_vars, ~Restart PROVE \A d \in Devices : Grows(object[d], object'[d])
  OBVIOUS
<1> USE TypeParts DEF ObjectTypes
<1>1. CASE UNCHANGED object BY <1>1 DEF Grows
<1>2. CASE HandleEcho
  <2>1. PICK d \in Devices : d = Head(echoes)
    BY <1>2, Heads DEF HandleEcho
  <2> DEFINE p == [object[d] EXCEPT !.flags = @ \ {"analytics"}]
  <2>2. object' = object \/ object' = [object EXCEPT ![d] = p]
    BY <1>2, <2>1 DEF HandleEcho
  <2>3. Grows(object[d], p)
    BY DEF Grows, Objects
  <2> HIDE DEF p
  <2> QED BY <2>2, <2>3, <1>1 DEF Grows
<1>3. ASSUME NEW d \in Devices, NEW s \in Steps(d), Store(d, s)
      PROVE  \A e \in Devices : Grows(object[e], object'[e])
  <2>1. Grows(object[d], Found(object[d], s))
    BY FoundLosesNothing DEF Grows
  <2> QED BY <1>3, <2>1 DEF Store, Grows
<1>4. ASSUME NEW d \in Devices, NEW s \in Steps(d), Discard(d, s)
      PROVE  \A e \in Devices : Grows(object[e], object'[e])
  <2> DEFINE p == [object[d] EXCEPT !.pending = @ \ {s}]
  <2>1. Grows(object[d], p)
    BY DEF Grows, Objects
  <2>2. object' = [object EXCEPT ![d] = p]
    BY <1>4 DEF Discard
  <2> HIDE DEF p
  <2> QED BY <2>1, <2>2 DEF Grows
<1>5. UNCHANGED object \/ HandleEcho \/ \E d \in Devices : \E s \in Steps(d) : Store(d, s) \/ Discard(d, s)
  BY DEF Next, vars, Clear, HandleProgress, Connect, Echo, BeginEntry, Lock, EndFeatures, WriteFlags,
         WriteSteps, Replace, FailToWrite
<1> QED BY <1>1, <1>2, <1>3, <1>4, <1>5

LEMMA KeepInit == Init => KeepInv
<1> SUFFICES ASSUME Init PROVE KeepInv
  OBVIOUS
<1>1. entry.dev = None /\ DOMAIN tmp = {} /\ DOMAIN file = {}
  BY NoEntryType DEF Init, NoFile
<1> QED BY <1>1, NoneAssumption DEF KeepInv, Finished

LEMMA KeepNext == TypeOK /\ ProperCopies /\ KeepInv /\ [Next]_vars => KeepInv'
<1> SUFFICES ASSUME TypeOK, ProperCopies, KeepInv, [Next]_vars PROVE KeepInv'
  OBVIOUS
<1> USE TypeParts, NoEntryType, NoneAssumption DEF ObjectTypes, SavingTypes, FileTypes
<1>a. CASE Restart
  <2>1. entry'.dev = None /\ DOMAIN tmp' = {} /\ file' = file /\ holder' = None
    BY <1>a DEF Restart, Started
  <2>2. \A d \in DOMAIN file : ~unread' => d \in cached' /\ object'[d] = file[d]
    <3>1. CASE Load(TRUE) BY <3>1 DEF Load
    <3>2. CASE Load(FALSE)
      <4>1. DOMAIN file # {} => file # NoFile
        BY DEF NoFile
      <4>2. unread' = (file # NoFile)
        BY <3>2 DEF Load
      <4> QED BY <4>1, <4>2
    <3> QED BY <1>a, <3>1, <3>2 DEF Restart
  <2> QED BY <2>1, <2>2 DEF KeepInv, Finished, Complete
<1>b. CASE ~Restart
  <2>1. \A d \in Devices : Grows(object[d], object'[d])
    BY <1>b, ObjectsGrow
  <2>2. \A d \in Devices : Proper(d, object'[d])
    BY ProperNext DEF ProperCopies
  <2>3. \A d \in Devices : Complete(d, object[d]) => Complete(d, object'[d])
    BY <2>1, <2>2, GrowsComplete
  <2>4. CASE UNCHANGED <<entry, tmp, file, unread, cached, holder, todo>>
    <3>1. \A d \in Devices : entry.dev = d => Grows(entry.value, object'[d])
      BY <2>1, GrowsTransitive DEF KeepInv
    <3>2. \A d \in DOMAIN tmp : Grows(tmp[d], object'[d])
      BY <2>1, GrowsTransitive DEF KeepInv
    <3>3. \A d \in Devices : Finished(d)' <=> Finished(d)
      BY <2>4 DEF Finished
    <3> QED BY <2>3, <2>4, <3>1, <3>2, <3>3 DEF KeepInv
  <2>5. CASE Clear
    <3>1. DOMAIN file' = {} /\ UNCHANGED <<object, entry, tmp>>
      BY <2>5 DEF Clear, NoFile
    <3> QED BY <3>1 DEF KeepInv, Finished
  <2>6. ASSUME NEW e \in Devices, BeginEntry(e) PROVE KeepInv'
    <3>1. /\ UNCHANGED <<object, tmp, file, unread, cached, holder, todo>>
          /\ entry'.dev = e /\ entry'.value = object[e]
      BY <2>6 DEF BeginEntry
    <3>2. Grows(object[e], object[e])
      BY DEF Grows
    <3> QED BY <3>1, <3>2 DEF KeepInv, Finished, Complete
  <2>7. ASSUME NEW t \in Threads, Lock(t) PROVE KeepInv'
    <3>1. /\ UNCHANGED <<object, entry, file, unread>>
          /\ DOMAIN tmp' = {} /\ cached \subseteq cached' /\ todo' = cached'
      BY <2>7 DEF Lock
    <3> QED BY <3>1 DEF KeepInv, Finished
  <2>8. CASE EndFeatures
    <3>1. /\ UNCHANGED <<object, file, unread, cached>>
          /\ \/ /\ UNCHANGED <<tmp, holder, todo>>
                /\ entry'.dev = entry.dev /\ entry'.value = entry.value
             \/ DOMAIN tmp' = {} /\ holder' = None /\ entry'.dev = None
      BY <2>8 DEF EndFeatures, Unlock, Entries
    <3> QED BY <3>1 DEF KeepInv, Finished
  <2>9. CASE WriteFlags
    <3> DEFINE e == entry.dev
               p == [entry.value EXCEPT !.flags = object[e].flags]
    <3>1. UNCHANGED <<object, tmp, file, unread, cached, holder, todo>> /\ e \in Devices
      BY <2>9 DEF WriteFlags
    <3>2. entry'.dev = e /\ entry'.value = p
      BY <2>9 DEF WriteFlags, Entries
    <3>3. p.known = entry.value.known /\ p.pending = entry.value.pending /\ p.flags = object[e].flags
      BY DEF Entries, Objects
    <3> HIDE DEF p
    <3>4. Grows(p, object[e])
      BY <3>1, <3>3 DEF KeepInv, Grows
    <3>5. Complete(e, object[e]) /\ HasAll(e, entry.value) => HasAll(e, p)
      BY <3>3 DEF Complete, HasAll
    <3> QED BY <3>1, <3>2, <3>4, <3>5 DEF KeepInv, Finished
  <2>10. CASE WriteSteps
    <3> DEFINE e == entry.dev
               p == [entry.value EXCEPT !.pending = object[e].pending]
    <3>1. UNCHANGED <<object, file, unread, cached, holder>> /\ e \in Devices
      BY <2>10 DEF WriteSteps
    <3>2. entry'.dev = None /\ todo' = todo \ {e}
      BY <2>10 DEF WriteSteps
    <3>3. tmp' = [f \in DOMAIN tmp \union {e} |-> IF f = e THEN p ELSE tmp[f]]
      BY <2>10 DEF WriteSteps
    <3>4. p.known = entry.value.known /\ p.pending = object[e].pending /\ p.flags = entry.value.flags
      BY DEF Entries, Objects
    <3> HIDE DEF p
    <3>5. Grows(p, object[e])
      BY <3>1, <3>4 DEF KeepInv, Grows
    <3>6. Complete(e, object[e]) /\ HasAll(e, entry.value) => Complete(e, p)
      BY <3>4 DEF Complete, HasAll
    <3> QED BY <3>1, <3>2, <3>3, <3>5, <3>6 DEF KeepInv, Finished
  <2>11. CASE Replace
    <3>1. /\ UNCHANGED <<object, cached, unread>> /\ file' = tmp
          /\ DOMAIN tmp' = {} /\ holder' = None /\ entry'.dev = None
      BY <2>11 DEF Replace, GoOn, Unlock
    <3>2. \A d \in DOMAIN tmp : Complete(d, tmp[d]) => Complete(d, object[d])
      BY GrowsComplete DEF KeepInv, ProperCopies
    <3> QED BY <3>1, <3>2 DEF KeepInv, Finished, Complete
  <2>12. CASE FailToWrite
    <3>1. /\ UNCHANGED <<object, cached, unread, file>>
          /\ DOMAIN tmp' = {} /\ holder' = None /\ entry'.dev = None
      BY <2>12 DEF FailToWrite, GoOn, Unlock
    <3> QED BY <3>1 DEF KeepInv, Finished
  <2> QED BY <1>b, <2>4, <2>5, <2>6, <2>7, <2>8, <2>9, <2>10, <2>11, <2>12
       DEF Next, vars, HandleProgress, HandleEcho, Connect, Echo, Store, Discard
<1> QED BY <1>a, <1>b

\* A device the file once has completely stays so: the temporary file that
\* replaces it has that device too, as complete as it was, because save writes
\* all the devices of the cache and not only the one that it is called for.
THEOREM FinishedCorrect == Spec => FinishedStays
<1>1. TypeOK /\ KeepInv /\ [Next]_vars
        => [\A d \in Devices : (Finished(d) /\ ~unread /\ clears' = clears) => Finished(d)']_vars
  <2> SUFFICES ASSUME TypeOK, KeepInv, [Next]_vars, clears' = clears, ~unread,
                      NEW d \in Devices, Finished(d)
               PROVE  Finished(d)'
    OBVIOUS
  <2>1. CASE UNCHANGED file BY <2>1 DEF Finished
  <2>2. CASE Replace
    <3>1. file' = tmp /\ d \in DOMAIN tmp /\ Complete(d, tmp[d])
      BY <2>2 DEF Replace, KeepInv
    <3> QED BY <3>1 DEF Finished, Complete
  <2>3. ~Clear
    BY TypeParts DEF Clear, FileTypes
  <2> QED BY <2>1, <2>2, <2>3 DEF Next, vars, Restart, HandleProgress, HandleEcho, Connect, Echo, BeginEntry,
             Store, Discard, Lock, EndFeatures, WriteFlags, WriteSteps, FailToWrite
<1> QED BY <1>1, InitType, NextType, ProperInit, ProperNext, KeepInit, KeepNext, PTL DEF Spec, FinishedStays

----------------------------------------------------------------------------
LEMMA SameObjects ==
  ASSUME NEW o \in Objects, NEW p \in Objects, o.known = p.known, o.flags = p.flags, o.pending = p.pending
  PROVE  o = p
BY DEF Objects

\* The thread that lets go of the lock was not one of those that wait for it.
LEMMA UnlockLeavesWaiting == TypeOK /\ Waiting /\ Unlock => Waiting'
BY DEF TypeOK, Waiting, Unlock, Threads, None

\* What does not touch the objects, the reports or the lock leaves it as certain
\* as it was that somebody will save.
LEMMA WillSaveStays ==
  ASSUME WillSave, UNCHANGED <<object, announced, saving, holder>>, registered \subseteq registered',
         \A d \in Devices : Reported(d) => Reported(d)' \/ object[d].pending # {} \/ d \in announced
  PROVE  WillSave'
BY DEF WillSave, Waiting, Unsettled

LEMMA RestInit == Init => RestInv
BY NoEntryType DEF Init, RestInv

LEMMA RestNext == TypeOK /\ RestInv /\ [Next]_vars => RestInv'
<1> SUFFICES ASSUME TypeOK, RestInv, [Next]_vars PROVE RestInv'
  OBVIOUS
<1> USE TypeParts, NoEntryType, NoneAssumption DEF ObjectTypes, QueueTypes, SavingTypes, FileTypes
<1>1. CASE Restart
  <2>1. announced' = {} /\ entry'.at = "next"
    BY <1>1 DEF Restart, Started
  <2> QED BY <2>1 DEF RestInv
<1>2. CASE Clear
  <2>1. UNCHANGED <<object, registered, announced, progress, saving, holder, cached, todo, tmp, entry>> /\ stale'
    BY <1>2 DEF Clear
  <2> QED BY <2>1 DEF RestInv, WillSave, Waiting, Unsettled, Reported, BeingSaved
<1>3. CASE HandleProgress
  <2>1. PICK d \in Devices : d = Head(progress) /\ d \in registered
    BY <1>3, Heads DEF HandleProgress
  <2>2. /\ UNCHANGED <<object, registered, cached, holder, todo, tmp, entry, file, stale>>
        /\ progress # <<>> /\ progress' = Tail(progress)
    BY <1>3 DEF HandleProgress
  <2>3. CASE object[d].pending = {} /\ d \notin announced
    <3>1. announced' = announced \union {d} /\ saving' = [saving EXCEPT !["orchestrator"] = d]
      BY <1>3, <2>1, <2>3 DEF HandleProgress
    <3>2. saving["orchestrator"] = None /\ holder # "orchestrator"
      BY <1>3 DEF HandleProgress, None
    <3>3. Waiting'
      BY <2>2, <3>1, <3>2 DEF Waiting, Threads
    <3>4. \A e \in announced' : e \in cached \/ saving'["orchestrator"] = e
      BY <3>1, <3>2 DEF RestInv, Threads
    <3> QED BY <2>2, <2>3, <3>1, <3>3, <3>4 DEF RestInv, WillSave
  <2>4. CASE ~(object[d].pending = {} /\ d \notin announced)
    <3>1. UNCHANGED <<announced, saving>>
      BY <1>3, <2>1, <2>4 DEF HandleProgress
    <3>2. ASSUME NEW e \in Devices, Reported(e), ~Reported(e)' PROVE e = d
      <4>1. PICK i \in 1..Len(progress) : progress[i] = e
        BY <3>2 DEF Reported
      <4>2. i > 1 => i - 1 \in 1..Len(Tail(progress)) /\ Tail(progress)[i - 1] = e
        BY <2>2, <4>1
      <4>3. i = 1
        BY <2>2, <3>2, <4>1, <4>2 DEF Reported
      <4> QED BY <2>1, <4>1, <4>3
    <3>3. WillSave => WillSave'
      BY <2>2, <2>4, <3>1, <3>2, WillSaveStays
    <3> QED BY <2>2, <3>1, <3>3 DEF RestInv, Waiting, BeingSaved, Saved
  <2> QED BY <2>3, <2>4
<1>4. CASE HandleEcho
  <2>1. PICK d \in Devices : d = Head(echoes)
    BY <1>4, Heads DEF HandleEcho
  <2>2. UNCHANGED <<registered, announced, progress, cached, holder, todo, tmp, entry, file, stale>>
    BY <1>4 DEF HandleEcho
  <2>3. CASE "analytics" \in object[d].flags
    <3> DEFINE p == [object[d] EXCEPT !.flags = @ \ {"analytics"}]
    <3>1. object' = [object EXCEPT ![d] = p] /\ saving' = [saving EXCEPT !["rejection"] = d]
      BY <1>4, <2>1, <2>3 DEF HandleEcho
    <3>2. saving["rejection"] = None /\ holder # "rejection"
      BY <1>4 DEF HandleEcho, None
    <3>3. Waiting'
      BY <2>2, <3>1, <3>2 DEF Waiting, Threads
    <3>4. p.pending = object[d].pending
      BY DEF Objects
    <3> HIDE DEF p
    <3>5. \A e \in announced : object'[e].pending = {}
      BY <3>1, <3>4 DEF RestInv
    <3>6. saving'["orchestrator"] = saving["orchestrator"]
      BY <3>1 DEF Threads
    <3> QED BY <2>2, <3>3, <3>5, <3>6 DEF RestInv, WillSave
  <2>4. CASE "analytics" \notin object[d].flags
    <3>1. UNCHANGED <<object, saving>>
      BY <1>4, <2>1, <2>4 DEF HandleEcho
    <3> QED BY <2>2, <3>1 DEF RestInv, WillSave, Waiting, Unsettled, Reported, BeingSaved, Saved
  <2> QED BY <2>3, <2>4
<1>5. ASSUME NEW d \in Devices, Connect(d) \/ Echo(d) PROVE RestInv'
  <2>1. /\ UNCHANGED <<object, announced, progress, saving, holder, cached, todo, tmp, entry, file, stale>>
        /\ registered \subseteq registered'
    BY <1>5 DEF Connect, Echo
  <2>2. WillSave => WillSave'
    BY <2>1, WillSaveStays DEF Reported
  <2> QED BY <2>1, <2>2 DEF RestInv, Waiting, BeingSaved, Saved
<1>6. ASSUME NEW d \in Devices, BeginEntry(d) PROVE RestInv'
  <2>1. /\ UNCHANGED <<object, registered, announced, progress, saving, holder, cached, todo, tmp, file, stale>>
        /\ d \in todo /\ entry'.dev = d /\ entry'.at = "features" /\ entry'.value = object[d]
    BY <1>6 DEF BeginEntry
  <2> QED BY <2>1 DEF RestInv, WillSave, Waiting, Unsettled, Reported, BeingSaved, Saved
<1>7. ASSUME NEW d \in Devices, NEW s \in Steps(d), Store(d, s) PROVE RestInv'
  <2>1. /\ UNCHANGED <<registered, announced, progress, saving, holder, cached, todo, tmp, entry, file, stale>>
        /\ d \in registered /\ object[d].pending # {} /\ object' = [object EXCEPT ![d] = Found(object[d], s)]
    BY <1>7 DEF Store
  <2>2. d \notin announced
    BY <2>1 DEF RestInv
  <2>3. object'[d].pending # {}
    <3>1. object[d] \in Objects /\ object'[d] = Found(object[d], s)
      BY <2>1 DEF TypeOK
    <3> QED BY <2>1, <3>1, FoundLosesNothing
  <2>4. WillSave'
    BY <2>1, <2>2, <2>3 DEF WillSave, Unsettled
  <2>5. \A e \in announced : object'[e] = object[e]
    BY <2>1, <2>2
  <2> QED BY <2>1, <2>4, <2>5 DEF RestInv, Waiting, BeingSaved, Saved
<1>8. ASSUME NEW d \in Devices, NEW s \in Steps(d), Discard(d, s) PROVE RestInv'
  <2> DEFINE p == [object[d] EXCEPT !.pending = @ \ {s}]
  <2>1. /\ UNCHANGED <<registered, announced, saving, holder, cached, todo, tmp, entry, file, stale>>
        /\ s \in half[d] /\ object' = [object EXCEPT ![d] = p] /\ progress' = Append(progress, d)
    BY <1>8 DEF Discard
  <2>2. d \in registered
    BY <2>1
  <2>3. /\ \A i \in 1..Len(progress) : i \in 1..Len(progress') /\ progress'[i] = progress[i]
        /\ Len(progress') \in 1..Len(progress') /\ progress'[Len(progress')] = d
    BY <2>1, <2>2
  <2>4. Reported(d)' /\ \A e \in Devices : Reported(e) => Reported(e)'
    BY <2>3 DEF Reported
  <2>5. CASE d \in announced
    <3>1. object[d].pending = {}
      BY <2>5 DEF RestInv
    <3>2. p = object[d]
      <4>1. p \in Objects
        BY ObjectFields
      <4>2. p.known = object[d].known /\ p.flags = object[d].flags
        BY DEF Objects
      <4>3. p.pending = {}
        BY <3>1 DEF Objects
      <4> QED BY <3>1, <4>1, <4>2, <4>3, SameObjects
    <3> HIDE DEF p
    <3>3. object' = object
      BY <2>1, <3>2
    <3>4. WillSave => WillSave'
      BY <2>1, <2>4, <3>3, WillSaveStays
    <3> QED BY <2>1, <3>3, <3>4 DEF RestInv, Waiting, BeingSaved, Saved
  <2>6. CASE d \notin announced
    <3>1. WillSave'
      BY <2>1, <2>2, <2>4, <2>6 DEF WillSave, Unsettled
    <3> HIDE DEF p
    <3>2. \A e \in announced : object'[e] = object[e]
      BY <2>1, <2>6
    <3> QED BY <2>1, <3>1, <3>2 DEF RestInv, Waiting, BeingSaved, Saved
  <2> QED BY <2>5, <2>6
<1>9. ASSUME NEW t \in Threads, Lock(t) PROVE RestInv'
  <2>1. /\ UNCHANGED <<object, registered, announced, progress, saving, entry, file, stale>>
        /\ holder = None /\ saving[t] # None /\ holder' = t /\ t # None
        /\ cached' = cached \union {saving[t]} /\ todo' = cached'
    BY <1>9 DEF Lock, Threads, None
  <2>2. entry.dev = None /\ entry.at = "next"
    BY <2>1
  <2>3. ASSUME NEW d \in announced, d \notin cached PROVE d \in cached' \/ Waiting'
    <3>1. saving["orchestrator"] = d /\ d # None
      BY <2>3 DEF RestInv
    <3> QED BY <2>1, <3>1 DEF Waiting, Threads
  <2>4. \A d \in announced : Waiting' \/ BeingSaved(d)'
    BY <2>1, <2>2, <2>3 DEF BeingSaved
  <2> QED BY <2>1, <2>2, <2>4 DEF RestInv
<1>10. CASE EndFeatures
  <2>1. UNCHANGED <<object, registered, announced, progress, cached, file, stale>> /\ holder # None
    BY <1>10 DEF EndFeatures, NoEntry
  <2>2. CASE object[entry.dev].known = entry.value.known
    <3>1. /\ UNCHANGED <<saving, holder, todo, tmp>>
          /\ entry'.dev = entry.dev /\ entry'.value = entry.value /\ entry'.at = "flags"
      BY <1>10, <2>2 DEF EndFeatures, Entries
    <3> QED BY <2>1, <3>1 DEF RestInv, WillSave, Waiting, Unsettled, Reported, BeingSaved, Saved
  <2>3. CASE object[entry.dev].known # entry.value.known
    <3>1. Unlock
      BY <1>10, <2>3 DEF EndFeatures
    <3>2. WillSave
      BY <1>10, <2>3 DEF EndFeatures, RestInv
    <3>3. WillSave'
      BY <2>1, <3>1, <3>2, UnlockLeavesWaiting DEF WillSave, Unsettled, Reported
    <3>4. \A d \in announced : d \in cached \/ saving'["orchestrator"] = d
      BY <2>1, <3>1 DEF RestInv, Unlock, Threads
    <3> QED BY <2>1, <3>1, <3>3, <3>4 DEF RestInv, Unlock
  <2> QED BY <2>2, <2>3
<1>11. CASE WriteFlags
  <2> DEFINE p == [entry.value EXCEPT !.flags = object[entry.dev].flags]
  <2>1. UNCHANGED <<object, registered, announced, progress, saving, holder, cached, todo, tmp, file, stale>>
    BY <1>11 DEF WriteFlags
  <2>2. entry'.dev = entry.dev /\ entry'.value = p /\ entry'.at = "steps"
    BY <1>11 DEF WriteFlags, Entries
  <2>3. p.known = entry.value.known /\ p.flags = object[entry.dev].flags
    BY DEF Entries, Objects
  <2> HIDE DEF p
  <2> QED BY <2>1, <2>2, <2>3 DEF RestInv, WillSave, Waiting, Unsettled, Reported, BeingSaved, Saved
<1>12. CASE WriteSteps
  <2> DEFINE e == entry.dev
             p == [entry.value EXCEPT !.pending = object[e].pending]
  <2>1. /\ UNCHANGED <<object, registered, announced, progress, saving, holder, cached, file, stale>>
        /\ e \in Devices /\ entry.at = "steps"
    BY <1>12 DEF WriteSteps
  <2>2. entry'.dev = None /\ entry'.at = "next" /\ todo' = todo \ {e}
    BY <1>12 DEF WriteSteps
  <2>3. tmp' = [f \in DOMAIN tmp \union {e} |-> IF f = e THEN p ELSE tmp[f]]
    BY <1>12 DEF WriteSteps
  <2>4. /\ p.known = entry.value.known /\ p.pending = object[e].pending /\ p.flags = entry.value.flags
        /\ p \in Objects
    BY <2>1, ObjectFields DEF Entries, Objects
  <2> HIDE DEF p
  <2>5. BeingSaved(e) => p = object[e]
    BY <2>1, <2>4, SameObjects DEF BeingSaved
  <2>6. \A d \in announced : BeingSaved(d) => BeingSaved(d)'
    BY <2>1, <2>2, <2>3, <2>5 DEF BeingSaved
  <2> HIDE DEF e
  <2> QED BY <2>1, <2>2, <2>6 DEF RestInv, WillSave, Waiting, Unsettled, Reported, Saved
<1>13. CASE Replace
  <2>1. UNCHANGED <<object, registered, announced, progress, cached>> /\ holder # None /\ todo = {} /\ file' = tmp
    BY <1>13 DEF Replace
  <2>2. Unlock
    BY <1>13 DEF Replace, GoOn
  <2>3. \A d \in announced : d \in cached \/ saving'["orchestrator"] = d
    BY <2>1, <2>2 DEF RestInv, Unlock, Threads
  <2>4. \A d \in announced : Waiting' \/ Saved(d)'
    BY <2>1, <2>2, UnlockLeavesWaiting DEF RestInv, BeingSaved, Saved
  <2> QED BY <2>1, <2>2, <2>3, <2>4 DEF RestInv, WillSave, Unlock
<1>14. CASE FailToWrite
  <2>1. UNCHANGED <<object, registered, announced, progress, cached>> /\ holder # None /\ stale'
    BY <1>14 DEF FailToWrite
  <2>2. Unlock
    BY <1>14 DEF FailToWrite, GoOn
  <2>3. \A d \in announced : d \in cached \/ saving'["orchestrator"] = d
    BY <2>1, <2>2 DEF RestInv, Unlock, Threads
  <2> QED BY <2>1, <2>2, <2>3 DEF RestInv, Unlock
<1>15. CASE UNCHANGED vars
  BY <1>15 DEF vars, RestInv, WillSave, Waiting, Unsettled, Reported, BeingSaved, Saved
<1> QED BY <1>1, <1>2, <1>3, <1>4, <1>5, <1>6, <1>7, <1>8, <1>9, <1>10, <1>11, <1>12, <1>13, <1>14, <1>15
     DEF Next

\* At rest the file says of every announced device what the daemon knows: who
\* changes an announced device, or ends a save of it by growing another one,
\* leaves somebody who will save all devices again.
THEOREM RestCorrect == Spec => []RestIsSaved
<1>1. TypeOK /\ RestInv => RestIsSaved
  <2> SUFFICES ASSUME TypeOK, RestInv, Quiet, ~stale, NEW d \in announced PROVE Saved(d)
    BY DEF RestIsSaved, Saved
  <2>1. holder = None
    BY NoneAssumption DEF TypeOK, Quiet
  <2>2. ~WillSave
    BY DEF WillSave, Waiting, Unsettled, Reported, Quiet
  <2> QED BY <2>1, <2>2 DEF RestInv
<1> QED BY <1>1, InitType, NextType, RestInit, RestNext, PTL DEF Spec

=============================================================================
