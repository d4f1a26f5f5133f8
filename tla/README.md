# CleverSwitch in TLA+

CleverSwitch is a daemon that keeps Logitech keyboards and mice on the same host: when an Easy-Switch
key is pressed on one device, it sends the others after it.  It is a small Python program made of
threads that share objects and talk through queues, and most of what can go wrong in it is a matter
of the order in which those threads run, of links that come and go, and of devices that answer late,
wrongly or not at all.  This directory holds TLA+ specifications of those parts, configurations that
check them with TLC, and proofs checked by TLAPS.  Paths below are relative to `src/cleverswitch`.

## The system

| Component | State it keeps | Operations | Talks to |
|---|---|---|---|
| event bus (`topic/topic.py`) | list of subscription queues, one drain thread each | publish, subscribe, unsubscribe | everybody: five topics `hid_event`, `write`, `device_info`, `flags`, `info_progress` |
| HID gateway (`gateway/hid_gateway*.py`, `hidpp/transport.py`) | transport, path, connected flag, stop flag, grace period | the read/reconnect loop, `notify` (writes), `close` | device; listener; `write`; the connection trigger |
| BLE gateway (`gateway/hid_gateway_ble.py`) | the same, and a GATT client and subscription | gateway loop, BLE event loop with a callback, writes | device, listener |
| event listener and parser (`listener`, `parser`) | a queue per product id | `listen`, `run`, `parse` | gateway -> `hid_event` |
| device discovery (`subscriber/device_connected_*`, `device_info_*`, `info_task_orchestrator`, `subscriber/task`) | the `LogiDevice` object: role, features, name, pending steps, connected; attempts per step; a thread per task | reports, discovery requests, eight kinds of task, retries | `hid_event`, `device_info`, `info_progress`, `write`, cache |
| connection state (`device_connected_*`, `transport_disconnection_*`, `wireless_status_*`) | `connected` of each registered device | reports, lost receivers, wake-ups | `hid_event`, `flags` |
| Easy-Switch key reporting (`set_report_flag_*`, `external_unset_flag_*`, `analytics_rejection_*`) | `supported_flags` of each device | set, undo, set again | `flags`, `write`, `hid_event` |
| host change relay (`host_change_*`, `change_host_notification_*`) | none (reads the registry) | relay of a press or an announcement | `hid_event`, `write` |
| device cache (`cache`) | a registry of saved devices, a JSON file | load, save, clear | discovery |
| event hooks (`hook`, `event_hook_*`) | last state per device, a pool of two workers | run a command on an event | `hid_event` |
| startup, loop and shutdown (`setup`, `discovery/discovery.py`) | gateways per product id | enumerate, start gateways, undo the diverts, close | all |
| configuration, command line | the hooks and settings read at the start | parse, `--clear-cache` | hooks, cache |
| installation | none at run time | | |

What is hard in each, and what makes it right:

* *Bus*: `publish` copies the list of queues under a lock and serves the copy without it, so it races
  with `unsubscribe`.  Right: order per publisher, no loss for those who stay, threads that end.
* *Gateway*: three threads use one transport without a lock, and a write that fails clears the
  connected flag behind the gateway thread's back.  Right: the flag, the transport and what the other
  components were told agree; what is plugged in is reconnected; `close` ends the thread.
* *BLE gateway*: the gateway thread waits for the BLE thread, which waits for a flag that a callback
  clears.  Right: they do not wait for each other for ever.
* *Discovery*: connection reports, requests, tasks and retries of one device run in their own threads
  on one unlocked object; a device may lose its link at any time.  Right: no pending step is
  forgotten, attempts stay bounded, a keyboard ends up reporting its keys.
* *Key reporting and connection state*: five subscribers see the same events through queues of
  their own.  Right: when everything is handled, keys of devices in reach are reported; after the
  shutdown they are not; the daemon does not go on answering itself.
* *Request and response matching* (`InfoTask`): an answer is taken by slot, pid and software id, from a queue that
  may still hold the answer to another request.  Right: whatever is lost, late, refused or foreign, what a task stores is true, and tasks end.
* *Cache*: two threads write objects into a file that other threads are changing; the process may die meanwhile.  Right: what was
  found stays, and nothing is taken for found that was not.
* *Hooks*: the subscriber sees reports before discovery knows the device, and a pool of two runs commands that may hang.  Right: every hook
  is taken up in the order of the changes of its devices and started once for each.
* *Relay*: the commands of a press are spread over the queues of several gateways and hosts while
  devices move and fall asleep.  Right: devices that were together end up together.

`PROJECT.json` lists the hazards line by line, with the property that watches each of them.

## The modules

| Module | Models | Composed with |
|---|---|---|
| `Topic` | `topic/topic.py` | implements `Mailbox` under the refinement mapping at its end |
| `Mailbox` | what users of a topic may rely on | |
| `HostRelay` | the relay on several hosts | parser and listener as far as they tell presses, releases and announcements apart |
| `Discovery` | one device from its first report to complete setup | the flags topic, as a counter of events |
| `KeyReports` | connected flags, key reporting and shutdown for discovered devices | listener, parser, `flags` and `write` as queues |
| `Gateway` | the attributes, threads and announcements that every gateway has; it only declares them | |
| `HidGateway` | one HID collection of a receiver or Bluetooth device | transport, trigger, write topic |
| `GatewayBLE` | one Bluetooth device on macOS | |
| `TaskExchange` | the conversations of tasks with one device | the orchestrator's retry, `hid_event`, another writer |
| `DeviceCache` | the registry of saved devices and its file | orchestrator and analytics subscriber as far as they save |
| `EventHooks` | hooks, their configuration and the pool | discovery, as the moment a device gets its name |
| `TopicProofs`, `HostRelayProofs`, `DiscoveryProofs`, `KeyReportsProofs`, `TaskExchangeProofs`, `DeviceCacheProofs`, `EventHooksProofs` | theorems about the module they are named after | |
| `GatewayProofs` | theorems about `HidGateway` and about `GatewayBLE` | |

`MC...` modules fix values for the model checker.  Operators marked "Mutant" are not part of any
specification: each is a plausible mistake in the operator that follows it, and replacing that
operator by it makes a property fail, which shows that the property looks at the code.

### Topic and Mailbox
A subscription is its `queue`, the state of its `_notify` thread (`drain`) and its place in
`subscribers`.  `Publish` is the locked part of `publish`, `Put` one iteration of the unlocked loop;
`Unlist` and `PutSentinel` are the two halves of `unsubscribe`; `Take`, `Return`, `Stop` are the thread.
A handler may raise: the loop logs it and goes on, so returning and raising are the same action.
`Mailbox` is the abstract view: a publication is one atomic broadcast, each subscription has a set of
accepted events and handles those of one publisher in order, and closing it may cost the last event of each
publisher.  In the mapping an event counts as accepted once its `publish` has copied the list, so the accepted
events are those in the queue and those in flight to it, and the abstract `Cut` happens when the sentinel is put:
what is in flight at that moment is lost.

### HostRelay
`at[d]` says where each device is; each host has the queues of a daemon.  A keyboard tells of a press
in one of three ways (`mode`): diverted keys are reported and the keyboard stays until it is commanded,
keys that report analytics are reported while the keyboard leaves by itself, and some keyboards only
announce the change on CHANGE_HOST.  `Listen` is the parser, `HandleNotice` and `HandleChange` the two
subscribers, `DoWrite` a gateway.  `Press`, `Nap`, `WakeUp` are the world; `Rearm` stands for what
`KeyReports` models in detail.  The registries are the same on all hosts and complete: a press
during discovery relays to fewer devices, as the README of the program says.

### Discovery
One `LogiDevice`.  `running[s][ph]` counts the tasks of step `s` that have started, wait for an answer, or
have finished their `doTask`; tasks of one step are alike, so a bag says everything.  The actions of
a task follow `InfoTask.run`: the early return (`AlreadyDone`), `doTask` up to its first request
(`Shortcut`, `NothingToAsk`, `Ask`), the answer (`...Answered`, `TypeRefused`, `Unanswered`), and the end
(`Succeed`, `Fail`).  `HandleSuccess`, `Retry`, `GiveUp` and `LeaveFailure` are the orchestrator;
`IgnoreReport`, `Reconnection` and `NewConnection` the connection subscriber; `HandleSetup` starts the
tasks of a request and is one step, since starting a thread does not wait for it.
`Restored` is a device of the cache as any save can have left it: besides the one after the last step, `AnalyticsRejectionSubscriber` saves whatever is
pending at that moment (line 58), so any set of steps may be, with a result stored already or not.  That save comes after a key was
found, so the device is then a keyboard and CID_REPORTING done.  A name that an earlier life lost to a second name task is not restored.
A request and its answer are matched correctly here; `TaskExchange` is about the matching.
`Unanswered` covers error answers and timeouts alike, because tasks do the same after both.
The pair of name requests is one exchange.
The tables of features are constants, so a run can give one feature the index that is the code of another: `doTask` looks for a
code among indexes, and `Shortcut` is what follows.

### TaskExchange
`requests` holds what was written and the answers to it in one queue, since a device answers in order; `inbox[w]` is the queue of a task.
`Begin`, `Take`, `GiveUp` and `Leave` are `InfoTask.run` and the two `doTask`s; `Deliver` is `hid_event` with the comparison of `notify`.
The two kinds of task are the two extremes: `GetDeviceNameTask` asks several times and puts the answers together, `FeatureTask`
asks once, under a software id that the writes of key settings use as well (14).  Both sorts of answer are reduced to the
first payload byte, which is what the code reads first: a length, a piece of a name, an index, the high byte of a key.  A length may be read from a
piece of a name (`Overlong`), as the code would.

### KeyReports
Devices that have been discovered on any number of receivers, the packets in the listener of each receiver, one queue per
subscriber, the `flags` topic and the writes of each gateway.  A device loses its settings with its link.
`TransportDisconnectedEvent` does not pass through the listener, as in the code; `InOrder` is the order of the registry.  A handler is one step:
`HandleLoss` publishes its whole fan-out, `HandleFlags` all writes of an event.  Devices that can be reached receive what is
written; faults of the transport are in `HidGateway`.  Persistent diverts are
not told apart from temporary ones.  Answers to other programs carry a software id without bit 3,
the bit by which the parser knows its own.  The daemon stops handling events when the process ends; here it
goes on, which includes every moment at which it may end.

### HidGateway
The variables are the attributes of the object and of its device, and where each of three threads is:
`gw` (run, `_try_connect`, `_set_connected`), `writer` (`notify`, `_write`, `_do_write`) and `closer` (`close`).
`handle` is the transport: none, open, stale (open for a device that was unplugged), closed.  The threads
interleave between any two accesses to shared attributes that matter.  A `hid_write` on a closed
transport gets a null pointer and may take the process down: `writer = "crashed"`, after which
nothing happens and no property is claimed.  The filter by report id that Windows needs is left out, as is enumerating two
collections of one product.

### GatewayBLE
The same attributes (`Gateway`) under another specification, whose names say `Ble` so that one module can speak of both gateways.
The gateway thread of `HidGatewayBLE` (`gw`), its BLE thread (`ble`), the state of the GATT connection, and a
writer that fails.  The path is fixed and the BLE library present (otherwise the class is `HidGatewayBT`).
The library's callback may or may not be called when the program itself disconnects.  `_set_connected(False)` in the callback is one step; the event the gateway thread
makes of the flag and its publication are two, so a drop may overtake it (`crossed`).

### DeviceCache
`object[d]` is the `LogiDevice`, reduced to the features found, the flags of its keys and its pending steps; a restored device *is* the object
of the cache, so a save sees every change.  `Store` and `Discard` are the two assignments of a task (result first, then the
step).  `json.dump` writes an entry in the order features, flags, steps; the features are a dict, which must not grow
meanwhile (`EndFeatures` is the `RuntimeError`, which `save` does not catch).  `Lock` to `Replace` is `DeviceCache.save` under its lock, `FailToWrite` an
`OSError`, `Restart` a crash with `load`, `Clear` the command line option in another process.

### EventHooks
`ParseHooks` is the parser with the entries it skips and `Rejected` the files it does not survive.  `HandleReport` and `HandleSwitch` are
the subscriber up to its call of `fire`; `Submit` is one turn of the loop in `fire` (`firing` is its event, `next` its place in the file), so a
thread of the pool may run the first hook of an event before the last is submitted.  `Wants` is the choice of hooks.  A thread of the pool takes
a job off the queue (`Take`) and at its own pace gets to `subprocess.run` (`Begin`), so the other one may take a later job and start its
command first; `Finish` and `Expire` are the two ways a command ends.  Events are still handled while the pool winds down, but it takes no more jobs; `End` is the interpreter that waits for it.
The events of a device are numbered for the property alone: `taken[h][d]` are the numbers of the events whose jobs a thread took, and `begun[h][d]` of
those whose command was started, both in the order it happened.

## The runs

Passing runs, with what they add and their bounds:

* `topic`: two publishers, of two events and one, and two subscriptions that come and go.  Two of each are needed for
  interleaving in a queue and for two sentinels; a third event of the same publisher adds no new overtaking.
* `relay`: two hosts, a keyboard, a mouse on another receiver, a device without CHANGE_HOST between them, all three modes,
  three presses, one nap.  Three presses allow a press that splits the devices, one that brings them back together,
  and a clean one, over queues that still hold commands of the first.
* `discovery`: a keyboard over Bluetooth (role unknown until asked), new or restored with any of its steps pending, the features of keys, name and
  hosts, one faulty request, two attempts per capped step, a link that holds.  Safety and liveness.  With the friendly name, which is read like the
  name, restored devices are too many states; the next run follows it.
* `discovery_flaps`: three reports, one of them a loss; the features with capped steps; the device is new or restored with any of the followed steps
  pending and in whatever connected state it was saved; the index of CID_REPORTING equals the code of FRIENDLY_NAME.
  Three reports are the least that make a loss between two set-ups; a second attempt is the last that is retried.
  Readers of the mistaken feature pile up without end in the code; here `Shortcut` starts them while none is at work (`MaxReaders`), since
  nothing is claimed about how many there are.
* `gateway`: both kinds of gateway, two paths, one unplug, one request, one failing open and write, `close` at any time.
  One of each suffices for every pair of threads to meet in every state; the theorem below covers the rest for safety.
* `key_reports`: two keyboards in the same slot of two receivers, one of which rejects analytics, one key, two events of any kind, and the
  shutdown.  Two events are what it takes to lose something and get it back, or to mix up the two slots.
* `ble`: three departures, two failing GATT operations, two failing writes, `close` at any time.
* `task_exchange`: two threads, one name task or one feature task, a name of no or two pieces, two troubles.  Two pieces are a conversation
  with a middle; two troubles make a late answer and a new task that gets it.
* `device_cache`: a keyboard and a mouse, one crash, one failure of the file system, one `--clear-cache`, at any step.
* `event_hooks`: eight configurations with every kind of malformed entry beside a good one, hooks that hang or are missing, three reports
  or presses, names at any time.  Three reports allow a change, its repetition and a change back.  Two threads and two changes are what
  an overtaking takes: that commands always start in the order of the events is false here.

Runs that show a disagreement between code and documentation:

* `v_armed`: a task that succeeds sets `connected = True` even though the disconnection was handled while it ran;
  the reconnection is then ignored and the keys stay dead until the next one.
* `v_wedge`: the BLE callback clears the flag while the gateway thread waits for the subscription; both wait for ever.

### Fairness
Threads of the daemon are weakly fair: an enabled step of a thread is taken eventually (they block only in queues, in reads
and in waits with a timeout).  Nothing is assumed of users, devices or the main thread: presses, reports, unplugging,
replugging, `close` and failures need not happen, and failures are bounded by constants, so that a property of
the form "ends up" speaks about the time after the last of them.  In `Discovery` a request that is not counted as a fault
is answered while the link is up.  In `HidGateway` a read of an open device need not return; one that waits while `close` closes the device does, as
`test_hid_gateway.py` has it.
In `TaskExchange` the device answers what reaches it, and a wait ends after its two seconds if nothing is coming any more.  In `EventHooks` a command ends
or its timeout does.  `DeviceCache` needs no fairness: it has only safety properties.

### Known exceptions stated in the properties
`Reconnects` and `ComesUp` excuse the wedged states that the code does have: a failed write clears the flag
while the gateway thread is in `read()`; the path changes before any transport was opened, so `None.close()` kills the
thread; a flag cleared (or cleared and set again within half a second) while the BLE gateway waits.  `Together` speaks of presses made with the devices
together, awake and set up.  `NobodyForgets` and the liveness properties of `Discovery` speak of links that hold.
`AnnouncedHasName` holds as long as the link does; after a loss two name tasks may run, and the one that fails clears the name
the other has stored (`get_device_name_task.py:36`).

Most of these exceptions are corners where the code does less than its text says, and each has a name:

* `MistakenForResolved` (`DependentsAfterFeature`, `TasksBounded`): a feature whose code is the index of another one is never looked up and its
  readers start at once.  The codes 0x0005 and 0x0007 are small enough; `test_feature_tasks.py:109-112` takes
  every code for larger than any index.
* `overtaken` (`LostMeansOffline`, `ReportsWhenQuiet`): packets pass through the listener's queue and the loss of the receiver does not, so a connection report
  may be handled after the loss of its receiver, although `hid_gateway_receiver.py:15-16` wants all devices marked as offline.
  It names the devices of which the listener still holds a report that they are up when their receiver is lost, and those whose receiver is
  back before its loss was handled; for all others the two properties are proved.
* `missed` (`ReportsWhenQuiet`): a key taken back on the device that comes second in the registry with its slot; the lookup is by slot alone.
* `mixed` (`NameIsTrue`): a name task started next to another one, or next to messages the last one left, reads answers to questions
  that were not its own.  `crossed` (`FeatureIsTrue`): a feature task takes the echo of a key setting for its answer.
* `torn` (`NothingMissed`): a step that is settled while its device is being written is missing from both lists of the entry; a crash before
  the next save makes that final, and the feature is never asked for again.
* `interrupted` (`RejectionRearms`): the `RuntimeError` of a save ends the handler before it asks for the keys again.
* `unread`, `stale` (`FinishedStays`, `RestIsSaved`): the file could not be read at the start, and the next save replaces it;
  the last save failed, or the cache was cleared.
* `Rejected` (`EventHooks`): a timeout that is no number, or an empty section, ends the daemon at its start, although `config.py:80-81` says
  that a single bad hook never brings it down.  Reports handled before a device has a name are forgotten, and properties start from there.
* `ReleasedAtShutdown` leaves out keyboards that report through analytics: only diverts are undone.

## The proofs

Every theorem holds for all values of the constants that satisfy the assumptions named in its module, so for every number of devices, threads,
hosts, receivers and keys and for every bound on failures; the runs are the small instances.  Each safety proof has the same shape:
an inductive invariant (checked with TLC first, on the instance of the run, and no longer listed there now that it is a lemma),
one lemma per action that keeps it, and a theorem that puts them together.  `TypeCorrect` proves the type invariant of its module everywhere
and comes first, because the others rest on it.  What the invariants have to say besides the property:

* `TopicProofs!BusIsMailbox`: `Topic` implements `Mailbox`, step by step.  The mapping only works because of three facts.  `OnceInv`: a list has
  a queue once, and so has every copy in the hands of a publisher.  `SentinelInv`: whoever is listed, or was just taken
  off, has a living thread and no sentinel; later there is exactly one until the thread has ended.  `OrderInv`: the events of a publisher are in each
  queue in order, and the one in flight comes after them, so the set of accepted events gives up the right one first.  `Put` and `Return`
  are stuttering steps of the mailbox, although `publish` reaches the queues one by one without the lock.
  Assumptions: the sentinel is no event, and the bounds are numbers.
* `HostRelayProofs!OneMovePerPress`: a device moves on command at most as often as a key was pressed.  `CountInv` counts: what a press has
  set going for a device waits at one place at a time (in the queue of a listener, of a subscriber, or of the device's own gateway), and the
  places that are taken and the moves made are together no more than the presses.  It needs that gateways only hold commands for their
  own devices, and a lemma on taking the head of a queue as an injection between the places.
* `HostRelayProofs!TogetherInTheEnd` (`TogetherWhenQuiet`): what the program is for, without the waiting.  `TogetherInv`: while a clean press is being
  relayed, everything in any queue names its target, and each device is there already, or something that will take it there is in a
  queue *of the host the device is at*: a packet or a notice that names a host, a change, or a command for it in the queue of its own gateway.  A change
  passes this on because the subscriber tells every relayed device, present or not (`EveryCommanded`); a command works because nobody
  fell asleep since.  Assumptions: what is no host is none, keyboards are relayed, the known ways of telling a press.
* `DiscoveryProofs!NoStepForgotten`: `NobodyForgets`.  It is not inductive: a pending step may be left to somebody who will start it only
  because of facts about the rest of the state.  `ForgetInv` adds them: an unregistered device has no tasks; a device that has kept its link
  counts as connected, so failures are retried and not dropped; and while the role is unknown the keyboard steps are untouched and wait for the type.
  The assumption that matters is that the steps of the keyboard are followed only together with the type, or when the report tells it.
* `DiscoveryProofs!TasksStayBounded`: `TasksBounded`, at most one task (two for the search for the keys and their setting) per step and loss of the
  link, for the steps no feature mistaken for resolved starts.  `LoadInv` is a balance: the tasks of a step that run or wait
  for a retry, those of the feature it reads from (a success makes room for its readers), and the set-ups that may still be asked
  for (queued requests, losses yet to be handled, and one if the device does not count as registered and connected) are together at most one more than the
  losses.  The search for the keys has two causes, the type and the feature, and so a balance of its own.
* `DiscoveryProofs!ReadersWait` (`DependentsAfterFeature`) and `NameIsKnown` (`AnnouncedHasName`): readers run, or wait for a retry, only after their feature;
  and while the link holds the task for the name is alone, by `LoadInv`, so its step cannot be settled behind its back and no second one clears the name.
* `KeyReportsProofs`: `SideInv` collects what the rest needs: packets and writes are in the queues of the receiver of their device, a device that
  is away reports nothing, one that accepts analytics is never diverted or rejected, only the shutdown undoes anything.
  * `LostIsOffline` (`LostMeansOffline`).  `DownInv`: unless it was overtaken, a device that is away has the loss of its receiver still unhandled, or it
    goes down: in the queues from the listener to the subscriber every report that it is up has one after it that it is down, and
    so has the flag.
  * `ReportsKept` (`ReportsWhenQuiet`).  `DueInv`: as long as a key is not reported, something on its way will make it so: a report that will be
    taken for a reconnection (it comes after one that the device is down, in one queue or across two, or meets the cleared flag),
    a wake-up, a key taken back, a request, a write of the form the device obeys, or one it is going to
    reject, or the rejection.  Every handler passes this on to the next queue.  It rests on `DownInv`: that a device which comes back *is* taken
    for a reconnection is because it went down.
  * `ShutdownReleases` (`ReleasedAtShutdown`).  `ReleaseInv`: for a device that nothing happened to since, the setting of the shutdown comes after
    every other one in `flags`, then its writes after every other one of the same key, then the key is not reported.
  * `DaemonRunsDown`: between two events the daemon comes to rest.  `RunsDown` ranks what is left to do in the order in which work makes work (analytics flags, losses,
    reports heard, requests, flags to set, commands, packets heard, responses), and each step of a thread brings the first rank it touches down, whatever it adds to the
    later ones.  A rejection costs an analytics flag, which is why the echo of the fallback starts nothing.  That a descent ends, and that the threads
    are scheduled, is left to `ComesToRest` in the run `key_reports`.
  * Assumptions: receiver and slot identify a device, who accepts analytics offers it, and the keys are finitely many.
* `GatewayProofs!TransportWhileConnected` (`ConnectedHasTransport`): the flag is set only on a transport that was opened.  The strengthening is that the flag is clear
  while the gateway thread looks for the device and opens it, which holds because no other thread ever sets it.
  `AnnouncedCorrect` (`AnnouncedIsTrue`): what was announced last is what the flag says, but for a failed write or a publication still to come.
* `GatewayProofs!BleTypeCorrect` and `AnnouncedUpCorrect` (`AnnouncedUpIsReal`) are about the other specification over the same attributes.  `AnnounceInv` says where the BLE thread and the gateway thread must be whenever the
  flag or its event differs from the subscription, as long as no write failed and nobody closed the gateway.
* `TaskExchangeProofs!OutcomesCorrect` (`OutcomesAreTrue`): `FeatureInv` says which messages the queue of a task can hold; only a crossed one has echoes of
  key settings.  `NameInv`: until conversations are mixed there is one about the name, and at most one of its messages is on its way or in the queue: the
  one the task waits for.
* `DeviceCacheProofs`: a theorem for each property.  `NothingMissedCorrect`: a step is taken off the list only after its result is stored, and an entry
  that is not torn loses nothing at any point of being written.  `FinishedCorrect` (`FinishedStays`, an action property): copies only grow, and a finished device is
  in every copy that may replace the file.  `RestCorrect`: whoever still has to be saved has a saver.  `RejectionCorrect`: the thread that handles a
  rejection is still on it.

* `EventHooksProofs!HooksCorrect` (`HooksFollowReports`).  The numbers of the events make the promise a statement about sets.  `LastInv`: the last state that is
  remembered is the last report heard, whatever was pressed since, so what the subscriber fires is news.  `OrderInv`: the jobs of a hook and a device are in order where
  they were taken, where they wait, and across the two.  `BegunInv`: every job taken was begun, is held by exactly one thread, or is of a
  script that is missing, and none is two of these; so a command that starts early can only have passed one that a thread holds.  `DueInv`: nothing else is ever submitted.  `MissingInv`: what is due and not
  submitted comes after everything that is, and while the daemon runs the subscriber is about to submit it.  `FiringInv` is what carries them through the
  loop: no hook that the loop has not come to has a job for this event or a later one, since every name stands in the file once.
  Assumption: the names of the hooks are a sequence without repetition, as the keys of a mapping are.

Only model-checked:

* Liveness, and everything that needs `ENABLED`: the prover has neither fairness nor a definition of it.  For `Together` and `ComesToRest` the part of
  the argument that is not about fairness is proved (`TogetherInTheEnd`, `DaemonRunsDown`).
* The two runs that show a violation.

## Not modelled
* The synchronous half of `hidpp/protocol.py` (`request` and the functions on it): the daemon does not call it.  Byte formats, offsets and
  lengths of packets: HID reports have fixed sizes, so the parser's indexing does not fail on what a device can send.
* Loading the HID library and enumerating collections; that gateways are made once per product id, so that a second receiver
  of the same kind is not opened (`discovery/discovery.py:46`).
* Devices that are paired again in another slot: nothing in the code assigns `slot` or `pid` again, which a property could only repeat.
* Settings other than hooks and the cache, installation scripts and service files.

## Plan
Every component with behaviour has its module, and every safety property that a run checks is proved.  What is left:

1. `HidGateway` and `GatewayBLE`: the safety half of `close`, that a thread which has seen the stop flag opens nothing any more.
2. `KeyReports`: an abstract specification of a device's key setting (set, lost, set again, undone) that the pipeline implements.
3. A composition of relay, key reporting and gateway for one host, if one can be kept within the bounds of the model checker.
