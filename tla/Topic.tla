------------------------------- MODULE Topic -------------------------------
(***************************************************************************)
(* The publish/subscribe bus of topic/topic.py, on which every component   *)
(* of the daemon communicates.  publish() copies the list of subscriber    *)
(* queues under the lock and puts the event in each of them afterwards,    *)
(* one by one and without the lock; each subscription has a queue and a    *)
(* daemon thread (_notify) that drains it; unsubscribe() takes the queue   *)
(* off the list under the lock and then puts a sentinel behind whatever    *)
(* is already queued.  A subscription is a Queue object: it is created by  *)
(* subscribe() and never subscribed again.                                 *)
(***************************************************************************)
EXTENDS Naturals, Sequences, SequencesExt

CONSTANTS Publishers,     \* threads that call publish()
          Subscriptions,  \* the queue objects subscribe() may return
          UNSUBSCRIBE,    \* the sentinel object
          MaxEvents       \* bound: calls of publish() of each publisher

Event == [pub : Publishers, num : Nat]

ASSUME SentinelAssumption == UNSUBSCRIBE \notin Event
ASSUME BoundAssumption == MaxEvents \in [Publishers -> Nat]

VARIABLES
  subscribers,  \* _subscriber_queues, in subscription order
  queue,        \* what each subscription's queue holds
  drain,        \* the state of each subscription's _notify thread
  leaving,      \* subscriptions taken off the list whose sentinel is not put yet
  rest,         \* rest[p]: the part of the copied list that p still has to serve
  sent,         \* sent[p]: number of publish() calls p has made
  delivered     \* history: the events each subscriber was notified of

vars == <<subscribers, queue, drain, leaving, rest, sent, delivered>>

Listed(s) == \E i \in 1..Len(subscribers) : subscribers[i] = s
InFlight(p, s) == \E i \in 1..Len(rest[p]) : rest[p][i] = s
Current(p) == [pub |-> p, num |-> sent[p]]

TypeOK ==
  /\ subscribers \in Seq(Subscriptions)
  /\ queue \in [Subscriptions -> Seq(Event \union {UNSUBSCRIBE})]
  /\ drain \in [Subscriptions -> {"unborn", "waiting", "notifying", "stopped"}]
  /\ leaving \in SUBSET Subscriptions
  /\ rest \in [Publishers -> Seq(Subscriptions)]
  /\ sent \in [Publishers -> Nat]
  /\ delivered \in [Subscriptions -> Seq(Event)]

Init ==
  /\ subscribers = <<>>
  /\ queue = [s \in Subscriptions |-> <<>>]
  /\ drain = [s \in Subscriptions |-> "unborn"]
  /\ leaving = {}
  /\ rest = [p \in Publishers |-> <<>>]
  /\ sent = [p \in Publishers |-> 0]
  /\ delivered = [s \in Subscriptions |-> <<>>]

\* publish, under the lock: copy the list of queues.
Publish(p) ==
  /\ rest[p] = <<>>
  /\ sent[p] < MaxEvents[p]
  /\ sent' = [sent EXCEPT ![p] = @ + 1]
  /\ rest' = [rest EXCEPT ![p] = subscribers]
  /\ UNCHANGED <<subscribers, queue, drain, leaving, delivered>>

\* publish, after the lock: put the event in the next queue of the copy.
Put(p) ==
  /\ rest[p] # <<>>
  /\ queue' = [queue EXCEPT ![Head(rest[p])] = Append(@, Current(p))]
  /\ rest' = [rest EXCEPT ![p] = Tail(@)]
  /\ UNCHANGED <<subscribers, drain, leaving, sent, delivered>>

\* subscribe: a fresh queue joins the list and its thread is started.
Subscribe(s) ==
  /\ drain[s] = "unborn"
  /\ subscribers' = Append(subscribers, s)
  /\ drain' = [drain EXCEPT ![s] = "waiting"]
  /\ UNCHANGED <<queue, leaving, rest, sent, delivered>>

\* Mutant: a second call puts a second sentinel.
UnlistAgain(s) ==
  /\ drain[s] # "unborn"
  /\ subscribers' = Remove(subscribers, s)
  /\ leaving' = leaving \union {s}
  /\ UNCHANGED <<queue, drain, rest, sent, delivered>>

\* unsubscribe, under the lock; a second call finds nothing to remove.
Unlist(s) ==
  /\ \E i \in 1..Len(subscribers) : subscribers[i] = s /\ subscribers' = RemoveAt(subscribers, i)
  /\ leaving' = leaving \union {s}
  /\ UNCHANGED <<queue, drain, rest, sent, delivered>>

\* Mutant: the sentinel is never put.
PutNoSentinel(s) ==
  /\ s \in leaving
  /\ leaving' = leaving \ {s}
  /\ UNCHANGED <<subscribers, queue, drain, rest, sent, delivered>>

\* unsubscribe, after the lock: the sentinel goes behind what is queued.
PutSentinel(s) ==
  /\ s \in leaving
  /\ queue' = [queue EXCEPT ![s] = Append(@, UNSUBSCRIBE)]
  /\ leaving' = leaving \ {s}
  /\ UNCHANGED <<subscribers, drain, rest, sent, delivered>>

\* Mutant: the sentinel is handed to the subscriber.
TakeAnything(s) ==
  /\ drain[s] = "waiting"
  /\ queue[s] # <<>>
  /\ delivered' = [delivered EXCEPT ![s] = Append(@, Head(queue[s]))]
  /\ queue' = [queue EXCEPT ![s] = Tail(@)]
  /\ drain' = [drain EXCEPT ![s] = "notifying"]
  /\ UNCHANGED <<subscribers, leaving, rest, sent>>

\* _notify: take an event and call subscriber.notify with it.
Take(s) ==
  /\ drain[s] = "waiting"
  /\ queue[s] # <<>>
  /\ Head(queue[s]) # UNSUBSCRIBE
  /\ delivered' = [delivered EXCEPT ![s] = Append(@, Head(queue[s]))]
  /\ queue' = [queue EXCEPT ![s] = Tail(@)]
  /\ drain' = [drain EXCEPT ![s] = "notifying"]
  /\ UNCHANGED <<subscribers, leaving, rest, sent>>

\* Mutant: an exception of the handler ends the thread.
ReturnOrDie(s) ==
  /\ drain[s] = "notifying"
  /\ \E state \in {"waiting", "stopped"} : drain' = [drain EXCEPT ![s] = state]
  /\ UNCHANGED <<subscribers, queue, leaving, rest, sent, delivered>>

\* _notify: subscriber.notify has returned, or raised an exception that the
\* loop logs; either way the thread goes back to its queue.
Return(s) ==
  /\ drain[s] = "notifying"
  /\ drain' = [drain EXCEPT ![s] = "waiting"]
  /\ UNCHANGED <<subscribers, queue, leaving, rest, sent, delivered>>

\* _notify: the sentinel ends the thread.
Stop(s) ==
  /\ drain[s] = "waiting"
  /\ queue[s] # <<>>
  /\ Head(queue[s]) = UNSUBSCRIBE
  /\ queue' = [queue EXCEPT ![s] = Tail(@)]
  /\ drain' = [drain EXCEPT ![s] = "stopped"]
  /\ UNCHANGED <<subscribers, leaving, rest, sent, delivered>>

Next ==
  \/ \E p \in Publishers : Publish(p) \/ Put(p)
  \/ \E s \in Subscriptions :
       Subscribe(s) \/ Unlist(s) \/ PutSentinel(s) \/ Take(s) \/ Return(s) \/ Stop(s)

Spec == Init /\ [][Next]_vars

\* A thread that is inside publish(), unsubscribe() or _notify() keeps
\* running; nobody has to call publish, subscribe or unsubscribe.
Fairness ==
  /\ \A p \in Publishers : WF_vars(Put(p))
  /\ \A s \in Subscriptions :
       WF_vars(PutSentinel(s)) /\ WF_vars(Take(s) \/ Return(s) \/ Stop(s))

FairSpec == Spec /\ Fairness

----------------------------------------------------------------------------
\* An event published while a subscription is listed, and that is never
\* unsubscribed, is delivered, even if notify() raised on an earlier event.
Queued(s, e) == \E i \in 1..Len(queue[s]) : queue[s][i] = e
Delivered(s, e) == \E i \in 1..Len(delivered[s]) : delivered[s][i] = e
EventuallyDelivered ==
  \A s \in Subscriptions, p \in Publishers : \A n \in 1..MaxEvents[p] :
    ((sent[p] = n /\ InFlight(p, s))
       ~> (Delivered(s, [pub |-> p, num |-> n]) \/ ~Listed(s)))

\* unsubscribe() ends the drain thread, so that the thread of every finished
\* InfoTask goes away.
DrainEnds == \A s \in Subscriptions : s \in leaving ~> drain[s] = "stopped"

----------------------------------------------------------------------------
\* The state of the mailboxes that a state of the topic stands for.
SentinelPut(s) == drain[s] # "unborn" /\ ~Listed(s) /\ s \notin leaving

Mode(s) ==
  CASE drain[s] = "unborn" -> "unborn"
    [] Listed(s) -> "open"
    [] s \in leaving -> "closing"
    [] drain[s] = "stopped" -> "ended"
    [] OTHER -> "draining"

\* Accepted and not handled: queued in front of the sentinel, or in the hands
\* of a publisher that is still serving its copy of the list.
InFront(q) == {q[i] : i \in {j \in 1..Len(q) : \A k \in 1..j : q[k] # UNSUBSCRIBE}}
OnTheWay(s) == {Current(p) : p \in {q \in Publishers : InFlight(q, s)}}
Pending(s) ==
  IF drain[s] = "stopped" THEN {}
  ELSE InFront(queue[s]) \union (IF SentinelPut(s) THEN {} ELSE OnTheWay(s))

modeBar == [s \in Subscriptions |-> Mode(s)]
pendingBar == [s \in Subscriptions |-> Pending(s)]
M == INSTANCE Mailbox WITH mode <- modeBar, pending <- pendingBar, handled <- delivered

\* The bus of topic.py keeps the promise stated in Mailbox.
ImplementsMailbox == M!Spec
=============================================================================
