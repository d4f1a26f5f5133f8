------------------------------ MODULE Mailbox ------------------------------
(***************************************************************************)
(* What a topic promises its users: publishing is one atomic broadcast to  *)
(* the subscriptions open at that moment; every subscription handles the   *)
(* events of one publisher in order, and the events of different           *)
(* publishers in any order; closing a subscription may cost, for each      *)
(* publisher, the last event accepted for it and nothing else.             *)
(***************************************************************************)
EXTENDS Naturals, Sequences

CONSTANTS Publishers, Subscriptions, MaxEvents

VARIABLES
  mode,     \* "unborn", "open", "closing", "draining" or "ended", per subscription
  pending,  \* pending[s]: events accepted for s that were not handled yet
  sent,     \* number of events each publisher has broadcast
  handled   \* the events each subscription has handled

abstractVars == <<mode, pending, sent, handled>>

\* Event e was broadcast before f, by the same publisher.
Before(e, f) == e.pub = f.pub /\ e.num < f.num

Init ==
  /\ mode = [s \in Subscriptions |-> "unborn"]
  /\ pending = [s \in Subscriptions |-> {}]
  /\ sent = [p \in Publishers |-> 0]
  /\ handled = [s \in Subscriptions |-> <<>>]

Broadcast(p) ==
  /\ sent[p] < MaxEvents[p]
  /\ sent' = [sent EXCEPT ![p] = @ + 1]
  /\ pending' = [s \in Subscriptions |->
       pending[s] \union (IF mode[s] = "open" THEN {[pub |-> p, num |-> sent[p] + 1]} ELSE {})]
  /\ UNCHANGED <<mode, handled>>

Handle(s, e) ==
  /\ mode[s] \in {"open", "closing", "draining"}
  /\ \A f \in pending[s] : ~Before(f, e)
  /\ handled' = [handled EXCEPT ![s] = Append(@, e)]
  /\ pending' = [pending EXCEPT ![s] = @ \ {e}]
  /\ UNCHANGED <<mode, sent>>

Open(s) ==
  /\ mode[s] = "unborn"
  /\ mode' = [mode EXCEPT ![s] = "open"]
  /\ UNCHANGED <<pending, sent, handled>>

Close(s) ==
  /\ mode[s] = "open"
  /\ mode' = [mode EXCEPT ![s] = "closing"]
  /\ UNCHANGED <<pending, sent, handled>>

\* Some events, none of which another one follows, will not be handled.
Cut(s, lost) ==
  /\ mode[s] = "closing"
  /\ \A e \in lost, f \in pending[s] : ~Before(e, f)
  /\ mode' = [mode EXCEPT ![s] = "draining"]
  /\ pending' = [pending EXCEPT ![s] = @ \ lost]
  /\ UNCHANGED <<sent, handled>>

End(s) ==
  /\ mode[s] = "draining"
  /\ pending[s] = {}
  /\ mode' = [mode EXCEPT ![s] = "ended"]
  /\ UNCHANGED <<pending, sent, handled>>

Next ==
  \/ \E p \in Publishers : Broadcast(p)
  \/ \E s \in Subscriptions :
       \/ Open(s) \/ Close(s) \/ End(s)
       \/ \E e \in pending[s] : Handle(s, e)
       \/ \E lost \in SUBSET pending[s] : Cut(s, lost)

Spec == Init /\ [][Next]_abstractVars
=============================================================================
