---------------------------- MODULE MCEventHooks ----------------------------
EXTENDS EventHooks, TLC

TwoHooks == <<"first", "second">>

Hook(types, all) ==
  [isMapping |-> TRUE, path |-> FALSE, command |-> TRUE, type |-> types, all |-> all,
   timeout |-> "number", script |-> "ends"]
Always == Hook({"connect", "disconnect"}, "unset")
Everything == [Hook(Types \union {"other"}, "no") EXCEPT !.script = "hangs"]
Missing == [Hook({"connect"}, "yes") EXCEPT !.path = TRUE, !.command = FALSE, !.script = "missing"]
BadHook == [Always EXCEPT !.isMapping = FALSE]
BadHooks ==
  {BadHook, [Always EXCEPT !.path = TRUE],
   [Always EXCEPT !.command = FALSE], [Always EXCEPT !.type = {"other"}],
   [Always EXCEPT !.timeout = "text"]}

\* Hooks for all devices and for keyboards, by what the file says and by what
\* the hook itself says against it; one that hangs, one whose script is missing,
\* and one that works beside each kind that does not.
File(all, first, second) ==
  [all |-> all, isEmpty |-> FALSE, hooks |-> "first" :> first @@ "second" :> second]
Files ==
  {File(TRUE, Always, Everything), File(FALSE, Always, Missing)}
  \union {File(TRUE, bad, Always) : bad \in BadHooks}
  \union {[File(TRUE, BadHook, BadHook) EXCEPT !.isEmpty = TRUE]}
=============================================================================
