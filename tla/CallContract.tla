---------------------------- MODULE CallContract ----------------------------
(***************************************************************************)
(* What instrumenting one attribute may do to the calls that arrive there. *)
(* Either the original callable runs exactly once, or an entry rule took   *)
(* its place; a value is answered only when the original returned or was   *)
(* replaced, so an exit rule never turns its failure into a value.         *)
(* Dispatch implements this contract.                                      *)
(***************************************************************************)
CONSTANTS
  Calls,          \* calls of the instrumented attribute
  Entries,        \* rules that may run before the original
  Exits,          \* rules that may run after it
  Faults,         \* what of a rule can raise
  Body            \* the original callable

VARIABLES
  body,           \* whether the original ran, and how it ended
  answer          \* what the caller got: a value, or an exception

vars == <<body, answer>>

Open == <<"none", Body>>

Init ==
  /\ body = [c \in Calls |-> "not_run"]
  /\ answer = [c \in Calls |-> Open]

Answer(c, what, who) ==
  /\ answer[c] = Open
  /\ answer' = [answer EXCEPT ![c] = <<what, who>>]
  /\ UNCHANGED body

RunBody(c) ==
  /\ body[c] = "not_run" /\ answer[c] = Open
  /\ \E how \in {"returned", "raised"} : body' = [body EXCEPT ![c] = how]
  /\ UNCHANGED answer

\* An entry rule answers in the original's place, or raises.
Preempt(c) ==
  /\ body[c] = "not_run"
  /\ \E r \in Entries, what \in Faults \cup {"value"} : Answer(c, what, r)

\* The original returned: its value, or the one an exit rule put in its place.
Conclude(c) ==
  /\ body[c] = "returned"
  /\ \E who \in Exits \cup {Body} : Answer(c, "value", who)

\* The original raised: its own exception.
Reraise(c) == body[c] = "raised" /\ Answer(c, "body", Body)

\* An exit rule raises, whatever the original did.
Break(c) ==
  /\ body[c] # "not_run"
  /\ \E r \in Exits, what \in Faults : Answer(c, what, r)

Next == \E c \in Calls :
  RunBody(c) \/ Preempt(c) \/ Conclude(c) \/ Reraise(c) \/ Break(c)

Spec == Init /\ [][Next]_vars
=============================================================================
