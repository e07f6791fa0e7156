---------------------------- MODULE GateContract ----------------------------
(***************************************************************************)
(* What patcher._gate promises of one rule, with no lock and no sections:  *)
(* every visit is counted once, and the decision to fire is a single       *)
(* indivisible step in which a once_per rule also claims its key.          *)
(* FiringGate implements this contract with three short critical sections. *)
(***************************************************************************)
EXTENDS Naturals

CONSTANTS
  Visits,         \* calls that arrive at the rule
  Keys,           \* values fire.key can take when it reads the call
  N               \* countdown's n

Modes == {"always", "countdown", "once_per"}

VARIABLES
  mode,           \* fire.mode
  reached,        \* how many visits have been counted
  rank,           \* the count each visit was given
  claimed,        \* keys a firing has consumed
  verdict         \* what was decided for each visit

vars == <<mode, reached, rank, claimed, verdict>>

Verdicts == {"unreached", "open", "fired", "off_schedule", "seen", "declined"}

Init ==
  /\ mode \in Modes
  /\ reached = 0
  /\ rank    = [v \in Visits |-> 0]
  /\ claimed = {}
  /\ verdict = [v \in Visits |-> "unreached"]

\* The keys a visit may present: its own count, or a value read off the call.
KeysOf(v) == Keys \cup {rank[v]}

Reach(v) ==
  /\ verdict[v] = "unreached"
  /\ reached' = reached + 1
  /\ rank'    = [rank EXCEPT ![v] = reached + 1]
  /\ verdict' = [verdict EXCEPT ![v] = "open"]
  /\ UNCHANGED <<mode, claimed>>

\* A once_per firing and the claim of its key are one step, on an unclaimed key.
Fire(v) ==
  /\ verdict[v] = "open"
  /\ mode = "countdown" => rank[v] = N + 1
  /\ IF mode = "once_per"
     THEN \E k \in KeysOf(v) \ claimed : claimed' = claimed \cup {k}
     ELSE UNCHANGED claimed
  /\ verdict' = [verdict EXCEPT ![v] = "fired"]
  /\ UNCHANGED <<mode, reached, rank>>

\* Not firing never consumes anything, and each way of not firing has its cause.
Stand(v) ==
  /\ verdict[v] = "open"
  /\ \/ /\ mode = "countdown" /\ rank[v] # N + 1
        /\ verdict' = [verdict EXCEPT ![v] = "off_schedule"]
     \/ /\ mode = "once_per" /\ KeysOf(v) \cap claimed # {}
        /\ verdict' = [verdict EXCEPT ![v] = "seen"]
     \/ verdict' = [verdict EXCEPT ![v] = "declined"]
  /\ UNCHANGED <<mode, reached, rank, claimed>>

Next == \E v \in Visits : Reach(v) \/ Fire(v) \/ Stand(v)

Spec == Init /\ [][Next]_vars
=============================================================================
