----------------------------- MODULE MCDispatch -----------------------------
\* Dispatch on a small ruleset: rules 1 to 3 and 7 on entry, 4 to 6 on exit.
EXTENDS Dispatch

MCKind == [r \in Rules |->
  CASE r = 1 -> "plain" [] r \in {2, 4, 6} -> "override" [] r = 3 -> "kill"
    [] r = 5 -> "raise" [] r = 7 -> "async"]

\* What is bound at construction; the rest comes by extension.
MCEntries == <<2, 3>>
MCExits == <<4, 6>>
=============================================================================
