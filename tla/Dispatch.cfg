CONSTANTS
  Calls = {c1}
  Rules = {1, 2, 3, 4, 5, 6, 7}
  Exits = {4, 5, 6}
  Kind <- MCKind
  BoundEntries <- MCEntries
  BoundExits <- MCExits
  Threaded = {FALSE}
  MaxChanges = 5
  Body = Body
CHECK_DEADLOCK FALSE
SPECIFICATION Spec
INVARIANT RulesetIsServed
INVARIANT AttemptsAreAccountedFor
INVARIANT LastOverrideWins
INVARIANT AwaitedSleepsNeverBlock
PROPERTY KeepsCallContract
