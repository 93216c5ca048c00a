\* The engine keeps its tree across a restart: the leaf at the index is checked.
CONSTANTS
  a = a  b = b  c = c  d = d  e = e  f = f
  Nil = Nil
  EPOCH_UNIT_SECONDS = 10
  Commitments <- MCCommitments
  Group <- MCGroup
  NewMembers <- MCNewMembers
  EnginePersists = TRUE
  MaxFaults = 2
  MaxRestarts = 1

SPECIFICATION Spec

INVARIANT IdentityAtIndex

\* A node stops after a fatal error once its restarts are used up, and the
\* member stream is finite.
CHECK_DEADLOCK FALSE
