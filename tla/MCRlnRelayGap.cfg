\* A node validates between its engine's insert and the root tracker's Sync:
\* does it accept a proof against its own current root?
CONSTANTS
  n1 = n1  n2 = n2
  a = a  b = b  c = c  d = d  e = e  f = f  x = x  t = t
  Nil = Nil
  EPOCH_UNIT_SECONDS = 10
  Nodes <- MCNodes
  Commitments <- MCCommitments
  Group <- MCGroup
  NewMembers <- MCFewMembers
  Payloads <- MCPayloads
  Topics <- MCTopics
  Clocks <- MCFewClocks
  Spammers <- MCNoSpammers
  MaxPublished = 1
  MaxInFlight = 1
  SyncFailNodes = {}

SPECIFICATION Spec
SYMMETRY NodeSymmetry

PROPERTY OwnRootAccepted

CHECK_DEADLOCK FALSE
