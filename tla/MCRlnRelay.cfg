\* Honest nodes and a spammer, lagging trees, skewed clocks, and validations
\* between an insert and its Sync: no false rejection and no stale root
\* accepted, while the honest node's root tracker may fail to sync.
CONSTANTS
  n1 = n1  n2 = n2
  a = a  b = b  c = c  d = d  e = e  f = f  x = x  t = t
  Nil = Nil
  EPOCH_UNIT_SECONDS = 10
  Nodes <- MCNodes
  Commitments <- MCCommitments
  Group <- MCGroup
  NewMembers <- MCNewMembers
  Payloads <- MCPayloads
  Topics <- MCTopics
  Clocks <- MCClocks
  Spammers <- MCSpammers
  MaxPublished = 2
  MaxInFlight = 2
  SyncFailNodes <- MCSyncFailNodes

SPECIFICATION Spec


INVARIANT TypeOK
PROPERTY HonestNotRejected
PROPERTY StaleProofRejected

\* Time, publications and the member stream are bounded.
CHECK_DEADLOCK FALSE
