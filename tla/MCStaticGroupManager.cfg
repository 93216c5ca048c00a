\* Engine tree lost on restart: the bootstrap checks, and the manager
\* implementing the Membership abstraction.
CONSTANTS
  a = a  b = b  c = c  d = d  e = e  f = f
  Nil = Nil
  EPOCH_UNIT_SECONDS = 10
  Commitments <- MCCommitments
  Group <- MCGroup
  NewMembers <- MCNewMembers
  EnginePersists = FALSE
  MaxFaults = 3
  MaxRestarts = 2

SPECIFICATION Spec

INVARIANT TypeOK
INVARIANT IdentityAtIndex
INVARIANT TreeFollowsDeliveryOrder
PROPERTY MembershipRefined

\* A node stops after a fatal error once its restarts are used up, and the
\* member stream is finite.
CHECK_DEADLOCK FALSE
