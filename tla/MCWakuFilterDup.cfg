\* One message, pushed to a light node holding overlapping filters.
CONSTANTS
  l1 = l1  l2 = l2  t1 = t1  t2 = t2  c1 = c1  c2 = c2
  LightNodes <- MCOneLightNode
  FilterRequests <- MCFilterRequests
  Envelopes <- MCEnvelopes
  StreamsFail = FALSE
  MaxRequests = 2
  MaxMessages = 1
SPECIFICATION Spec
INVARIANT NoDuplicateDelivery
\* The full node stops once the bounded requests and messages are used up.
CHECK_DEADLOCK FALSE
