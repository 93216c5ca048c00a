\* One light node, scheduled goroutines, failing streams, a caller that keeps
\* reading: a push for a kept filter eventually reaches that filter's Chan.
CONSTANTS
  l1 = l1  l2 = l2  t1 = t1  t2 = t2  c1 = c1  c2 = c2
  LightNodes <- MCOneLightNode
  FilterRequests <- MCFilterRequests
  Envelopes <- MCEnvelopes
  StreamsFail = TRUE
  MaxRequests = 2
  MaxMessages = 1
SPECIFICATION FairSpec
PROPERTY PushReachesOwnFilter
\* The full node stops once the bounded requests and messages are used up.
CHECK_DEADLOCK FALSE
