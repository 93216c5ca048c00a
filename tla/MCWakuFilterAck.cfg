\* One light node, one request, failing streams: does a returned id subscribe?
CONSTANTS
  l1 = l1  l2 = l2  t1 = t1  t2 = t2  c1 = c1  c2 = c2
  LightNodes <- MCOneLightNode
  FilterRequests <- MCFilterRequests
  Envelopes <- MCEnvelopes
  StreamsFail = TRUE
  MaxRequests = 1
  MaxMessages = 2
SPECIFICATION FairSpec
PROPERTY SubscribeTakesEffect
\* The full node stops once the bounded requests and messages are used up.
CHECK_DEADLOCK FALSE
