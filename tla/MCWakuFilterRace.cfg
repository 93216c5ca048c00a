\* Two light nodes subscribing at once: the unsynchronised append.
CONSTANTS
  l1 = l1  l2 = l2  t1 = t1  t2 = t2  c1 = c1  c2 = c2
  LightNodes <- MCLightNodes
  FilterRequests <- MCFilterRequests
  Envelopes <- MCEnvelopes
  StreamsFail = FALSE
  MaxRequests = 3
  MaxMessages = 2
SPECIFICATION Spec
SYMMETRY LightSymmetry
INVARIANT SubscriberNotLost
\* The full node stops once the bounded requests and messages are used up.
CHECK_DEADLOCK FALSE
