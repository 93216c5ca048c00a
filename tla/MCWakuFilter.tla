---------------------------- MODULE MCWakuFilter ----------------------------
(***************************************************************************)
(* Two light nodes and a full node. A light node may ask for every pubsub  *)
(* topic ("") or for topic t1, with content filters <<c1>> or <<c1, c2>>;  *)
(* a request may also carry Subscribe = false, as Unsubscribe sends it.    *)
(* Messages come on t1 or t2 with content topic c1 or c2, so a filter can  *)
(* miss a message by either topic.                                         *)
(***************************************************************************)
EXTENDS WakuFilter, TLC

CONSTANTS l1, l2, t1, t2, c1, c2

MCLightNodes == {l1, l2}
MCOneLightNode == {l1}

MCFilterRequests ==
  {[subscribe |-> TRUE,  topic |-> "", contentFilters |-> <<c1>>],
   [subscribe |-> TRUE,  topic |-> t1, contentFilters |-> <<c1, c2>>],
   [subscribe |-> FALSE, topic |-> t1, contentFilters |-> <<c1, c2>>]}

MCEnvelopes == [pubsubTopic : {t1, t2}, contentTopic : {c1, c2}]

LightSymmetry == Permutations(MCLightNodes)

=============================================================================
