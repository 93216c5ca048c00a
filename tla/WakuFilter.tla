----------------------------- MODULE WakuFilter -----------------------------
(***************************************************************************)
(* The filter protocol of package filter (the third file of                *)
(* src/waku/v2/protocol/rln/group_manager/static/static.go, lines          *)
(* 161-438): light nodes Subscribe and Unsubscribe at one full node; the   *)
(* full node's libp2p stream handler onRequest runs in a goroutine per     *)
(* stream and appends to wf.subscribers, while its FilterListener          *)
(* goroutine pushes every message from MsgC to the matching subscribers.   *)
(*                                                                         *)
(* wf.subscribers = append(wf.subscribers, s) is not synchronised: it is   *)
(* a read of the slice and a write of it, and two onRequest goroutines may *)
(* interleave between them (a data race; this is the outcome a build       *)
(* gives when the two appends overlap). FilterListener reads the slice     *)
(* once when its range starts. Streams may fail to open or to be written   *)
(* when StreamsFail. Request ids are GenerateRequestId values, modelled as *)
(* 1, 2, ... since each is fresh; the full node sees them hex encoded.     *)
(***************************************************************************)
EXTENDS Naturals, Sequences, SequencesExt, FiniteSets

CONSTANTS
  LightNodes,      \* light nodes (model values)
  FilterRequests,  \* requests a light node may make: [topic, contentFilters]
  Envelopes,       \* messages the relay hands to MsgC: [pubsubTopic, contentTopic]
  StreamsFail,     \* may NewStream and WriteMsg fail?
  MaxRequests,     \* bound on Subscribe and Unsubscribe calls
  MaxMessages      \* bound on messages handled by FilterListener

\* A request id as the full node sees it: hex.EncodeToString(id).
Hex(id) == <<"hex", id>>
\* The id Subscribe returns to its caller: string(id).
Raw(id) == <<"raw", id>>
\* The id Subscribe returns when it finds no peer: "".
NoId == <<"raw", 0>>

VARIABLES
  subscribers,  \* wf.subscribers of the full node
  handlers,     \* onRequest goroutines of the full node, one per stream
  nextId,       \* the next request id GenerateRequestId returns
  handled,      \* messages FilterListener has taken from MsgC
  lastMsg,      \* m of FilterListener's range over MsgC: the last message taken
  pushes,       \* pushes written to light nodes: [to, requestId, msg]
  sent,         \* FilterRPCs that reached the full node: [peer, requestId, request]
  added,        \* subscribers whose append has completed
  returned,     \* returned[l]: ids Subscribe returned to light node l
  inflight,     \* bag of push streams written and not yet read by the light node
  filters,      \* filters[l]: light node l's Filters, id -> content topics
  delivered,    \* bag of [to, key, msg]: sends on the Chan of filter key at l
  peers,        \* peers[l]: l's peerstore holds the full node with the filter protocol
  notifiers,    \* bag of Notify calls under way at light nodes: [to, requestId, msg, todo]
  readerBusy,   \* readerBusy[l]: keys of l's filters whose Chan reader holds a message
  unkept        \* unkept[l]: [id, contentFilters] Subscribe returned, not yet kept by its caller

\* lastMsg before FilterListener has taken a message.
NoMsg == [pubsubTopic |-> "", contentTopic |-> ""]

vars == <<subscribers, handlers, nextId, handled, lastMsg, pushes, sent, added, returned,
          inflight, filters, delivered, peers, notifiers, readerBusy, unkept>>

Subscriber == [peer : LightNodes, requestId : {Hex(i) : i \in 1..MaxRequests},
               filter : FilterRequests]

TypeOK ==
  /\ subscribers \in Seq(Subscriber)
  /\ \A h \in handlers : h.pc \in {"read", "append"} /\ h.peer \in LightNodes
  /\ nextId \in 1..(MaxRequests + 1)
  /\ handled \in 0..MaxMessages
  /\ lastMsg \in Envelopes \cup {NoMsg}
  /\ \A p \in pushes : p.to \in LightNodes /\ p.msg \in Envelopes
  /\ added \subseteq Subscriber
  /\ returned \in [LightNodes -> SUBSET ({Raw(i) : i \in 1..MaxRequests} \cup {NoId})]
  /\ peers \in [LightNodes -> BOOLEAN]
  /\ IsABag(inflight) /\ IsABag(delivered)
  /\ \A l \in LightNodes : DOMAIN filters[l] \subseteq returned[l]
  /\ IsABag(notifiers)
  /\ \A g \in BagToSet(notifiers) : g.todo \subseteq DOMAIN filters[g.to]
  /\ readerBusy \in [LightNodes -> SUBSET ({Raw(i) : i \in 1..MaxRequests} \cup {NoId})]
  /\ \A l \in LightNodes : \A k \in unkept[l] : k.id \in returned[l]

Init ==
  /\ subscribers = <<>>
  /\ handlers = {}
  /\ nextId = 1
  /\ handled = 0
  /\ lastMsg = NoMsg
  /\ pushes = {}
  /\ sent = {}
  /\ added = {}
  /\ returned = [l \in LightNodes |-> {}]
  /\ inflight = EmptyBag
  /\ filters = [l \in LightNodes |-> <<>>]
  /\ delivered = EmptyBag
  /\ peers = [l \in LightNodes |-> FALSE]
  /\ notifiers = EmptyBag
  /\ readerBusy = [l \in LightNodes |-> {}]
  /\ unkept = [l \in LightNodes |-> {}]

\* AddPeer: the full node's addresses and the filter protocol are added to
\* l's peerstore.
AddPeer(l) ==
  /\ ~peers[l]
  /\ peers' = [peers EXCEPT ![l] = TRUE]
  /\ UNCHANGED <<subscribers, handlers, nextId, handled, lastMsg, pushes, sent, added,
                 returned, inflight, filters, delivered, notifiers, readerBusy, unkept>>

\* selectPeer finds a peer supporting the filter protocol (the full node).
SelectPeer(l) == peers[l]

\* Subscribe returns id with a nil error to its caller, for request req.
Return(l, id, req) ==
  /\ returned' = [returned EXCEPT ![l] = @ \cup {id}]
  /\ unkept' = [unkept EXCEPT ![l] = @ \cup {[id |-> id, contentFilters |-> req.contentFilters]}]

(***************************************************************************)
(* The caller of Subscribe, once the call has returned, keeps the          *)
(* request's content filters in its Filters under the id returned; a later *)
(* keep under the same id replaces the earlier one, as a map assignment.  *)
(***************************************************************************)
KeepFilter(l, k) ==
  /\ k \in unkept[l]
  /\ filters' = [filters EXCEPT ![l] = (k.id :> k.contentFilters) @@ @]
  /\ unkept' = [unkept EXCEPT ![l] = @ \ {k}]
  /\ UNCHANGED <<subscribers, handlers, nextId, handled, lastMsg, pushes, sent, added,
                 returned, inflight, delivered, peers, notifiers, readerBusy>>

(***************************************************************************)
(* The FilterRPC with request req written on a fresh stream to the full    *)
(* node, as the onRequest goroutine that will read it. The request is sent *)
(* as the caller built it, Subscribe flag included, by both Subscribe and  *)
(* Unsubscribe.                                                            *)
(***************************************************************************)
RequestRPC(l, id, req) ==
  [peer |-> l, requestId |-> id, request |-> req, pc |-> "read", snap |-> <<>>]

\* Writes the FilterRPC with id; a failed write is ignored by the caller.
WriteRequest(l, id, req) ==
  \/ /\ handlers' = handlers \cup {RequestRPC(l, id, req)}
     /\ sent' = sent \cup {[peer |-> l, requestId |-> id, request |-> req]}
  \/ StreamsFail /\ UNCHANGED <<handlers, sent>>

\* Mutant: Subscribe puts the raw id, not its hex encoding, in the FilterRPC.
SubscribeRawId(l, req) ==
  /\ \/ /\ ~SelectPeer(l)
        /\ Return(l, NoId, req)
        /\ UNCHANGED <<handlers, nextId, sent>>
     \/ /\ SelectPeer(l)
        /\ nextId <= MaxRequests
        /\ nextId' = nextId + 1
        /\ WriteRequest(l, Raw(nextId), req)
        /\ Return(l, Raw(nextId), req)
  /\ UNCHANGED <<subscribers, handled, lastMsg, pushes, added, inflight, filters, delivered,
                 notifiers, readerBusy, peers>>

(***************************************************************************)
(* Subscribe: with no filter peer it returns "" and a nil error. Else the  *)
(* stream to the full node opens (a failure to open returns an error and  *)
(* changes nothing, so it is not a step here), a fresh id is generated,   *)
(* the request is written with hex.EncodeToString(id), and string(id) is  *)
(* returned even when the write failed.                                   *)
(***************************************************************************)
Subscribe(l, req) ==
  /\ \/ /\ ~SelectPeer(l)
        /\ Return(l, NoId, req)
        /\ UNCHANGED <<handlers, nextId, sent>>
     \/ /\ SelectPeer(l)
        /\ nextId <= MaxRequests
        /\ nextId' = nextId + 1
        /\ WriteRequest(l, Hex(nextId), req)
        /\ Return(l, Raw(nextId), req)
  /\ UNCHANGED <<subscribers, handled, lastMsg, pushes, added, inflight, filters, delivered,
                 notifiers, readerBusy, peers>>

\* Unsubscribe: the same, returning nothing.
Unsubscribe(l, req) ==
  /\ SelectPeer(l)
  /\ nextId <= MaxRequests
  /\ nextId' = nextId + 1
  /\ WriteRequest(l, Hex(nextId), req)
  /\ UNCHANGED <<subscribers, handled, lastMsg, pushes, added, returned,
                 inflight, filters, delivered, notifiers, readerBusy, peers, unkept>>

(***************************************************************************)
(* onRequest, first step: the request is read. With Subscribe set, the     *)
(* goroutine reads wf.subscribers for the append; without it the request   *)
(* is ignored (the TODO at line 298) and the goroutine ends.               *)
(***************************************************************************)
OnRequestRead(h) ==
  /\ h.pc = "read"
  /\ handlers' = (handlers \ {h}) \cup
                   IF h.request.subscribe
                   THEN {[h EXCEPT !.pc = "append", !.snap = subscribers]} ELSE {}
  /\ UNCHANGED <<subscribers, nextId, handled, lastMsg, pushes, sent, added, returned,
                 inflight, filters, delivered, notifiers, readerBusy, peers, unkept>>

\* onRequest, second step: the subscriber is appended to the slice it read.
OnRequestAppend(h) ==
  /\ h.pc = "append"
  /\ LET s == [peer |-> h.peer, requestId |-> h.requestId, filter |-> h.request]
     IN  /\ subscribers' = Append(h.snap, s)
         /\ added' = added \cup {s}
  /\ handlers' = handlers \ {h}
  /\ UNCHANGED <<nextId, handled, lastMsg, pushes, sent, returned, inflight, filters,
                 delivered, notifiers, readerBusy, peers, unkept>>

\* Mutant: a filter topic must equal the message topic; "" is no wildcard.
PushTargetsNoWildcard(subs, env) ==
  LET Attempts(s) ==
        IF s.filter.topic # env.pubsubTopic THEN <<>>
        ELSE [i \in DOMAIN SelectSeq(s.filter.contentFilters,
                                     LAMBDA ct : ct = env.contentTopic) |-> s]
  IN  FoldLeft(LAMBDA acc, s : acc \o Attempts(s), <<>>, subs)

\* Mutant: the pubsub topic is not checked.
PushTargetsAnyTopic(subs, env) ==
  LET Attempts(s) ==
        [i \in DOMAIN SelectSeq(s.filter.contentFilters,
                                LAMBDA ct : ct = env.contentTopic) |-> s]
  IN  FoldLeft(LAMBDA acc, s : acc \o Attempts(s), <<>>, subs)

(***************************************************************************)
(* The pushes handle attempts for a message, in order: each subscriber     *)
(* whose filter topic is empty or the message's pubsub topic, once for     *)
(* every one of its content filters equal to the message's content topic   *)
(* (the inner loop has no break).                                          *)
(***************************************************************************)
PushTargets(subs, env) ==
  LET Attempts(s) ==
        IF s.filter.topic # "" /\ s.filter.topic # env.pubsubTopic THEN <<>>
        ELSE [i \in DOMAIN SelectSeq(s.filter.contentFilters,
                                     LAMBDA ct : ct = env.contentTopic) |-> s]
  IN  FoldLeft(LAMBDA acc, s : acc \o Attempts(s), <<>>, subs)

\* The FilterRPC pushes of the first k attempts, in order.
Pushed(targets, k, env) ==
  [i \in 1..k |-> [to |-> targets[i].peer, requestId |-> targets[i].requestId, msg |-> env]]

(***************************************************************************)
(* FilterListener takes a message from MsgC and runs handle: it ranges     *)
(* over wf.subscribers as read when the range starts, opening a stream and *)
(* writing a push for each attempt; a stream that fails to open returns    *)
(* err, a write that fails returns nil: either way the remaining attempts  *)
(* are skipped.                                                            *)
(***************************************************************************)
HandleMessage(env) ==
  /\ handled < MaxMessages
  /\ handled' = handled + 1
  /\ lastMsg' = env
  /\ LET targets == PushTargets(subscribers, env)
     IN  \E k \in 0..Len(targets) :
           /\ k < Len(targets) => StreamsFail
           /\ pushes' = pushes \cup Range(Pushed(targets, k, env))
           /\ inflight' = inflight (+) ToBag(Pushed(targets, k, env))
  /\ UNCHANGED <<subscribers, handlers, nextId, sent, added, returned, filters, delivered, notifiers, readerBusy,
                 peers, unkept>>

\* Mutant: a push goes only to the filter keyed by its request id.
NotifyKeyOnly(fs, msg, requestId) ==
  {key \in DOMAIN fs : requestId # "" /\ requestId = key}

(***************************************************************************)
(* Filters.Notify: the keys of the filters whose Chan gets the message: the *)
(* one keyed by the push's request id, and every other one with a content  *)
(* filter equal to the message's content topic.                            *)
(***************************************************************************)
Notify(fs, msg, requestId) ==
  {key \in DOMAIN fs : \/ requestId # "" /\ requestId = key
                       \/ msg.contentTopic \in Range(fs[key])}

\* The Notify call the pushHandler makes for push p, before its first send.
NotifyCall(p, keys) == [to |-> p.to, requestId |-> p.requestId, msg |-> p.msg, todo |-> keys]

\* Mutant: the light node reads only pushes whose request id is a Filters key.
LightOnRequestKnownOnly(p) ==
  /\ BagIn(p, inflight)
  /\ p.requestId \in DOMAIN filters[p.to]
  /\ inflight' = inflight (-) SetToBag({p})
  /\ notifiers' = notifiers (+)
       SetToBag({NotifyCall(p, Notify(filters[p.to], p.msg, p.requestId))})
  /\ UNCHANGED <<subscribers, handlers, nextId, handled, lastMsg, pushes, sent, added,
                 returned, filters, delivered, peers, readerBusy, unkept>>

(***************************************************************************)
(* The light node's onRequest reads a push from its stream and calls the   *)
(* pushHandler, which calls Filters.Notify. Notify ranges over the caller's *)
(* Filters map, whose order Go leaves unspecified: the call is modelled by *)
(* the set of keys it will send to, in any order.                          *)
(***************************************************************************)
LightOnRequest(p) ==
  /\ BagIn(p, inflight)
  /\ inflight' = inflight (-) SetToBag({p})
  /\ notifiers' = notifiers (+)
       SetToBag({NotifyCall(p, Notify(filters[p.to], p.msg, p.requestId))})
  /\ UNCHANGED <<subscribers, handlers, nextId, handled, lastMsg, pushes, sent, added,
                 returned, filters, delivered, peers, readerBusy, unkept>>

(***************************************************************************)
(* filter.Chan <- msg: a Notify call sends to the next filter of its range. *)
(* The send blocks until that Chan's reader takes the message, so it is   *)
(* enabled only while the reader is not busy with an earlier one; the      *)
(* onRequest goroutine returns once its range is done.                     *)
(***************************************************************************)
NotifySend(g, key) ==
  /\ BagIn(g, notifiers)
  /\ key \in g.todo
  /\ key \notin readerBusy[g.to]
  /\ readerBusy' = [readerBusy EXCEPT ![g.to] = @ \cup {key}]
  /\ delivered' = delivered (+) SetToBag({[to |-> g.to, key |-> key, msg |-> g.msg]})
  /\ notifiers' = (notifiers (-) SetToBag({g})) (+)
       (IF g.todo = {key} THEN EmptyBag ELSE SetToBag({[g EXCEPT !.todo = @ \ {key}]}))
  /\ UNCHANGED <<subscribers, handlers, nextId, handled, lastMsg, pushes, sent, added,
                 returned, inflight, filters, peers, unkept>>

\* The caller's reader of filter key's Chan is done with its message.
Consume(l, key) ==
  /\ key \in readerBusy[l]
  /\ readerBusy' = [readerBusy EXCEPT ![l] = @ \ {key}]
  /\ UNCHANGED <<subscribers, handlers, nextId, handled, lastMsg, pushes, sent, added,
                 returned, inflight, filters, delivered, peers, notifiers, unkept>>

Next ==
  \/ \E l \in LightNodes, req \in FilterRequests : Subscribe(l, req) \/ Unsubscribe(l, req)
  \/ \E h \in handlers : OnRequestRead(h) \/ OnRequestAppend(h)
  \/ \E env \in Envelopes : HandleMessage(env)
  \/ \E p \in BagToSet(inflight) : LightOnRequest(p)
  \/ \E g \in BagToSet(notifiers) : \E key \in g.todo : NotifySend(g, key)
  \/ \E l \in LightNodes : \E key \in readerBusy[l] : Consume(l, key)
  \/ \E l \in LightNodes : AddPeer(l) \/ \E k \in unkept[l] : KeepFilter(l, k)

Spec == Init /\ [][Next]_vars

(***************************************************************************)
(* Goroutines are scheduled: every onRequest goroutine of either node runs *)
(* to completion once its stream is written, unless a send blocks. The    *)
(* caller is assumed to keep reading every filter's Chan (Subscribe's     *)
(* contract with it); without that, Notify blocks for good. FilterListener *)
(* and the callers' requests are not made fair: they need not come.        *)
(***************************************************************************)
FairSpec ==
  /\ Spec
  /\ WF_vars(\E h \in handlers : OnRequestRead(h) \/ OnRequestAppend(h))
  /\ WF_vars(\E p \in BagToSet(inflight) : LightOnRequest(p))
  /\ WF_vars(\E g \in BagToSet(notifiers) : \E key \in g.todo : NotifySend(g, key))
  /\ WF_vars(\E l \in LightNodes : \E key \in readerBusy[l] : Consume(l, key))

-----------------------------------------------------------------------------
\* A subscription filter f selects message env.
Selects(f, env) ==
  /\ f.topic \in {"", env.pubsubTopic}
  /\ env.contentTopic \in Range(f.contentFilters)

(***************************************************************************)
(* A light node gets only what it asked for: every push the full node      *)
(* writes goes to a light node that sent a subscribe request under the     *)
(* push's request id, and that request's filter selects the message.      *)
(* Relates the light node's request, onRequest's append and handle.        *)
(***************************************************************************)
PushesMatchRequests ==
  \A p \in pushes :
    \E r \in sent : /\ r.peer = p.to /\ r.requestId = p.requestId
                  /\ r.request.subscribe /\ Selects(r.request, p.msg)

(***************************************************************************)
(* "Each subscriber is a light node that earlier on invoked a              *)
(* FilterRequest on this node" (FilterListener): every message handled is *)
(* pushed to every subscriber in wf.subscribers whose filter selects it.   *)
(***************************************************************************)
PushedToAllMatching ==
  [][handled' = handled + 1 =>
       \A s \in Range(subscribers) :
         Selects(s.filter, lastMsg') =>
           [to |-> s.peer, requestId |-> s.requestId, msg |-> lastMsg'] \in pushes']_vars

(***************************************************************************)
(* A stream that fails costs only the subscriber it was opened to: in a    *)
(* handle step at most one subscriber whose filter selects the message    *)
(* goes without its push, the others being served as in FilterListener's  *)
(* comment above.                                                          *)
(***************************************************************************)
FailureIsolated ==
  [][handled' = handled + 1 =>
       Cardinality({s \in Range(subscribers) :
                      /\ Selects(s.filter, lastMsg')
                      /\ [to |-> s.peer, requestId |-> s.requestId, msg |-> lastMsg']
                           \notin pushes'}) <= 1]_vars

(***************************************************************************)
(* onRequest adds every subscriber it is sent ("Full node, add a filter    *)
(* subscriber"): once its append has completed a subscriber stays in       *)
(* wf.subscribers, as no code removes one.                                 *)
(***************************************************************************)
SubscriberNotLost ==
  \A s \in added : s \in Range(subscribers)
-----------------------------------------------------------------------------
(***************************************************************************)
(* A push reaches the filter of its own subscription: once the full node  *)
(* writes a push for request id i to light node l, and l's caller keeps a *)
(* filter under string(i) (an Unsubscribe call keeps none), that filter's *)
(* Chan eventually gets the message, however Notify's sends to other      *)
(* filters interleave with the caller's reads. The caller can keep the    *)
(* filter only after Subscribe has returned, and the request is written   *)
(* before that return, so a push may be read, and notified, first.        *)
(***************************************************************************)
PushReachesOwnFilter ==
  \A l \in LightNodes, i \in 1..MaxRequests, env \in Envelopes :
    ([to |-> l, requestId |-> Hex(i), msg |-> env] \in pushes /\ Raw(i) \in DOMAIN filters[l])
      ~> [to |-> l, key |-> Raw(i), msg |-> env] \in BagToSet(delivered)

(***************************************************************************)
(* Notify's comment: "all MessagePushs already contain the requestId of    *)
(* the corresponding filter", so a filter's Chan gets a message once. With *)
(* one message handled, no filter receives it twice.                       *)
(***************************************************************************)
NoDuplicateDelivery ==
  \A d \in BagToSet(delivered) : CopiesIn(d, delivered) <= 1

(***************************************************************************)
(* "This is the only successful path to subscription" (Subscribe): an id  *)
(* Subscribe generated and returned with a nil error is eventually a      *)
(* subscriber of the full node, once the onRequest goroutines have run.   *)
(***************************************************************************)
SubscribeTakesEffect ==
  \A l \in LightNodes, i \in 1..MaxRequests :
    Raw(i) \in returned[l] ~>
      \E s \in Range(subscribers) : s.peer = l /\ s.requestId = Hex(i)

=============================================================================
