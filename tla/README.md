# TLA+ models of go-waku's RLN membership, message validation and filter protocol

This directory holds TLA+ models of the go-waku sources under `src/`, and the
TLC configurations that check them:

- `src/waku/v2/protocol/rln/group_manager/static/static.go` bundles three Go files:
  - package `static`, lines 1-104: `StaticGroupManager`;
  - package `rln`, lines 105-160: constants, `toRLNSignal` and `toRateLimitProof`;
  - package `filter`, lines 161-437: the Waku filter protocol.
- `src/unnamed/part_000` is package `node`: ENR construction and address selection.

`spec.md` describes the RLN core: membership, the root window and validation.

## The system

| Part | State | Operations | Interacts with |
|---|---|---|---|
| StaticGroupManager (static.go 12-104) | `group`, `identityCredential`, `membershipIndex`, references to the engine and the root tracker | `NewStaticGroupManager`, `Start`, `InsertMember`, `IdentityCredentials`, `MembershipIndex`, `Stop` | the RLN engine (a merkle tree of commitments) and the `MerkleRootTracker` |
| MerkleRootTracker (not in `src/`, spec 4.2) | window of the last 5 roots | `Sync` (read the engine's root, push it if new, evict the oldest), `ContainsRoot` | the engine; validation |
| rln helpers (static.go 105-160) | none | `toRLNSignal` (payload ++ topic bytes), `toRateLimitProof` | validation |
| Validation pipeline (not in `src/`, spec 4.3) | the engine's nullifier log | epoch check → root check → proof verification → spam check | root tracker, engine, relay |
| WakuFilter (static.go 161-437) | full node: `subscribers`, `MsgC`; light node: `Filters` | `Subscribe`, `Unsubscribe`, `onRequest` (one goroutine per stream), `FilterListener`/`handle`, `Filters.Notify`, `selectPeer`, `AddPeer` | libp2p streams; the relay feeding `MsgC` |
| ENR / address selection (part_000) | the `enode.LocalNode` record | `updateLocalNode`, `selectMostExternalAddress`, `select*ListenAddresses`, `getENRAddresses`, `setupENR` | libp2p addresses, discv5 |

What makes these parts hard:

- **Engine failures.** Every engine call in `Start` and `InsertMember` can fail
  after earlier calls have already changed the tree.
- **Restarts.** The engine may persist its tree across a restart.
- **Roots out of step.** Nodes learn members at their own pace, so their roots
  differ while a message is in flight. Clocks are skewed.
- **Forwarding peers.** The relay reorders and duplicates messages, and a
  forwarding peer may rewrite them.
- **The filter protocol.** A goroutine runs per incoming stream, with no
  locking. The fan-out writes to several peers, and any one of those writes may fail.

## Modules

| Module | Models | State ↔ code |
|---|---|---|
| `RlnCommon` | the rln constants, `toRLNSignal`, `toRateLimitProof` | pure operators; bytes are short sequences, and `\o` is `append` |
| `RootTracker` | `MerkleRootTracker.Sync` and the membership test (from spec 4.2) | a window is a sequence of roots, oldest first |
| `Membership` | the abstract promise of a group manager: the member log and the acceptable roots | `serving`, `members`, `roots`; actions `Up`, `Join`, `Down` |
| `StaticGroupManager` | the manager with a failing engine and restarts | see below |
| `RlnValidator` | the validation pipeline (from spec 4.3) | `ValidateMessage` returns one of the four `messageValidationResult` values |
| `RlnRelay` | several nodes composed: each runs `StaticGroupManager` steps (via `INSTANCE`) and the validator, over a relay | `trees`, `windows`, `cursors`, `degraded` per node; `net` is the relay; `verdicts` records every classification |
| `WakuFilter` | a full node and light nodes running the filter protocol | see below |
| `EnrAddresses` | ENR construction (part_000): address selection and `setupENR`/`updateLocalNode` | see below |
| `MC*` | model values and bounds for TLC | |

### StaticGroupManager

The variables mirror the struct's fields:

- `group`, `identityCredential` and `membershipIndex` are those fields.
- `tree` is the engine's merkle tree, the sequence of inserted commitments.
- `window` is the tracker's window.
- `gm` is the lifecycle state. `"panicked"` is the out-of-range `group[index]`
  at line 30. `"degraded"` means `InsertMember` inserted but the sync failed.

The actions are:

- **`NewStaticGroupManager`**: lines 23-40.
- **`Start`**: lines 42-68. It is one step with one disjunct per `return`:
  - the first `Sync` fails;
  - the insert of member k+1 fails;
  - the sync after member k fails;
  - success, which also sets `gm.group = nil`.

  Its loop is `StartLoop`, a `FoldLeft` of `InsertAndSync` over the group.
- **`InsertMember`**: lines 70-85. Its outcomes are success, a failed insert,
  and a failed sync after an insert.
- **`Restart`**: a node process that exits and comes back. The manager and
  the tracker are lost. The tree is kept only when the constant `EnginePersists`
  is TRUE.

A root is the tree itself, i.e. the hash is taken as collision free.

`StaticGroupManager` implements `Membership` under the mapping `Abstract`:
`serving` is `gm = "started"`, and `members` and `roots` are `tree` and
`window` while serving, and empty otherwise. A successful `Start` is `Up`, a
successful `InsertMember` is `Join`, and a degrading `InsertMember` or a
restart of a started node is `Down`. Every other step is a stutter.

### WakuFilter

The full node has:

- `subscribers`, which is `wf.subscribers`;
- `handlers`, the `onRequest` goroutines.

The `append` at line 295 is split into a read of the slice (`OnRequestRead`)
and a write (`OnRequestAppend`). That split gives the outcomes the unsynchronised
data race can produce when two appends overlap.

`HandleMessage` is `FilterListener` taking one message from `MsgC` and running
`handle` (lines 323-374):

- It ranges over the subscribers as read at the start of the range.
- For each matching content filter it attempts a push. There is no `break`,
  so a subscriber is attempted once per matching content filter.
- It ends at the first stream that fails to open or to be written.

`Subscribe` and `Unsubscribe` (lines 388-437) have these properties:

- They send the caller's request unchanged.
- The full node sees the id hex encoded (`Hex`). `Subscribe` returns `string(id)` (`Raw`).
- Write errors are ignored.

A NewStream failure in `Subscribe` or `Unsubscribe` changes no state, so it is
not a step. A failed write (constant `StreamsFail`) is a step that returns the
id although no handler was started.

Peers and the light node's side:

- `peers[l]` is whether light node `l` has the full node in its peerstore
  (`AddPeer`, lines 376-386). `SelectPeer` (lines 245-273) fails without it,
  and `Subscribe` then returns `""` (`NoId`, line 414).
- `filters[l]` is the map the caller keeps. `Subscribe`'s return
  (`Return`, lines 405 and 414) puts the id and the request's content filters
  in `unkept[l]`. Later, in a step of its own (`KeepFilter`), the caller
  stores them under that id, replacing an earlier filter with the same id as
  a Go map assignment does. The caller can do this only after the return, and
  the request was written before it, so pushes may be read first. This is
  the use the API invites; the caller is outside `src/`.
- `inflight` is the bag of pushes written to streams and not yet read by the
  light node's `onRequest` (`LightOnRequest`, lines 300-306). Reading one
  calls the push handler, which calls `Filters.Notify` (lines 224-243).
- `notifiers` is the bag of `Notify` calls under way, one per light-node
  `onRequest` goroutine (`NotifyCall`). Each holds the keys it has still to
  send to (`todo`): the filters whose key equals the push's `requestId`, or
  whose content filters contain the message's content topic. Go ranges over a
  map in no fixed order, so `NotifySend` takes the keys in any order.
- `filter.Chan <- msg` blocks until the caller's reader takes the message.
  `readerBusy[l]` holds the keys whose reader still handles an earlier
  message. `NotifySend` is enabled only for a key not in it, and `Consume` is
  the reader finishing. This is how an unbuffered `Chan`, or a full buffered
  one, behaves; the caller makes the channel, outside `src/`.
- `delivered` is the bag of messages put on the filters' channels.

Ghost variables record what the properties need:

- `sent`: requests that reached the full node;
- `added`: completed appends;
- `returned`: ids `Subscribe` returned;
- `pushes`;
- `lastMsg`: `m` in the loop over `MsgC`.

### Spam in RlnRelay

The constant `Spammers` names nodes that may publish more than once per epoch
(`SpamPublish`). Honest nodes publish at most one message per epoch
(`Publish`). A proof's nullifier is the pair of sender and epoch. `Receive`
records every valid message in the receiver's nullifier log (`logs`), and
`IsSpam` flags a message whose nullifier is logged with a different signal.

### InsertMember in RlnRelay: two steps

`InsertMember` is two steps. `InsertMember(n)` is the engine insert
(static.go:70-77) and sets `pending[n]`. `InsertMemberSync(n)` is the root
tracker's `Sync` (static.go:79-84) and clears it. No lock spans the two, so
`Receive` and `Publish` at that node can run in between. Such a step sees the
new member in the engine's tree but not its root in the window.
`CompletedTree(n)` is the tree as of the last `InsertMember` that returned.
The relay properties measure the window against it.

### Sync failures in RlnRelay

At the nodes in `SyncFailNodes`, the `Sync` after an insert may fail
(static.go:79-82). The tree then has the
new root while the window lacks it. The code returns the error and does
nothing else. Spec 4.1 requires the caller to treat it as fatal to the
membership subsystem. `degraded[n]` records the error, and `Serving(n)` keeps
such a node from publishing or validating.

A failed insert (static.go:73-77) changes neither the tree nor the window. The
member is delivered again later, so in this model that outcome is a
stuttering step. `Start`'s failures and restarts are checked in
`StaticGroupManager`.

### EnrAddresses

The selection functions are operators, translated line by line:
`extractIPAddressForENR`, `filterIP`, `selectMostExternalAddress`,
`decapsulateP2P`, `decapsulateCircuitRelayAddr`, the two `select*ListenAddresses`
and `getENRAddresses` (`ENRMultiaddrs`).

- A multiaddr is a sequence of `[p, v]` components. Its bytes are its
  components, so the length prefix of the multiaddrs field is a component count.
- IPs are model values with a class that decides `IsPrivate`, `IsLoopback` and
  `IsUnspecified`. All are IPv4: `To4` is the address and `To16` its
  IPv4-mapped form (`Mapped`).
- A DNS lookup is an input of the step: each name resolves to an IP, or fails.

The state is what this code writes into `enode.LocalNode`:

- `entries`: ENR key ↦ value;
- `fallbackUDP`, `fallbackIP`, `staticIP`: the endpoint settings;
- the options `udpPort`, `advertiseAddr` and `autoUpdate`, chosen in `Init`
  and fixed after;
- `newLocalnode` is `Init`.

`setupENR` is one step per libp2p address update. It either fails in
selection, or runs the whole of `updateLocalNode`. That has one disjunct per
outcome:

- the UDP range error, after the first three writes;
- the advertised address;
- a static IP;
- the auto-update entries.

## Runs

| Run | Config | Expect | What it shows |
|---|---|---|---|
| `gm_bootstrap` | `MCStaticGroupManager.cfg` | pass | With up to two engine failures and a restart that loses the tree, a running manager satisfies three properties. `IdentityAtIndex`: its commitment is at its index. `TreeFollowsDeliveryOrder`: the tree is group ++ delivered members. `MembershipRefined`: the manager implements `Membership`, so it starts serving from exactly the group, each step adds the next member and its root, and the window is exactly the roots of the last five trees. |
| `gm_persisted_restart` | `MCStaticGroupManagerPersist.cfg` | violation | With a persisted engine, a failed `Start`, a restart and a second `Start`, the group is inserted twice. The leaf at the membership index is then another member (`IdentityAtIndex`). |
| `relay_honest` | `MCRlnRelay.cfg` | pass | `InsertMember`'s insert and `Sync` are separate steps, and validations run between them. `HonestNotRejected`: a receiver never classifies an honest message invalid when its clock is within 20 s of the sender's and its last five completed trees include the sender's. `StaleProofRejected`: a message is accepted only with a root of the receiver's last five completed trees, also while an insert waits for its `Sync`. Node `n2`'s `Sync` may fail after an insert; `HonestNotRejected` still holds because a node that got that error stops validating. |
| `relay_insert_gap` | `MCRlnRelayGap.cfg` | violation | Between `InsertMember`'s engine insert and its `Sync`, a node rejects an honest message proved against its own current root, because that root is not yet in the window (`OwnRootAccepted`). |
| `enr_update` | `MCEnrAddresses.cfg` | pass | `SelectionMatchesReference`: in every `setupENR` call, for every list of up to two addresses and every DNS outcome, the three filter passes pick the first address of the most external class, as a declarative reference (`MostExternalRef`) defines it. |
| `enr_stale_multiaddrs` | `MCEnrAddressesStale.cfg` | violation | A wss address advertised by one update is still in the ENR after an update without it (`MultiaddrsCurrent`). |
| `filter_push` | `MCWakuFilter.cfg` | pass | With reliable streams, every push goes to a light node that asked for it (`PushesMatchRequests`). Every handled message reaches every subscriber whose filter selects it (`PushedToAllMatching`). The light node and `Notify` are left to `filter_delivery_live`. |
| `filter_delivery_live` | `MCWakuFilterLive.cfg` | violation | One light node, fair goroutines and a caller that keeps reading. The push for a new subscription is read before the caller has kept that subscription's filter. `Notify` runs without the filter, so the filter never gets the message (`PushReachesOwnFilter`). |
| `filter_duplicate` | `MCWakuFilterDup.cfg` | violation | A light node with two subscriptions whose content filters overlap gets one message twice on one channel (`NoDuplicateDelivery`). |
| `filter_subscribe_ack` | `MCWakuFilterAck.cfg` | violation | The request write fails, `Subscribe` still returns an id, and the full node never subscribes the light node (`SubscribeTakesEffect`). |
| `filter_lost_subscriber` | `MCWakuFilterRace.cfg` | violation | Two concurrent subscribe requests: one subscriber is lost from `wf.subscribers` (`SubscriberNotLost`). |
| `filter_push_abort` | `MCWakuFilterAbort.cfg` | violation | A failed stream to one subscriber ends `handle`, and the subscribers after it get no push (`FailureIsolated`). |

Each property of a passing run is also checked against a mutant of the code it
depends on. Examples: a tracker that evicts one root late, a manager that skips
the commitment check, a listener that ignores the empty-topic wildcard. TLC
finds each mutant violating its property; the list is in `PROJECT.json`.

### Bounds, and why they are enough

**StaticGroupManager**
- A group of 3 and 3 later members make trees of up to 6 leaves. That is 7 roots
  against a window of 5, so eviction happens, both during `Start` and after it.
- The configured index ranges over 0..3, so 3 is past the end: the panic is reachable.
- Any commitment of 6 may be configured, so the mismatch error is reachable.
- `gm_bootstrap` allows three faults and two restarts. A failure can then hit
  `Start`, `InsertMember`, and the `Start` after a restart. A node can fail,
  restart, fail again and restart again before it syncs every member.
  552 distinct states.
- Two faults and one restart are enough for the persisted-tree case.

**RlnRelay**
- Two nodes, a group of 1 and 5 later members: one node's first root can leave
  the other's window.
- Clock reads 9, 29 and 30 with `EPOCH_UNIT_SECONDS` = 10:
  - 9 and 29 are 20 s apart, in epochs 0 and 2, which is exactly `maxEpochGap`;
  - 9 and 30 are 21 s apart, three epochs apart.
- One-byte payloads and topic, so a message has three cuts.
- `relay_honest`:
  - node `n1` is a spammer, so `SpamPublish` and the spam check run;
  - two publications and two messages in flight, so a rewritten copy or
    two messages can be in flight, in either order;
  - no symmetry, as the spammer is a distinct node;
  - the honest node `n2` may fail a `Sync` after any of its five inserts;
    letting both nodes fail took over four minutes and adds no new case;
  - 2,463,111 distinct states, under 2 minutes.
- `relay_insert_gap`: no spammer, one later member, one publication: the
  smallest setting in which a node validates inside its own insert.

**WakuFilter**
- Two symmetric light nodes where two appends must race
  (`filter_lost_subscriber`, `filter_push_abort`), with three requests. The
  other runs have one light node and two requests, so two pushes contend for
  one reader and two subscriptions of one node can overlap. The caller's
  separate keep step multiplies the interleavings of a second light node.
- Requests with topic `""` or `t1`, and content filters `<<c1>>` or
  `<<c1, c2>>`; one request has `Subscribe = false`. Two subscriptions of one
  light node can therefore overlap.
- Messages on `t1`/`t2` × `c1`/`c2`, so a filter can miss a message by either
  topic or content topic.
- One handled message in `filter_push` and the liveness run: each property is
  about one message, and a second one multiplies the interleavings of the
  light node's sends without a new case. Two in the other runs.
- `filter_push`: 394,712 distinct states, about 20 s.

**EnrAddresses**
- One IP of each class (public, private, loopback, unspecified) and one domain
  name, which resolves to any of them or fails.
- Seven addresses: tcp on each IP, `/dns4` tcp, `/dns4` wss, and a
  circuit-relay address. Every list of up to two of them is a possible update,
  so each class wins in either position, and wss and circuit addresses come
  and go.
- All eight option combinations, among them a UDP port above 65535.
- Two updates, enough for a key written by one to outlive the next.
- 7,892 distinct states.

The configurations set `CHECK_DEADLOCK FALSE` because every model runs out of
bounded inputs and stops. Runs that reach their bounds are expected, not a
deadlock of the code.

### Fairness

`WakuFilter!FairSpec` assumes weak fairness of four kinds of step:

- the full node's `onRequest` goroutines (`OnRequestRead`, `OnRequestAppend`);
- the light node's `onRequest` reading a push from its stream (`LightOnRequest`);
- a send of `Notify` whose reader is ready (`NotifySend`);
- the caller's reader finishing with a message (`Consume`).

The first three are steps of goroutines that libp2p starts for an open
stream. When enabled they wait on nothing, so Go's scheduler runs them
eventually. The fourth is an assumption about the caller: `Subscribe` hands it
a channel that `Notify` sends on, and the caller must keep reading it. Without
that, a `Notify` call blocks for good, and so does its stream handler.
`FilterListener` and the callers of `Subscribe` are not fair: whether a
message arrives or a caller subscribes is up to the environment.

The caller's `KeepFilter` is not fair either. The property about it only
applies once the filter is kept. Only the violation runs `filter_delivery_live`
and `filter_subscribe_ack` use `FairSpec`.

`StaticGroupManager` and `RlnRelay` carry no fairness, and their properties are
safety properties. The manager retries nothing. Whether the relay delivers a
member again after a failed insert is outside `src/`, so no fairness on it
would be justified.

## Findings

1. **A persisted engine plus a restart inserts the group twice**
   (`gm_persisted_restart`, static.go:54). The spec treats restart as recovery,
   and its first `Sync` as covering an engine with prior state. The code,
   however, re-inserts every member.
2. **Validation inside `InsertMember`** (`relay_insert_gap`, static.go:73-79).
   The engine insert and the root tracker's `Sync` are not done under one
   lock. Spec 5 requires that a validation never observe a partly updated
   root state. A message validated between the two steps, and proved against
   the receiver's own current root, is classified invalid.
3. **Lost subscriber** (`filter_lost_subscriber`, static.go:295). The append is
   unsynchronised across stream goroutines.
4. **Push fan-out aborts** (`filter_push_abort`, static.go:354 and 360). One bad
   peer denies the message to every later subscriber.
5. **Duplicate delivery** (`filter_duplicate`, static.go:237). `Notify` matches
   a push against every filter of the light node by content topic, not only the
   filter of its request. Two overlapping subscriptions each get the message,
   and the push for the other subscription delivers it again.
6. **Ignored write error** (`filter_subscribe_ack`, static.go:404). `Subscribe`
   returns the id even when writing the request failed, so the caller believes
   it is subscribed and the full node never heard of it.
7. **Pushes before the caller keeps its filter** (`filter_delivery_live`,
   static.go:405). `Subscribe` writes the request before it returns the id,
   and the caller can store its filter only after the return. A push read in
   between is passed to `Notify` without that filter and never reaches it.
8. **Stale multiaddrs in the ENR** (`enr_stale_multiaddrs`, part_000:82).
   `updateLocalNode` sets the multiaddrs entry only when there are wss or
   circuit addresses, and never deletes it. After a libp2p update without
   them, the ENR still advertises the old ones.

## Not modelled, and why

- **The RLN engine** (zerokit): proofs, hashing and tree storage. It is
  abstracted to a sequence of leaves, a proof that binds its signal, and
  nondeterministic failure.
- **The validation pipeline and the root tracker.** They are not in `src/`, so
  they are modelled from the spec and marked `spec_modelled` in `PROJECT.json`.
- **The peerstore.** `selectPeer` is reduced to whether the one full node is in
  the light node's peerstore.
- **A caller that stops reading a filter's channel.** The model has the
  blocking send, but the liveness run assumes the caller reads (see Fairness).
  The caller is outside `src/`, so nothing tells whether it does.
- **The caller's writes to `Filters` during a `Notify`.** The model takes the
  filters as the range starts; Go would abort on the concurrent map write.
- **`enode.LocalNode` itself.** How the library derives the record's ip/udp
  from the endpoint settings, and how it signs the record, is outside `src/`.
- **The ip6 entry.** With `discV5autoUpdate`, `To16` of an IPv4 address is
  not nil, so the record gets the IPv4-mapped address as ip6. The model
  reaches this, but no run judges it: that address still names a reachable
  IPv4 endpoint, and nothing in the code or the spec says what ip6 may carry.
- **The signal's payload/topic boundary.** `toRLNSignal` concatenates the
  payload and the topic bytes with no separator, as spec 4.3 specifies.
  `RlnRelay` keeps that concatenation and a forwarding peer that re-cuts the
  bytes (`Rewrite`), but no property judges it: the behaviour is the
  specified one.
- **Logging and `Stop`**: they change no state a property reads.

## Plan for further work

In order of importance:

1. **End-to-end delivery.** With reliable streams, a handled message
   eventually reaches every matching filter's channel. This composes
   `PushedToAllMatching` with `PushReachesOwnFilter`. It can only hold once
   the lost-subscriber race and the keep race are excluded.
2. **Delivery order** on a filter's channel, should a caller come to rely on it.
