------------------------------ MODULE RlnRelay ------------------------------
(***************************************************************************)
(* Several nodes, each with a StaticGroupManager and the validation        *)
(* pipeline, exchanging RLN-protected messages over a relay that delays,   *)
(* duplicates and reorders them and whose forwarding peers may rewrite a   *)
(* message's payload and content topic.                                    *)
(*                                                                         *)
(* Every node starts with the same static group and learns the same       *)
(* member stream in the same order, each at its own pace, so the nodes'    *)
(* trees are prefixes of one sequence but their roots move at different    *)
(* times. A node reads its clock (seconds) when it builds a proof and when *)
(* it validates; a read is any value of Clocks, so clock skew and network  *)
(* delay are arbitrary and the properties say which gaps must be           *)
(* tolerated. The engine may fail to verify and, at SyncFailNodes, the    *)
(* root tracker's Sync after an insert may fail; failures in Start and     *)
(* restarts are left to the StaticGroupManager model.                      *)
(***************************************************************************)
EXTENDS Naturals, Sequences, SequencesExt, FiniteSets, RlnValidator

CONSTANTS
  Nodes,        \* the relay nodes (model values)
  Commitments,  \* identity commitments (model values)
  Group,        \* the static group every node is configured with
  NewMembers,   \* members every node learns after Start, in this order
  Payloads,     \* payloads an honest node publishes (byte sequences)
  Topics,       \* content topics it publishes on (byte sequences)
  Clocks,       \* values a node's clock may read, in seconds
  Spammers,     \* nodes that publish beyond the rate limit
  MaxPublished, \* bound on the messages published
  MaxInFlight,  \* bound on the messages in the network, rewritten ones included
  SyncFailNodes \* nodes whose root tracker's Sync after an insert may fail

ASSUME /\ Group \in Seq(Commitments) /\ NewMembers \in Seq(Commitments)
       /\ Clocks \subseteq Nat /\ Spammers \subseteq Nodes
       /\ MaxPublished \in Nat /\ MaxInFlight \in Nat /\ SyncFailNodes \subseteq Nodes

LOCAL Tracker == INSTANCE RootTracker WITH AcceptableRootWindowSize <- acceptableRootWindowSize

\* The pure steps of a node's group manager (its state is per node here).
GM == INSTANCE StaticGroupManager
        WITH EnginePersists <- FALSE, MaxFaults <- 0, MaxRestarts <- 0,
             confCred <- Nil, confIndex <- 0, gm <- "started", group <- Group,
             identityCredential <- Nil, membershipIndex <- Nil, tree <- <<>>,
             window <- <<>>, cursor <- 0, faults <- 0, restarts <- 0

VARIABLES
  started,    \* started[n]: Start has returned nil on node n
  trees,      \* trees[n]: node n's engine tree
  windows,    \* windows[n]: node n's root window
  cursors,    \* cursors[n]: members of NewMembers node n has inserted
  net,        \* messages in the network; a message may be received many times
  published,  \* the messages nodes published, as they published them
  verdicts,   \* records [node, msg, result] of every validation done
  logs,       \* logs[n]: the engine's nullifier log at node n
  degraded,   \* degraded[n]: InsertMember on n returned the root tracker's Sync error
  pending     \* pending[n]: n's engine has inserted a member whose Sync has not run

vars == <<started, trees, windows, cursors, net, published, verdicts, logs, degraded, pending>>

Proof == [proof : Seq(UNION {Range(p) : p \in Payloads \cup Topics}),
          merkleRoot : Seq(Commitments), epoch : Nat, nullifier : Nodes \X Nat]
Message == [payload : Seq(UNION {Range(p) : p \in Payloads \cup Topics}),
            contentTopic : Seq(UNION {Range(p) : p \in Payloads \cup Topics}),
            rateLimitProof : Proof, sender : Nodes, sentClock : Nat]

TypeOK ==
  /\ started \in [Nodes -> BOOLEAN]
  /\ trees \in [Nodes -> Seq(Commitments)]
  /\ windows \in [Nodes -> Seq(Seq(Commitments))]
  /\ \A n \in Nodes : Len(windows[n]) <= acceptableRootWindowSize
  /\ cursors \in [Nodes -> 0..Len(NewMembers)]
  /\ net \subseteq Message /\ published \subseteq net
  /\ \A v \in verdicts : v.node \in Nodes /\ v.msg \in net /\ v.clock \in Clocks
                         /\ v.result \in MessageValidationResults
  /\ \A n \in Nodes : \A x \in logs[n] : x.epoch \in Nat
  /\ degraded \in [Nodes -> BOOLEAN] /\ pending \in [Nodes -> BOOLEAN]

Init ==
  /\ started = [n \in Nodes |-> FALSE]
  /\ trees = [n \in Nodes |-> <<>>]
  /\ windows = [n \in Nodes |-> <<>>]
  /\ cursors = [n \in Nodes |-> 0]
  /\ net = {}
  /\ published = {}
  /\ verdicts = {}
  /\ logs = [n \in Nodes |-> {}]
  /\ degraded = [n \in Nodes |-> FALSE]
  /\ pending = [n \in Nodes |-> FALSE]

(***************************************************************************)
(* The membership subsystem of n is in use: Start has returned nil and no  *)
(* InsertMember has returned a Sync error, which the node treats as fatal  *)
(* to the subsystem (spec 4.1): it then neither publishes nor validates.   *)
(***************************************************************************)
Serving(n) == started[n] /\ ~degraded[n]

\* StaticGroupManager.Start on node n, every engine call succeeding.
Start(n) ==
  /\ ~started[n]
  /\ LET r == GM!StartLoop(GM!FirstSync(trees[n], windows[n]), Group, Len(Group))
     IN  /\ trees' = [trees EXCEPT ![n] = r.tree]
         /\ windows' = [windows EXCEPT ![n] = r.window]
  /\ started' = [started EXCEPT ![n] = TRUE]
  /\ UNCHANGED <<cursors, net, published, verdicts, logs, degraded, pending>>

(***************************************************************************)
(* StaticGroupManager.InsertMember on node n, first half: the engine       *)
(* inserts the next member n learns. The call has not returned: the root   *)
(* tracker's Sync is still to run. A failed insert returns its error       *)
(* having changed nothing; the member is delivered again later, so that    *)
(* outcome is a stuttering step here.                                      *)
(***************************************************************************)
InsertMember(n) ==
  /\ Serving(n) /\ ~pending[n]
  /\ cursors[n] < Len(NewMembers)
  /\ trees' = [trees EXCEPT ![n] = Append(@, NewMembers[cursors[n] + 1])]
  /\ cursors' = [cursors EXCEPT ![n] = @ + 1]
  /\ pending' = [pending EXCEPT ![n] = TRUE]
  /\ UNCHANGED <<started, windows, net, published, verdicts, logs, degraded>>

\* Mutant: InsertMember drops the error of the root tracker's Sync.
InsertMemberSyncErrIgnored(n) ==
  /\ pending[n]
  /\ \/ windows' = [windows EXCEPT ![n] = Tracker!Pushed(@, GM!Root(trees[n]))]
     \/ n \in SyncFailNodes /\ UNCHANGED windows
  /\ pending' = [pending EXCEPT ![n] = FALSE]
  /\ UNCHANGED <<started, trees, cursors, net, published, verdicts, logs, degraded>>

(***************************************************************************)
(* InsertMember on node n, second half: the root tracker's Sync pushes the *)
(* new root into the window, or fails, leaving the window without it, and  *)
(* InsertMember returns its error. No lock spans the two halves, so        *)
(* validations run between them.                                           *)
(***************************************************************************)
InsertMemberSync(n) ==
  /\ pending[n]
  /\ \/ /\ windows' = [windows EXCEPT ![n] = Tracker!Pushed(@, GM!Root(trees[n]))]
        /\ UNCHANGED degraded
     \/ /\ n \in SyncFailNodes
        /\ degraded' = [degraded EXCEPT ![n] = TRUE]
        /\ UNCHANGED windows
  /\ pending' = [pending EXCEPT ![n] = FALSE]
  /\ UNCHANGED <<started, trees, cursors, net, published, verdicts, logs>>

(***************************************************************************)
(* The message node p publishes at clock with payload pl on topic tp: the  *)
(* proof is bound to toRLNSignal of the message, to p's current root and   *)
(* epoch, and carries p's nullifier for that epoch.                        *)
(***************************************************************************)
Prove(p, clock, pl, tp) ==
  LET e == CalcEpoch(clock)
  IN  [payload |-> pl, contentTopic |-> tp,
       rateLimitProof |-> [proof |-> toRLNSignal([payload |-> pl, contentTopic |-> tp]),
                           merkleRoot |-> GM!Root(trees[p]),
                           epoch |-> e, nullifier |-> <<p, e>>],
       sender |-> p, sentClock |-> clock]

\* p publishes m into the relay.
Emit(p, m) ==
  /\ Serving(p)
  /\ Cardinality(published) < MaxPublished /\ Cardinality(net) < MaxInFlight
  /\ net' = net \cup {m}
  /\ published' = published \cup {m}
  /\ UNCHANGED <<started, trees, windows, cursors, verdicts, logs, degraded, pending>>

\* An honest node publishes at most one message per epoch.
Publish(p) ==
  \E clock \in Clocks, pl \in Payloads, tp \in Topics :
    /\ ~\E m \in published : m.sender = p /\ m.rateLimitProof.epoch = CalcEpoch(clock)
    /\ Emit(p, Prove(p, clock, pl, tp))

\* A spammer publishes whenever it likes, reusing its epoch's nullifier.
SpamPublish(p) ==
  /\ p \in Spammers
  /\ \E clock \in Clocks, pl \in Payloads, tp \in Topics : Emit(p, Prove(p, clock, pl, tp))

\* All ways to cut a byte sequence into a payload followed by a topic.
Splits(s) == {<<SubSeq(s, 1, i), SubSeq(s, i + 1, Len(s))>> : i \in 0..Len(s)}

(***************************************************************************)
(* A forwarding peer rewrites a message: the same bytes, cut at another    *)
(* place between payload and content topic; the proof is kept.            *)
(***************************************************************************)
Rewrite(m) ==
  /\ Cardinality(net) < MaxInFlight
  /\ \E s \in Splits(toRLNSignal(m)) :
       /\ s # <<m.payload, m.contentTopic>>
       /\ net' = net \cup {[m EXCEPT !.payload = s[1], !.contentTopic = s[2]]}
  /\ UNCHANGED <<started, trees, windows, cursors, published, verdicts, logs, degraded, pending>>

(***************************************************************************)
(* Node q receives message m and classifies it; the engine records the     *)
(* nullifier of an accepted message.                                       *)
(***************************************************************************)
Receive(q, m) ==
  /\ Serving(q)
  /\ m.sender # q
  /\ ~\E v \in verdicts : v.node = q /\ v.msg = m
  /\ \E clock \in Clocks, engineFails \in BOOLEAN :
       LET r == ValidateMessage(m, CalcEpoch(clock), windows[q], engineFails, logs[q])
           proof == toRateLimitProof(m)
       IN  /\ verdicts' = verdicts \cup {[node |-> q, msg |-> m, clock |-> clock, result |-> r]}
           /\ logs' = IF r = validMessage
                      THEN [logs EXCEPT ![q] = @ \cup {[epoch |-> proof.epoch,
                              nullifier |-> proof.nullifier, signal |-> toRLNSignal(m)]}]
                      ELSE logs
  /\ UNCHANGED <<started, trees, windows, cursors, net, published, degraded, pending>>

Next ==
  \/ \E n \in Nodes : Start(n) \/ InsertMember(n) \/ InsertMemberSync(n) \/ Publish(n) \/ SpamPublish(n)
  \/ \E m \in net : Rewrite(m)
  \/ \E q \in Nodes, m \in net : Receive(q, m)

Spec == Init /\ [][Next]_vars

-----------------------------------------------------------------------------
(***************************************************************************)
(* Node n's tree as of its last completed InsertMember (or Start): the     *)
(* member whose Sync has not yet run is not part of it.                    *)
(***************************************************************************)
CompletedTree(n) == IF pending[n] THEN Front(trees[n]) ELSE trees[n]

\* The roots of node n's last acceptableRootWindowSize completed trees.
LastRoots(n) ==
  LET t == CompletedTree(n)
      lo == IF Len(t) + 1 > acceptableRootWindowSize
            THEN Len(t) + 1 - acceptableRootWindowSize ELSE 0
  IN  {GM!Root(SubSeq(t, 1, k)) : k \in lo..Len(t)}

\* The validations a step performs.
NewVerdicts == verdicts' \ verdicts

(***************************************************************************)
(* No false spam rejection: an honest message is never classified invalid  *)
(* by a node whose clock at receipt is within maxClockGapSeconds of the    *)
(* sender's clock at sending, and whose last five completed trees include  *)
(* the one the sender proved against. Needs the epoch arithmetic of        *)
(* maxEpochGap, the window kept by Start and by both halves of            *)
(* InsertMember, and the pipeline's order.                                 *)
(***************************************************************************)
HonestNotRejected ==
  [][\A v \in NewVerdicts :
       /\ v.msg \in published
       /\ EpochGap(v.msg.sentClock, v.clock) <= maxClockGapSeconds
       /\ v.msg.rateLimitProof.merkleRoot \in LastRoots(v.node)
       => v.result # invalidMessage]_vars

(***************************************************************************)
(* No stale root accepted: a message is classified valid only if it was    *)
(* proved against one of the receiver's last five completed trees, also    *)
(* while an insert is waiting for its Sync: the window evicts a root       *)
(* exactly when the sixth newer one is synced.                             *)
(***************************************************************************)
StaleProofRejected ==
  [][\A v \in NewVerdicts :
       v.result = validMessage => v.msg.rateLimitProof.merkleRoot \in LastRoots(v.node)]_vars

(***************************************************************************)
(* A node accepts proofs against its own engine's current root: an honest  *)
(* message in time and proved against the receiver's current tree is not   *)
(* classified invalid. Spec 5 requires that a validation never observe a   *)
(* partly updated root state; InsertMember updates the engine tree and     *)
(* then the window, with no lock spanning the two.                         *)
(***************************************************************************)
OwnRootAccepted ==
  [][\A v \in NewVerdicts :
       /\ v.msg \in published
       /\ EpochGap(v.msg.sentClock, v.clock) <= maxClockGapSeconds
       /\ v.msg.rateLimitProof.merkleRoot = GM!Root(trees[v.node])
       => v.result # invalidMessage]_vars

=============================================================================
