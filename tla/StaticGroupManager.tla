------------------------- MODULE StaticGroupManager -------------------------
(***************************************************************************)
(* StaticGroupManager (static.go lines 12-104) driving the zero-knowledge  *)
(* membership engine (rln.RLN, external) and the MerkleRootTracker, inside *)
(* a node that may crash and restart.                                      *)
(*                                                                         *)
(* The engine's merkle tree is the sequence of inserted commitments; its   *)
(* root is abstracted to the tree itself (the hash is collision free), so  *)
(* two roots are equal iff the trees are. Every engine call (InsertMember, *)
(* and the root read by Sync) may fail; failures are bounded by MaxFaults. *)
(* Calls into the manager are serialised by the node (spec section 5), so  *)
(* each exported method is one atomic step; Start, whose loop can stop at  *)
(* any member, is one step with one outcome per place it can return.       *)
(***************************************************************************)
EXTENDS Naturals, Sequences, SequencesExt, RlnCommon

CONSTANTS
  Commitments,     \* identity commitments (model values)
  Group,           \* the static group: a sequence of Commitments
  NewMembers,      \* members delivered to InsertMember after Start, in order
  EnginePersists,  \* does the engine's tree survive a restart?
  MaxFaults,       \* bound on failing engine calls
  MaxRestarts      \* bound on node restarts

ASSUME /\ Group \in Seq(Commitments) /\ Group # <<>>
       /\ NewMembers \in Seq(Commitments)
       /\ EnginePersists \in BOOLEAN
       /\ MaxFaults \in Nat /\ MaxRestarts \in Nat

Tracker == INSTANCE RootTracker WITH AcceptableRootWindowSize <- acceptableRootWindowSize

VARIABLES
  confCred,            \* the configured credential's commitment (fixed per run)
  confIndex,           \* the configured membership index (fixed per run)
  gm,                  \* lifecycle of the node's group manager, see GmStates
  group,               \* gm.group
  identityCredential,  \* gm.identityCredential (Nil when not set)
  membershipIndex,     \* gm.membershipIndex (Nil when not set)
  tree,                \* the engine's merkle tree: the inserted commitments
  window,              \* the root tracker's window of acceptable roots
  cursor,              \* how many of NewMembers the relay has delivered
  faults,              \* engine failures so far
  restarts             \* node restarts so far

vars == <<confCred, confIndex, gm, group, identityCredential, membershipIndex,
          tree, window, cursor, faults, restarts>>

(***************************************************************************)
(* "none": no manager yet; "constructed": NewStaticGroupManager returned   *)
(* it; "started": Start returned nil; "failed": construction or Start      *)
(* returned an error, and the node stops; "panicked": construction indexed *)
(* the group out of range; "degraded": InsertMember inserted but the root  *)
(* sync failed, which the caller must treat as fatal.                      *)
(***************************************************************************)
GmStates == {"none", "constructed", "started", "failed", "panicked", "degraded"}

Root(t) == t

TypeOK ==
  /\ confCred \in Commitments /\ confIndex \in 0..Len(Group)
  /\ gm \in GmStates
  /\ group \in Seq(Commitments)
  /\ identityCredential \in Commitments \cup {Nil}
  /\ membershipIndex \in Nat \cup {Nil}
  /\ tree \in Seq(Commitments)
  /\ window \in Seq(Seq(Commitments)) /\ Len(window) <= acceptableRootWindowSize
  /\ cursor \in 0..Len(NewMembers)
  /\ faults \in 0..MaxFaults /\ restarts \in 0..MaxRestarts

(***************************************************************************)
(* A node is configured with any credential and any index, including one   *)
(* past the end of the group.                                              *)
(***************************************************************************)
Init ==
  /\ confCred \in Commitments
  /\ confIndex \in 0..Len(Group)
  /\ gm = "none"
  /\ group = <<>>
  /\ identityCredential = Nil
  /\ membershipIndex = Nil
  /\ tree = <<>>
  /\ window = <<>>
  /\ cursor = 0
  /\ faults = 0
  /\ restarts = 0

\* An engine call fails: one more fault within the bound.
Fault == faults < MaxFaults /\ faults' = faults + 1

\* Mutant: accepts the configuration without comparing the commitment.
NewStaticGroupManagerNoCheck ==
  /\ gm = "none"
  /\ \/ /\ confIndex >= Len(Group)
        /\ gm' = "panicked"
        /\ UNCHANGED <<group, identityCredential, membershipIndex>>
     \/ /\ confIndex < Len(Group)
        /\ gm' = "constructed"
        /\ group' = Group
        /\ identityCredential' = confCred
        /\ membershipIndex' = confIndex
  /\ UNCHANGED <<confCred, confIndex, tree, window, cursor, faults, restarts>>

(***************************************************************************)
(* NewStaticGroupManager: group[int(index)] panics when the index is out   *)
(* of range; a commitment other than the credential's is an error.         *)
(***************************************************************************)
NewStaticGroupManager ==
  /\ gm = "none"
  /\ \/ /\ confIndex >= Len(Group)
        /\ gm' = "panicked"
        /\ UNCHANGED <<group, identityCredential, membershipIndex>>
     \/ /\ confIndex < Len(Group)
        /\ confCred # Group[confIndex + 1]
        /\ gm' = "failed"
        /\ UNCHANGED <<group, identityCredential, membershipIndex>>
     \/ /\ confIndex < Len(Group)
        /\ confCred = Group[confIndex + 1]
        /\ gm' = "constructed"
        /\ group' = Group
        /\ identityCredential' = confCred
        /\ membershipIndex' = confIndex
  /\ UNCHANGED <<confCred, confIndex, tree, window, cursor, faults, restarts>>

\* Mutant: the member is inserted but the root tracker is not synced.
InsertAndSyncNoSync(tw, member) == [tree |-> Append(tw.tree, member), window |-> tw.window]

(***************************************************************************)
(* One iteration of Start's loop: rlnInstance.InsertMember(member)         *)
(* succeeds, then rootTracker.Sync() succeeds.                             *)
(***************************************************************************)
InsertAndSync(tw, member) ==
  LET t == Append(tw.tree, member)
  IN  [tree |-> t, window |-> Tracker!Pushed(tw.window, Root(t))]

\* Start's first rootTracker.Sync(), before the loop, when it succeeds.
FirstSync(t, w) == [tree |-> t, window |-> Tracker!Pushed(w, Root(t))]

\* Mutant: the loop starts at the second member (an off-by-one start index).
StartLoopSkipFirst(tw0, members, k) == FoldLeft(InsertAndSync, tw0, SubSeq(members, 2, k))

\* The tree and window after the first k iterations of Start's loop.
StartLoop(tw0, members, k) == FoldLeft(InsertAndSync, tw0, SubSeq(members, 1, k))

(***************************************************************************)
(* Start: sync the tracker, insert every member of the group syncing after *)
(* each, then drop the group. It returns at the first failing call, with   *)
(* the members inserted so far left in the tree.                           *)
(***************************************************************************)
Start ==
  /\ gm = "constructed"
  /\ LET Run(k) == StartLoop(FirstSync(tree, window), group, k)
         n == Len(group)
     IN  \/ /\ gm' = "started"
            /\ tree' = Run(n).tree
            /\ window' = Run(n).window
            /\ group' = <<>>
            /\ UNCHANGED faults
         \/ /\ Fault
            /\ gm' = "failed"
            /\ UNCHANGED group
            /\ \/ UNCHANGED <<tree, window>>             \* first Sync fails
               \/ \E k \in 0..(n - 1) :                  \* InsertMember k+1 fails
                    tree' = Run(k).tree /\ window' = Run(k).window
               \/ \E k \in 1..n :                        \* Sync after member k fails
                    tree' = Run(k).tree /\ window' = Run(k - 1).window
  /\ UNCHANGED <<confCred, confIndex, identityCredential, membershipIndex,
                 cursor, restarts>>

\* Mutant: the root tracker is not synced after the insert.
InsertMemberNoSync ==
  /\ gm = "started"
  /\ cursor < Len(NewMembers)
  /\ LET t == Append(tree, NewMembers[cursor + 1])
     IN  \/ tree' = t /\ cursor' = cursor + 1 /\ UNCHANGED <<gm, window, faults>>
         \/ Fault /\ UNCHANGED <<gm, tree, window, cursor>>
  /\ UNCHANGED <<confCred, confIndex, group, identityCredential, membershipIndex, restarts>>

(***************************************************************************)
(* InsertMember of the next member the relay delivers. A failed insert is  *)
(* returned and the relay delivers the same member again later; a failed   *)
(* sync after a successful insert leaves the subsystem degraded.           *)
(***************************************************************************)
InsertMember ==
  /\ gm = "started"
  /\ cursor < Len(NewMembers)
  /\ LET t == Append(tree, NewMembers[cursor + 1])
     IN  \/ /\ tree' = t /\ window' = Tracker!Pushed(window, Root(t))
            /\ cursor' = cursor + 1
            /\ UNCHANGED <<gm, faults>>
         \/ Fault /\ UNCHANGED <<gm, tree, window, cursor>>
         \/ /\ Fault
            /\ tree' = t /\ cursor' = cursor + 1
            /\ gm' = "degraded"
            /\ UNCHANGED window
  /\ UNCHANGED <<confCred, confIndex, group, identityCredential, membershipIndex, restarts>>

(***************************************************************************)
(* The node process stops (a crash, or exit after a fatal error) and is    *)
(* started again with the same configuration: the manager and the root     *)
(* tracker are gone, the relay delivers the member stream from its start,  *)
(* and the tree survives only when the engine persists it.                 *)
(***************************************************************************)
Restart ==
  /\ restarts < MaxRestarts
  /\ restarts' = restarts + 1
  /\ gm' = "none"
  /\ group' = <<>>
  /\ identityCredential' = Nil
  /\ membershipIndex' = Nil
  /\ tree' = IF EnginePersists THEN tree ELSE <<>>
  /\ window' = <<>>
  /\ cursor' = 0
  /\ UNCHANGED <<confCred, confIndex, faults>>

Next ==
  \/ NewStaticGroupManager
  \/ Start
  \/ InsertMember
  \/ Restart

Spec == Init /\ [][Next]_vars

-----------------------------------------------------------------------------
(***************************************************************************)
(* Accessors IdentityCredentials and MembershipIndex: the value, or the    *)
(* error returned when it has not been set (here Nil).                     *)
(***************************************************************************)
IdentityCredentials == identityCredential
MembershipIndex == membershipIndex

Running == gm \in {"started", "degraded"}

(***************************************************************************)
(* The node's own commitment is at its membership index in the tree        *)
(* (spec section 3): once Start has returned nil, the leaf at              *)
(* MembershipIndex() is IdentityCredentials(). Needs the construction gate *)
(* and Start's insertion order to agree, across restarts.                  *)
(***************************************************************************)
IdentityAtIndex ==
  Running =>
    /\ MembershipIndex # Nil /\ IdentityCredentials # Nil
    /\ MembershipIndex < Len(tree)
    /\ tree[MembershipIndex + 1] = IdentityCredentials

(***************************************************************************)
(* Every node builds the same tree: while running, the tree is the static  *)
(* group followed by the members delivered so far, in delivery order, so   *)
(* nodes that saw the same deliveries share a root (spec 4.1).             *)
(***************************************************************************)
TreeFollowsDeliveryOrder ==
  Running => tree = Group \o SubSeq(NewMembers, 1, cursor)

(***************************************************************************)
(* The manager implements Membership: while Start has returned nil and no  *)
(* InsertMember has failed, its tree is the member log and its window the  *)
(* last five roots of that log; it starts from exactly the static group,   *)
(* and every step adds the next delivered member with its root. A peer up  *)
(* to four insertions behind has its root accepted, an older one not (spec *)
(* 8, window bound). Relies on Start's first Sync, the Sync after every    *)
(* insert, the tracker's eviction, and the tree being empty at Start.      *)
(***************************************************************************)
Abstract == INSTANCE Membership WITH
              Members <- Group \o NewMembers,
              WindowSize <- acceptableRootWindowSize,
              serving <- gm = "started",
              members <- IF gm = "started" THEN tree ELSE <<>>,
              roots <- IF gm = "started" THEN window ELSE <<>>

MembershipRefined == Abstract!MSpec

=============================================================================
