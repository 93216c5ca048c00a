----------------------------- MODULE Membership -----------------------------
(***************************************************************************)
(* What a group manager promises the validator (spec sections 4.1, 4.2):   *)
(* while it serves, its members are the static group followed by the       *)
(* members delivered after it, in delivery order, and the roots it accepts *)
(* are those of its last WindowSize member logs, oldest first. It stops    *)
(* serving at once, forgetting both, and may serve again from the group.   *)
(*                                                                         *)
(* A root is named by the member log it commits to (a collision-free       *)
(* hash), so a window is a sequence of prefixes of the log.                *)
(***************************************************************************)
EXTENDS Naturals, Sequences

CONSTANTS
  Group,       \* the static group the manager is built with
  Members,     \* every member in the order the manager learns it: Group first
  WindowSize   \* how many recent roots are accepted

VARIABLES
  serving,     \* does the manager answer for the membership?
  members,     \* the member log it commits to (<<>> when not serving)
  roots        \* the roots it accepts, oldest first (<<>> when not serving)

mvars == <<serving, members, roots>>

\* The roots of the last WindowSize logs ending with ms, oldest first: the
\* log before each of its most recent insertions, and the log before any.
LastRoots(ms) ==
  LET k == IF Len(ms) + 1 < WindowSize THEN Len(ms) + 1 ELSE WindowSize
  IN  [i \in 1..k |-> SubSeq(ms, 1, Len(ms) - k + i)]

MInit == serving = FALSE /\ members = <<>> /\ roots = <<>>

\* The manager starts serving with exactly the static group.
Up ==
  /\ ~serving
  /\ serving' = TRUE /\ members' = Group /\ roots' = LastRoots(Group)

\* The next member in delivery order joins, and its root becomes acceptable.
Join ==
  /\ serving
  /\ Len(members) < Len(Members)
  /\ members' = SubSeq(Members, 1, Len(members) + 1)
  /\ roots' = LastRoots(members')
  /\ UNCHANGED serving

\* The manager stops serving.
Down ==
  /\ serving
  /\ serving' = FALSE /\ members' = <<>> /\ roots' = <<>>

MSpec == MInit /\ [][Up \/ Join \/ Down]_mvars

=============================================================================
