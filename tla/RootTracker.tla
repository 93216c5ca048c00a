---------------------------- MODULE RootTracker ----------------------------
(***************************************************************************)
(* group_manager.MerkleRootTracker, the window of acceptable merkle roots. *)
(* Its code is in this repository but not among the sources given here,   *)
(* so it is modelled from the spec (section 4.2): Sync() reads the         *)
(* engine's current root, pushes it when it differs from the newest entry, *)
(* and evicts the oldest entry once the capacity is exceeded.              *)
(*                                                                         *)
(* The window is a sequence of roots, oldest first. A failing Sync leaves  *)
(* the window as it was, so a failure is modelled by the caller not        *)
(* applying Pushed.                                                        *)
(***************************************************************************)
EXTENDS Naturals, Sequences, SequencesExt

CONSTANT AcceptableRootWindowSize

ASSUME AcceptableRootWindowSize \in Nat \ {0}

\* Mutant: never evicts.
PushedNoEvict(window, root) ==
  IF window # <<>> /\ Last(window) = root THEN window ELSE Append(window, root)

\* Mutant: evicts one entry too late, so the window holds one root too many.
PushedEvictLate(window, root) ==
  IF window # <<>> /\ Last(window) = root THEN window
  ELSE LET w == Append(window, root)
       IN  IF Len(w) > AcceptableRootWindowSize + 1 THEN Tail(w) ELSE w

\* The window after a successful Sync() that read root from the engine.
Pushed(window, root) ==
  IF window # <<>> /\ Last(window) = root THEN window
  ELSE LET w == Append(window, root)
       IN  IF Len(w) > AcceptableRootWindowSize THEN Tail(w) ELSE w

\* A root presented in a proof is acceptable iff it is in the window.
IsAcceptable(window, root) == \E i \in DOMAIN window : window[i] = root

=============================================================================
