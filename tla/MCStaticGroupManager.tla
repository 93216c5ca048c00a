------------------------ MODULE MCStaticGroupManager ------------------------
(***************************************************************************)
(* Model-checking instance of StaticGroupManager: a group of three, three  *)
(* more members delivered after Start, so the tree reaches seven roots and *)
(* the five-root window evicts.                                            *)
(***************************************************************************)
EXTENDS StaticGroupManager, TLC

CONSTANTS a, b, c, d, e, f

MCCommitments == {a, b, c, d, e, f}
MCGroup == <<a, b, c>>
MCNewMembers == <<d, e, f>>

=============================================================================
