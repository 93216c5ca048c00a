----------------------------- MODULE MCRlnRelay -----------------------------
(***************************************************************************)
(* Two nodes, a group of one and five members learnt later, so a node's    *)
(* first root leaves the other's window; clock reads 20 seconds apart two  *)
(* epochs apart (the maxEpochGap boundary when EPOCH_UNIT_SECONDS is 10)   *)
(* and 21 seconds apart three epochs apart; one payload byte and one topic *)
(* byte, so a message has three payload/topic cuts.                        *)
(***************************************************************************)
EXTENDS RlnRelay, TLC

CONSTANTS n1, n2, a, b, c, d, e, f, x, t

MCNodes == {n1, n2}
MCCommitments == {a, b, c, d, e, f}
MCGroup == <<a>>
MCNewMembers == <<b, c, d, e, f>>
MCPayloads == {<<x>>}
MCTopics == {<<t>>}
\* 9 and 29 are 20 seconds apart in epochs 0 and 2; 30 is one second more.
MCClocks == {9, 29, 30}

\* No node exceeds the rate limit.
MCNoSpammers == {}

\* n1 publishes beyond the rate limit.
MCSpammers == {n1}

(***************************************************************************)
(* One member learnt later and two clock readings: the smallest setting    *)
(* in which a node validates between its own insert and Sync.              *)
(***************************************************************************)
MCFewMembers == <<b>>
MCFewClocks == {9, 29}

\* The honest node's root tracker may fail to sync after an insert.
MCSyncFailNodes == {n2}

\* The nodes play the same part: no constant names one of them.
NodeSymmetry == Permutations(MCNodes)

=============================================================================
