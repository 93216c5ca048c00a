---------------------------- MODULE RlnValidator ----------------------------
(***************************************************************************)
(* The message validation pipeline of rln-relay (spec section 4.3). Its    *)
(* code is in this repository but not among the sources given here, so    *)
(* the steps are modelled from the spec; the helpers it calls are those of *)
(* RlnCommon, which are taken from the source.                             *)
(*                                                                         *)
(* Cryptography is abstracted: a proof verifies against a signal iff the   *)
(* prover bound it to that signal, and the engine may fail to verify.      *)
(***************************************************************************)
EXTENDS Naturals, RlnCommon

LOCAL Tracker == INSTANCE RootTracker WITH AcceptableRootWindowSize <- acceptableRootWindowSize

\* The epoch a clock (in seconds) falls in.
CalcEpoch(clock) == clock \div EPOCH_UNIT_SECONDS

\* The integer distance between two epochs.
EpochGap(e1, e2) == IF e1 >= e2 THEN e1 - e2 ELSE e2 - e1

\* Engine verify(proof, signal) when it does not fail.
Verify(proof, signal) == proof.proof = signal

\* Mutant: any reuse of a nullifier in an epoch is spam, a duplicate included.
IsSpamAnySignal(log, proof, signal) ==
  \E x \in log : x.epoch = proof.epoch /\ x.nullifier = proof.nullifier

(***************************************************************************)
(* The engine's rate check: spam iff the receiver already accepted a       *)
(* message with the same nullifier in the same epoch and another signal.   *)
(* A log entry is a record of the epoch, the nullifier and the signal.     *)
(***************************************************************************)
IsSpam(log, proof, signal) ==
  \E x \in log : x.epoch = proof.epoch /\ x.nullifier = proof.nullifier
                 /\ x.signal # signal

\* Mutant: a proof exactly maxEpochGap epochs away is already rejected.
EpochTooFarInclusive(proofEpoch, localEpoch) ==
  EpochGap(proofEpoch, localEpoch) >= maxEpochGap

\* The epoch check: the proof's epoch is more than maxEpochGap away.
EpochTooFar(proofEpoch, localEpoch) ==
  EpochGap(proofEpoch, localEpoch) > maxEpochGap

(***************************************************************************)
(* Classify a message that carries a proof: the checks run in this order   *)
(* and the first failing one decides. engineFails says whether the         *)
(* engine's verification call returns an error.                            *)
(***************************************************************************)
ValidateMessage(msg, localEpoch, window, engineFails, log) ==
  LET proof  == toRateLimitProof(msg)
      signal == toRLNSignal(msg)
  IN  IF EpochTooFar(proof.epoch, localEpoch) THEN invalidMessage
      ELSE IF ~Tracker!IsAcceptable(window, proof.merkleRoot) THEN invalidMessage
      ELSE IF engineFails THEN validationError
      ELSE IF ~Verify(proof, signal) THEN invalidMessage
      ELSE IF IsSpam(log, proof, signal) THEN spamMessage
      ELSE validMessage

=============================================================================
