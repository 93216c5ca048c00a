----------------------------- MODULE RlnCommon -----------------------------
(***************************************************************************)
(* Constants and message helpers of package rln (the second file of        *)
(* src/waku/v2/protocol/rln/group_manager/static/static.go, lines 105-160).*)
(*                                                                         *)
(* Bytes are abstracted to short sequences over a small alphabet, so that  *)
(* concatenation is modelled by what it does (\o) and two different        *)
(* (payload, contentTopic) pairs can be compared by the bytes they give.   *)
(***************************************************************************)
EXTENDS Naturals, Sequences

CONSTANTS
  EPOCH_UNIT_SECONDS,  \* rln.EPOCH_UNIT_SECONDS of go-zerokit-rln (uint64)
  Nil                  \* a nil pointer

ASSUME EPOCH_UNIT_SECONDS \in Nat \ {0}

\* messageValidationResult: the four classifications, in iota order.
validationError == 0
validMessage    == 1
invalidMessage  == 2
spamMessage     == 3
MessageValidationResults == {validationError, validMessage, invalidMessage, spamMessage}

\* the maximum clock difference between peers in seconds
maxClockGapSeconds == 20

\* int64(maxClockGapSeconds / rln.EPOCH_UNIT_SECONDS): unsigned division,
\* rounded down.
maxEpochGap == maxClockGapSeconds \div EPOCH_UNIT_SECONDS

\* acceptable roots for merkle root validation of incoming messages
acceptableRootWindowSize == 5

(***************************************************************************)
(* toRLNSignal: the bytes a proof is bound to. A WakuMessage is Nil or a   *)
(* record with a payload and a contentTopic, both byte sequences; the      *)
(* signal is the payload followed by the content-topic bytes.              *)
(***************************************************************************)
toRLNSignal(wakuMessage) ==
  IF wakuMessage = Nil THEN <<>>
  ELSE wakuMessage.payload \o wakuMessage.contentTopic

(***************************************************************************)
(* toRateLimitProof: Nil when the message or its proof is absent, else the *)
(* fixed-size fields copied out of the protobuf. The zkSNARK bytes are     *)
(* abstracted to the signal the prover bound them to; the shares and the   *)
(* RLN identifier are left out, as no property tells them apart.           *)
(***************************************************************************)
toRateLimitProof(msg) ==
  IF msg = Nil \/ msg.rateLimitProof = Nil THEN Nil
  ELSE [proof      |-> msg.rateLimitProof.proof,
        merkleRoot |-> msg.rateLimitProof.merkleRoot,
        epoch      |-> msg.rateLimitProof.epoch,
        nullifier  |-> msg.rateLimitProof.nullifier]

=============================================================================
