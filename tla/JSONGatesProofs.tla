--------------------------- MODULE JSONGatesProofs ---------------------------
(***************************************************************************)
(* The JSON gates, for documents of any length and size.                   *)
(***************************************************************************)
EXTENDS JSONGates, SequenceTheorems, TLAPS

\* What the decoder has established when the gate is at a given step.
GateInv ==
    /\ gate \in Gates /\ doc \in Seq(Tokens)
    /\ step = "decode" => verdict = "none"
    /\ step \in {"more", "check"} =>
        /\ verdict = "none" /\ doc # <<>>
        /\ got = doc[1] /\ got \in {"object", "bare", "null"}
        /\ ~tooLarge
    /\ step = "check" /\ gate \in {"metadata", "payload"} => ~More
    /\ GatesHold

\* No gate has decided before the first call of the decoder.
LEMMA GateInvInit ==
    ASSUME Init
    PROVE  GateInv
<1>1. doc \in Seq(Tokens)
  BY DEF Init, BoundedSeq, SeqOf
<1> QED
  BY <1>1 DEF Init, GateInv, GatesHold

\* A refusal is right whenever the document is not one whole object within the
\* cap.
LEMMA RefuseStep ==
    ASSUME GateInv, UNCHANGED inputs, Refuse,
           \/ tooLarge \/ Len(doc) # 1
           \/ doc[1] \notin (IF gate \in {"payload", "body"} THEN {"object"}
                                                            ELSE {"object", "bare"})
    PROVE  GateInv'
BY DEF GateInv, GatesHold, Refuse, inputs, tooLarge

\* Decode reads the first value: it refuses what is too large or no such object.
LEMMA DecodeStep ==
    ASSUME GateInv, Decode
    PROVE  GateInv'
<1>1. CASE Refuse
  <2>1. tooLarge \/ doc = <<>> \/ doc[1] \in {"value", "close", "junk"}
    BY <1>1 DEF Decode, Refuse
  <2>2. tooLarge \/ Len(doc) # 1 \/ doc[1] \notin {"object", "bare"}
    <3>1. CASE doc = <<>>
      BY <3>1
    <3> QED
      BY <2>1, <3>1
  <2> QED
    BY <1>1, <2>2, RefuseStep DEF Decode
<1>2. CASE ~Refuse
  BY <1>2 DEF Decode, GateInv, GatesHold, Tokens, inputs, tooLarge
<1> QED
  BY <1>1, <1>2

\* Decoder.More refuses only what has a second value.
LEMMA TestMoreStep ==
    ASSUME GateInv, TestMore
    PROVE  GateInv'
<1>1. CASE More
  BY <1>1, RefuseStep DEF TestMore, More, GateInv
<1>2. CASE ~More
  BY <1>2 DEF TestMore, More, GateInv, GatesHold, inputs, tooLarge
<1> QED
  BY <1>1, <1>2

\* The test for the members refuses only objects without them.
LEMMA CheckStep ==
    ASSUME GateInv, Check
    PROVE  GateInv'
<1>1. CASE missing
  BY <1>1, RefuseStep DEF Check, missing, GateInv
<1>2. CASE ~missing
  BY <1>2 DEF Check, missing, More, GateInv, GatesHold, Gates, inputs, tooLarge
<1> QED
  BY <1>1, <1>2

\* Whatever bytes arrive: what AbsorbWalletMetadata, parseResponsePayload,
\* ProcessDCAPIResponse and validateTransactionData let through is within the cap
\* of the gate and begins with the object it needs, followed by nothing or, after
\* More, by a closing bracket; and they refuse one such object only for its size.
THEOREM GatesHoldAlways == Spec => []GatesHold
<1>1. Init => GateInv
  BY GateInvInit
<1>2. GateInv /\ [Next]_vars => GateInv'
  <2> SUFFICES ASSUME GateInv, [Next]_vars PROVE GateInv'
    OBVIOUS
  <2>1. CASE UNCHANGED vars
    BY <2>1 DEF vars, GateInv, GatesHold, More, tooLarge
  <2> QED
    BY <2>1, DecodeStep, TestMoreStep, CheckStep DEF Next
<1>3. GateInv => GatesHold
  BY DEF GateInv
<1> QED
  BY <1>1, <1>2, <1>3, PTL DEF Spec
=============================================================================
