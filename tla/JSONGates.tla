------------------------------ MODULE JSONGates ------------------------------
(***************************************************************************)
(* The four places where untrusted bytes must be one JSON object:          *)
(*   metadata   AbsorbWalletMetadata (walletmetadata.go)                   *)
(*   payload    parseResponsePayload (response.go)                         *)
(*   body       the body of ProcessDCAPIResponse (dcapi.go)                *)
(*   entry      validateTransactionData (transactiondata.go)               *)
(* Each reads one value with a json.Decoder and then tests what it got;    *)
(* only metadata and payload also look for more.  A document is a sequence *)
(* of tokens, and a step is one call of the decoder.                       *)
(***************************************************************************)
EXTENDS Naturals, SequencesExt

CONSTANT MaxTokens      \* bound on the length of the documents

Gates == {"metadata", "payload", "body", "entry"}

\* object: one with the members the gate needs; bare: one without them;
\* value: any other JSON value; close: a closing bracket; junk: no JSON.
Tokens == {"object", "bare", "null", "value", "close", "junk"}

VARIABLES
    gate, doc,      \* the call and its argument
    oversize,       \* doc has more bytes than the gate's cap, if it has one
    step,           \* decode, more, check, done
    got,            \* the value Decode has stored: object, bare or null
    verdict         \* nil or error; none before the gate returns

vars == <<gate, doc, oversize, step, got, verdict>>
inputs == <<gate, doc, oversize>>

Refuse == verdict' = "error" /\ step' = "done" /\ UNCHANGED got

\* dec.More() after the first value: another byte follows, and it closes
\* neither an array nor an object.
More == Len(doc) > 1 /\ doc[2] # "close"

\* len(raw) > maxWalletMetadataBytes, len(data) > e.cfg.MaxResponseBody: one
\* object may be as long as anything else.
tooLarge == oversize /\ gate \in {"metadata", "body"}

\* doc == nil, obj == nil, len(p.VPToken) == 0, body.Response == "": null
\* decodes without an error and leaves the zero value.
missing == got = "null" \/ (gate \in {"payload", "body"} /\ got # "object")

-----------------------------------------------------------------------------
Init ==
    /\ gate \in Gates
    /\ doc \in BoundedSeq(Tokens, MaxTokens)
    /\ oversize \in {FALSE, doc # <<>>}
    /\ step = "decode" /\ got = "null" /\ verdict = "none"

\* The size test in front of the decoder, and dec.Decode, which reads the first
\* value only: it fails at the end, on a syntax error and on another type.
Decode ==
    /\ step = "decode"
    /\ IF \/ tooLarge
          \/ doc = <<>>
          \/ doc[1] \in {"value", "close", "junk"}
       THEN Refuse
       ELSE /\ got' = doc[1]
            /\ step' = IF gate \in {"metadata", "payload"} THEN "more" ELSE "check"
            /\ UNCHANGED verdict
    /\ UNCHANGED inputs

TestMore ==
    /\ step = "more"
    /\ IF More THEN Refuse ELSE step' = "check" /\ UNCHANGED <<got, verdict>>
    /\ UNCHANGED inputs

Check ==
    /\ step = "check"
    /\ IF missing THEN Refuse
       ELSE verdict' = "nil" /\ step' = "done" /\ UNCHANGED got
    /\ UNCHANGED inputs

Next == Decode \/ TestMore \/ Check

Spec == Init /\ [][Next]_vars

-----------------------------------------------------------------------------
\* What each gate does, with the decoder's blind spots: what passes is within the
\* cap and begins with an object that has its members, and behind that, where
\* More is asked, there is nothing or a closing bracket; a document that is one
\* such object and within the cap is never refused.
GatesHold ==
    LET whole == IF gate \in {"payload", "body"} THEN {"object"} ELSE {"object", "bare"}
    IN /\ verdict = "nil" =>
            /\ ~tooLarge
            /\ doc # <<>> /\ doc[1] \in whole
            /\ gate \in {"metadata", "payload"} /\ Len(doc) > 1 => doc[2] = "close"
       /\ verdict = "error" => ~(Len(doc) = 1 /\ doc[1] \in whole /\ ~tooLarge)

-----------------------------------------------------------------------------
(* What a comment of the tests and one of the code say of two gates.       *)

\* AbsorbWalletMetadata "must accept a JSON object and reject everything else",
\* and validateTransactionData "enforces that each entry is a JSON object":
\* what passes them is one object and nothing behind it.
OneObjectOnly ==
    gate \in {"metadata", "entry"} /\ verdict = "nil" =>
        Len(doc) = 1 /\ doc[1] \in {"object", "bare"}
=============================================================================
