---------------------------- MODULE Presentations ----------------------------
(***************************************************************************)
(* From the decrypted vp_token to the Presentations the caller verifies:   *)
(* presentationsFromVPToken (response.go), the origin loop at the end of   *)
(* ProcessDCAPIResponse (dcapi.go) and SessionTranscriptFor                *)
(* (transcript.go).  vp_token is a Go map: its keys come in any order.     *)
(*                                                                         *)
(* Credential query ids are numbers, ordered like the strings they stand   *)
(* for.  A response is parsed for one session; the nonce, client_id and    *)
(* key thumbprint are its own, so they appear here by name.                *)
(***************************************************************************)
EXTENDS Validation, FiniteSetsExt, SequencesExt

CONSTANTS
    IDs,            \* keys of a vp_token and of a query: numbers
    Values,         \* JSON values of a key: [array, entries]
    ResponseURIs,   \* response endpoints that services ask for
    Origins         \* expected origins that services ask for

ASSUME IDsAssumption == IDs \subseteq Nat
ASSUME ValuesAssumption == Values \subseteq [array : BOOLEAN, entries : Seq(STRING)]

VARIABLES
    session,        \* what the parse reads of the session
    origin,         \* the calling origin that was validated; DCAPI only
    vpToken,        \* [subset of IDs -> Values]
    phase,          \* gather, sort, walk, done
    ids,            \* the keys, as the range loop has appended them so far
    pos,            \* position of the walk in ids
    out,            \* []Presentation
    err             \* the error returned

vars == <<session, origin, vpToken, phase, ids, pos, out, err>>
inputs == <<session, origin, vpToken>>

Formats == {"mso_mdoc", "dc+sd-jwt"}

\* Sessions of either kind that validateSpec lets through, for any query.
Sessions ==
    [ flow : {"request_uri"}, formats : UNION {[S -> Formats] : S \in SUBSET IDs \ {{}}},
      responseURI : {u \in ResponseURIs : validHTTPSURL(u)}, origins : {{}} ]
    \cup
    [ flow : {"dcapi"}, formats : UNION {[S -> Formats] : S \in SUBSET IDs \ {{}}},
      responseURI : {EmptyURL},
      origins : {S \in SUBSET Origins : S # {} /\ \A o \in S : validOrigin(o)} ]

\* sort.Strings on keys that are all different: the same keys in ascending order.
Sorted(keys) ==
    {s \in [DOMAIN keys -> Range(keys)] :
        /\ Range(s) = Range(keys)
        /\ \A i, j \in DOMAIN s : i < j => s[i] < s[j]}

\* []byte(entry), and base64.RawURLEncoding.DecodeString(entry)
Verbatim(entry) == <<"verbatim", entry>>
Decoded(entry) == <<"decoded", entry>>

-----------------------------------------------------------------------------
\* formats[id]: a Go map yields "" for an absent key.
formatOf(id) == IF id \in DOMAIN session.formats THEN session.formats[id] ELSE ""

\* Variant: a credential nobody asked for is taken along.
keyErrorAdmitsUnknown(id, v) ==
    IF ~v.array \/ v.entries = <<>> \/ "" \in Range(v.entries)
        THEN "ErrMalformedResponse"
    ELSE IF formatOf(id) = "mso_mdoc" /\ "text" \in Range(v.entries)
        THEN "ErrMalformedResponse"
    ELSE "nil"

\* The error the walk returns for key id with value v; "" and "text" are
\* entries that are empty or not base64url.
keyError(id, v) ==
    IF id \notin DOMAIN session.formats THEN "ErrUnknownCredentialID"
    ELSE IF ~v.array \/ v.entries = <<>> \/ "" \in Range(v.entries)
        THEN "ErrMalformedResponse"
    ELSE IF formatOf(id) = "mso_mdoc" /\ "text" \in Range(v.entries)
        THEN "ErrMalformedResponse"
    ELSE "nil"

presentation(id, entry) ==
    LET mdoc == formatOf(id) = "mso_mdoc"
    IN [ queryCredID |-> id,
         format      |-> formatOf(id),
         payload     |-> IF mdoc THEN Decoded(entry) ELSE Verbatim(entry),
         nonce       |-> "nonce",
         clientID    |-> "client",
         responseURI |-> session.responseURI,
         thumbprint  |-> IF mdoc THEN "thumbprint" ELSE "",
         origin      |-> EmptyURL ]

\* Variant: one presentation per credential.
presentationsOfFirst(id, v) == <<presentation(id, v.entries[1])>>

\* The presentations of key id, one per entry.
presentationsOf(id, v) ==
    [i \in DOMAIN v.entries |-> presentation(id, v.entries[i])]

\* SessionTranscriptFor
SessionTranscriptFor(p) ==
    IF p.format # "mso_mdoc" \/ p.nonce = "" \/ p.thumbprint = ""
        THEN [err |-> "ErrTranscriptParams", handover |-> <<>>]
    ELSE IF p.origin # EmptyURL
        THEN [err |-> "nil", handover |-> <<"dcapi", p.origin, p.nonce, p.thumbprint>>]
    ELSE IF p.clientID = "" \/ p.responseURI = EmptyURL
        THEN [err |-> "ErrTranscriptParams", handover |-> <<>>]
    ELSE [err |-> "nil",
          handover |-> <<"oid4vp", p.clientID, p.nonce, p.thumbprint, p.responseURI>>]

-----------------------------------------------------------------------------
Init ==
    /\ session \in Sessions
    /\ origin \in IF session.flow = "dcapi" THEN session.origins ELSE {EmptyURL}
    /\ vpToken \in UNION {[S -> Values] : S \in SUBSET IDs \ {{}}}
    /\ phase = "gather"
    /\ ids = <<>> /\ pos = 1
    /\ out = <<>> /\ err = "nil"

\* for id := range vpToken: the map yields its keys in any order.
Gather ==
    /\ phase = "gather"
    /\ \E id \in DOMAIN vpToken \ Range(ids) : ids' = Append(ids, id)
    /\ phase' = IF Range(ids') = DOMAIN vpToken THEN "sort" ELSE "gather"
    /\ UNCHANGED <<inputs, pos, out, err>>

\* Variant: the keys are walked as the map yields them.
SortNot ==
    /\ phase = "sort"
    /\ phase' = "walk"
    /\ UNCHANGED <<inputs, ids, pos, out, err>>

\* sort.Strings(ids)
SortIDs ==
    /\ phase = "sort"
    /\ ids' \in Sorted(ids)
    /\ phase' = "walk"
    /\ UNCHANGED <<inputs, pos, out, err>>

\* One key of the walk: its presentations are appended, or the whole response
\* is refused.
Walk ==
    /\ phase = "walk" /\ pos <= Len(ids)
    /\ LET id == ids[pos]
           e == keyError(id, vpToken[id])
       IN IF e = "nil"
          THEN /\ out' = out \o presentationsOf(id, vpToken[id])
               /\ pos' = pos + 1
               /\ UNCHANGED <<phase, err>>
          ELSE /\ out' = <<>> /\ err' = e
               /\ phase' = "done"
               /\ UNCHANGED pos
    /\ UNCHANGED <<inputs, ids>>

\* The end of the walk.  ProcessDCAPIResponse writes the calling origin into
\* every presentation.
Deliver ==
    /\ phase = "walk" /\ pos > Len(ids)
    /\ out' = [i \in DOMAIN out |-> [out[i] EXCEPT !.origin = origin]]
    /\ phase' = "done"
    /\ UNCHANGED <<inputs, ids, pos, err>>

Next == Gather \/ SortIDs \/ Walk \/ Deliver

Spec == Init /\ [][Next]_vars

-----------------------------------------------------------------------------
\* Types of the variables; a presentation belongs to a credential query of the
\* session.
TypeOK ==
    /\ session \in Sessions
    /\ DOMAIN vpToken \subseteq IDs
    /\ phase \in {"gather", "sort", "walk", "done"}
    /\ Range(ids) \subseteq DOMAIN vpToken /\ IsInjective(ids)
    /\ pos \in 1..(Len(ids) + 1)
    /\ \A i \in DOMAIN out : out[i].queryCredID \in DOMAIN session.formats
    /\ err \in {"nil", "ErrUnknownCredentialID", "ErrMalformedResponse"}

\* The error of a refused vp_token depends on the response alone, never on the
\* order in which the map yields its keys: it is that of the least bad key.
ErrorIsDeterministic ==
    LET bad == {id \in DOMAIN vpToken : keyError(id, vpToken[id]) # "nil"}
    IN phase = "done" =>
        err = IF bad = {} THEN "nil" ELSE keyError(Min(bad), vpToken[Min(bad)])

\* Behind the first before[id] presentations are those of key id, one for each
\* of its entries and in their order, and there are no others.
Delivered(before) ==
    /\ \A id \in DOMAIN before : \A i \in DOMAIN vpToken[id].entries :
        LET at == before[id] + i
        IN /\ at \in DOMAIN out
           /\ out[at].queryCredID = id
           /\ out[at].payload[2] = vpToken[id].entries[i]
    /\ \A at \in DOMAIN out : \E id \in DOMAIN before :
        at - before[id] \in DOMAIN vpToken[id].entries

\* A response passes whole or not at all: the caller gets one presentation for
\* every entry of every key, in the order of ids and entries, and nothing of a
\* refused response.
WholeOrNothing ==
    phase = "done" =>
        IF err # "nil" THEN out = <<>>
        ELSE /\ \A i, j \in DOMAIN out :
                i < j => out[i].queryCredID <= out[j].queryCredID
             /\ \E before \in [DOMAIN vpToken -> 0..Len(out)] : Delivered(before)

\* Every mdoc presentation the engine hands out has a session transcript, and
\* it is the handover of its session's flow: bound to the calling origin for
\* DCAPI, to client_id and response_uri otherwise.  No session that
\* validateSpec admits makes SessionTranscriptFor fail or fall through to the
\* other handover.
MdocHasTranscript ==
    phase = "done" => \A i \in DOMAIN out : out[i].format = "mso_mdoc" =>
        LET t == SessionTranscriptFor(out[i])
        IN /\ t.err = "nil"
           /\ t.handover = IF session.flow = "dcapi"
                           THEN <<"dcapi", origin, "nonce", "thumbprint">>
                           ELSE <<"oid4vp", "client", "nonce", "thumbprint",
                                  session.responseURI>>
=============================================================================
