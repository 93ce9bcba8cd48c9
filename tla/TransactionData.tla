--------------------------- MODULE TransactionData ---------------------------
(***************************************************************************)
(* transactiondata.go and the places that decide about transaction data:   *)
(* validateSpec admits entries to a session, requestClaims and dcapiClaims *)
(* put them into the request, the wallet answers with one hash per entry   *)
(* it confirmed, and ValidateTransactionDataEcho compares.  The comparison *)
(* runs one iteration of its loop per step.                                *)
(*                                                                         *)
(* The phase-2 flag belongs to the engine and the entries to the session,  *)
(* which is persisted: between two calls the session can reach an engine   *)
(* that was configured with the other value of the flag.                   *)
(***************************************************************************)
EXTENDS Naturals, FiniteSets, Functions, SequencesExt

CONSTANTS
    Entries,        \* transaction data entries, as bytes
    Objects,        \* those whose bytes are accepted as a JSON object
    Algs,           \* algorithms the policy has a hash for
    OtherAlg,       \* an algorithm the policy does not allow
    MaxEntries      \* bound on the entries of a session and on the echo

ASSUME ObjectsAssumption == Objects \subseteq Entries
ASSUME AlgAssumption == OtherAlg \notin Algs
ASSUME MaxEntriesAssumption == MaxEntries \in Nat

VARIABLES
    flag,           \* Config.EnableTransactionData of the engine in use
    phase,          \* none, created, requested, matching, done
    td,             \* Session.TransactionData
    carried,        \* the transaction_data member of the request
    echoed, alg,    \* the arguments of ValidateTransactionDataEcho
    remaining,      \* the map of the matching loop
    next,           \* index of the loop's next echoed hash
    result          \* the error the last call returned

vars == <<flag, phase, td, carried, echoed, alg, remaining, next, result>>

\* base64url(H(base64url(entry))): the digest tells entries and hash
\* algorithms apart.
Hash(a, e) == <<a, e>>
Hashes == Algs \X Entries

\* TransactionDataHashes for an algorithm that policy.HashForAlg knows.
TransactionDataHashes(s, a) == [i \in DOMAIN s |-> Hash(a, s[i])]

\* Variant: an entry that was asked for twice is sent once.
transactionDataMemberDistinct(s, on) == IF on THEN SetToSeq(Range(s)) ELSE <<>>

\* transactionDataStrings and its guard in requestClaims and dcapiClaims.
transactionDataMember(s, on) == IF on THEN s ELSE <<>>

\* Variant: the flag is tested, the entries are not.
specErrorUnvalidated(s, on) ==
    IF s = <<>> \/ on THEN "nil" ELSE "ErrTransactionDataDisabled"

\* validateSpec on spec.TransactionData, with validateTransactionData.
specError(s, on) ==
    IF s = <<>> THEN "nil"
    ELSE IF ~on THEN "ErrTransactionDataDisabled"
    ELSE IF Range(s) \subseteq Objects THEN "nil"
    ELSE "ErrTransactionDataInvalid"

\* Variant: only checks that what was echoed was asked for.
echoErrorNoLength(s, on, echo, a) ==
    IF s # <<>> /\ ~on THEN "ErrTransactionDataDisabled"
    ELSE IF s = <<>> THEN IF echo # <<>> THEN "ErrTransactionDataUnexpected" ELSE "nil"
    ELSE IF echo = <<>> THEN "ErrTransactionDataMissing"
    ELSE IF a \notin Algs THEN "ErrAlgorithmNotAllowed"
    ELSE "match"

\* ValidateTransactionDataEcho up to its loops; "match" enters them.
echoError(s, on, echo, a) ==
    IF s # <<>> /\ ~on THEN "ErrTransactionDataDisabled"
    ELSE IF s = <<>> THEN IF echo # <<>> THEN "ErrTransactionDataUnexpected" ELSE "nil"
    ELSE IF echo = <<>> THEN "ErrTransactionDataMissing"
    ELSE IF a \notin Algs THEN "ErrAlgorithmNotAllowed"
    ELSE IF Len(s) # Len(echo) THEN "ErrTransactionDataMismatch"
    ELSE "match"

\* Variant: a set of the wanted hashes instead of their counts.
countWantedOnce(want) ==
    [h \in Hashes |-> IF h \in Range(want) THEN 1 ELSE 0]

\* The loop that counts the wanted hashes; an absent key reads as 0.
countWanted(want) ==
    [h \in Hashes |-> Cardinality({i \in DOMAIN want : want[i] = h})]

-----------------------------------------------------------------------------
Init ==
    /\ flag \in BOOLEAN
    /\ phase = "none"
    /\ td = <<>> /\ carried = <<>> /\ echoed = <<>>
    /\ alg = OtherAlg
    /\ remaining = countWanted(<<>>)
    /\ next = 1
    /\ result = "nil"

\* Engine.NewSession with transaction data s; a refused spec is no session.
NewSession(s) ==
    /\ phase \in {"none", "done"}
    /\ result' = specError(s, flag)
    /\ phase' = IF result' = "nil" THEN "created" ELSE "none"
    /\ td' = IF result' = "nil" THEN s ELSE <<>>
    /\ carried' = <<>> /\ echoed' = <<>>
    /\ alg' = OtherAlg
    /\ remaining' = countWanted(<<>>)
    /\ next' = 1
    /\ UNCHANGED flag

\* The next call reaches an engine with the other configuration.
Reconfigure ==
    /\ phase # "matching"
    /\ flag' = ~flag
    /\ UNCHANGED <<phase, td, carried, echoed, alg, remaining, next, result>>

\* RequestObjectJWT, DCAPIRequest or DCAPIUnsignedRequest.
Request ==
    /\ phase = "created"
    /\ phase' = "requested"
    /\ carried' = transactionDataMember(td, flag)
    /\ UNCHANGED <<flag, td, echoed, alg, remaining, next, result>>

\* ValidateTransactionDataEcho is called with hashes from the presentation.
Validate(echo, a) ==
    /\ phase = "requested"
    /\ echoed' = echo
    /\ alg' = a
    /\ LET err == echoError(td, flag, echo, a)
       IN IF err = "match"
          THEN /\ phase' = "matching"
               /\ remaining' = countWanted(TransactionDataHashes(td, a))
               /\ UNCHANGED result
          ELSE /\ phase' = "done"
               /\ result' = err
               /\ UNCHANGED remaining
    /\ UNCHANGED <<flag, td, carried, next>>

\* One iteration of the matching loop, or the return behind it.
Match ==
    /\ phase = "matching"
    /\ \/ /\ next > Len(echoed)
          /\ phase' = "done" /\ result' = "nil"
          /\ UNCHANGED <<remaining, next>>
       \/ /\ next <= Len(echoed)
          /\ remaining[echoed[next]] = 0
          /\ phase' = "done" /\ result' = "ErrTransactionDataMismatch"
          /\ UNCHANGED <<remaining, next>>
       \/ /\ next <= Len(echoed)
          /\ remaining[echoed[next]] > 0
          /\ remaining' = [remaining EXCEPT ![echoed[next]] = @ - 1]
          /\ next' = next + 1
          /\ UNCHANGED <<phase, result>>
    /\ UNCHANGED <<flag, td, carried, echoed, alg>>

Next ==
    \/ \E s \in BoundedSeq(Entries, MaxEntries) : NewSession(s)
    \/ Reconfigure
    \/ Request
    \/ \E echo \in BoundedSeq(Hashes, MaxEntries), a \in Algs \cup {OtherAlg} :
        Validate(echo, a)
    \/ Match

Spec == Init /\ [][Next]_vars

-----------------------------------------------------------------------------
\* Types of the variables; the counters of the loop never go below zero.
TypeOK ==
    /\ flag \in BOOLEAN
    /\ phase \in {"none", "created", "requested", "matching", "done"}
    /\ td \in Seq(Objects) /\ carried \in Seq(Objects)
    /\ echoed \in Seq(Hashes)
    /\ alg \in Algs \cup {OtherAlg}
    /\ remaining \in [Hashes -> Nat]
    /\ next \in 1..(Len(echoed) + 1)
    /\ result \in {"nil", "ErrTransactionDataDisabled", "ErrTransactionDataInvalid",
                   "ErrTransactionDataMissing", "ErrTransactionDataUnexpected",
                   "ErrTransactionDataMismatch", "ErrAlgorithmNotAllowed"}

\* The echo holds the hash of every entry of s, in any order, and nothing
\* else: repeated entries are confirmed as often as they were asked for.
Confirms(echo, s, a) ==
    \E m \in Bijection(DOMAIN echo, DOMAIN s) :
        \A i \in DOMAIN echo : echo[i] = Hash(a, s[m[i]])

\* ValidateTransactionDataEcho accepts only a full confirmation: each echoed
\* hash is matched with an entry of its own and no entry is left out.
AcceptedIsConfirmed ==
    phase = "done" /\ result = "nil" => Confirms(echoed, td, alg)

\* "Set semantics: the wallet may reorder": a full confirmation under an
\* allowed algorithm is refused only where the flag is off.
ConfirmedIsAccepted ==
    phase = "done" /\ alg \in Algs /\ Confirms(echoed, td, alg)
        => result \in {"nil", "ErrTransactionDataDisabled"}

\* A wallet that confirms exactly what its request carried is accepted only
\* if the request carried all the session asked for, and it is refused only
\* where an engine with the flag off took part: it compared, or it left the
\* entries out of the request.  An unasked session is never authorised and
\* an honest wallet is never told that its hashes do not match.
HonestWalletOutcome ==
    phase = "done" /\ alg \in Algs /\ Confirms(echoed, carried, alg) =>
        \/ result = "nil" /\ carried = td
        \/ result = "ErrTransactionDataDisabled"
        \/ result = "ErrTransactionDataMissing" /\ carried = <<>>
=============================================================================
