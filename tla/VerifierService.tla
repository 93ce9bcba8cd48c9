--------------------------- MODULE VerifierService ---------------------------
(***************************************************************************)
(* The library in use: requests that arrive at a verifier service, each    *)
(* handled by its own goroutine that                                       *)
(*   1. gets its own copy of the session from the store (Load, or          *)
(*      ConsumeOnce at the two response endpoints),                        *)
(*   2. makes one Engine call on that copy, and                            *)
(*   3. if the call succeeded and changed the copy, writes it back (Save)  *)
(*      and only then answers.                                             *)
(* The service itself is not part of the repository: its handlers follow   *)
(* what the doc comments ask of the caller.  The store's methods are       *)
(* atomic, the handlers are not, and a handler may die between any two of  *)
(* its steps.  Serialized says whether the service handles the requests of *)
(* one session one at a time; the library does not ask for that.           *)
(***************************************************************************)
EXTENDS MemStore, Engine, ErrorMapping

CONSTANTS
    Serialized,     \* TRUE: at most one request of a session is in progress
    MaxTime,        \* bound on the clock
    NoInput         \* no input accepted yet

ASSUME SerializedAssumption == Serialized \in BOOLEAN
ASSUME MaxTimeAssumption == MaxTime \in Nat

VARIABLES
    issued,         \* [SessionIDs -> Session or NoSession]: as NewSession made it
    pc,             \* [Requests -> idle, held, saving, done, crashed]
    op,             \* what the request asks for
    sid,            \* the session it names
    copy,           \* the handler's copy of the session while it runs
    result,         \* the error it ends with; "none" before it is known
    input           \* the body or code that the Engine accepted

requestVars == <<pc, op, sid, copy, result, input>>
vars == <<now, sessions, issued, pc, op, sid, copy, result, input>>

ConsumeOps == {"respond", "dcapi respond"}
SavingOps == {"fetch", "metadata", "respond", "redeem"}
Ops == ConsumeOps \cup SavingOps \cup {"dcapi request", "dcapi unsigned"}

Active(r) == pc[r] \in {"held", "saving"}

-----------------------------------------------------------------------------
(* What has happened so far, told from the requests.                       *)

StoreErrors == {"ErrSessionNotFound", "ErrSessionConsumed"}

\* Request r received session id from ConsumeOnce.
Winner(r, id) ==
    /\ pc[r] # "idle" /\ op[r] \in ConsumeOps /\ sid[r] = id
    /\ result[r] \notin StoreErrors

\* Request r was answered with success.
Delivered(r, o, id) ==
    /\ pc[r] = "done" /\ op[r] = o /\ sid[r] = id /\ result[r] = "nil"

Served(id) == {r \in Requests : Delivered(r, "fetch", id)}
Claimed(id) == {r \in Requests : Winner(r, id)}
Accepted(id) == {r \in Requests : \E o \in ConsumeOps : Delivered(r, o, id)}
Redeemed(id) == {r \in Requests : Delivered(r, "redeem", id)}

-----------------------------------------------------------------------------
Init ==
    /\ StoreInit
    /\ issued = [id \in SessionIDs |-> NoSession]
    /\ pc = [r \in Requests |-> "idle"]
    /\ op = [r \in Requests |-> "none"]
    /\ sid = [r \in Requests |-> NoSession]
    /\ copy = [r \in Requests |-> NoSession]
    /\ result = [r \in Requests |-> "none"]
    /\ input = [r \in Requests |-> NoInput]

\* NewSession draws a fresh id, and the caller stores the session before it
\* shows the invocation to anyone.
CreateSession(id) ==
    /\ issued[id] = NoSession
    /\ \E flow \in Flows, origins \in SUBSET Origins, reg \in Registrations,
          t \in Readings :
        /\ Acceptable(flow, origins, reg)
        /\ t + TTL + Skew <= MaxTime
        /\ LET s == NewSession(id, flow, origins, reg, t)
           IN /\ issued' = [issued EXCEPT ![id] = s]
              /\ sessions' = Save(s)
    /\ UNCHANGED <<now, requestVars>>

\* A request arrives and its handler asks the store for the session.
Open(r, o, id) ==
    /\ pc[r] = "idle"
    /\ Serialized => \A q \in Requests : Active(q) => sid[q] # id
    /\ \E t \in Readings :
        LET got == IF o \in ConsumeOps THEN ConsumeOnce(id, t) ELSE Load(id, t)
        IN /\ sessions' = got.after
           /\ copy' = [copy EXCEPT ![r] = got.s]
           /\ pc' = [pc EXCEPT ![r] = IF got.err = "nil" THEN "held" ELSE "done"]
           /\ result' = [result EXCEPT ![r] =
                             IF got.err = "nil" THEN "none" ELSE got.err]
    /\ op' = [op EXCEPT ![r] = o]
    /\ sid' = [sid EXCEPT ![r] = id]
    /\ UNCHANGED <<now, issued, input>>

\* The handler's Engine call returned ret; in is the input it was given.
CallReturns(r, ret, in) ==
    LET ok == ret.err = "nil"
        saves == ok /\ op[r] \in SavingOps
    IN /\ pc' = [pc EXCEPT ![r] = IF saves THEN "saving" ELSE "done"]
       /\ copy' = [copy EXCEPT ![r] = IF saves THEN ret.s ELSE NoSession]
       /\ result' = [result EXCEPT ![r] = ret.err]
       /\ input' = [input EXCEPT ![r] = IF ok THEN in ELSE NoInput]
       /\ UNCHANGED <<now, sessions, issued, op, sid>>

\* Request r is about to make the Engine call that o stands for.
Calls(r, o) == pc[r] = "held" /\ op[r] = o

\* GET request_uri
Fetch(r) ==
    /\ Calls(r, "fetch")
    /\ \E sign \in {"nil", "SignJWS"}, t \in Readings :
        CallReturns(r, RequestObjectJWT(copy[r], t, sign), NoInput)

\* POST request_uri with wallet_metadata
Metadata(r) ==
    /\ Calls(r, "metadata")
    /\ \E ok \in BOOLEAN :
        CallReturns(r, AbsorbWalletMetadata(copy[r], ok), NoInput)

\* POST response_uri.  The code that request r mints is r.
Respond(r) ==
    /\ Calls(r, "respond")
    /\ \E b \in Bodies, rand \in BOOLEAN, t \in Readings :
        CallReturns(r, ProcessResponse(copy[r], b, t, rand, r), b)

\* The browser hands over a dc_api.jwt response.
DCAPIRespond(r) ==
    /\ Calls(r, "dcapi respond")
    /\ \E b \in Bodies, origin \in Origins \cup {Foreign}, t \in Readings :
        CallReturns(r, ProcessDCAPIResponse(copy[r], origin, b, t), b)

\* The browser asks for the signed, or the unsigned, Digital Credentials
\* request.
DCAPIRequested(r) ==
    /\ Calls(r, "dcapi request")
    /\ \E sign \in {"nil", "SignJWS"}, t \in Readings :
        CallReturns(r, DCAPIRequest(copy[r], t, sign), NoInput)

DCAPIUnsignedRequested(r) ==
    /\ Calls(r, "dcapi unsigned")
    /\ CallReturns(r, DCAPIUnsignedRequest(copy[r]), NoInput)

\* The browser returns with a response_code: any, also one that was minted
\* but never sent.
Redeem(r) ==
    /\ Calls(r, "redeem")
    /\ \E code \in Codes :
        CallReturns(r, ConsumeResponseCode(copy[r], code), code)

\* SessionStore.Save of the handler's copy; then the request is answered.
SaveCopy(r) ==
    /\ pc[r] = "saving"
    /\ sessions' = Save(copy[r])
    /\ pc' = [pc EXCEPT ![r] = "done"]
    /\ copy' = [copy EXCEPT ![r] = NoSession]
    /\ UNCHANGED <<now, issued, op, sid, result, input>>

\* The handler dies, or its client and context are gone, before it answers.
Crash(r) ==
    /\ Active(r)
    /\ pc' = [pc EXCEPT ![r] = "crashed"]
    /\ copy' = [copy EXCEPT ![r] = NoSession]
    /\ UNCHANGED <<now, sessions, issued, op, sid, result, input>>

Tick ==
    /\ now < MaxTime
    /\ now' = now + 1
    /\ UNCHANGED <<sessions, issued, requestVars>>

EngineCall(r) ==
    \/ Fetch(r) \/ Metadata(r) \/ Respond(r) \/ DCAPIRespond(r)
    \/ DCAPIRequested(r) \/ DCAPIUnsignedRequested(r) \/ Redeem(r)

Next ==
    \/ \E id \in SessionIDs : CreateSession(id)
    \/ \E r \in Requests, o \in Ops, id \in SessionIDs : Open(r, o, id)
    \/ \E r \in Requests : EngineCall(r) \/ SaveCopy(r) \/ Crash(r)
    \/ Tick

Spec == Init /\ [][Next]_vars

\* Time passes: the only fairness that expiry needs.
FairSpec == Spec /\ WF_vars(Tick)

-----------------------------------------------------------------------------
(* Properties of every service, whatever the interleaving.                 *)

\* Types of the variables.  A handler has a copy of its session exactly
\* while it runs.
TypeOK ==
    /\ StoreTypeOK
    /\ issued \in [SessionIDs -> Session \cup {NoSession}]
    /\ pc \in [Requests -> {"idle", "held", "saving", "done", "crashed"}]
    /\ op \in [Requests -> Ops \cup {"none"}]
    /\ sid \in [Requests -> SessionIDs \cup {NoSession}]
    /\ copy \in [Requests -> Session \cup {NoSession}]
    /\ \A r \in Requests : copy[r] # NoSession <=> Active(r)
    /\ result \in [Requests -> Errors \cup {"none", "nil"}]
    /\ input \in [Requests -> Bodies \cup Codes \cup {NoInput}]

\* The copies of session id that exist: stored, or held by a handler.
Snapshots(id) ==
    ({sessions[id]} \cup {copy[r] : r \in {q \in Requests : sid[q] = id}})
        \ {NoSession}

\* Whatever is saved over whatever, every snapshot of a session keeps the id,
\* flow, origins, registration and expiry that NewSession gave it: no call
\* sequence moves a session to another flow or renews its lease.
IdentityKept ==
    \A id \in SessionIDs : \A s \in Snapshots(id) :
        issued[id] # NoSession /\ Identity(s) = Identity(issued[id])

\* A marker in the store was put there by a request that was answered: served
\* by a delivered request object, consumed by a winner of ConsumeOnce, a code
\* by the delivered response that minted it, and used by a redemption of
\* exactly that code.  Stale copies may lose markers but cannot invent one.
MarkersTruthful ==
    \A id \in SessionIDs : sessions[id] # NoSession =>
        LET s == sessions[id]
        IN /\ s.served => Served(id) # {}
           /\ s.consumed => Claimed(id) # {}
           /\ s.code # NoCode => /\ s.flow = "same-device"
                                 /\ Delivered(s.code, "respond", id)
           /\ s.codeUsed => \E r \in Redeemed(id) : input[r] = s.code

\* Session fixation defence of ConsumeResponseCode: a redemption presents a
\* code that ProcessResponse minted for the same session and that was sent.
RedeemedOwnCode ==
    \A id \in SessionIDs : \A r \in Redeemed(id) :
        input[r] \in Requests /\ Delivered(input[r], "respond", id)

\* One wallet response is never accepted by two sessions: ProcessResponse and
\* ProcessDCAPIResponse decrypt with the session's own ephemeral key.
NoCrossSessionReplay ==
    \A id1, id2 \in SessionIDs : \A r1 \in Accepted(id1), r2 \in Accepted(id2) :
        input[r1] = input[r2] => id1 = id2

\* A handler that follows the protocol answers 500, or server_error, only for
\* faults of the verifier: no wallet input, no code a wallet puts into its own
\* error response and no interleaving leads there, and ErrSessionNotConsumed
\* is unreachable after ConsumeOnce.
ServerErrorsAreInternal ==
    \A r \in Requests : \A walletCode \in WalletCodes :
        LET answer == ErrorResponse(result[r], walletCode)
        IN /\ result[r] \notin {"none", "nil"}
           /\ answer.status = 500 \/ answer.code = "server_error"
           => result[r] \in {"SignJWS", "ErrRand", "ErrNoRegistration"}

\* Request r passes its Engine call in this step.
Passes(r) == pc[r] = "held" /\ pc'[r] # "held" /\ result'[r] = "nil"

\* Engine calls that test ExpiresAt themselves.
GatedOps == ConsumeOps \cup {"fetch", "dcapi request"}

\* The Engine's own expiry test: however long a handler sat on its copy, no
\* request object, signed DCAPI request or response passes after the lifetime
\* that NewSession gave the session, by more than the engine's clock is wrong.
NoLateSuccess ==
    [][\A r \in Requests :
        Passes(r) /\ op[r] \in GatedOps => now < issued[sid[r]].expiresAt + Skew]_vars

\* The same for all Engine calls on a session.
EngineEnforcesExpiry ==
    [][\A r \in Requests :
        Passes(r) => now < issued[sid[r]].expiresAt + Skew]_vars

\* The store's expiry test: Load and ConsumeOnce hand out no session past its
\* original lifetime, also after an expired copy was saved back and whichever
\* engine instance, with whichever clock, issued it.
NoExpiredOpen ==
    [][\A r \in Requests : pc[r] = "idle" /\ pc'[r] = "held"
        => now < issued[sid'[r]].expiresAt + Skew]_vars

\* Every session dies: once issued, there comes a time from which the store
\* never hands it out again, whatever its clock reads.
EverySessionDies ==
    \A id \in SessionIDs :
        issued[id] # NoSession ~> [](\A t \in Readings : ~Live(id, t))

-----------------------------------------------------------------------------
(* Single use.                                                             *)

\* SessionStore contract: for one id exactly one caller ever receives the
\* session from ConsumeOnce, also after subsequent Save calls.
SingleConsumption ==
    \A id \in SessionIDs : \A r1, r2 \in Claimed(id) : r1 = r2

\* RequestObjectJWT: one request object is delivered per session.
SingleServing == \A id \in SessionIDs : \A r1, r2 \in Served(id) : r1 = r2

\* ConsumeResponseCode: the result is fetched once per session.
SingleRedemption == \A id \in SessionIDs : \A r1, r2 \in Redeemed(id) : r1 = r2

\* A same-device wallet that was answered can send its user on: until the
\* code is redeemed, the stored session renders the redirect with the code
\* that was answered and accepts it.
DeliveredCodeRedeemable ==
    \A id \in SessionIDs : \A r \in Requests :
        /\ Delivered(r, "respond", id)
        /\ sessions[id] # NoSession
        /\ sessions[id].flow = "same-device"
        /\ Redeemed(id) = {}
        => /\ RedirectURI(sessions[id]) = [err |-> "nil", code |-> r]
           /\ ConsumeResponseCode(sessions[id], r).err = "nil"

OneTime == INSTANCE OneTimeSession
    WITH served   <- [id \in SessionIDs |-> Served(id)],
         claimed  <- [id \in SessionIDs |-> Claimed(id)],
         accepted <- [id \in SessionIDs |-> Accepted(id)],
         redeemed <- [id \in SessionIDs |-> Redeemed(id)]

\* A service that serialises the requests of a session implements the
\* one-time session: serving, claiming, accepting and redeeming happen at
\* most once each, in that order of dependency, and are never undone.
ImplementsOneTimeSession == OneTime!Spec
=============================================================================
