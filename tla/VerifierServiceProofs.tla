------------------------ MODULE VerifierServiceProofs ------------------------
(***************************************************************************)
(* Proofs about VerifierService, for every set of sessions, requests and   *)
(* origins, every TTL and every bound on the clocks' skew.                 *)
(***************************************************************************)
EXTENDS VerifierService, TLAPS

-----------------------------------------------------------------------------
(* What the Engine's calls return.                                         *)

\* A reading of a clock is not more than Skew behind the time.
LEMMA ReadingBound ==
    ASSUME now \in Nat, NEW t \in Readings
    PROVE  t \in Nat /\ now <= t + Skew
  BY SkewAssumption DEF Readings

\* A successful call leaves the identity and the consumed marker alone, and
\* the errors of a call are never those of the store.
Outcome(s, ret) ==
    /\ ret.err \in (Errors \ StoreErrors) \cup {"nil"}
    /\ ret.s \in Session
    /\ Identity(ret.s) = Identity(s)
    /\ ret.s.consumed = s.consumed

\* RequestObjectJWT only succeeds on a live session that was not served, and
\* then sets the served marker and nothing else.
LEMMA FetchOutcome ==
    ASSUME NEW s \in Session, NEW t \in Nat, NEW sign \in {"nil", "SignJWS"}
    PROVE  LET ret == RequestObjectJWT(s, t, sign)
           IN /\ Outcome(s, ret)
              /\ ret.err = "nil" => /\ t < s.expiresAt
                                    /\ ~s.served
                                    /\ ret.s = [s EXCEPT !.served = TRUE]
  BY DEF RequestObjectJWT, requestObjectError, Outcome, Return, Expired, Session,
         Identity, Errors, NotFoundErrors, InvalidRequestErrors, OurErrors,
         LibraryErrors, StoreErrors

\* AbsorbWalletMetadata touches the metadata marker only.
LEMMA MetadataOutcome ==
    ASSUME NEW s \in Session, NEW ok \in BOOLEAN
    PROVE  LET ret == AbsorbWalletMetadata(s, ok)
           IN /\ Outcome(s, ret)
              /\ ret.err = "nil" => ret.s = [s EXCEPT !.metadata = TRUE]
  BY DEF AbsorbWalletMetadata, Outcome, Return, Session,
         Identity, Errors, NotFoundErrors, InvalidRequestErrors, OurErrors,
         LibraryErrors, StoreErrors

\* The two DCAPI request builders leave the session as it is.
LEMMA DCAPIRequestOutcome ==
    ASSUME NEW s \in Session, NEW t \in Nat, NEW sign \in {"nil", "SignJWS"}
    PROVE  /\ Outcome(s, DCAPIRequest(s, t, sign))
           /\ Outcome(s, DCAPIUnsignedRequest(s))
           /\ DCAPIRequest(s, t, sign).err = "nil" => t < s.expiresAt
  BY DEF DCAPIRequest, DCAPIUnsignedRequest, Outcome, Return, Expired, Session,
         Identity, Errors, NotFoundErrors, InvalidRequestErrors, OurErrors,
         LibraryErrors, StoreErrors

\* ConsumeResponseCode only accepts the session's own unused code.
LEMMA RedeemOutcome ==
    ASSUME NEW s \in Session, NEW code \in Codes
    PROVE  LET ret == ConsumeResponseCode(s, code)
           IN /\ Outcome(s, ret)
              /\ ret.err = "nil" => /\ s.code # NoCode /\ s.code = code
                                    /\ ~s.codeUsed
                                    /\ ret.s = [s EXCEPT !.codeUsed = TRUE]
  BY DEF ConsumeResponseCode, Outcome, Return, Session,
         Identity, Errors, NotFoundErrors, InvalidRequestErrors, OurErrors,
         LibraryErrors, StoreErrors

\* What openJWE and walletErrorFrom return.
LEMMA JWEErrors ==
    ASSUME NEW b, NEW s
    PROVE  /\ openJWE(b, s) \in {"nil", "ErrDecrypt", "ErrMalformedResponse",
                                 "ErrAPVMismatch"}
           /\ walletErrorFrom(b, s) \in {"ErrStateMismatch", "WalletError"}
           /\ openJWE(b, s) = "nil" => b.key = s.id
  BY DEF openJWE, walletErrorFrom, checkAgreementInfo

\* A body that is none of the early failures is a JWE.
LEMMA JWEBody ==
    ASSUME NEW b \in Bodies
    PROVE  /\ b.kind \in {"jwe", "error", "oversize", "undecodable", "no response"}
           /\ b.kind = "jwe" =>
                b.vp \in {"nil", "ErrUnknownCredentialID", "ErrMalformedResponse"}
  BY DEF Bodies, JWEs, WalletErrors, BadBodies

\* What a successful ProcessResponse says of the session s it was given and
\* of the session after that it leaves.
RespondEffect(r, s, b, after) ==
    /\ s.consumed /\ s.flow # "dcapi"
    /\ b.key = s.id
    /\ s.flow = "same-device" =>
           after = [s EXCEPT !.code = r, !.codeUsed = FALSE]
    /\ s.flow # "same-device" => after = s

\* ProcessResponse succeeds only on a consumed, live session and on a body
\* sealed to it; the session is unchanged, or has the fresh unused code if it
\* is a same-device one.
LEMMA RespondOutcome ==
    ASSUME NEW s \in Session, NEW b \in Bodies, NEW t \in Nat,
           NEW rand \in BOOLEAN, NEW r \in Requests
    PROVE  LET ret == ProcessResponse(s, b, t, rand, r)
           IN /\ Outcome(s, ret)
              /\ ret.err = "nil" => t < s.expiresAt /\ RespondEffect(r, s, b, ret.s)
<1> DEFINE err == responseError(s, b, t)
<1>1. err \in {"nil", "ErrFlowMismatch", "ErrSessionNotConsumed",
               "ErrSessionExpired", "ErrBodyTooLarge", "ErrMalformedResponse",
               "ErrDecrypt", "ErrAPVMismatch", "ErrStateMismatch",
               "WalletError", "ErrUnknownCredentialID"}
  BY JWEErrors, JWEBody DEF responseError
<1>2. err = "nil" => /\ t < s.expiresAt /\ s.consumed /\ s.flow # "dcapi"
                     /\ b.key = s.id
  BY JWEErrors, JWEBody DEF responseError, Expired
<1>3. err \in (Errors \ StoreErrors) \cup {"nil"}
  BY <1>1 DEF Errors, NotFoundErrors, InvalidRequestErrors, OurErrors,
              LibraryErrors, StoreErrors
<1> HIDE DEF err
<1>4. ProcessResponse(s, b, t, rand, r) =
        IF err # "nil" THEN Return(err, s)
        ELSE IF s.flow # "same-device" THEN Return("nil", s)
        ELSE IF ~rand THEN Return("ErrRand", s)
        ELSE Return("nil", [s EXCEPT !.code = r, !.codeUsed = FALSE])
  BY DEF ProcessResponse, err
<1>5. "ErrRand" \in Errors \ StoreErrors
  BY DEF Errors, LibraryErrors, StoreErrors
<1>6. /\ [s EXCEPT !.code = r, !.codeUsed = FALSE] \in Session
      /\ Identity([s EXCEPT !.code = r, !.codeUsed = FALSE]) = Identity(s)
      /\ [s EXCEPT !.code = r, !.codeUsed = FALSE].consumed = s.consumed
  BY DEF Session, Codes, Identity
<1> QED
  BY <1>2, <1>3, <1>4, <1>5, <1>6 DEF Outcome, Return, RespondEffect

\* ProcessDCAPIResponse succeeds only on a consumed, live DCAPI session and
\* on a body sealed to it, and leaves the session as it is.
LEMMA DCAPIRespondOutcome ==
    ASSUME NEW s \in Session, NEW b \in Bodies, NEW t \in Nat, NEW origin
    PROVE  LET ret == ProcessDCAPIResponse(s, origin, b, t)
           IN /\ Outcome(s, ret)
              /\ ret.s = s
              /\ ret.err = "nil" => /\ t < s.expiresAt /\ s.consumed
                                    /\ s.flow = "dcapi" /\ b.key = s.id
<1> DEFINE err == dcapiResponseError(s, origin, b, t)
<1>1. err \in {"nil", "ErrFlowMismatch", "ErrSessionNotConsumed",
               "ErrSessionExpired", "ErrOriginNotExpected", "ErrBodyTooLarge",
               "ErrMalformedResponse", "ErrDecrypt", "ErrAPVMismatch",
               "ErrUnknownCredentialID"}
  BY JWEErrors, JWEBody DEF dcapiResponseError
<1>2. err = "nil" => /\ t < s.expiresAt /\ s.consumed
                     /\ s.flow = "dcapi" /\ b.key = s.id
  BY JWEErrors, JWEBody DEF dcapiResponseError, Expired
<1>3. err \in (Errors \ StoreErrors) \cup {"nil"}
  BY <1>1 DEF Errors, NotFoundErrors, InvalidRequestErrors, OurErrors,
              LibraryErrors, StoreErrors
<1> QED
  BY <1>2, <1>3 DEF ProcessDCAPIResponse, Outcome, Return

-----------------------------------------------------------------------------
(* One description of all seven Engine calls.                              *)

\* What a successful call of operation o by request r did to the copy s.
Effect(r, o, s, ret, in) ==
    /\ o \in GatedOps => now < s.expiresAt + Skew
    /\ o = "fetch" => ~s.served /\ ret.s = [s EXCEPT !.served = TRUE]
    /\ o = "metadata" => ret.s = [s EXCEPT !.metadata = TRUE]
    /\ o = "respond" => RespondEffect(r, s, in, ret.s)
    /\ o \in ConsumeOps => s.consumed /\ in \in Bodies /\ in.key = s.id
    /\ o = "redeem" =>
        /\ s.code # NoCode /\ s.code = in /\ ~s.codeUsed
        /\ ret.s = [s EXCEPT !.codeUsed = TRUE]

\* Every Engine call of a handler returns to it with an outcome, and with the
\* effect of its operation if it succeeds.
LEMMA EngineCallOutcome ==
    ASSUME TypeOK, NEW r \in Requests, EngineCall(r)
    PROVE  /\ pc[r] = "held"
           /\ \E ret, in :
                /\ CallReturns(r, ret, in)
                /\ in \in Bodies \cup Codes \cup {NoInput}
                /\ Outcome(copy[r], ret)
                /\ ret.err = "nil" => Effect(r, op[r], copy[r], ret, in)
<1>1. pc[r] = "held"
  BY DEF EngineCall, Fetch, Metadata, Respond, DCAPIRespond, DCAPIRequested,
         DCAPIUnsignedRequested, Redeem, Calls
<1>2. /\ copy[r] \in Session
      /\ \A t \in Readings : /\ t \in Nat
                             /\ t < copy[r].expiresAt => now < copy[r].expiresAt + Skew
  <2>1. copy[r] \in Session /\ now \in Nat
    BY <1>1 DEF TypeOK, Active, StoreTypeOK
  <2>2. copy[r].expiresAt \in Nat
    BY <2>1 DEF Session
  <2> QED
    BY <2>1, <2>2, ReadingBound, SkewAssumption
<1>3. CASE Fetch(r)
  <2>1. PICK sign \in {"nil", "SignJWS"}, t \in Readings :
            CallReturns(r, RequestObjectJWT(copy[r], t, sign), NoInput)
    BY <1>3 DEF Fetch
  <2> QED
    BY <1>1, <1>2, <1>3, <2>1, FetchOutcome
    DEF Fetch, Calls, Effect, GatedOps, ConsumeOps
<1>4. CASE Metadata(r)
  <2>1. PICK ok \in BOOLEAN :
            CallReturns(r, AbsorbWalletMetadata(copy[r], ok), NoInput)
    BY <1>4 DEF Metadata
  <2> QED
    BY <1>1, <1>2, <1>4, <2>1, MetadataOutcome
    DEF Metadata, Calls, Effect, GatedOps, ConsumeOps
<1>5. CASE Respond(r)
  <2>1. PICK b \in Bodies, rand \in BOOLEAN, t \in Readings :
            CallReturns(r, ProcessResponse(copy[r], b, t, rand, r), b)
    BY <1>5 DEF Respond
  <2> DEFINE s == copy[r]
             ret == ProcessResponse(s, b, t, rand, r)
  <2>2. /\ Outcome(s, ret)
        /\ ret.err = "nil" => now < s.expiresAt + Skew /\ RespondEffect(r, s, b, ret.s)
    BY <1>2, RespondOutcome
  <2>3. op[r] = "respond" /\ CallReturns(r, ret, b)
    BY <1>5, <2>1 DEF Respond, Calls
  <2> HIDE DEF ret
  <2>4. ret.err = "nil" => Effect(r, op[r], s, ret, b)
    BY <2>2, <2>3 DEF Effect, RespondEffect, GatedOps, ConsumeOps
  <2> QED
    BY <1>1, <2>2, <2>3, <2>4
<1>6. CASE DCAPIRespond(r)
  <2>1. PICK b \in Bodies, origin \in Origins \cup {Foreign}, t \in Readings :
            CallReturns(r, ProcessDCAPIResponse(copy[r], origin, b, t), b)
    BY <1>6 DEF DCAPIRespond
  <2> DEFINE s == copy[r]
             ret == ProcessDCAPIResponse(s, origin, b, t)
  <2>2. /\ Outcome(s, ret)
        /\ ret.err = "nil" => /\ now < s.expiresAt + Skew /\ s.consumed
                              /\ b.key = s.id
    BY <1>2, DCAPIRespondOutcome
  <2>3. op[r] = "dcapi respond" /\ CallReturns(r, ret, b)
    BY <1>6, <2>1 DEF DCAPIRespond, Calls
  <2> HIDE DEF ret
  <2>4. ret.err = "nil" => Effect(r, op[r], s, ret, b)
    BY <2>2, <2>3 DEF Effect, GatedOps, ConsumeOps
  <2> QED
    BY <1>1, <2>2, <2>3, <2>4
<1>7. CASE DCAPIRequested(r)
  <2>1. PICK sign \in {"nil", "SignJWS"}, t \in Readings :
            CallReturns(r, DCAPIRequest(copy[r], t, sign), NoInput)
    BY <1>7 DEF DCAPIRequested
  <2> QED
    BY <1>1, <1>2, <1>7, <2>1, DCAPIRequestOutcome
    DEF DCAPIRequested, Calls, Effect, GatedOps, ConsumeOps
<1>8. CASE DCAPIUnsignedRequested(r)
  BY <1>1, <1>2, <1>8, DCAPIRequestOutcome
  DEF DCAPIUnsignedRequested, Calls, Effect, GatedOps, ConsumeOps
<1>9. CASE Redeem(r)
  <2>1. PICK code \in Codes :
            CallReturns(r, ConsumeResponseCode(copy[r], code), code)
    BY <1>9 DEF Redeem
  <2> QED
    BY <1>1, <1>2, <1>9, <2>1, RedeemOutcome
    DEF Redeem, Calls, Effect, GatedOps, ConsumeOps
<1> QED
  BY <1>3, <1>4, <1>5, <1>6, <1>7, <1>8, <1>9 DEF EngineCall

-----------------------------------------------------------------------------
(* What the store's methods return.                                        *)

\* The store hands out s for operation o: the live snapshot itself, or, from
\* ConsumeOnce, the snapshot with the consumed marker set for the first time.
\* Either way s is what is stored afterwards.
Granted(o, id, s, after) ==
    /\ sessions[id] # NoSession
    /\ now < sessions[id].expiresAt + Skew
    /\ s \in Session
    /\ Identity(s) = Identity(sessions[id])
    /\ o \in ConsumeOps => /\ ~sessions[id].consumed
                           /\ s = [sessions[id] EXCEPT !.consumed = TRUE]
    /\ o \notin ConsumeOps => s = sessions[id]
    /\ after = [sessions EXCEPT ![id] = s]

\* The store refuses; at most the snapshot is gone afterwards.
Refused(id, err, after) ==
    /\ err \in StoreErrors
    /\ \/ after = sessions
       \/ after = [sessions EXCEPT ![id] = NoSession]

\* Opening a request grants it the session or refuses it.
LEMMA OpenOutcome ==
    ASSUME StoreTypeOK, NEW r \in Requests, NEW o \in Ops,
           NEW id \in SessionIDs, Open(r, o, id)
    PROVE  \/ /\ \E s : /\ Granted(o, id, s, sessions')
                        /\ copy' = [copy EXCEPT ![r] = s]
              /\ pc' = [pc EXCEPT ![r] = "held"]
              /\ result' = [result EXCEPT ![r] = "none"]
           \/ /\ copy' = [copy EXCEPT ![r] = NoSession]
              /\ pc' = [pc EXCEPT ![r] = "done"]
              /\ \E err : /\ Refused(id, err, sessions')
                          /\ result' = [result EXCEPT ![r] = err]
<1>0. PICK t \in Readings :
        LET got == IF o \in ConsumeOps THEN ConsumeOnce(id, t) ELSE Load(id, t)
        IN /\ sessions' = got.after
           /\ copy' = [copy EXCEPT ![r] = got.s]
           /\ pc' = [pc EXCEPT ![r] = IF got.err = "nil" THEN "held" ELSE "done"]
           /\ result' = [result EXCEPT ![r] =
                             IF got.err = "nil" THEN "none" ELSE got.err]
  BY DEF Open
<1> DEFINE got == IF o \in ConsumeOps THEN ConsumeOnce(id, t) ELSE Load(id, t)
<1>1. Live(id, t) => /\ sessions[id] \in Session /\ sessions[id] # NoSession
                     /\ now < sessions[id].expiresAt + Skew
  <2>1. Live(id, t) => sessions[id] \in Session /\ t < sessions[id].expiresAt
    BY NoSessionAssumption DEF StoreTypeOK, Live
  <2>2. sessions[id] \in Session => sessions[id].expiresAt \in Nat
    BY DEF Session
  <2>3. t \in Nat /\ now \in Nat /\ now <= t + Skew
    BY ReadingBound DEF StoreTypeOK
  <2> QED
    BY <2>1, <2>2, <2>3, NoSessionAssumption, SkewAssumption
<1>2. \/ got.err = "nil" /\ Granted(o, id, got.s, got.after)
      \/ got.err # "nil" /\ got.s = NoSession /\ Refused(id, got.err, got.after)
  <2>1. CASE ~Live(id, t)
    BY <2>1 DEF ConsumeOnce, Load, Refused, StoreErrors
  <2>2. CASE Live(id, t) /\ o \notin ConsumeOps
    BY <2>2, <1>1 DEF Load, Granted, StoreTypeOK
  <2>3. CASE Live(id, t) /\ o \in ConsumeOps /\ sessions[id].consumed
    BY <2>3, <1>1 DEF ConsumeOnce, Refused, StoreErrors
  <2>4. CASE Live(id, t) /\ o \in ConsumeOps /\ ~sessions[id].consumed
    <3> DEFINE s == [sessions[id] EXCEPT !.consumed = TRUE]
    <3>1. s \in Session /\ Identity(s) = Identity(sessions[id])
      BY <1>1, <2>4 DEF Session, Identity
    <3>2. got = [err |-> "nil", s |-> s, after |-> [sessions EXCEPT ![id] = s]]
      BY <2>4 DEF ConsumeOnce
    <3>3. s = [sessions[id] EXCEPT !.consumed = TRUE]
      OBVIOUS
    <3> HIDE DEF s, got
    <3>4. got.err = "nil" /\ got.s = s /\ got.after = [sessions EXCEPT ![id] = s]
      BY <3>2
    <3>5. Granted(o, id, s, [sessions EXCEPT ![id] = s])
      BY <1>1, <2>4, <3>1, <3>3 DEF Granted
    <3> QED
      BY <3>4, <3>5
  <2> QED
    BY <2>1, <2>2, <2>3, <2>4
<1>3. /\ sessions' = got.after
      /\ copy' = [copy EXCEPT ![r] = got.s]
      /\ pc' = [pc EXCEPT ![r] = IF got.err = "nil" THEN "held" ELSE "done"]
      /\ result' = [result EXCEPT ![r] = IF got.err = "nil" THEN "none" ELSE got.err]
  BY <1>0
<1> HIDE DEF got
<1>4. CASE got.err = "nil" /\ Granted(o, id, got.s, got.after)
  BY <1>3, <1>4
<1>5. CASE got.err # "nil" /\ got.s = NoSession /\ Refused(id, got.err, got.after)
  BY <1>3, <1>5
<1> QED
  BY <1>2, <1>4, <1>5

-----------------------------------------------------------------------------
(* Types and identity.                                                     *)

\* IdentityKept in the form the induction uses, with the session ids.
IdentityInv ==
    /\ \A id \in SessionIDs : issued[id] # NoSession => issued[id].id = id
    /\ \A id \in SessionIDs : sessions[id] # NoSession =>
        issued[id] # NoSession /\ Identity(sessions[id]) = Identity(issued[id])
    /\ \A r \in Requests : Active(r) =>
        /\ sid[r] \in SessionIDs
        /\ issued[sid[r]] # NoSession
        /\ Identity(copy[r]) = Identity(issued[sid[r]])

\* How a request's phase, operation and result hang together.
PhaseInv ==
    \A r \in Requests :
        /\ pc[r] \in {"idle", "held"} => result[r] = "none"
        /\ pc[r] = "saving" => result[r] = "nil" /\ op[r] \in SavingOps
        /\ pc[r] # "idle" => op[r] \in Ops
        /\ Active(r) /\ op[r] \in ConsumeOps => copy[r].consumed

\* The inductive invariant behind types, identity and expiry.
BaseInv == TypeOK /\ IdentityInv /\ PhaseInv

\* NewSession makes a Session with the id that was drawn for it.
LEMMA NewSessionIsSession ==
    ASSUME NEW id \in SessionIDs, NEW flow \in Flows, NEW origins \in SUBSET Origins,
           NEW reg \in Registrations, NEW t \in Nat
    PROVE  /\ NewSession(id, flow, origins, reg, t) \in Session
           /\ NewSession(id, flow, origins, reg, t).id = id
  BY TTLAssumption, RegistrationAssumption DEF NewSession, Session, Codes

\* The nil session is not a session.
LEMMA SessionNotNil == NoSession \notin Session
  BY NoSessionAssumption

\* An empty store and idle requests satisfy BaseInv.
LEMMA BaseInit == Init => BaseInv
  BY DEF Init, BaseInv, TypeOK, IdentityInv, PhaseInv, StoreInit, StoreTypeOK, Active

\* Every step of the service preserves types, identities and phases.
LEMMA BaseStep == BaseInv /\ [Next]_vars => BaseInv'
<1> SUFFICES ASSUME BaseInv, [Next]_vars PROVE BaseInv'
  OBVIOUS
<1> USE SessionNotNil DEF BaseInv
<1>1. ASSUME NEW id \in SessionIDs, CreateSession(id) PROVE BaseInv'
  <2>1. PICK flow \in Flows, origins \in SUBSET Origins, reg \in Registrations,
             t \in Readings :
            LET s == NewSession(id, flow, origins, reg, t)
            IN /\ issued' = [issued EXCEPT ![id] = s]
               /\ sessions' = Save(s)
    BY <1>1 DEF CreateSession
  <2> DEFINE s == NewSession(id, flow, origins, reg, t)
  <2>2. s \in Session /\ s.id = id
    BY NewSessionIsSession, ReadingBound DEF TypeOK, StoreTypeOK
  <2>3. /\ issued' = [issued EXCEPT ![id] = s]
        /\ sessions' = [sessions EXCEPT ![id] = s]
    BY <2>1, <2>2 DEF Save
  <2> HIDE DEF s
  <2>4. TypeOK'
    BY <1>1, <2>2, <2>3 DEF CreateSession, requestVars, TypeOK, StoreTypeOK, Active
  <2>5. IdentityInv'
    BY <1>1, <2>2, <2>3
    DEF CreateSession, requestVars, TypeOK, StoreTypeOK, IdentityInv, Active
  <2>6. PhaseInv'
    BY <1>1 DEF CreateSession, requestVars, PhaseInv, Active
  <2> QED
    BY <2>4, <2>5, <2>6
<1>2. ASSUME NEW r \in Requests, NEW o \in Ops, NEW id \in SessionIDs, Open(r, o, id)
      PROVE  BaseInv'
  <2>1. /\ UNCHANGED <<now, issued, input>>
        /\ op' = [op EXCEPT ![r] = o]
        /\ sid' = [sid EXCEPT ![r] = id]
        /\ pc[r] = "idle"
    BY <1>2 DEF Open
  <2>2. CASE /\ \E s : /\ Granted(o, id, s, sessions')
                       /\ copy' = [copy EXCEPT ![r] = s]
             /\ pc' = [pc EXCEPT ![r] = "held"]
             /\ result' = [result EXCEPT ![r] = "none"]
    <3>1. PICK s : /\ Granted(o, id, s, sessions')
                   /\ copy' = [copy EXCEPT ![r] = s]
      BY <2>2
    <3>2. /\ s \in Session
          /\ o \in ConsumeOps => s.consumed
          /\ sessions[id] # NoSession
          /\ Identity(s) = Identity(sessions[id])
          /\ sessions' = [sessions EXCEPT ![id] = s]
      <4>1. Granted(o, id, s, sessions') /\ sessions[id] \in Session
        BY <3>1 DEF Granted, TypeOK, StoreTypeOK
      <4> QED
        BY <4>1 DEF Granted, Session
    <3>3. TypeOK'
      BY <2>1, <2>2, <3>1, <3>2 DEF TypeOK, StoreTypeOK, Active
    <3>4. IdentityInv'
      BY <2>1, <2>2, <3>1, <3>2 DEF TypeOK, StoreTypeOK, IdentityInv, Active
    <3>5. PhaseInv'
      BY <2>1, <2>2, <3>1, <3>2 DEF TypeOK, PhaseInv, Active
    <3> QED
      BY <3>3, <3>4, <3>5
  <2>3. CASE /\ copy' = [copy EXCEPT ![r] = NoSession]
             /\ pc' = [pc EXCEPT ![r] = "done"]
             /\ \E err : /\ Refused(id, err, sessions')
                         /\ result' = [result EXCEPT ![r] = err]
    <3>1. PICK err : /\ Refused(id, err, sessions')
                     /\ result' = [result EXCEPT ![r] = err]
      BY <2>3
    <3>2. err \in Errors
      BY <3>1 DEF Refused, StoreErrors, Errors, NotFoundErrors, InvalidRequestErrors
    <3>3. sessions' = sessions \/ sessions' = [sessions EXCEPT ![id] = NoSession]
      BY <3>1 DEF Refused
    <3>4. TypeOK'
      BY <2>1, <2>3, <3>1, <3>2, <3>3 DEF TypeOK, StoreTypeOK, Active
    <3>5. IdentityInv'
      BY <2>1, <2>3, <3>1, <3>3 DEF TypeOK, StoreTypeOK, IdentityInv, Active
    <3>6. PhaseInv'
      BY <2>1, <2>3, <3>1 DEF TypeOK, PhaseInv, Active
    <3> QED
      BY <3>4, <3>5, <3>6
  <2> QED
    BY <1>2, <2>2, <2>3, OpenOutcome DEF TypeOK
<1>3. ASSUME NEW r \in Requests, EngineCall(r) PROVE BaseInv'
  <2>1. PICK ret, in :
            /\ CallReturns(r, ret, in)
            /\ in \in Bodies \cup Codes \cup {NoInput}
            /\ Outcome(copy[r], ret)
    BY <1>3, EngineCallOutcome
  <2>2. pc[r] = "held"
    BY <1>3, EngineCallOutcome
  <2>3. TypeOK'
    BY <2>1, <2>2 DEF CallReturns, Outcome, TypeOK, StoreTypeOK, Active
  <2>4. IdentityInv'
    BY <2>1, <2>2 DEF CallReturns, Outcome, TypeOK, StoreTypeOK, IdentityInv, Active
  <2>5. PhaseInv'
    BY <2>1, <2>2 DEF CallReturns, Outcome, TypeOK, PhaseInv, Active
  <2> QED
    BY <2>3, <2>4, <2>5
<1>4. ASSUME NEW r \in Requests, SaveCopy(r) PROVE BaseInv'
  <2>1. /\ copy[r] \in Session
        /\ copy[r].id = sid[r]
        /\ sid[r] \in SessionIDs
    BY <1>4 DEF SaveCopy, TypeOK, IdentityInv, Active, Identity
  <2>2. sessions' = [sessions EXCEPT ![sid[r]] = copy[r]]
    BY <1>4, <2>1 DEF SaveCopy, Save
  <2>3. TypeOK'
    BY <1>4, <2>1, <2>2 DEF SaveCopy, TypeOK, StoreTypeOK, Active
  <2>4. IdentityInv'
    BY <1>4, <2>1, <2>2 DEF SaveCopy, TypeOK, StoreTypeOK, IdentityInv, Active
  <2>5. PhaseInv'
    BY <1>4 DEF SaveCopy, TypeOK, PhaseInv, Active
  <2> QED
    BY <2>3, <2>4, <2>5
<1>5. ASSUME NEW r \in Requests, Crash(r) PROVE BaseInv'
  BY <1>5 DEF Crash, TypeOK, StoreTypeOK, IdentityInv, PhaseInv, Active
<1>6. CASE Tick
  BY <1>6 DEF Tick, requestVars, TypeOK, StoreTypeOK, IdentityInv, PhaseInv, Active
<1>7. CASE UNCHANGED vars
  BY <1>7 DEF vars, TypeOK, StoreTypeOK, IdentityInv, PhaseInv, Active
<1> QED
  BY <1>1, <1>2, <1>3, <1>4, <1>5, <1>6, <1>7 DEF Next

\* BaseInv holds in every reachable state.
THEOREM BaseInvariant == Spec => []BaseInv
  BY BaseInit, BaseStep, PTL DEF Spec

\* Types: the store, the copies and the results of all calls stay in the
\* sets that Go's types and the sentinel errors stand for.
THEOREM TypeCorrect == Spec => []TypeOK
<1>1. BaseInv => TypeOK
  BY DEF BaseInv
<1> QED
  BY BaseInvariant, <1>1, PTL

\* No sequence of store and Engine calls changes a session's id, flow,
\* origins, registration or expiry, in the store or in any handler's copy.
THEOREM IdentityCorrect == Spec => []IdentityKept
<1>1. BaseInv => IdentityKept
  BY DEF BaseInv, TypeOK, IdentityInv, IdentityKept, Snapshots
<1> QED
  BY BaseInvariant, <1>1, PTL

\* The Engine's own expiry test holds against the lifetime NewSession gave, up
\* to the skew of the clocks, however long the handler waited: the copy's
\* expiry is the issued one.
THEOREM LateSuccessExcluded == Spec => NoLateSuccess
<1> DEFINE Timely == \A r \in Requests :
        Passes(r) /\ op[r] \in GatedOps => now < issued[sid[r]].expiresAt + Skew
<1>1. BaseInv /\ [Next]_vars => [Timely]_vars
  <2> SUFFICES ASSUME BaseInv, Next, NEW q \in Requests, Passes(q), op[q] \in GatedOps
               PROVE  now < issued[sid[q]].expiresAt + Skew
    BY DEF vars
  <2> USE DEF BaseInv
  <2>1. pc[q] = "held" /\ pc'[q] # "held" /\ result'[q] = "nil" /\ result[q] = "none"
    BY DEF Passes, PhaseInv
  <2>2. ASSUME NEW id \in SessionIDs, CreateSession(id) PROVE FALSE
    BY <2>1, <2>2 DEF CreateSession, requestVars
  <2>3. ASSUME NEW r \in Requests, NEW o \in Ops, NEW id \in SessionIDs, Open(r, o, id)
        PROVE  FALSE
    BY <2>1, <2>3 DEF Open, TypeOK
  <2>4. ASSUME NEW r \in Requests, EngineCall(r)
        PROVE  now < issued[sid[q]].expiresAt + Skew
    <3>1. PICK ret, in :
              /\ CallReturns(r, ret, in)
              /\ ret.err = "nil" => Effect(r, op[r], copy[r], ret, in)
      BY <2>4, EngineCallOutcome
    <3>2. q = r /\ ret.err = "nil"
      BY <2>1, <3>1 DEF CallReturns, TypeOK
    <3>3. now < copy[q].expiresAt + Skew
      BY <3>1, <3>2 DEF Effect
    <3>4. copy[q].expiresAt = issued[sid[q]].expiresAt
      BY <2>1 DEF IdentityInv, Identity, Active
    <3> QED
      BY <3>3, <3>4
  <2>5. ASSUME NEW r \in Requests, SaveCopy(r) \/ Crash(r) PROVE FALSE
    BY <2>1, <2>5 DEF SaveCopy, Crash, TypeOK
  <2>6. CASE Tick
    BY <2>1, <2>6 DEF Tick, requestVars
  <2> QED
    BY <2>2, <2>3, <2>4, <2>5, <2>6 DEF Next
<1>2. Spec => [][Timely]_vars
  BY BaseInvariant, <1>1, PTL DEF Spec
<1> QED
  BY <1>2 DEF NoLateSuccess

\* The store hands out no session past the lifetime NewSession gave it, up to
\* the skew of the clocks.
THEOREM ExpiredOpenExcluded == Spec => NoExpiredOpen
<1> DEFINE Timely == \A r \in Requests : pc[r] = "idle" /\ pc'[r] = "held"
        => now < issued[sid'[r]].expiresAt + Skew
<1>1. BaseInv /\ [Next]_vars => [Timely]_vars
  <2> SUFFICES ASSUME BaseInv, Next, NEW q \in Requests, pc[q] = "idle", pc'[q] = "held"
               PROVE  now < issued[sid'[q]].expiresAt + Skew
    BY DEF vars
  <2> USE DEF BaseInv
  <2>1. ASSUME NEW r \in Requests, NEW o \in Ops, NEW id \in SessionIDs, Open(r, o, id)
        PROVE  now < issued[sid'[q]].expiresAt + Skew
    <3>1. q = r /\ sid'[q] = id
      BY <2>1 DEF Open, TypeOK
    <3>2. sessions[id] # NoSession /\ now < sessions[id].expiresAt + Skew
      BY <2>1, <3>1, OpenOutcome DEF Granted, TypeOK
    <3> QED
      BY <3>1, <3>2 DEF IdentityInv, Identity
  <2>2. ASSUME NEW r \in Requests, EngineCall(r) PROVE FALSE
    <3>1. PICK ret, in : CallReturns(r, ret, in)
      BY <2>2, EngineCallOutcome
    <3>2. pc[r] = "held"
      BY <2>2, EngineCallOutcome
    <3> QED
      BY <3>1, <3>2 DEF CallReturns, TypeOK
  <2> QED
    BY <2>1, <2>2 DEF Next, CreateSession, SaveCopy, Crash, Tick, requestVars, TypeOK
<1>2. Spec => [][Timely]_vars
  BY BaseInvariant, <1>1, PTL DEF Spec
<1> QED
  BY <1>2 DEF NoExpiredOpen

-----------------------------------------------------------------------------
(* A response belongs to one session.                                      *)

\* The response that the Engine accepted was sealed to the session's key.
SealedToSession ==
    \A r \in Requests :
        /\ result[r] = "nil" /\ op[r] \in ConsumeOps /\ pc[r] # "idle"
        => input[r].key = sid[r]

\* A response is recorded as accepted only after it was opened with the key of
\* the copy, which carries the id the request named.
LEMMA SealedStep ==
    BaseInv /\ SealedToSession /\ [Next]_vars => SealedToSession'
<1> SUFFICES ASSUME BaseInv, SealedToSession, [Next]_vars PROVE SealedToSession'
  OBVIOUS
<1> USE DEF BaseInv
<1>1. ASSUME NEW r \in Requests, NEW o \in Ops, NEW id \in SessionIDs, Open(r, o, id)
      PROVE  SealedToSession'
  <2>1. result'[r] # "nil"
    BY <1>1, OpenOutcome DEF Refused, StoreErrors, TypeOK
  <2> QED
    BY <1>1, <2>1 DEF Open, SealedToSession, TypeOK
<1>2. ASSUME NEW r \in Requests, EngineCall(r) PROVE SealedToSession'
  <2>1. PICK ret, in :
            /\ CallReturns(r, ret, in)
            /\ ret.err = "nil" => Effect(r, op[r], copy[r], ret, in)
    BY <1>2, EngineCallOutcome
  <2>2. pc[r] = "held"
    BY <1>2, EngineCallOutcome
  <2>3. copy[r].id = sid[r]
    BY <2>2 DEF IdentityInv, Identity, Active
  <2>4. ret.err = "nil" /\ op[r] \in ConsumeOps => in.key = sid[r]
    BY <2>1, <2>3 DEF Effect
  <2> QED
    BY <2>1, <2>2, <2>4 DEF CallReturns, SealedToSession, TypeOK
<1>3. ASSUME NEW r \in Requests, SaveCopy(r) \/ Crash(r) PROVE SealedToSession'
  BY <1>3 DEF SaveCopy, Crash, SealedToSession, Active, TypeOK
<1>4. ASSUME NEW id \in SessionIDs, CreateSession(id) PROVE SealedToSession'
  BY <1>4 DEF CreateSession, requestVars, SealedToSession
<1>5. CASE Tick \/ UNCHANGED vars
  BY <1>5 DEF Tick, vars, requestVars, SealedToSession
<1> QED
  BY <1>1, <1>2, <1>3, <1>4, <1>5 DEF Next

\* One wallet response is never accepted by two sessions, for any number of
\* sessions and requests: every session decrypts with its own key.
THEOREM CrossSessionReplayExcluded == Spec => []NoCrossSessionReplay
<1>1. Init => SealedToSession
  BY DEF Init, SealedToSession
<1>2. SealedToSession => NoCrossSessionReplay
  <2> SUFFICES ASSUME SealedToSession, NEW id1 \in SessionIDs, NEW id2 \in SessionIDs,
                      NEW r1 \in Accepted(id1), NEW r2 \in Accepted(id2),
                      input[r1] = input[r2]
               PROVE  id1 = id2
    BY DEF NoCrossSessionReplay
  <2>1. /\ r1 \in Requests /\ sid[r1] = id1 /\ input[r1].key = sid[r1]
        /\ r2 \in Requests /\ sid[r2] = id2 /\ input[r2].key = sid[r2]
    BY DEF Accepted, Delivered, SealedToSession
  <2> QED
    BY <2>1
<1> QED
  BY <1>1, <1>2, SealedStep, BaseInvariant, PTL DEF Spec

-----------------------------------------------------------------------------
(* Server errors are the verifier's own.                                   *)

\* The sentinels for a misuse of the library, without ErrNoRegistration.
MisuseErrors == OurErrors \ {"ErrNoRegistration"}

NoMisuse == \A r \in Requests : result[r] \notin MisuseErrors

\* An Engine call on the copy of a handler reports no misuse: at the response
\* endpoints the copy came from ConsumeOnce and is marked consumed.
LEMMA CallMisusesNothing ==
    ASSUME BaseInv, NEW r \in Requests, EngineCall(r)
    PROVE  \E ret, in : CallReturns(r, ret, in) /\ ret.err \notin MisuseErrors
<1> USE DEF BaseInv
<1>1. pc[r] = "held" /\ (op[r] \in ConsumeOps => copy[r].consumed)
  BY EngineCallOutcome DEF PhaseInv, Active
<1>2. CASE Fetch(r)
  <2>1. PICK sign \in {"nil", "SignJWS"}, t \in Readings :
            CallReturns(r, RequestObjectJWT(copy[r], t, sign), NoInput)
    BY <1>2 DEF Fetch
  <2>2. RequestObjectJWT(copy[r], t, sign).err \notin MisuseErrors
    BY DEF RequestObjectJWT, requestObjectError, Return, MisuseErrors, OurErrors
  <2> QED
    BY <2>1, <2>2
<1>3. CASE Metadata(r)
  <2>1. PICK ok \in BOOLEAN :
            CallReturns(r, AbsorbWalletMetadata(copy[r], ok), NoInput)
    BY <1>3 DEF Metadata
  <2>2. AbsorbWalletMetadata(copy[r], ok).err \notin MisuseErrors
    BY DEF AbsorbWalletMetadata, Return, MisuseErrors, OurErrors
  <2> QED
    BY <2>1, <2>2
<1>4. CASE Respond(r)
  <2>1. PICK b \in Bodies, rand \in BOOLEAN, t \in Readings :
            CallReturns(r, ProcessResponse(copy[r], b, t, rand, r), b)
    BY <1>4 DEF Respond
  <2>2. copy[r].consumed
    BY <1>1, <1>4 DEF Respond, Calls, ConsumeOps
  <2>3. responseError(copy[r], b, t) \notin MisuseErrors
    BY <2>2, JWEErrors, JWEBody DEF responseError, MisuseErrors, OurErrors
  <2>4. ProcessResponse(copy[r], b, t, rand, r).err
            \in {responseError(copy[r], b, t), "nil", "ErrRand"}
    BY DEF ProcessResponse, Return
  <2>5. ProcessResponse(copy[r], b, t, rand, r).err \notin MisuseErrors
    BY <2>3, <2>4 DEF MisuseErrors, OurErrors
  <2> QED
    BY <2>1, <2>5
<1>5. CASE DCAPIRespond(r)
  <2>1. PICK b \in Bodies, origin \in Origins \cup {Foreign}, t \in Readings :
            CallReturns(r, ProcessDCAPIResponse(copy[r], origin, b, t), b)
    BY <1>5 DEF DCAPIRespond
  <2>2. copy[r].consumed
    BY <1>1, <1>5 DEF DCAPIRespond, Calls, ConsumeOps
  <2>3. dcapiResponseError(copy[r], origin, b, t) \notin MisuseErrors
    BY <2>2, JWEErrors, JWEBody DEF dcapiResponseError, MisuseErrors, OurErrors
  <2>4. ProcessDCAPIResponse(copy[r], origin, b, t).err \notin MisuseErrors
    BY <2>3 DEF ProcessDCAPIResponse, Return
  <2> QED
    BY <2>1, <2>4
<1>6. CASE DCAPIRequested(r)
  <2>1. PICK sign \in {"nil", "SignJWS"}, t \in Readings :
            CallReturns(r, DCAPIRequest(copy[r], t, sign), NoInput)
    BY <1>6 DEF DCAPIRequested
  <2>2. DCAPIRequest(copy[r], t, sign).err \notin MisuseErrors
    BY DEF DCAPIRequest, Return, MisuseErrors, OurErrors
  <2> QED
    BY <2>1, <2>2
<1>7. CASE DCAPIUnsignedRequested(r)
  <2>1. DCAPIUnsignedRequest(copy[r]).err \notin MisuseErrors
    BY DEF DCAPIUnsignedRequest, Return, MisuseErrors, OurErrors
  <2> QED
    BY <1>7, <2>1 DEF DCAPIUnsignedRequested
<1>8. CASE Redeem(r)
  <2>1. PICK code \in Codes :
            CallReturns(r, ConsumeResponseCode(copy[r], code), code)
    BY <1>8 DEF Redeem
  <2>2. ConsumeResponseCode(copy[r], code).err \notin MisuseErrors
    BY DEF ConsumeResponseCode, Return, MisuseErrors, OurErrors
  <2> QED
    BY <2>1, <2>2
<1> QED
  BY <1>2, <1>3, <1>4, <1>5, <1>6, <1>7, <1>8 DEF EngineCall

\* No step ends a request with a misuse error.
LEMMA NoMisuseStep == BaseInv /\ NoMisuse /\ [Next]_vars => NoMisuse'
<1> SUFFICES ASSUME BaseInv, NoMisuse, [Next]_vars PROVE NoMisuse'
  OBVIOUS
<1> USE DEF BaseInv
<1>1. ASSUME NEW r \in Requests, NEW o \in Ops, NEW id \in SessionIDs, Open(r, o, id)
      PROVE  NoMisuse'
  <2>1. PICK err \in StoreErrors \cup {"none"} : result' = [result EXCEPT ![r] = err]
    BY <1>1, OpenOutcome DEF Refused, TypeOK
  <2>2. err \notin MisuseErrors
    BY DEF StoreErrors, MisuseErrors, OurErrors
  <2> QED
    BY <2>1, <2>2 DEF NoMisuse, TypeOK
<1>2. ASSUME NEW r \in Requests, EngineCall(r) PROVE NoMisuse'
  BY <1>2, CallMisusesNothing DEF CallReturns, NoMisuse, TypeOK
<1>3. ASSUME NEW r \in Requests, SaveCopy(r) \/ Crash(r) PROVE NoMisuse'
  BY <1>3 DEF SaveCopy, Crash, NoMisuse
<1>4. ASSUME NEW id \in SessionIDs, CreateSession(id) PROVE NoMisuse'
  BY <1>4 DEF CreateSession, requestVars, NoMisuse
<1>5. CASE Tick \/ UNCHANGED vars
  BY <1>5 DEF Tick, vars, requestVars, NoMisuse
<1> QED
  BY <1>1, <1>2, <1>3, <1>4, <1>5 DEF Next

\* ErrorResponse answers an error that is neither ours nor a library's
\* without status 500 and without server_error.
LEMMA WalletErrorsAnswered ==
    ASSUME NEW err \in Errors \ (OurErrors \cup LibraryErrors),
           NEW walletCode \in WalletCodes
    PROVE  /\ ErrorResponse(err, walletCode).status # 500
           /\ ErrorResponse(err, walletCode).code # "server_error"
<1>1. normalizeWalletCode(walletCode) # "server_error"
  BY DEF normalizeWalletCode, RegisteredCodes
<1>2. CASE err = "WalletError"
  BY <1>1, <1>2 DEF ErrorResponse, NotFoundErrors, InvalidRequestErrors
<1>3. CASE err \in NotFoundErrors
  BY <1>3 DEF ErrorResponse, NotFoundErrors, InvalidRequestErrors
<1>4. CASE err \in InvalidRequestErrors
  BY <1>4 DEF ErrorResponse, NotFoundErrors, InvalidRequestErrors
<1>5. CASE err \in {"ErrRequestURIConsumed", "ErrOriginNotExpected"}
  BY <1>5 DEF ErrorResponse, NotFoundErrors, InvalidRequestErrors
<1> QED
  BY <1>2, <1>3, <1>4, <1>5 DEF Errors

\* Only a failing signer, a failing random source or an incomplete
\* registration is ever answered as a server error.
THEOREM ServerErrorsCorrect == Spec => []ServerErrorsAreInternal
<1>1. Init => NoMisuse
  BY DEF Init, NoMisuse, MisuseErrors, OurErrors
<1>2. BaseInv /\ NoMisuse => ServerErrorsAreInternal
  <2> SUFFICES ASSUME BaseInv, NoMisuse, NEW r \in Requests,
                      NEW walletCode \in WalletCodes,
                      result[r] \notin {"none", "nil"},
                      \/ ErrorResponse(result[r], walletCode).status = 500
                      \/ ErrorResponse(result[r], walletCode).code = "server_error"
               PROVE  result[r] \in {"SignJWS", "ErrRand", "ErrNoRegistration"}
    BY DEF ServerErrorsAreInternal
  <2>1. result[r] \in Errors \ MisuseErrors
    BY DEF BaseInv, TypeOK, NoMisuse
  <2>2. result[r] \in OurErrors \cup LibraryErrors
    BY <2>1, WalletErrorsAnswered
  <2> QED
    BY <2>1, <2>2 DEF MisuseErrors, LibraryErrors
<1> QED
  BY <1>1, <1>2, NoMisuseStep, BaseInvariant, PTL DEF Spec
=============================================================================
