------------------------------- MODULE Engine -------------------------------
(***************************************************************************)
(* The Engine calls that read or change a Session: newsession.go,          *)
(* requestobject.go, walletmetadata.go, response.go, dcapi.go and          *)
(* samedevice.go.  The Engine is stateless: a call is a function of the    *)
(* caller's copy of the session, the clock and its inputs, and returns     *)
(* [err, s]: the error and the copy as the call leaves it.  The chains of  *)
(* IF ... ELSE IF keep the order of the early returns.                     *)
(***************************************************************************)
EXTENDS SessionRecord

Return(err, s) == [err |-> err, s |-> s]

\* Variant: trusts the store to have checked the expiry.
ExpiredTrustsStore(s, t) == FALSE

\* !e.clock().Before(s.ExpiresAt)
Expired(s, t) == ~(t < s.expiresAt)

-----------------------------------------------------------------------------
(* What arrives from outside.                                              *)

\* A token a wallet can put on the wire: some session's, or nobody's.
Tokens == SessionIDs \cup {Foreign}

\* The JWE apv header: absent, not a base64url string, or a decoded nonce.
APVs == Tokens \cup {"absent", "undecodable"}

\* A sealed response.  key owns the JWE; payload, state and vp describe the
\* plaintext: vp is the error presentationsFromVPToken returns for it.
JWEs == [ kind    : {"jwe"},
          key     : Tokens,
          apv     : APVs,
          payload : {"ok", "malformed"},
          state   : Tokens,
          vp      : {"nil", "ErrUnknownCredentialID", "ErrMalformedResponse"} ]

\* An OID4VP error response: the state is optional.
WalletErrors == [ kind : {"error"}, state : Tokens \cup {"absent"} ]

\* Bodies that fail before anything is decrypted: over the cap, undecodable,
\* or without exactly one non-empty response member.
BadBodies == [ kind : {"oversize", "undecodable", "no response"} ]

Bodies == JWEs \cup WalletErrors \cup BadBodies

-----------------------------------------------------------------------------
(* newsession.go                                                           *)

\* Variant: the lifetime is subtracted instead of added.
NewSessionAlreadyOver(id, flow, origins, reg, t) ==
    [ id |-> id, flow |-> flow, origins |-> origins, registration |-> reg,
      expiresAt |-> t - (TTL + 1), served |-> FALSE, metadata |-> FALSE,
      consumed |-> FALSE, code |-> NoCode, codeUsed |-> FALSE ]

\* NewSession for a spec that validateSpec accepts.
NewSession(id, flow, origins, reg, t) ==
    [ id |-> id, flow |-> flow, origins |-> origins, registration |-> reg,
      expiresAt |-> t + TTL, served |-> FALSE, metadata |-> FALSE,
      consumed |-> FALSE, code |-> NoCode, codeUsed |-> FALSE ]

\* validateSpec, the flow switch: expected_origins is required for DCAPI and
\* forbidden elsewhere.  For DCAPI NewSession also builds the request, which
\* fails on a registration that Claims() rejects.
Acceptable(flow, origins, reg) ==
    IF flow = "dcapi" THEN origins # {} /\ reg = "complete" ELSE origins = {}

-----------------------------------------------------------------------------
(* requestobject.go and the request side of dcapi.go.  sign is the error   *)
(* of crypto.SignJWS: "nil", or "SignJWS" when the key provider fails.     *)

requestObjectError(s, t, sign) ==
    IF s.flow = "dcapi" THEN "ErrFlowMismatch"
    ELSE IF Expired(s, t) THEN "ErrSessionExpired"
    ELSE IF s.served THEN "ErrRequestURIConsumed"
    ELSE IF s.registration # "complete" THEN "ErrNoRegistration"
    ELSE sign

\* Variant: every fetch gives the session a new lease.
RequestObjectJWTRenews(s, t, sign) ==
    LET err == requestObjectError(s, t, sign)
    IN Return(err, IF err # "nil" THEN s
                   ELSE [s EXCEPT !.served = TRUE, !.expiresAt = t + TTL])

\* Variant: the served marker is never set.
RequestObjectJWTUnmarked(s, t, sign) ==
    Return(requestObjectError(s, t, sign), s)

\* Engine.RequestObjectJWT
RequestObjectJWT(s, t, sign) ==
    LET err == requestObjectError(s, t, sign)
    IN Return(err, IF err # "nil" THEN s ELSE [s EXCEPT !.served = TRUE])

\* Engine.DCAPIRequest; it may be called any number of times.
DCAPIRequest(s, t, sign) ==
    Return(IF s.flow # "dcapi" THEN "ErrFlowMismatch"
           ELSE IF Expired(s, t) THEN "ErrSessionExpired"
           ELSE IF s.registration # "complete" THEN "ErrNoRegistration"
           ELSE sign, s)

\* Engine.DCAPIUnsignedRequest: nothing is signed and no expiry is checked.
DCAPIUnsignedRequest(s) ==
    Return(IF s.flow # "dcapi" THEN "ErrFlowMismatch"
           ELSE IF s.registration # "complete" THEN "ErrNoRegistration"
           ELSE "nil", s)

\* Engine.AbsorbWalletMetadata; ok: the document passes the size and JSON
\* tests.
AbsorbWalletMetadata(s, ok) ==
    IF ok THEN Return("nil", [s EXCEPT !.metadata = TRUE])
          ELSE Return("ErrWalletMetadataInvalid", s)

-----------------------------------------------------------------------------
(* response.go and the response side of dcapi.go.                          *)

checkAgreementInfo(apv, s) ==
    IF apv = "absent" THEN "nil"
    ELSE IF apv = "undecodable" THEN "ErrMalformedResponse"
    ELSE IF apv # s.id THEN "ErrAPVMismatch"
    ELSE "nil"

\* Variant: one response-encryption key for every session.
openJWESharedKey(b, s) ==
    IF b.key \notin SessionIDs THEN "ErrDecrypt"
    ELSE IF checkAgreementInfo(b.apv, s) # "nil" THEN checkAgreementInfo(b.apv, s)
    ELSE IF b.payload # "ok" THEN "ErrMalformedResponse"
    ELSE "nil"

\* What ProcessResponse and ProcessDCAPIResponse do alike with the JWE:
\* decrypt with the session's own key, check apv, parse the payload.
openJWE(b, s) ==
    IF b.key # s.id THEN "ErrDecrypt"
    ELSE IF checkAgreementInfo(b.apv, s) # "nil" THEN checkAgreementInfo(b.apv, s)
    ELSE IF b.payload # "ok" THEN "ErrMalformedResponse"
    ELSE "nil"

\* A state echoed with an error must match; without one it is trusted.
walletErrorFrom(b, s) ==
    IF b.state \notin {"absent", s.id} THEN "ErrStateMismatch" ELSE "WalletError"

\* The errors ProcessResponse can return before it mints a code.
responseError(s, b, t) ==
    IF s.flow = "dcapi" THEN "ErrFlowMismatch"
    ELSE IF ~s.consumed THEN "ErrSessionNotConsumed"
    ELSE IF Expired(s, t) THEN "ErrSessionExpired"
    ELSE IF b.kind = "oversize" THEN "ErrBodyTooLarge"
    ELSE IF b.kind \in {"undecodable", "no response"} THEN "ErrMalformedResponse"
    ELSE IF b.kind = "error" THEN walletErrorFrom(b, s)
    ELSE IF openJWE(b, s) # "nil" THEN openJWE(b, s)
    ELSE IF b.state # s.id THEN "ErrStateMismatch"
    ELSE b.vp

\* Variant: the code is minted but not written to the session.
ProcessResponseForgetsCode(s, b, t, rand, code) ==
    Return(responseError(s, b, t), s)

\* Variant: the flag for a fresh code is set instead of cleared.
ProcessResponseSpent(s, b, t, rand, code) ==
    LET err == responseError(s, b, t)
    IN IF err # "nil" THEN Return(err, s)
       ELSE IF s.flow # "same-device" THEN Return("nil", s)
       ELSE IF ~rand THEN Return("ErrRand", s)
       ELSE Return("nil", [s EXCEPT !.code = code, !.codeUsed = TRUE])

\* Engine.ProcessResponse.  rand: the random source delivers; code: the
\* response_code it would deliver.  Only same-device sessions mint.
ProcessResponse(s, b, t, rand, code) ==
    LET err == responseError(s, b, t)
    IN IF err # "nil" THEN Return(err, s)
       ELSE IF s.flow # "same-device" THEN Return("nil", s)
       ELSE IF ~rand THEN Return("ErrRand", s)
       ELSE Return("nil", [s EXCEPT !.code = code, !.codeUsed = FALSE])

\* The calling origin replaces the state.  The body is JSON, so an OAuth
\* error body has no response member.
dcapiResponseError(s, origin, b, t) ==
    IF s.flow # "dcapi" THEN "ErrFlowMismatch"
    ELSE IF ~s.consumed THEN "ErrSessionNotConsumed"
    ELSE IF Expired(s, t) THEN "ErrSessionExpired"
    ELSE IF origin \notin s.origins THEN "ErrOriginNotExpected"
    ELSE IF b.kind = "oversize" THEN "ErrBodyTooLarge"
    ELSE IF b.kind # "jwe" THEN "ErrMalformedResponse"
    ELSE IF openJWE(b, s) # "nil" THEN openJWE(b, s)
    ELSE b.vp

\* Engine.ProcessDCAPIResponse
ProcessDCAPIResponse(s, origin, b, t) ==
    Return(dcapiResponseError(s, origin, b, t), s)

-----------------------------------------------------------------------------
(* samedevice.go                                                           *)

\* Engine.RedirectURI: the return URI carries the session's code.
RedirectURI(s) ==
    IF s.flow # "same-device" THEN [err |-> "ErrFlowMismatch", code |-> NoCode]
    ELSE IF s.code = NoCode THEN [err |-> "ErrNoResponseCode", code |-> NoCode]
    ELSE [err |-> "nil", code |-> s.code]

\* Variant: any code redeems a session that has one.
ConsumeResponseCodeAny(s, code) ==
    IF s.code = NoCode THEN Return("ErrNoResponseCode", s)
    ELSE IF s.codeUsed THEN Return("ErrResponseCodeConsumed", s)
    ELSE Return("nil", [s EXCEPT !.codeUsed = TRUE])

\* Variant: the used marker is never set.
ConsumeResponseCodeUnmarked(s, code) ==
    IF s.code = NoCode THEN Return("ErrNoResponseCode", s)
    ELSE IF s.codeUsed THEN Return("ErrResponseCodeConsumed", s)
    ELSE IF s.code # code THEN Return("ErrResponseCodeMismatch", s)
    ELSE Return("nil", s)

\* Engine.ConsumeResponseCode
ConsumeResponseCode(s, code) ==
    IF s.code = NoCode THEN Return("ErrNoResponseCode", s)
    ELSE IF s.codeUsed THEN Return("ErrResponseCodeConsumed", s)
    ELSE IF s.code # code THEN Return("ErrResponseCodeMismatch", s)
    ELSE Return("nil", [s EXCEPT !.codeUsed = TRUE])
=============================================================================
