------------------------------ MODULE SessionRecord ------------------------------
(***************************************************************************)
(* The per-verification record of session.go, abstracted to what the       *)
(* engine's decisions depend on.                                           *)
(*                                                                         *)
(* Secrets are modelled by their owner.  The id, nonce, state and ephemeral *)
(* key of a session are fresh random values, so a value on the wire is     *)
(* represented by the session it belongs to, or by Foreign when it belongs *)
(* to none.  In the same way a response_code is represented by the request *)
(* that minted it.                                                         *)
(***************************************************************************)
EXTENDS Naturals

CONSTANTS
    SessionIDs,     \* ids that randToken may draw
    Requests,       \* incoming HTTP requests, each served by one goroutine
    Origins,        \* web origins (DCAPI)
    Registrations,  \* registration refs callers use: "complete", "partial"
    TTL,            \* Config.SessionTTL in clock ticks
    NoSession,      \* Go nil *Session, and "no snapshot stored"
    NoCode,         \* the empty response_code
    Foreign         \* a token that belongs to no session of this verifier

ASSUME TTLAssumption == TTL \in Nat \ {0}
ASSUME CodeAssumption == NoCode \notin Requests
ASSUME ForeignAssumption == Foreign \notin SessionIDs
ASSUME RegistrationAssumption == Registrations \subseteq {"complete", "partial"}

Flows == {"same-device", "cross-device", "dcapi"}

Codes == Requests \cup {NoCode}

\* The JSON-serialisable Session.  Fields that no guard of the engine reads
\* (client_id, response_uri, return_uri, query, created_at) are left out.
Session ==
    [ id           : SessionIDs,
      flow         : Flows,
      origins      : SUBSET Origins,    \* ExpectedOrigins
      registration : {"complete", "partial"},
      expiresAt    : Nat,
      served       : BOOLEAN,           \* RequestObjectServed
      metadata     : BOOLEAN,           \* WalletMetadata absorbed
      consumed     : BOOLEAN,
      code         : Codes,             \* ResponseCode
      codeUsed     : BOOLEAN ]          \* ResponseCodeUsed

ASSUME NoSessionAssumption == NoSession \notin Session /\ NoSession \notin SessionIDs

\* What no Engine or store operation may ever change about a session.
Identity(s) == <<s.id, s.flow, s.origins, s.registration, s.expiresAt>>
=============================================================================
