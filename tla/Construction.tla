---------------------------- MODULE Construction ----------------------------
(***************************************************************************)
(* From configuration to a wallet that can answer: New builds an engine,   *)
(* NewSession a session with its invocation, RequestObjectJWT or           *)
(* DCAPIRequest the signed request, and RedirectURI the way back of the    *)
(* same-device flow.  A step is one call of the service.  The process may  *)
(* be restarted with another configuration at any time; the session is in  *)
(* the store and meets the engine that is there when it is used next.      *)
(***************************************************************************)
EXTENDS Validation

CONSTANTS
    Configs,        \* values of Config an operator may write
    Specs,          \* values of RequestSpec a service may ask for
    None            \* not there

\* The Go types of their fields: no more is known of what an operator writes or
\* a service asks for.
ASSUME ConfigsAssumption == Configs \subseteq ConfigType
ASSUME SpecsAssumption == Specs \subseteq SpecType

ASSUME NoneAssumption == None \notin [spec : Specs, ClientID : STRING]

VARIABLES
    config,         \* the Config of the running process
    session,        \* the spec of the stored session, and its ClientID
    invocation,     \* what WalletInvocation gives the wallet
    request,        \* the last request that was signed
    redirect,       \* query parameters of the redirect URI at the service
    err             \* the error of the last call

vars == <<config, session, invocation, request, redirect, err>>

engine == Resolved(config)

-----------------------------------------------------------------------------
\* The parameters of invocation in the order of q.Encode.
InvocationParams == <<"client_id", "request_uri", "request_uri_method">>

\* invocation for request_uri flows: the parameters that arrive behind the
\* universal link, and whether request_uri names the session's resource.  A
\* RequestURIFunc builds the URL of the service's own route.  The Config it was
\* built from is kept for the properties.
WalletInvocation(c) ==
    LET e == Resolved(c)
    IN [ config   |-> c,
         link     |-> Received(e.UniversalLinkBase, "?", InvocationParams),
         resolves |-> e.RequestURIFunc \/ Below(e.RequestURIBase) ]

\* A request of engine e for session s, in the name of the given client.
RequestAs(client, e, s) ==
    [ flow         |-> s.spec.Flow,
      client       |-> client,
      signer       |-> e.signingKey,
      x5cKey       |-> e.leafKey,
      x5cNames     |-> e.leafDNSNames,
      response     |-> s.spec.ResponseURI,
      origins      |-> s.spec.ExpectedOrigins,
      registration |-> s.spec.Registration,
      algorithms   |-> e.EncValues \cup UNION {e.VPFormats[l] : l \in AlgLists},
      data         |-> IF e.EnableTransactionData THEN s.spec.TransactionData
                                                  ELSE "none" ]

\* Variant: client_id is the session's.
RequestFromSessionClient(e, s) == RequestAs(s.ClientID, e, s)

\* requestClaims or dcapiClaims, clientMetadata and the JWS header: the parts
\* of a request that a wallet judges.  client_id is the engine's.
RequestFrom(e, s) == RequestAs(e.ClientDNSName, e, s)

\* The errors of building and signing it: Claims() rejects a registration
\* that is not complete, and the key provider may fail.
requestError(spec, sign) ==
    IF spec.Registration # "complete" THEN "ErrNoRegistration" ELSE sign

\* Variant: the code is always appended with "?".
separatorFixed(u) == "?"

\* RedirectURI: sep
separator(u) == IF u.query # "none" THEN "&" ELSE "?"

-----------------------------------------------------------------------------
Init ==
    /\ config = None /\ session = None /\ invocation = None
    /\ request = None /\ redirect = None
    /\ err = "nil"

\* New, at the start of the process.
New(c) ==
    /\ config = None
    /\ err' = NewError(c)
    /\ config' = IF err' = "nil" THEN c ELSE None
    /\ UNCHANGED <<session, invocation, request, redirect>>

\* The process ends.  The session stays in the store, and what was sent is out.
Stop ==
    /\ config # None
    /\ config' = None /\ err' = "nil"
    /\ UNCHANGED <<session, invocation, request, redirect>>

\* Engine.NewSession.  For DCAPI the invocation is the signed request.
NewSession(spec) ==
    /\ config # None /\ session = None
    /\ \E rand \in {"nil", "ErrRand"}, sign \in {"nil", "SignJWS"} :
        LET dcapi == spec.Flow = "dcapi"
            s == [spec |-> spec, ClientID |-> engine.ClientDNSName]
        IN /\ err' = IF validateSpec(spec, engine) # "nil" THEN validateSpec(spec, engine)
                     ELSE IF rand # "nil" THEN rand
                     ELSE IF dcapi THEN requestError(spec, sign) ELSE "nil"
           /\ IF err' = "nil"
              THEN /\ session' = s
                   /\ invocation' = IF dcapi THEN None ELSE WalletInvocation(config)
                   /\ request' = IF dcapi THEN RequestFrom(engine, s) ELSE None
              ELSE UNCHANGED <<session, invocation, request>>
    /\ UNCHANGED <<config, redirect>>

\* The wallet follows the invocation: RequestObjectJWT, once.  The page asks
\* again for the request of a DCAPI session: DCAPIRequest, at will.
Fetch ==
    /\ config # None /\ session # None
    /\ session.spec.Flow = "dcapi" \/ request = None
    /\ \E sign \in {"nil", "SignJWS"} :
        /\ err' = requestError(session.spec, sign)
        /\ request' = IF err' = "nil" THEN RequestFrom(engine, session) ELSE request
    /\ UNCHANGED <<config, session, invocation, redirect>>

\* Variant: every flow has a redirect.
ReturnAnyFlow ==
    /\ config # None /\ request # None /\ redirect = None
    /\ err' = "nil"
    /\ redirect' = <<"response_code">>
    /\ UNCHANGED <<config, session, invocation, request>>

\* The response was accepted and a code minted: RedirectURI.
Return ==
    /\ config # None /\ request # None /\ redirect = None
    /\ session.spec.Flow = "same-device"
    /\ err' = "nil"
    /\ LET u == session.spec.ReturnURI
       IN redirect' = Received(u, separator(u), <<"response_code">>)
    /\ UNCHANGED <<config, session, invocation, request>>

Next ==
    \/ \E c \in Configs : New(c)
    \/ \E spec \in Specs : NewSession(spec)
    \/ Fetch \/ Return \/ Stop

Spec == Init /\ [][Next]_vars

-----------------------------------------------------------------------------
\* Types of the variables; an invocation or a request needs a session, and a
\* redirect a request of the same-device flow.
TypeOK ==
    /\ config \in Configs \cup {None}
    /\ session # None => session.spec \in Specs
    /\ invocation # None \/ request # None => session # None
    /\ redirect # None => request # None /\ request.flow = "same-device"
    /\ err \in {"nil", "ErrConfig", "ErrUnsupportedClientIDPrefix", "ErrSANMismatch",
                "ErrNoRegistration", "ErrSpec", "ErrTransactionDataDisabled",
                "ErrTransactionDataInvalid", "ErrRand", "SignJWS"}

\* The delimiters of u have something behind them.
NothingBare(u) == u.query # "bare" /\ u.fragment # "bare"

\* Whatever was configured and asked for, and whichever engine meets the stored
\* session after restarts, a request that leaves it passes the wallet's own
\* tests: client_id is a SAN of the x5c leaf, the signature verifies with the
\* leaf's key, the registration is there (RPRC_19a), and every advertised
\* algorithm is one the policy allows.  The response endpoint is on the host of
\* the client that made the session (so on that of client_id, unless the engine
\* that signs has another ClientDNSName), or the origins are named and are
\* origins (validOrigin: "scheme://host[:port] with nothing else", but for a
\* bare delimiter).
EveryRequestTrusted ==
    request # None =>
        /\ request.client \in request.x5cNames
        /\ request.signer = request.x5cKey
        /\ IF request.flow = "dcapi"
           THEN /\ request.origins # {} /\ request.response = EmptyURL
                /\ \A o \in request.origins : NothingBare(o) => o = https(o.host)
           ELSE request.response.form = "https" /\ request.response.host = session.ClientID
        /\ request.registration = "complete"
        /\ Allowed(request.algorithms)

\* The wallet gets all parameters of the invocation and request_uri names the
\* session's resource, if UniversalLinkBase has no bare delimiter and
\* RequestURIBase, where it is used, has none and was written with at most one
\* slash at its end (New trims one).
InvocationArrives ==
    LET c == invocation.config
    IN /\ invocation # None
       /\ NothingBare(c.UniversalLinkBase)
       /\ \/ c.RequestURIFunc
          \/ NothingBare(c.RequestURIBase) /\ c.RequestURIBase.slashes <= 1
       => invocation.link = InvocationParams /\ invocation.resolves

\* The browser brings the response_code back in the query, whatever query
\* the return URI has of its own, if the return URI has no fragment.
CodeReturns ==
    redirect # None /\ session.spec.ReturnURI.fragment = "none"
        => redirect = <<"response_code">>

-----------------------------------------------------------------------------
(* What a comment of the code says without that condition.                 *)

\* "The response_code in the query ... fences the result fetch": the code
\* comes back in the query.
CodeAlwaysReturns == redirect # None => redirect = <<"response_code">>
=============================================================================
