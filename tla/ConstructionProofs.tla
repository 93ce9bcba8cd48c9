------------------------- MODULE ConstructionProofs -------------------------
(***************************************************************************)
(* Construction, for every Config an operator may write and every          *)
(* RequestSpec a service may ask for: what New and validateSpec let        *)
(* through is good enough for all that is derived from it later.           *)
(***************************************************************************)
EXTENDS Construction, TLAPS

-----------------------------------------------------------------------------
(* What the gates establish                                                *)

\* The parts of a URL have their types.
LEMMA URLFields ==
    ASSUME NEW u \in URLs(STRING)
    PROVE  u.query \in Parts /\ u.fragment \in Parts /\ u.slashes \in Nat
BY DEF URLs

\* TrimSuffix removes one slash from the very end, and changes nothing else.
LEMMA TrimSlashFacts ==
    ASSUME NEW u \in URLs(STRING)
    PROVE  LET w == trimSlash(u)
           IN /\ w.query = u.query /\ w.fragment = u.fragment
              /\ u.query = "none" /\ u.fragment = "none" /\ u.slashes <= 1
                    => w.slashes = 0
<1> DEFINE w == [u EXCEPT !.slashes = @ - 1]
<1>1. u.slashes \in Nat
  BY URLFields
<1>2. w.query = u.query /\ w.fragment = u.fragment /\ w.slashes = u.slashes - 1
  BY DEF URLs
<1> HIDE DEF w
<1>3. CASE u.slashes > 0 /\ u.query = "none" /\ u.fragment = "none"
  <2>1. trimSlash(u) = w
    BY <1>3 DEF trimSlash, w
  <2>2. u.slashes <= 1 => w.slashes = 0
    BY <1>1, <1>2, <1>3
  <2> QED
    BY <1>2, <2>1, <2>2
<1>4. CASE ~(u.slashes > 0 /\ u.query = "none" /\ u.fragment = "none")
  <2>1. trimSlash(u) = u
    BY <1>4 DEF trimSlash
  <2> QED
    BY <1>1, <1>4, <2>1
<1> QED
  BY <1>3, <1>4

\* The fields of the engine are those of the configuration but for one.
LEMMA ResolvedFields ==
    ASSUME NEW c \in ConfigType
    PROVE  LET e == Resolved(c)
           IN /\ e.ClientDNSName = c.ClientDNSName /\ e.leafDNSNames = c.leafDNSNames
              /\ e.signingKey = c.signingKey /\ e.leafKey = c.leafKey
              /\ e.EncValues = c.EncValues /\ e.VPFormats = c.VPFormats
              /\ e.RequestURIFunc = c.RequestURIFunc
              /\ e.UniversalLinkBase = c.UniversalLinkBase
              /\ e.RequestURIBase = trimSlash(c.RequestURIBase)
BY DEF Resolved, ConfigType

\* A configuration that New accepts.
Admitted(c) == c \in Configs /\ NewError(c) = "nil"

\* What New has tested when it returns no error.
LEMMA NewAdmits ==
    ASSUME NEW c, Admitted(c)
    PROVE  /\ c \in ConfigType
           /\ c.ClientDNSName \in c.leafDNSNames
           /\ c.signingKey = c.leafKey /\ algorithmsOK(c)
           /\ c.RequestURIFunc \/ validBaseURL(c.RequestURIBase)
           /\ validBaseURL(c.UniversalLinkBase)
           /\ c.RequestURIBase \in URLs(STRING) /\ c.UniversalLinkBase \in URLs(STRING)
<1>1. c \in ConfigType
  BY ConfigsAssumption DEF Admitted
<1>2. /\ c.ClientDNSName \in c.leafDNSNames
      /\ signingKeyOK(c) /\ algorithmsOK(c)
      /\ c.RequestURIFunc \/ validBaseURL(c.RequestURIBase)
      /\ validBaseURL(c.UniversalLinkBase)
  BY DEF Admitted, NewError
<1> QED
  BY <1>1, <1>2 DEF signingKeyOK, ConfigType

\* What validateSpec has tested when it returns no error.
LEMMA SpecAdmits ==
    ASSUME NEW spec, NEW e, validateSpec(spec, e) = "nil"
    PROVE  \/ /\ spec.Flow \in {"same-device", "cross-device"}
              /\ requestURIFlowOK(spec, e.ClientDNSName)
           \/ spec.Flow = "dcapi" /\ dcapiFlowOK(spec)
BY DEF validateSpec

\* An origin has nothing but its host, up to bare delimiters.
LEMMA OriginShape ==
    ASSUME NEW o \in URLs(STRING), validOrigin(o), NothingBare(o)
    PROVE  o = https(o.host)
<1>1. o.query = "none" /\ o.fragment = "none"
  BY URLFields DEF validOrigin, NothingBare, Parts
<1>2. o.form = "https" /\ o.path = "none" /\ o.slashes = 0 /\ o.user = FALSE
  BY DEF validOrigin, validHTTPSURL, URLs
<1> QED
  BY <1>1, <1>2 DEF URLs, https

-----------------------------------------------------------------------------
(* The inductive invariant                                                 *)

Errors ==
    {"nil", "ErrConfig", "ErrUnsupportedClientIDPrefix", "ErrSANMismatch",
     "ErrNoRegistration", "ErrSpec", "ErrTransactionDataDisabled",
     "ErrTransactionDataInvalid", "ErrRand", "SignJWS"}

\* What the service holds was made by engines that New admitted, of which each
\* call may have met another: the session by one that admitted its spec and
\* gave it its ClientID, the invocation and the last request by some.
SessionInv ==
    session # None =>
        /\ session.spec \in Specs
        /\ \E c : /\ Admitted(c) /\ session.ClientID = Resolved(c).ClientDNSName
                  /\ validateSpec(session.spec, Resolved(c)) = "nil"

InvocationInv ==
    invocation # None =>
        session # None /\ \E c : Admitted(c) /\ invocation = WalletInvocation(c)

RequestInv ==
    request # None =>
        /\ session # None /\ session.spec.Registration = "complete"
        /\ \E c : Admitted(c) /\ request = RequestFrom(Resolved(c), session)

RedirectInv ==
    redirect # None =>
        /\ request # None /\ session.spec.Flow = "same-device"
        /\ LET u == session.spec.ReturnURI
           IN redirect = Received(u, separator(u), <<"response_code">>)

ConstructionInv ==
    /\ config # None => Admitted(config)
    /\ SessionInv /\ InvocationInv /\ RequestInv /\ RedirectInv
    /\ err \in Errors

\* The verdicts of New and validateSpec are errors of the library.
LEMMA GateErrors ==
    ASSUME NEW c, NEW spec, NEW e
    PROVE  NewError(c) \in Errors /\ validateSpec(spec, e) \in Errors
BY DEF NewError, validateSpec, transactionDataError, Errors

\* Before New there is nothing to establish.
LEMMA InvInit ==
    ASSUME Init
    PROVE  ConstructionInv
BY DEF Init, ConstructionInv, SessionInv, InvocationInv, RequestInv, RedirectInv, Errors

\* New runs an admitted configuration, or none; the stored session stays as it is.
LEMMA InvNew ==
    ASSUME ConstructionInv, NEW c \in Configs, New(c)
    PROVE  ConstructionInv'
<1>1. config' # None => Admitted(config')
  BY DEF New, Admitted
<1>2. UNCHANGED <<session, invocation, request, redirect>>
  BY DEF New
<1>3. err' \in Errors
  BY GateErrors DEF New
<1> QED
  BY <1>1, <1>2, <1>3
     DEF ConstructionInv, SessionInv, InvocationInv, RequestInv, RedirectInv

\* The end of the process leaves all that is stored or sent.
LEMMA InvStop ==
    ASSUME ConstructionInv, Stop
    PROVE  ConstructionInv'
BY DEF Stop, ConstructionInv, SessionInv, InvocationInv, RequestInv, RedirectInv, Errors

\* NewSession derives session and invocation from the engine and one admitted spec.
LEMMA InvNewSession ==
    ASSUME ConstructionInv, NEW spec \in Specs, NewSession(spec)
    PROVE  ConstructionInv'
<1>1. /\ config # None /\ session = None /\ UNCHANGED <<config, redirect>>
      /\ invocation = None /\ request = None /\ redirect = None
  BY DEF NewSession, ConstructionInv, SessionInv, InvocationInv, RequestInv, RedirectInv
<1>2. Admitted(config) /\ Admitted(config')
  BY <1>1 DEF ConstructionInv
<1>3. err' \in Errors
  BY GateErrors DEF NewSession, requestError, Errors
<1>4. CASE err' # "nil"
  <2>1. UNCHANGED <<session, invocation, request>>
    BY <1>4 DEF NewSession
  <2> QED
    BY <1>1, <1>2, <1>3, <2>1
       DEF ConstructionInv, SessionInv, InvocationInv, RequestInv, RedirectInv
<1>5. CASE err' = "nil"
  <2> DEFINE s == [spec |-> spec, ClientID |-> engine.ClientDNSName]
  <2>1. /\ session' = s
        /\ invocation' = IF spec.Flow = "dcapi" THEN None ELSE WalletInvocation(config)
        /\ request' = IF spec.Flow = "dcapi" THEN RequestFrom(engine, s) ELSE None
        /\ validateSpec(spec, engine) = "nil"
        /\ spec.Flow = "dcapi" => spec.Registration = "complete"
    BY <1>5 DEF NewSession, requestError
  <2>2. engine.ClientDNSName \in STRING
    <3>1. config \in ConfigType
      BY <1>2, NewAdmits
    <3> QED
      BY <3>1, ResolvedFields DEF engine, ConfigType
  <2>3. s # None /\ s.spec = spec /\ s.ClientID = engine.ClientDNSName
    BY <2>2, NoneAssumption
  <2> HIDE DEF s
  <2>4. SessionInv'
    BY <1>2, <2>1, <2>3 DEF SessionInv, engine
  <2>5. InvocationInv' /\ RequestInv' /\ RedirectInv'
    BY <1>1, <1>2, <2>1, <2>3 DEF InvocationInv, RequestInv, RedirectInv, engine
  <2> QED
    BY <1>2, <1>3, <2>4, <2>5 DEF ConstructionInv
<1> QED
  BY <1>4, <1>5

\* RequestObjectJWT and DCAPIRequest derive the request from the stored session
\* and from whatever engine runs now.
LEMMA InvFetch ==
    ASSUME ConstructionInv, Fetch
    PROVE  ConstructionInv'
<1>1. /\ session # None /\ UNCHANGED <<config, session, invocation, redirect>>
      /\ Admitted(config)
  BY DEF Fetch, ConstructionInv
<1>2. /\ err' \in Errors
      /\ \/ request' = request
         \/ /\ request' = RequestFrom(engine, session)
            /\ session.spec.Registration = "complete"
  BY DEF Fetch, requestError, Errors
<1>3. RequestInv'
  BY <1>1, <1>2 DEF RequestInv, ConstructionInv, engine
<1>4. RedirectInv'
  <2>1. CASE redirect = None
    BY <1>1, <2>1 DEF RedirectInv
  <2>2. CASE redirect # None
    BY <1>1, <2>2 DEF Fetch, RedirectInv, ConstructionInv
  <2> QED
    BY <2>1, <2>2
<1> QED
  BY <1>1, <1>2, <1>3, <1>4 DEF ConstructionInv, SessionInv, InvocationInv

\* RedirectURI derives the redirect from the session's return URI.
LEMMA InvReturn ==
    ASSUME ConstructionInv, Return
    PROVE  ConstructionInv'
<1>1. RedirectInv' /\ err' \in Errors /\ UNCHANGED <<config, session, invocation, request>>
  BY DEF Return, RedirectInv, Errors
<1> QED
  BY <1>1 DEF ConstructionInv, SessionInv, InvocationInv, RequestInv

\* Every step preserves the invariant.
LEMMA InvNext ==
    ASSUME ConstructionInv, [Next]_vars
    PROVE  ConstructionInv'
<1>1. CASE UNCHANGED vars
  BY <1>1 DEF vars, ConstructionInv, SessionInv, InvocationInv, RequestInv, RedirectInv
<1> QED
  BY <1>1, InvNew, InvNewSession, InvFetch, InvReturn, InvStop DEF Next

\* Across restarts with other configurations: the stored session carries the
\* ClientID of an engine that New admitted and that admitted its spec, its
\* invocation and its requests (RequestObjectJWT, DCAPIRequest) were made by
\* admitted engines, and RedirectURI built its redirect from its own return URI.
THEOREM ConstructionInvariant == Spec => []ConstructionInv
<1>1. Init => ConstructionInv
  BY InvInit
<1>2. ConstructionInv /\ [Next]_vars => ConstructionInv'
  BY InvNext
<1> QED
  BY <1>1, <1>2, PTL DEF Spec

-----------------------------------------------------------------------------
(* What follows                                                            *)

\* Whatever the service was configured with and asked for, sessions, invocations,
\* requests and redirects of newsession.go and requestobject.go exist in this
\* order only, restarts included.
THEOREM ConstructionTypeCorrect == Spec => []TypeOK
<1>1. ConstructionInv => TypeOK
  <2> SUFFICES ASSUME ConstructionInv
               PROVE  TypeOK
    OBVIOUS
  <2>1. redirect # None => request # None /\ request.flow = "same-device"
    BY DEF ConstructionInv, RequestInv, RedirectInv, RequestFrom, RequestAs
  <2> QED
    BY <2>1 DEF ConstructionInv, SessionInv, InvocationInv, RequestInv, Admitted, TypeOK, Errors
<1> QED
  BY <1>1, ConstructionInvariant, PTL

\* Every request that RequestObjectJWT or DCAPIRequest signs passes the wallet's
\* tests of certificate, key, registration and algorithms and goes to the host
\* of the client that made the session, for every RequestSpec that validateSpec
\* admits and whichever Configs that New admits the session meets.
THEOREM EveryRequestTrustedHolds == Spec => []EveryRequestTrusted
<1>1. ConstructionInv => EveryRequestTrusted
  <2> SUFFICES ASSUME ConstructionInv, request # None
               PROVE  EveryRequestTrusted
    BY DEF EveryRequestTrusted
  <2> DEFINE spec == session.spec
  <2>1. session # None /\ spec.Registration = "complete" /\ spec \in Specs
    BY DEF ConstructionInv, RequestInv, SessionInv
  <2>2. PICK c : Admitted(c) /\ request = RequestFrom(Resolved(c), session)
    BY DEF ConstructionInv, RequestInv
  <2>3. PICK d : /\ Admitted(d) /\ session.ClientID = Resolved(d).ClientDNSName
                 /\ validateSpec(spec, Resolved(d)) = "nil"
    BY <2>1 DEF ConstructionInv, SessionInv
  <2>4. spec.ExpectedOrigins \subseteq URLs(STRING)
    BY <2>1, SpecsAssumption DEF SpecType
  <2>5. /\ c.ClientDNSName \in c.leafDNSNames /\ c.signingKey = c.leafKey
        /\ algorithmsOK(c) /\ c \in ConfigType
    BY <2>2, NewAdmits
  <2> HIDE DEF spec
  <2>6. /\ request.flow = spec.Flow /\ request.client = c.ClientDNSName
        /\ request.signer = c.signingKey /\ request.x5cKey = c.leafKey
        /\ request.x5cNames = c.leafDNSNames
        /\ request.response = spec.ResponseURI
        /\ request.origins = spec.ExpectedOrigins
        /\ request.registration = spec.Registration
        /\ request.algorithms = c.EncValues \cup UNION {c.VPFormats[l] : l \in AlgLists}
    BY <2>2, <2>5, ResolvedFields DEF RequestFrom, RequestAs, spec
  <2>7. Allowed(request.algorithms)
    BY <2>5, <2>6 DEF algorithmsOK, Allowed
  <2>8. CASE spec.Flow = "dcapi"
    <3>1. dcapiFlowOK(spec)
      BY <2>3, <2>8, SpecAdmits
    <3>2. \A o \in spec.ExpectedOrigins : NothingBare(o) => o = https(o.host)
      BY <2>4, <3>1, OriginShape DEF dcapiFlowOK
    <3> QED
      BY <2>1, <2>5, <2>6, <2>7, <2>8, <3>1, <3>2 DEF EveryRequestTrusted, dcapiFlowOK
  <2>9. CASE spec.Flow # "dcapi"
    <3>1. requestURIFlowOK(spec, session.ClientID)
      BY <2>3, <2>9, SpecAdmits
    <3> QED
      BY <2>1, <2>5, <2>6, <2>7, <2>9, <3>1
         DEF EveryRequestTrusted, requestURIFlowOK, validResponseURI, validHTTPSURL
  <2> QED
    BY <2>8, <2>9
<1> QED
  BY <1>1, ConstructionInvariant, PTL

\* For all base URLs that New admits without a bare delimiter, RequestURIBase with
\* at most one slash at its end, what invocation of newsession.go builds by
\* concatenation reaches the wallet whole.
THEOREM InvocationArrivesHolds == Spec => []InvocationArrives
<1>1. ConstructionInv => InvocationArrives
  <2> DEFINE c == invocation.config
  <2> SUFFICES ASSUME ConstructionInv, invocation # None,
                      NothingBare(c.UniversalLinkBase),
                      \/ c.RequestURIFunc
                      \/ NothingBare(c.RequestURIBase) /\ c.RequestURIBase.slashes <= 1
               PROVE  invocation.link = InvocationParams /\ invocation.resolves
    BY DEF InvocationArrives
  <2>1. Admitted(c) /\ invocation = WalletInvocation(c)
    BY DEF ConstructionInv, InvocationInv, WalletInvocation
  <2> HIDE DEF c
  <2>2. /\ c \in ConfigType
        /\ c.RequestURIBase \in URLs(STRING) /\ c.UniversalLinkBase \in URLs(STRING)
        /\ c.RequestURIFunc \/ validBaseURL(c.RequestURIBase)
        /\ validBaseURL(c.UniversalLinkBase)
    BY <2>1, NewAdmits
  <2> DEFINE e == Resolved(c)
  <2>3. /\ e.RequestURIFunc = c.RequestURIFunc
        /\ e.UniversalLinkBase = c.UniversalLinkBase
        /\ e.RequestURIBase = trimSlash(c.RequestURIBase)
    BY <2>2, ResolvedFields
  <2>4. /\ invocation.link = Received(e.UniversalLinkBase, "?", InvocationParams)
        /\ invocation.resolves = (e.RequestURIFunc \/ Below(e.RequestURIBase))
    BY <2>1 DEF WalletInvocation
  <2> HIDE DEF e
  <2>5. c.UniversalLinkBase.query = "none" /\ c.UniversalLinkBase.fragment = "none"
    BY <2>2, URLFields DEF validBaseURL, NothingBare, Parts
  <2>6. CASE c.RequestURIFunc
    BY <2>3, <2>4, <2>5, <2>6 DEF Received
  <2>7. CASE ~c.RequestURIFunc
    <3>1. c.RequestURIBase.query = "none" /\ c.RequestURIBase.fragment = "none"
      BY <2>2, <2>7, URLFields DEF validBaseURL, NothingBare, Parts
    <3>2. Below(e.RequestURIBase)
      BY <2>2, <2>3, <2>7, <3>1, TrimSlashFacts DEF Below
    <3> QED
      BY <2>3, <2>4, <2>5, <3>2 DEF Received
  <2> QED
    BY <2>6, <2>7
<1> QED
  BY <1>1, ConstructionInvariant, PTL

\* For every return URI that validateSpec admits and that has no fragment,
\* RedirectURI brings the response_code back in the query.
THEOREM CodeReturnsHolds == Spec => []CodeReturns
<1>1. ConstructionInv => CodeReturns
  BY DEF ConstructionInv, RedirectInv, CodeReturns, Received, separator
<1> QED
  BY <1>1, ConstructionInvariant, PTL
=============================================================================
