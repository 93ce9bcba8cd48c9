----------------------------- MODULE Validation -----------------------------
(***************************************************************************)
(* The fail-closed gates in front of a session: New on a Config (engine.go) *)
(* and validateSpec on a RequestSpec (newsession.go), with the URLs that   *)
(* they admit and what becomes of those when the engine appends to them.   *)
(* A verdict is the error the code returns, in the order of its tests.     *)
(***************************************************************************)
EXTENDS Integers, Sequences

-----------------------------------------------------------------------------
(* URLs, by what url.Parse tells apart and what string concatenation sees. *)
(* A part is "bare" when its delimiter is there and nothing follows it:    *)
(* url.Parse then reports an empty RawQuery or Fragment.  The slashes are  *)
(* those at the end of the path.                                           *)

Parts == {"none", "bare", "some"}

URLs(Hosts) ==
    [ form     : {"empty", "unparsable", "other scheme", "https"},
      host     : Hosts \cup {""},
      path     : {"none", "plain"},
      slashes  : Nat,
      query    : Parts,
      fragment : Parts,
      user     : BOOLEAN ]

https(host) ==
    [ form |-> "https", host |-> host, path |-> "none", slashes |-> 0,
      query |-> "none", fragment |-> "none", user |-> FALSE ]

EmptyURL == [https("") EXCEPT !.form = "empty"]

validHTTPSURL(u) == u.form = "https" /\ u.host # ""

validBaseURL(u) ==
    validHTTPSURL(u) /\ u.query # "some" /\ u.fragment # "some"

\* Variant: the response endpoint may be on any host.
validResponseURIAnyHost(u, dns) == validHTTPSURL(u)

validResponseURI(u, dns) == validHTTPSURL(u) /\ u.host = dns

\* Variant: an origin only has to parse.
validOriginLax(u) == u.form # "unparsable"

validOrigin(u) ==
    /\ validHTTPSURL(u)
    /\ u.path = "none" /\ u.slashes = 0
    /\ u.query # "some" /\ u.fragment # "some" /\ ~u.user

\* The query parameters a server reads from u with sep and the encoded
\* parameters ps appended.  Behind a fragment nothing reaches the server; a
\* second "?" becomes part of the first parameter; "&" needs a query.
Received(u, sep, ps) ==
    IF u.fragment # "none" THEN <<>>
    ELSE IF sep = "?" THEN IF u.query = "none" THEN ps ELSE Tail(ps)
    ELSE IF u.query = "none" THEN <<>> ELSE ps

\* u + "/" + id names a resource below u, unless the id ends up behind a
\* delimiter or the slash is doubled.
Below(u) == u.query = "none" /\ u.fragment = "none" /\ u.slashes = 0

-----------------------------------------------------------------------------
(* New                                                                     *)

\* A non-empty list of algorithms that crypto.Policy allows all.
Allowed(list) == list # {} /\ list \subseteq {"allowed"}

AlgLists == {"SDJWTAlgValues", "KBJWTAlgValues",
             "MdocIssuerAuthAlgValues", "MdocDeviceAuthAlgValues"}

\* The signing key is available, an EC key, and the key of the leaf.
signingKeyOK(c) ==
    c.signingKey \notin {"unavailable", "not EC"} /\ c.signingKey = c.leafKey

\* The policy checks of New.
algorithmsOK(c) ==
    /\ c.curveAllowed /\ Allowed(c.EncValues)
    /\ \A l \in AlgLists : Allowed(c.VPFormats[l])

\* Config, with the leaf certificate of its WRPACChain and what its Keys and
\* crypto.Policy say of the signing key and the curve.
ConfigType ==
    [ Keys : BOOLEAN, SigningKeyID : BOOLEAN, WRPACChain : BOOLEAN,
      ClientDNSName : STRING, ClientIDPrefix : STRING, leafDNSNames : SUBSET STRING,
      signingKey : STRING, leafKey : STRING, curveAllowed : BOOLEAN,
      EncValues : SUBSET STRING, VPFormats : [AlgLists -> SUBSET STRING],
      RequestURIFunc : BOOLEAN, RequestURIBase : URLs(STRING),
      UniversalLinkBase : URLs(STRING), EnableTransactionData : BOOLEAN ]

NewError(c) ==
    IF ~c.Keys \/ ~c.SigningKeyID \/ ~c.WRPACChain \/ c.ClientDNSName = ""
        THEN "ErrConfig"
    ELSE IF c.ClientIDPrefix \notin {"", "x509_san_dns"}
        THEN "ErrUnsupportedClientIDPrefix"
    ELSE IF c.ClientDNSName \notin c.leafDNSNames THEN "ErrSANMismatch"
    ELSE IF ~signingKeyOK(c) \/ ~algorithmsOK(c) THEN "ErrConfig"
    ELSE IF ~c.RequestURIFunc /\ ~validBaseURL(c.RequestURIBase) THEN "ErrConfig"
    ELSE IF ~validBaseURL(c.UniversalLinkBase) THEN "ErrConfig"
    ELSE "nil"

\* Variant: RequestURIBase is used as configured.
trimSlashNot(u) == u

\* strings.TrimSuffix(cfg.RequestURIBase, "/"): one slash, and only at the
\* very end of the string, so not in front of a bare delimiter.
trimSlash(u) ==
    IF u.slashes > 0 /\ u.query = "none" /\ u.fragment = "none"
    THEN [u EXCEPT !.slashes = @ - 1] ELSE u

\* The Engine New returns.  Clock, random source, SessionTTL and
\* MaxResponseBody have defaults that no test here reads; that of SessionTTL is
\* why SessionRecord may assume a positive TTL.
Resolved(c) == [c EXCEPT !.RequestURIBase = trimSlash(@)]

-----------------------------------------------------------------------------
(* validateSpec                                                            *)

\* RequestSpec
SpecType ==
    [ Flow : STRING, Query : STRING, Registration : STRING, TransactionData : STRING,
      ResponseURI : URLs(STRING), ReturnURI : URLs(STRING),
      ExpectedOrigins : SUBSET URLs(STRING) ]

isZeroRegistration(reg) == reg = "zero"

transactionDataError(td, on) ==
    IF td = "none" THEN "nil"
    ELSE IF ~on THEN "ErrTransactionDataDisabled"
    ELSE IF td = "objects" THEN "nil" ELSE "ErrTransactionDataInvalid"

\* The flow switch for the two request_uri flows.
requestURIFlowOK(spec, dns) ==
    /\ validResponseURI(spec.ResponseURI, dns)
    /\ spec.ExpectedOrigins = {}
    /\ IF spec.Flow = "same-device" THEN validHTTPSURL(spec.ReturnURI)
                                    ELSE spec.ReturnURI = EmptyURL

dcapiFlowOK(spec) ==
    /\ spec.ResponseURI = EmptyURL /\ spec.ReturnURI = EmptyURL
    /\ spec.ExpectedOrigins # {}
    /\ \A o \in spec.ExpectedOrigins : validOrigin(o)

validateSpec(spec, c) ==
    IF isZeroRegistration(spec.Registration) THEN "ErrNoRegistration"
    ELSE IF spec.Query # "valid" THEN "ErrSpec"
    ELSE IF transactionDataError(spec.TransactionData, c.EnableTransactionData) # "nil"
        THEN transactionDataError(spec.TransactionData, c.EnableTransactionData)
    ELSE IF \/ /\ spec.Flow \in {"same-device", "cross-device"}
               /\ requestURIFlowOK(spec, c.ClientDNSName)
            \/ spec.Flow = "dcapi" /\ dcapiFlowOK(spec)
        THEN "nil" ELSE "ErrSpec"
=============================================================================
