--------------------------- MODULE MCConstruction ---------------------------
(***************************************************************************)
(* Construction for TLC: configurations that differ in at most one field   *)
(* from that of client v, or from that of client w with a certificate of   *)
(* its own, and specs that differ in at most one from a working one of     *)
(* their flow.                                                             *)
(***************************************************************************)
EXTENDS Construction

\* All records that differ from one of S in at most one of the given fields.
Vary(S, alternatives) ==
    S \cup {[r EXCEPT ![a[1]] = a[2]] : r \in S, a \in alternatives}

Base == [https("v") EXCEPT !.path = "plain"]

OddURLs ==
    {EmptyURL, https(""), [Base EXCEPT !.form = "unparsable"],
     [Base EXCEPT !.form = "other scheme"], [Base EXCEPT !.slashes = 1],
     [Base EXCEPT !.slashes = 2], [Base EXCEPT !.slashes = 1, !.query = "bare"],
     [Base EXCEPT !.host = "w"], [Base EXCEPT !.user = TRUE]}
        \cup {[Base EXCEPT !.query = q, !.fragment = f] : q, f \in Parts}

GoodConfig ==
    [ Keys |-> TRUE, SigningKeyID |-> TRUE, WRPACChain |-> TRUE,
      ClientDNSName |-> "v", ClientIDPrefix |-> "", leafDNSNames |-> {"v", "x"},
      signingKey |-> "k1", leafKey |-> "k1", curveAllowed |-> TRUE,
      EncValues |-> {"allowed"}, VPFormats |-> [l \in AlgLists |-> {"allowed"}],
      RequestURIFunc |-> FALSE, RequestURIBase |-> Base, UniversalLinkBase |-> Base,
      EnableTransactionData |-> TRUE ]

OtherClient ==
    [GoodConfig EXCEPT !.ClientDNSName = "w", !.leafDNSNames = {"w"},
                       !.signingKey = "k2", !.leafKey = "k2"]

ConfigAlternatives ==
    {<<f, FALSE>> : f \in {"Keys", "SigningKeyID", "WRPACChain", "curveAllowed",
                           "EnableTransactionData"}}
    \cup {<<"RequestURIFunc", TRUE>>}
    \cup {<<"ClientDNSName", n>> : n \in {"", "w", "x"}}
    \cup {<<"ClientIDPrefix", p>> : p \in {"x509_san_dns", "verifier_attestation"}}
    \cup {<<"leafDNSNames", {"w"}>>}
    \cup {<<"signingKey", k>> : k \in {"unavailable", "not EC", "k2"}}
    \cup {<<"leafKey", k>> : k \in {"not EC", "k2"}}
    \cup {<<"EncValues", l>> : l \in {{}, {"banned"}, {"allowed", "banned"}}}
    \cup {<<"VPFormats", [GoodConfig.VPFormats EXCEPT ![f] = l]>> :
            f \in AlgLists, l \in {{}, {"allowed", "banned"}}}
    \cup {<<f, u>> : f \in {"RequestURIBase", "UniversalLinkBase"}, u \in OddURLs}

MCConfigs == Vary({GoodConfig, OtherClient}, ConfigAlternatives)

GoodSpec(flow, response, return, origins) ==
    [ Flow |-> flow, Query |-> "valid", Registration |-> "complete",
      TransactionData |-> "none", ResponseURI |-> response, ReturnURI |-> return,
      ExpectedOrigins |-> origins ]

SpecAlternatives ==
    {<<"Flow", f>> : f \in {"same-device", "cross-device", "dcapi", "unknown"}}
    \cup {<<"Query", q>> : q \in {"empty", "invalid"}}
    \cup {<<"Registration", r>> : r \in {"zero", "partial"}}
    \cup {<<"TransactionData", t>> : t \in {"objects", "junk"}}
    \cup {<<f, u>> : f \in {"ResponseURI", "ReturnURI"}, u \in OddURLs \cup {Base}}
    \cup {<<"ExpectedOrigins", {}>>}
    \cup {<<"ExpectedOrigins", {https("v"), [u EXCEPT !.path = p]}>> :
            u \in OddURLs, p \in {"none", "plain"}}

MCSpecs ==
    Vary({GoodSpec("same-device", Base, Base, {}),
          GoodSpec("cross-device", Base, EmptyURL, {}),
          GoodSpec("dcapi", EmptyURL, EmptyURL, {https("v")})}, SpecAlternatives)
=============================================================================
