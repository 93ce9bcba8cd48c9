--------------------------- MODULE MCPresentations ---------------------------
(* Presentations for TLC: three keys, and one value of each kind.          *)
EXTENDS Presentations

MCValues ==
    [ array : {TRUE},
      entries : {<<>>, <<"base64url">>, <<"base64url", "text">>, <<"base64url", "">>} ]
    \cup [ array : {FALSE}, entries : {<<>>} ]

MCResponseURIs == {https("v"), EmptyURL}

MCOrigins == {https("v"), EmptyURL, [https("v") EXCEPT !.slashes = 1]}
=============================================================================
