--------------------------- MODULE OneTimeSession ---------------------------
(***************************************************************************)
(* What the library promises of a verification session, without store,     *)
(* copies, clock or wire: four things happen to it, each at most once and  *)
(* each by one request.  Its request object is served; one request claims  *)
(* it (ConsumeOnce); that same request may accept the wallet's response;   *)
(* and after that one request may redeem the response_code.                *)
(***************************************************************************)
CONSTANTS SessionIDs, Requests

VARIABLES served, claimed, accepted, redeemed   \* [SessionIDs -> SUBSET Requests]

vars == <<served, claimed, accepted, redeemed>>

Nobody == [id \in SessionIDs |-> {}]

Init ==
    /\ served = Nobody
    /\ claimed = Nobody
    /\ accepted = Nobody
    /\ redeemed = Nobody

\* RequestObjectJWT succeeds and its result is delivered.
Serve(id, r) ==
    /\ served[id] = {}
    /\ served' = [served EXCEPT ![id] = {r}]
    /\ UNCHANGED <<claimed, accepted, redeemed>>

\* ConsumeOnce hands the session out.
Claim(id, r) ==
    /\ claimed[id] = {}
    /\ claimed' = [claimed EXCEPT ![id] = {r}]
    /\ UNCHANGED <<served, accepted, redeemed>>

\* ProcessResponse or ProcessDCAPIResponse succeeds for the claimant.
Accept(id, r) ==
    /\ claimed[id] = {r}
    /\ accepted[id] = {}
    /\ accepted' = [accepted EXCEPT ![id] = {r}]
    /\ UNCHANGED <<served, claimed, redeemed>>

\* ConsumeResponseCode succeeds for some other request.
Redeem(id, r) ==
    /\ accepted[id] # {} /\ r \notin accepted[id]
    /\ redeemed[id] = {}
    /\ redeemed' = [redeemed EXCEPT ![id] = {r}]
    /\ UNCHANGED <<served, claimed, accepted>>

Next ==
    \E id \in SessionIDs, r \in Requests :
        Serve(id, r) \/ Claim(id, r) \/ Accept(id, r) \/ Redeem(id, r)

Spec == Init /\ [][Next]_vars
=============================================================================
