-------------------------- MODULE RefinementProofs --------------------------
(***************************************************************************)
(* A serialised service implements OneTimeSession: every step of the       *)
(* service maps to a step of the one-time session or to a stutter.         *)
(***************************************************************************)
EXTENDS SingleUseProofs

\* No request changes its part of the history.
Quiet ==
    \A q \in Requests, id \in SessionIDs :
        /\ Winner(q, id)' <=> Winner(q, id)
        /\ \A o \in Ops : Delivered(q, o, id)' <=> Delivered(q, o, id)

\* A step without history maps to a stutter.
LEMMA QuietStutters ==
    ASSUME Quiet
    PROVE  UNCHANGED OneTime!vars
<1>1. ASSUME NEW id \in SessionIDs
      PROVE  /\ Served(id)' = Served(id) /\ Claimed(id)' = Claimed(id)
             /\ Accepted(id)' = Accepted(id) /\ Redeemed(id)' = Redeemed(id)
  BY DEF Quiet, Served, Claimed, Accepted, Redeemed, Ops, SavingOps, ConsumeOps
<1> QED
  BY <1>1 DEF OneTime!vars

\* A step in which request r makes exactly one delivery of operation o.
Delivers(r, o, id) ==
    /\ ~Delivered(r, o, id)
    /\ \A q \in Requests, i \in SessionIDs :
        /\ Winner(q, i)' <=> Winner(q, i)
        /\ \A x \in Ops : Delivered(q, x, i)' <=>
             (Delivered(q, x, i) \/ (q = r /\ x = o /\ i = id))

\* A step in which request r wins session id.
Wins(r, id) ==
    \A q \in Requests, i \in SessionIDs :
        /\ Winner(q, i)' <=> (Winner(q, i) \/ (q = r /\ i = id))
        /\ \A x \in Ops : Delivered(q, x, i)' <=> Delivered(q, x, i)

\* The only delivery of a request object maps to Serve.
LEMMA DeliversServe ==
    ASSUME NEW r \in Requests, NEW id \in SessionIDs, Delivers(r, "fetch", id),
           Served(id) = {}
    PROVE  OneTime!Next
<1>1. ASSUME NEW i \in SessionIDs
      PROVE  /\ Served(i)' = IF i = id THEN {r} ELSE Served(i)
             /\ Claimed(i)' = Claimed(i)
             /\ Accepted(i)' = Accepted(i) /\ Redeemed(i)' = Redeemed(i)
  BY DEF Delivers, Served, Claimed, Accepted, Redeemed, Ops, SavingOps, ConsumeOps
<1>2. OneTime!Serve(id, r)
  BY <1>1 DEF OneTime!Serve
<1> QED
  BY <1>2 DEF OneTime!Next

\* The only win of ConsumeOnce maps to Claim.
LEMMA WinsClaim ==
    ASSUME NEW r \in Requests, NEW id \in SessionIDs, Wins(r, id), Claimed(id) = {}
    PROVE  OneTime!Next
<1>1. ASSUME NEW i \in SessionIDs
      PROVE  /\ Claimed(i)' = IF i = id THEN {r} ELSE Claimed(i)
             /\ Served(i)' = Served(i)
             /\ Accepted(i)' = Accepted(i) /\ Redeemed(i)' = Redeemed(i)
  BY DEF Wins, Served, Claimed, Accepted, Redeemed, Ops, SavingOps, ConsumeOps
<1>2. OneTime!Claim(id, r)
  BY <1>1 DEF OneTime!Claim
<1> QED
  BY <1>2 DEF OneTime!Next

\* The winner's delivered response maps to Accept.
LEMMA DeliversAccept ==
    ASSUME NEW r \in Requests, NEW id \in SessionIDs, NEW o \in ConsumeOps,
           Delivers(r, o, id), Winner(r, id), pc[r] # "done", SingleConsumption
    PROVE  OneTime!Next
<1>1. Claimed(id) = {r}
  BY DEF SingleConsumption, Claimed
<1>2. Accepted(id) = {}
  <2>1. \A q \in Requests : q \in Accepted(id) => Winner(q, id) /\ pc[q] = "done"
    BY DEF Accepted, Delivered, Winner, StoreErrors
  <2> QED
    BY <1>1, <2>1 DEF Claimed, Accepted
<1>3. ASSUME NEW i \in SessionIDs
      PROVE  /\ Accepted(i)' = IF i = id THEN {r} ELSE Accepted(i)
             /\ Served(i)' = Served(i) /\ Claimed(i)' = Claimed(i)
             /\ Redeemed(i)' = Redeemed(i)
  <2>1. /\ Served(i)' = Served(i) /\ Claimed(i)' = Claimed(i)
        /\ Redeemed(i)' = Redeemed(i)
    <3>1. "fetch" \in Ops \ {o} /\ "redeem" \in Ops \ {o}
      BY DEF Ops, SavingOps, ConsumeOps
    <3>2. \A q \in Requests :
            /\ Delivered(q, "fetch", i)' <=> Delivered(q, "fetch", i)
            /\ Delivered(q, "redeem", i)' <=> Delivered(q, "redeem", i)
            /\ Winner(q, i)' <=> Winner(q, i)
      BY <3>1 DEF Delivers
    <3> QED
      BY <3>2 DEF Served, Claimed, Redeemed
  <2>2. \A q \in Requests : q \in Accepted(i)' <=>
            (q \in Accepted(i) \/ (q = r /\ i = id))
    <3>1. \A x \in ConsumeOps : x \in Ops
      BY DEF Ops
    <3>2. \A q \in Requests, x \in ConsumeOps :
            Delivered(q, x, i)' <=> (Delivered(q, x, i) \/ (q = r /\ x = o /\ i = id))
      BY <3>1 DEF Delivers
    <3>3. \A q \in Requests :
            /\ q \in Accepted(i)' <=> \E x \in ConsumeOps : Delivered(q, x, i)'
            /\ q \in Accepted(i) <=> \E x \in ConsumeOps : Delivered(q, x, i)
      BY DEF Accepted
    <3> QED
      BY <3>2, <3>3
  <2>3. Accepted(i) \subseteq Requests /\ Accepted(i)' \subseteq Requests
    BY DEF Accepted
  <2>4. Accepted(i)' = IF i = id THEN {r} ELSE Accepted(i)
    BY <1>2, <2>2, <2>3
  <2> QED
    BY <2>1, <2>4
<1>4. OneTime!Accept(id, r)
  BY <1>1, <1>2, <1>3 DEF OneTime!Accept
<1> QED
  BY <1>4 DEF OneTime!Next

\* The only redemption, after an accepted response, maps to Redeem.
LEMMA DeliversRedeem ==
    ASSUME NEW r \in Requests, NEW id \in SessionIDs, Delivers(r, "redeem", id),
           Redeemed(id) = {}, Accepted(id) # {}, r \notin Accepted(id)
    PROVE  OneTime!Next
<1>1. ASSUME NEW i \in SessionIDs
      PROVE  /\ Redeemed(i)' = IF i = id THEN {r} ELSE Redeemed(i)
             /\ Served(i)' = Served(i) /\ Claimed(i)' = Claimed(i)
             /\ Accepted(i)' = Accepted(i)
  <2>1. /\ Redeemed(i)' = IF i = id THEN {r} ELSE Redeemed(i)
        /\ Served(i)' = Served(i) /\ Claimed(i)' = Claimed(i)
    BY DEF Delivers, Served, Claimed, Redeemed, Ops, SavingOps, ConsumeOps
  <2>2. Accepted(i)' = Accepted(i)
    BY DEF Delivers, Accepted, Ops, SavingOps, ConsumeOps
  <2> QED
    BY <2>1, <2>2
<1>2. OneTime!Redeem(id, r)
  BY <1>1 DEF OneTime!Redeem
<1> QED
  BY <1>2 DEF OneTime!Next

\* A delivery of an operation that OneTimeSession does not speak of.
LEMMA DeliversOther ==
    ASSUME NEW r \in Requests, NEW id \in SessionIDs,
           NEW o \in {"metadata", "dcapi request", "dcapi unsigned"},
           Delivers(r, o, id)
    PROVE  UNCHANGED OneTime!vars
<1>1. ASSUME NEW i \in SessionIDs
      PROVE  /\ Served(i)' = Served(i) /\ Claimed(i)' = Claimed(i)
             /\ Accepted(i)' = Accepted(i) /\ Redeemed(i)' = Redeemed(i)
  <2>1. Served(i)' = Served(i) /\ Claimed(i)' = Claimed(i) /\ Redeemed(i)' = Redeemed(i)
    <3>1. "fetch" \in Ops \ {o} /\ "redeem" \in Ops \ {o}
      BY DEF Ops, SavingOps
    <3>2. \A q \in Requests :
            /\ Delivered(q, "fetch", i)' <=> Delivered(q, "fetch", i)
            /\ Delivered(q, "redeem", i)' <=> Delivered(q, "redeem", i)
            /\ Winner(q, i)' <=> Winner(q, i)
      BY <3>1 DEF Delivers
    <3> QED
      BY <3>2 DEF Served, Claimed, Redeemed
  <2>2. Accepted(i)' = Accepted(i)
    BY DEF Delivers, Accepted, Ops, SavingOps, ConsumeOps
  <2> QED
    BY <2>1, <2>2
<1> QED
  BY <1>1 DEF OneTime!vars

\* Initial states map to initial states.
LEMMA RefinementInit == Init => OneTime!Init
  BY DEF Init, OneTime!Init, OneTime!Nobody, Served, Claimed, Accepted, Redeemed,
         Delivered, Winner

\* Every step maps to a step of the one-time session or to a stutter.
LEMMA RefinementStep ==
    ASSUME BaseInv, MarkersInv, OnceInv, [Next]_vars
    PROVE  [OneTime!Next]_OneTime!vars
<1> USE DEF BaseInv
<1>1. ASSUME NEW r \in Requests, NEW o \in Ops, NEW id \in SessionIDs, Open(r, o, id)
      PROVE  [OneTime!Next]_OneTime!vars
  <2>1. /\ op' = [op EXCEPT ![r] = o]
        /\ sid' = [sid EXCEPT ![r] = id]
        /\ pc[r] = "idle"
        /\ \A q \in Requests : q # r => pc'[q] = pc[q] /\ result'[q] = result[q]
    BY <1>1 DEF Open, TypeOK
  <2>2. CASE pc'[r] = "held" /\ result'[r] = "none" /\ o \in ConsumeOps
    <3>1. Wins(r, id)
      BY <2>1, <2>2 DEF Wins, Winner, Delivered, StoreErrors, TypeOK
    <3>2. Claimed(id) = {}
      BY <1>1, <2>2, OpenConsume DEF OnceInv, AllRecorded, Recorded
    <3> QED
      BY <3>1, <3>2, WinsClaim
  <2>3. CASE pc'[r] = "held" /\ result'[r] = "none" /\ o \notin ConsumeOps
    <3>1. Quiet
      BY <2>1, <2>3 DEF Quiet, Winner, Delivered, TypeOK
    <3> QED
      BY <3>1, QuietStutters
  <2>4. CASE pc'[r] = "done" /\ result'[r] \in StoreErrors
    <3>1. Quiet
      BY <2>1, <2>4 DEF Quiet, Winner, Delivered, StoreErrors, TypeOK
    <3> QED
      BY <3>1, QuietStutters
  <2>5. \/ pc'[r] = "held" /\ result'[r] = "none"
        \/ pc'[r] = "done" /\ result'[r] \in StoreErrors
    BY <1>1, OpenOutcome DEF TypeOK, Refused
  <2> QED
    BY <2>2, <2>3, <2>4, <2>5
<1>2. ASSUME NEW r \in Requests, EngineCall(r) PROVE [OneTime!Next]_OneTime!vars
  <2>1. PICK ret, in : CallReturns(r, ret, in) /\ Outcome(copy[r], ret)
    BY <1>2, EngineCallOutcome
  <2>2. /\ pc[r] = "held" /\ result[r] = "none" /\ Active(r)
        /\ sid[r] \in SessionIDs /\ op[r] \in Ops
    BY <1>2, EngineCallOutcome DEF PhaseInv, IdentityInv, Active
  <2>3. /\ op' = op /\ sid' = sid /\ result'[r] = ret.err
        /\ ret.err \notin StoreErrors
        /\ pc'[r] = IF ret.err = "nil" /\ op[r] \in SavingOps THEN "saving" ELSE "done"
        /\ \A q \in Requests : q # r => pc'[q] = pc[q] /\ result'[q] = result[q]
    BY <2>1 DEF CallReturns, Outcome, StoreErrors, TypeOK
  <2>4. CASE ret.err = "nil" /\ op[r] \notin SavingOps
    <3>1. Delivers(r, op[r], sid[r])
      BY <2>2, <2>3, <2>4 DEF Delivers, Delivered, Winner, StoreErrors
    <3>2. CASE op[r] = "dcapi respond"
      <4>1. Winner(r, sid[r]) /\ pc[r] # "done" /\ op[r] \in ConsumeOps
        BY <2>2, <3>2 DEF Winner, StoreErrors, ConsumeOps
      <4> QED
        BY <2>2, <3>1, <4>1, DeliversAccept DEF OnceInv
    <3>3. CASE op[r] \in {"dcapi request", "dcapi unsigned"}
      BY <2>2, <3>1, <3>3, DeliversOther
    <3> QED
      BY <2>2, <2>4, <3>2, <3>3 DEF Ops, ConsumeOps, SavingOps
  <2>5. CASE ~(ret.err = "nil" /\ op[r] \notin SavingOps)
    <3>1. Quiet
      BY <2>2, <2>3, <2>5 DEF Quiet, Delivered, Winner, StoreErrors
    <3> QED
      BY <3>1, QuietStutters
  <2> QED
    BY <2>4, <2>5
<1>3. ASSUME NEW r \in Requests, SaveCopy(r) PROVE [OneTime!Next]_OneTime!vars
  <2> DEFINE id == sid[r]
  <2>1. /\ pc[r] = "saving" /\ result[r] = "nil" /\ Active(r)
        /\ id \in SessionIDs /\ op[r] \in SavingOps
    BY <1>3 DEF SaveCopy, PhaseInv, IdentityInv, Active
  <2>2. Delivers(r, op[r], id)
    BY <1>3, <2>1 DEF SaveCopy, Delivers, Delivered, Winner, TypeOK
  <2>3. sessions[id] # NoSession /\ FreshCopy(r)
    BY <2>1 DEF OnceInv, FreshCopies, FreshCopy, Fresh
  <2>4. CASE op[r] = "fetch"
    <3>1. ~sessions[id].served
      BY <2>1, <2>3, <2>4 DEF FreshCopy, Fresh
    <3>2. Served(id) = {}
      BY <2>1, <2>3, <3>1 DEF OnceInv, AllRecorded, Recorded
    <3> QED
      BY <2>1, <2>2, <2>4, <3>2, DeliversServe
  <2>5. CASE op[r] = "metadata"
    BY <2>1, <2>2, <2>5, DeliversOther
  <2>6. CASE op[r] = "respond"
    <3>1. Winner(r, id) /\ pc[r] # "done" /\ op[r] \in ConsumeOps
      BY <2>1, <2>6 DEF Winner, StoreErrors, ConsumeOps
    <3> QED
      BY <2>1, <2>2, <3>1, DeliversAccept DEF OnceInv
  <2>7. CASE op[r] = "redeem"
    <3>1. ~sessions[id].codeUsed
      BY <2>1, <2>3, <2>7 DEF FreshCopy, Fresh
    <3>2. Redeemed(id) = {}
      BY <2>1, <2>3, <3>1 DEF OnceInv, AllRecorded, Recorded
    <3>3. input[r] \in Requests /\ Delivered(input[r], "respond", id)
      BY <2>1, <2>7 DEF MarkersInv, SavingOwnCode
    <3>4. Accepted(id) # {} /\ r \notin Accepted(id)
      BY <2>1, <3>3 DEF Accepted, Delivered, ConsumeOps
    <3> QED
      BY <2>1, <2>2, <2>7, <3>2, <3>4, DeliversRedeem
  <2> QED
    BY <2>1, <2>4, <2>5, <2>6, <2>7 DEF SavingOps
<1>4. ASSUME NEW r \in Requests, Crash(r) PROVE [OneTime!Next]_OneTime!vars
  <2>1. Quiet
    BY <1>4 DEF Quiet, Crash, Active, Winner, Delivered, TypeOK
  <2> QED
    BY <2>1, QuietStutters
<1>5. CASE Tick \/ UNCHANGED vars \/ \E id \in SessionIDs : CreateSession(id)
  <2>1. Quiet
    BY <1>5 DEF Quiet, Tick, vars, CreateSession, requestVars, Winner, Delivered
  <2> QED
    BY <2>1, QuietStutters
<1> QED
  BY <1>1, <1>2, <1>3, <1>4, <1>5 DEF Next

\* A service that serialises the requests of a session implements the
\* one-time session.
THEOREM ImplementsOneTimeSessionHolds ==
    ASSUME Serialized
    PROVE  Spec => ImplementsOneTimeSession
<1>1. BaseInv /\ MarkersInv /\ OnceInv /\ [Next]_vars => [OneTime!Next]_OneTime!vars
  BY RefinementStep
<1>2. Spec => OneTime!Init /\ [][OneTime!Next]_OneTime!vars
  BY BaseInvariant, MarkersInvariant, OnceInvariant, RefinementInit, <1>1, PTL DEF Spec
<1> QED
  BY <1>2 DEF ImplementsOneTimeSession, OneTime!Spec
=============================================================================
