--------------------------- MODULE SingleUseProofs ---------------------------
(***************************************************************************)
(* Markers, response codes and single use.  The first part holds for every *)
(* interleaving; the second for services that handle the requests of one   *)
(* session one at a time.                                                  *)
(***************************************************************************)
EXTENDS VerifierServiceProofs

\* The markers in the copy of an active request are those of delivered
\* requests, or the one that it is about to save itself.
CopyTruthful(r) ==
    LET s == copy[r]
        id == sid[r]
    IN /\ s.served => Served(id) # {} \/ (pc[r] = "saving" /\ op[r] = "fetch")
       /\ s.consumed => Claimed(id) # {}
       /\ s.code # NoCode =>
            /\ s.flow = "same-device"
            /\ \/ Delivered(s.code, "respond", id)
               \/ pc[r] = "saving" /\ op[r] = "respond" /\ s.code = r
       /\ s.codeUsed =>
            \/ \E q \in Redeemed(id) : input[q] = s.code
            \/ pc[r] = "saving" /\ op[r] = "redeem" /\ input[r] = s.code

CopiesTruthful == \A r \in Requests : Active(r) => CopyTruthful(r)

\* A redemption that is being saved presented a delivered code.
SavingOwnCode ==
    \A r \in Requests : pc[r] = "saving" /\ op[r] = "redeem" =>
        input[r] \in Requests /\ Delivered(input[r], "respond", sid[r])

\* The inductive invariant behind truthful markers and bound codes.
MarkersInv == MarkersTruthful /\ CopiesTruthful /\ RedeemedOwnCode /\ SavingOwnCode

\* What was delivered stays delivered with its input, and a claim stays a
\* claim: no step touches a finished request or returns a store error late.
LEMMA Persistence ==
    ASSUME BaseInv, [Next]_vars, NEW q \in Requests, NEW id \in SessionIDs
    PROVE  /\ \A o \in Ops : Delivered(q, o, id) => Delivered(q, o, id)'
           /\ pc[q] = "done" => input'[q] = input[q]
           /\ Winner(q, id) => Winner(q, id)'
<1> USE DEF BaseInv
<1>1. ASSUME NEW r \in Requests, NEW o \in Ops, NEW i \in SessionIDs, Open(r, o, i)
      PROVE  /\ pc[q] # "idle" => /\ pc'[q] = pc[q] /\ op'[q] = op[q]
                                  /\ sid'[q] = sid[q] /\ result'[q] = result[q]
             /\ input' = input
  BY <1>1 DEF Open, TypeOK
<1>2. ASSUME NEW r \in Requests, EngineCall(r)
      PROVE  /\ op' = op /\ sid' = sid
             /\ pc[q] # "held" => /\ pc'[q] = pc[q] /\ result'[q] = result[q]
                                  /\ input'[q] = input[q]
             /\ pc[q] = "held" => pc'[q] # "idle"
             /\ result'[q] = result[q] \/ result'[q] \notin StoreErrors
  <2>1. PICK ret, in : CallReturns(r, ret, in) /\ Outcome(copy[r], ret)
    BY <1>2, EngineCallOutcome
  <2>2. pc[r] = "held"
    BY <1>2, EngineCallOutcome
  <2>3. ret.err \notin StoreErrors
    BY <2>1 DEF Outcome, StoreErrors
  <2> QED
    BY <2>1, <2>2, <2>3 DEF CallReturns, TypeOK
<1>3. CASE \E r \in Requests : EngineCall(r)
  BY <1>2, <1>3 DEF Delivered, Winner
<1>4. CASE \E r \in Requests, o \in Ops, i \in SessionIDs : Open(r, o, i)
  BY <1>1, <1>4 DEF Delivered, Winner
<1>5. CASE \E i \in SessionIDs : CreateSession(i)
  BY <1>5 DEF CreateSession, requestVars, Delivered, Winner
<1>6. CASE \E r \in Requests : SaveCopy(r) \/ Crash(r)
  BY <1>6 DEF SaveCopy, Crash, Active, TypeOK, Delivered, Winner
<1>7. CASE Tick \/ UNCHANGED vars
  BY <1>7 DEF Tick, vars, requestVars, Delivered, Winner
<1> QED
  BY <1>3, <1>4, <1>5, <1>6, <1>7 DEF Next

\* The history of a session only grows.
LEMMA HistoryGrows ==
    ASSUME BaseInv, [Next]_vars, NEW id \in SessionIDs
    PROVE  /\ Served(id) \subseteq Served(id)'
           /\ Claimed(id) \subseteq Claimed(id)'
           /\ Redeemed(id) \subseteq Redeemed(id)'
           /\ \A q \in Redeemed(id) : input'[q] = input[q]
  BY Persistence DEF Served, Claimed, Redeemed, Delivered, Ops, SavingOps

\* Nothing is marked in the beginning.
LEMMA MarkersInit == Init => MarkersInv
  BY DEF Init, StoreInit, MarkersInv, MarkersTruthful, CopiesTruthful,
         RedeemedOwnCode, SavingOwnCode, Active, Redeemed, Delivered

\* A step that leaves the store, the copies of running requests and the
\* requests that are saving alone leaves the markers truthful.
LEMMA MarkersQuietStep ==
    ASSUME BaseInv, MarkersInv, [Next]_vars,
           \A id \in SessionIDs : sessions'[id] \in {sessions[id], NoSession},
           \A r \in Requests : Active(r)' =>
                /\ Active(r) /\ pc'[r] = pc[r] /\ copy'[r] = copy[r]
                /\ sid'[r] = sid[r] /\ op'[r] = op[r] /\ input'[r] = input[r],
           \A r \in Requests, id \in SessionIDs :
                Delivered(r, "redeem", id)' => Delivered(r, "redeem", id)
    PROVE  MarkersInv'
<1> USE DEF MarkersInv
<1>1. \A id \in SessionIDs :
        /\ Served(id) # {} => Served(id)' # {}
        /\ Claimed(id) # {} => Claimed(id)' # {}
        /\ \A q \in Redeemed(id) : q \in Redeemed(id)' /\ input'[q] = input[q]
        /\ \A q \in Requests :
             Delivered(q, "respond", id) => Delivered(q, "respond", id)'
  BY HistoryGrows, Persistence DEF Ops, SavingOps
<1>2. \A id \in SessionIDs : sessions[id] # NoSession /\ sessions[id].code # NoCode
        => sessions[id].code \in Requests
  BY DEF BaseInv, TypeOK, StoreTypeOK, Session, Codes
<1>3. \A r \in Requests : Active(r) =>
        /\ copy[r].code # NoCode => copy[r].code \in Requests
        /\ sid[r] \in SessionIDs
  BY DEF BaseInv, TypeOK, IdentityInv, Session, Codes
<1>4. MarkersTruthful'
  BY <1>1, <1>2 DEF MarkersTruthful, Delivered
<1>5. CopiesTruthful'
  BY <1>1, <1>3 DEF CopiesTruthful, CopyTruthful, Delivered
<1>6. RedeemedOwnCode'
  BY <1>1 DEF RedeemedOwnCode, Redeemed, Delivered
<1>7. SavingOwnCode'
  BY <1>1, <1>3 DEF SavingOwnCode, Active, Delivered
<1> QED
  BY <1>4, <1>5, <1>6, <1>7

\* Every step keeps the markers of the store and of the copies truthful.
LEMMA MarkersStep == BaseInv /\ MarkersInv /\ [Next]_vars => MarkersInv'
<1> SUFFICES ASSUME BaseInv, MarkersInv, [Next]_vars PROVE MarkersInv'
  OBVIOUS
<1> USE DEF MarkersInv
<1>1. \A id \in SessionIDs :
        /\ Served(id) # {} => Served(id)' # {}
        /\ Claimed(id) # {} => Claimed(id)' # {}
        /\ \A q \in Redeemed(id) : q \in Redeemed(id)' /\ input'[q] = input[q]
        /\ \A q \in Requests :
             Delivered(q, "respond", id) => Delivered(q, "respond", id)'
  BY HistoryGrows, Persistence DEF Ops, SavingOps
<1>2. \A id \in SessionIDs : sessions[id] # NoSession =>
        /\ sessions[id] \in Session
        /\ sessions[id].code # NoCode => sessions[id].code \in Requests
  BY DEF BaseInv, TypeOK, StoreTypeOK, Session, Codes
<1>3. \A r \in Requests : Active(r) =>
        /\ copy[r] \in Session
        /\ copy[r].code # NoCode => copy[r].code \in Requests
        /\ sid[r] \in SessionIDs
        /\ copy[r].id = sid[r]
  BY SessionNotNil DEF BaseInv, TypeOK, IdentityInv, Session, Codes, Identity
<1>4. ASSUME NEW id \in SessionIDs, CreateSession(id) PROVE MarkersInv'
  <2>1. PICK flow \in Flows, origins \in SUBSET Origins, reg \in Registrations,
             t \in Readings :
            sessions' = Save(NewSession(id, flow, origins, reg, t))
    BY <1>4 DEF CreateSession
  <2> DEFINE s == NewSession(id, flow, origins, reg, t)
  <2>2. /\ s.id = id /\ ~s.served /\ ~s.consumed /\ s.code = NoCode /\ ~s.codeUsed
    BY DEF NewSession
  <2>3. sessions' = [sessions EXCEPT ![id] = s]
    BY <2>1, <2>2 DEF Save
  <2> HIDE DEF s
  <2>4. MarkersTruthful'
    BY <1>1, <1>2, <2>2, <2>3
    DEF MarkersTruthful, Delivered, BaseInv, TypeOK, StoreTypeOK
  <2>5. CopiesTruthful' /\ RedeemedOwnCode' /\ SavingOwnCode'
    BY <1>4 DEF CreateSession, requestVars, CopiesTruthful, CopyTruthful, Active,
                RedeemedOwnCode, SavingOwnCode, Delivered, Redeemed, Served,
                Claimed, Winner
  <2> QED
    BY <2>4, <2>5
<1>5. ASSUME NEW r \in Requests, NEW o \in Ops, NEW id \in SessionIDs, Open(r, o, id)
      PROVE  MarkersInv'
  <2>1. /\ input' = input
        /\ op' = [op EXCEPT ![r] = o]
        /\ sid' = [sid EXCEPT ![r] = id]
        /\ pc[r] = "idle"
    BY <1>5 DEF Open
  <2>2. CASE /\ \E s : /\ Granted(o, id, s, sessions')
                       /\ copy' = [copy EXCEPT ![r] = s]
             /\ pc' = [pc EXCEPT ![r] = "held"]
             /\ result' = [result EXCEPT ![r] = "none"]
    <3>1. PICK s : /\ Granted(o, id, s, sessions')
                   /\ copy' = [copy EXCEPT ![r] = s]
      BY <2>2
    <3>2. /\ sessions' = [sessions EXCEPT ![id] = s]
          /\ sessions[id] # NoSession
          /\ s.served = sessions[id].served
          /\ s.code = sessions[id].code
          /\ s.flow = sessions[id].flow
          /\ s.codeUsed = sessions[id].codeUsed
          /\ s.consumed => sessions[id].consumed \/ o \in ConsumeOps
      BY <1>2, <3>1 DEF Granted, Session
    <3>3. o \in ConsumeOps => Claimed(id)' # {}
      <4>1. o \in ConsumeOps => Winner(r, id)'
        BY <2>1, <2>2 DEF Winner, StoreErrors, BaseInv, TypeOK
      <4> QED
        BY <4>1 DEF Claimed
    <3>4. MarkersTruthful'
      BY <1>1, <1>2, <3>2, <3>3
      DEF MarkersTruthful, Delivered, BaseInv, TypeOK, StoreTypeOK
    <3>5. CopiesTruthful'
      <4>1. ASSUME NEW q \in Requests, Active(q)' PROVE CopyTruthful(q)'
        <5>1. CASE q = r
          BY <1>1, <1>2, <2>1, <2>2, <3>1, <3>2, <3>3, <5>1
          DEF MarkersTruthful, CopyTruthful, Delivered, BaseInv, TypeOK
        <5>2. CASE q # r
          BY <1>1, <1>3, <2>1, <2>2, <3>1, <4>1, <5>2
          DEF CopiesTruthful, CopyTruthful, Active, Delivered, BaseInv, TypeOK
        <5> QED
          BY <5>1, <5>2
      <4> QED
        BY <4>1 DEF CopiesTruthful
    <3>6. RedeemedOwnCode' /\ SavingOwnCode'
      BY <1>1, <1>3, <2>1, <2>2
      DEF RedeemedOwnCode, SavingOwnCode, Redeemed, Delivered, Active, BaseInv, TypeOK
    <3> QED
      BY <3>4, <3>5, <3>6
  <2>3. CASE /\ copy' = [copy EXCEPT ![r] = NoSession]
             /\ pc' = [pc EXCEPT ![r] = "done"]
             /\ \E err : /\ Refused(id, err, sessions')
                         /\ result' = [result EXCEPT ![r] = err]
    <3>1. \A i \in SessionIDs : sessions'[i] \in {sessions[i], NoSession}
      BY <2>3 DEF Refused, BaseInv, TypeOK, StoreTypeOK
    <3>2. result'[r] # "nil"
      BY <2>3 DEF Refused, StoreErrors, BaseInv, TypeOK
    <3> QED
      BY <2>1, <2>3, <3>1, <3>2, MarkersQuietStep
      DEF Active, Delivered, BaseInv, TypeOK
  <2> QED
    BY <1>5, <2>2, <2>3, OpenOutcome DEF BaseInv, TypeOK
<1>6. ASSUME NEW r \in Requests, EngineCall(r) PROVE MarkersInv'
  <2>1. PICK ret, in :
            /\ CallReturns(r, ret, in)
            /\ ret.err = "nil" => Effect(r, op[r], copy[r], ret, in)
    BY <1>6, EngineCallOutcome DEF BaseInv
  <2>2. pc[r] = "held" /\ Active(r)
    BY <1>6, EngineCallOutcome DEF BaseInv, Active
  <2>3. sessions' = sessions /\ op' = op /\ sid' = sid
    BY <2>1 DEF CallReturns
  <2>4. \A q \in Requests : q # r =>
            pc'[q] = pc[q] /\ copy'[q] = copy[q] /\ result'[q] = result[q] /\ input'[q] = input[q]
    BY <2>1 DEF CallReturns, BaseInv, TypeOK
  <2>5. CASE ret.err = "nil" /\ op[r] \in SavingOps
    <3>1. pc'[r] = "saving" /\ copy'[r] = ret.s /\ input'[r] = in
      BY <2>1, <2>5 DEF CallReturns, BaseInv, TypeOK
    <3>2. MarkersTruthful'
      BY <1>1, <1>2, <2>3 DEF MarkersTruthful, Delivered
    <3>3. CopyTruthful(r)
      BY <2>2 DEF CopiesTruthful
    <3>4. CopyTruthful(r)'
      <4>1. Effect(r, op[r], copy[r], ret, in)
        BY <2>1, <2>5
      <4>2. CASE op[r] = "fetch"
        BY <1>1, <1>3, <2>2, <2>3, <3>1, <3>3, <4>1, <4>2
        DEF Effect, CopyTruthful, Delivered, Session
      <4>3. CASE op[r] = "metadata"
        BY <1>1, <1>3, <2>2, <2>3, <3>1, <3>3, <4>1, <4>3
        DEF Effect, CopyTruthful, Delivered, Session
      <4>4. CASE op[r] = "respond"
        <5>1. RespondEffect(r, copy[r], in, ret.s) /\ copy[r] \in Session
          BY <1>3, <2>2, <4>1, <4>4 DEF Effect
        <5>2. CASE copy[r].flow = "same-device"
          <6>1. ret.s = [copy[r] EXCEPT !.code = r, !.codeUsed = FALSE]
            BY <5>1, <5>2 DEF RespondEffect
          <6>2. /\ ret.s.served = copy[r].served
                /\ ret.s.consumed = copy[r].consumed
                /\ ret.s.flow = "same-device"
                /\ ret.s.code = r
                /\ ret.s.codeUsed = FALSE
            BY <5>1, <5>2, <6>1 DEF Session
          <6> QED
            BY <1>1, <1>3, <2>2, <2>3, <3>1, <3>3, <4>4, <6>2
            DEF CopyTruthful
        <5>3. CASE copy[r].flow # "same-device"
          <6>1. ret.s = copy[r]
            BY <5>1, <5>3 DEF RespondEffect
          <6> QED
            BY <1>1, <1>3, <2>2, <2>3, <3>1, <3>3, <4>4, <5>3, <6>1
            DEF CopyTruthful
        <5> QED
          BY <5>2, <5>3
      <4>5. CASE op[r] = "redeem"
        BY <1>1, <1>3, <2>2, <2>3, <3>1, <3>3, <4>1, <4>5
        DEF Effect, CopyTruthful, Delivered, Session
      <4> QED
        BY <2>5, <4>2, <4>3, <4>4, <4>5 DEF SavingOps
    <3>5. ASSUME NEW q \in Requests, q # r, Active(q)' PROVE CopyTruthful(q)'
      BY <1>1, <1>3, <2>3, <2>4, <3>5 DEF CopiesTruthful, CopyTruthful, Active, Delivered
    <3>6. RedeemedOwnCode'
      BY <1>1, <2>3, <2>4, <3>1 DEF RedeemedOwnCode, Redeemed, Delivered
    <3>7. SavingOwnCode'
      <4>1. ASSUME op[r] = "redeem"
            PROVE  in \in Requests /\ Delivered(in, "respond", sid[r])
        <5>1. copy[r].code # NoCode /\ copy[r].code = in
          BY <2>1, <2>5, <4>1 DEF Effect
        <5> QED
          BY <1>3, <2>2, <3>3, <5>1 DEF CopyTruthful
      <4> QED
        BY <1>1, <1>3, <2>2, <2>3, <2>4, <3>1, <4>1 DEF SavingOwnCode, Active, Delivered
    <3> QED
      BY <3>2, <3>4, <3>5, <3>6, <3>7 DEF CopiesTruthful
  <2>6. CASE ~(ret.err = "nil" /\ op[r] \in SavingOps)
    <3>1. pc'[r] = "done" /\ result'[r] = ret.err
      BY <2>1, <2>6 DEF CallReturns, BaseInv, TypeOK
    <3> QED
      BY <2>3, <2>4, <2>6, <3>1, MarkersQuietStep DEF Active, Delivered, SavingOps
  <2> QED
    BY <2>5, <2>6
<1>7. ASSUME NEW r \in Requests, SaveCopy(r) PROVE MarkersInv'
  <2> DEFINE id == sid[r]
  <2>1. /\ pc[r] = "saving" /\ Active(r)
        /\ id \in SessionIDs
        /\ sessions' = [sessions EXCEPT ![id] = copy[r]]
        /\ op' = op /\ sid' = sid /\ input' = input /\ result' = result
        /\ result[r] = "nil"
        /\ pc' = [pc EXCEPT ![r] = "done"]
        /\ copy' = [copy EXCEPT ![r] = NoSession]
    BY <1>3, <1>7 DEF SaveCopy, Save, Active, BaseInv, PhaseInv
  <2>2. CopyTruthful(r) /\ copy[r] # NoSession
    BY <1>3, <2>1, SessionNotNil DEF CopiesTruthful
  <2>3. Delivered(r, op[r], id)'
    BY <2>1 DEF Delivered, BaseInv, TypeOK
  <2>4. MarkersTruthful'
    <3>1. ASSUME NEW i \in SessionIDs, i # id PROVE sessions'[i] = sessions[i]
      BY <2>1, <3>1 DEF BaseInv, TypeOK, StoreTypeOK
    <3>2. sessions'[id] = copy[r]
      BY <2>1 DEF BaseInv, TypeOK, StoreTypeOK
    <3>3. /\ op[r] = "fetch" => Served(id)' # {}
          /\ op[r] = "redeem" => r \in Redeemed(id)'
      BY <2>1, <2>3 DEF Served, Redeemed, Delivered
    <3>4. ASSUME NEW i \in SessionIDs, sessions'[i] # NoSession
          PROVE  LET s == sessions'[i]
                 IN /\ s.served => Served(i)' # {}
                    /\ s.consumed => Claimed(i)' # {}
                    /\ s.code # NoCode => /\ s.flow = "same-device"
                                          /\ s.code \in Requests
                                          /\ pc'[s.code] = "done"
                                          /\ op'[s.code] = "respond"
                                          /\ sid'[s.code] = i
                                          /\ result'[s.code] = "nil"
                    /\ s.codeUsed => \E q \in Redeemed(i)' : input'[q] = s.code
      <4>1. CASE i = id
        BY <1>1, <1>3, <2>1, <2>2, <2>3, <3>2, <3>3, <4>1 DEF CopyTruthful, Delivered
      <4>2. CASE i # id
        BY <1>1, <1>2, <3>1, <3>4, <4>2 DEF MarkersTruthful, Delivered
      <4> QED
        BY <4>1, <4>2
    <3> QED
      BY <3>4 DEF MarkersTruthful, Delivered
  <2>5. CopiesTruthful'
    BY <1>1, <1>3, <2>1 DEF CopiesTruthful, CopyTruthful, Active, Delivered, BaseInv, TypeOK
  <2>6. RedeemedOwnCode'
    BY <1>1, <2>1 DEF RedeemedOwnCode, SavingOwnCode, Redeemed, Delivered, BaseInv, TypeOK
  <2>7. SavingOwnCode'
    BY <1>1, <1>3, <2>1 DEF SavingOwnCode, Active, Delivered, BaseInv, TypeOK
  <2> QED
    BY <2>4, <2>5, <2>6, <2>7
<1>8. ASSUME NEW r \in Requests, Crash(r) PROVE MarkersInv'
  BY <1>8, MarkersQuietStep DEF Crash, Active, Delivered, BaseInv, TypeOK
<1>9. CASE Tick \/ UNCHANGED vars
  BY <1>9, MarkersQuietStep DEF Tick, vars, requestVars, Active, Delivered
<1> QED
  BY <1>4, <1>5, <1>6, <1>7, <1>8, <1>9 DEF Next

\* Markers and codes are truthful in every reachable state.
THEOREM MarkersInvariant == Spec => []MarkersInv
  BY BaseInvariant, MarkersInit, MarkersStep, PTL DEF Spec

\* No interleaving of stale saves puts a marker into the store that no
\* delivered request set.
THEOREM MarkersCorrect == Spec => []MarkersTruthful
<1>1. MarkersInv => MarkersTruthful
  BY DEF MarkersInv
<1> QED
  BY MarkersInvariant, <1>1, PTL

\* Session fixation: under every interleaving a redeemed code is one that
\* was minted for, and sent by, the same session.
THEOREM CodesCorrect == Spec => []RedeemedOwnCode
<1>1. MarkersInv => RedeemedOwnCode
  BY DEF MarkersInv
<1> QED
  BY MarkersInvariant, <1>1, PTL

-----------------------------------------------------------------------------
(* Serialised services.                                                    *)

\* At most one request of a session is in progress.
Exclusive ==
    \A q, r \in Requests : Active(q) /\ Active(r) /\ sid[q] = sid[r] => q = r

\* The copy c of request r in phase p of operation o is the stored snapshot
\* s, up to the change that the request itself is about to save.
Fresh(r, p, o, c, s) ==
    /\ s # NoSession
    /\ p = "held" => c = s
    /\ p = "saving" =>
        /\ o = "fetch" => ~s.served /\ c = [s EXCEPT !.served = TRUE]
        /\ o = "metadata" => c = [s EXCEPT !.metadata = TRUE]
        /\ o = "respond" =>
            /\ s.flow = "same-device" => c = [s EXCEPT !.code = r, !.codeUsed = FALSE]
            /\ s.flow # "same-device" => c = s
        /\ o = "redeem" => ~s.codeUsed /\ c = [s EXCEPT !.codeUsed = TRUE]

FreshCopy(r) == Fresh(r, pc[r], op[r], copy[r], sessions[sid[r]])

FreshCopies == \A r \in Requests : Active(r) => FreshCopy(r)

\* What was done to a session is on record for as long as it is stored.
Recorded(id) ==
    LET s == sessions[id]
    IN /\ Claimed(id) # {} => s = NoSession \/ s.consumed
       /\ Served(id) # {} => s = NoSession \/ s.served
       /\ Redeemed(id) # {} => s = NoSession \/ s.codeUsed
       /\ \A r \in Requests : Delivered(r, "respond", id) =>
            s = NoSession \/ s.flow # "same-device" \/ s.code = r

AllRecorded == \A id \in SessionIDs : Recorded(id)

\* Nothing is done to a session that NewSession has not made yet.
NothingBeforeIssue ==
    \A id \in SessionIDs : issued[id] = NoSession =>
        /\ Claimed(id) = {} /\ Served(id) = {} /\ Redeemed(id) = {}

\* The inductive invariant behind single use.
OnceInv ==
    /\ Exclusive /\ FreshCopies /\ AllRecorded /\ NothingBeforeIssue
    /\ SingleConsumption /\ SingleServing /\ SingleRedemption

\* How history is made: ConsumeOnce makes the winners, and Save, which ends
\* the requests that change a session, makes the deliveries.
LEMMA NewHistory ==
    ASSUME BaseInv, [Next]_vars, NEW q \in Requests, NEW id \in SessionIDs
    PROVE  /\ Winner(q, id)' => \/ Winner(q, id)
                                \/ \E o \in ConsumeOps : Open(q, o, id) /\ pc'[q] = "held"
           /\ \A o \in SavingOps : Delivered(q, o, id)' =>
                Delivered(q, o, id) \/ (SaveCopy(q) /\ op[q] = o /\ sid[q] = id)
<1> USE DEF BaseInv
<1>1. ASSUME NEW r \in Requests, NEW o \in Ops, NEW i \in SessionIDs, Open(r, o, i)
      PROVE  /\ Winner(q, id)' => \/ Winner(q, id)
                                  \/ q = r /\ i = id /\ o \in ConsumeOps /\ pc'[q] = "held"
             /\ \A x \in SavingOps : Delivered(q, x, id)' => Delivered(q, x, id)
  <2>1. /\ op' = [op EXCEPT ![r] = o]
        /\ sid' = [sid EXCEPT ![r] = i]
    BY <1>1 DEF Open
  <2>2. CASE q = r
    <3>1. \/ pc'[q] = "held"
          \/ pc'[q] = "done" /\ result'[q] \in StoreErrors
      BY <1>1, <2>2, OpenOutcome DEF TypeOK, Refused
    <3> QED
      BY <2>1, <2>2, <3>1 DEF Winner, Delivered, StoreErrors, TypeOK
  <2>3. CASE q # r
    BY <1>1, <2>3 DEF Open, Winner, Delivered, TypeOK
  <2> QED
    BY <2>2, <2>3
<1>2. ASSUME NEW r \in Requests, EngineCall(r)
      PROVE  /\ Winner(q, id)' => Winner(q, id)
             /\ \A x \in SavingOps : Delivered(q, x, id)' => Delivered(q, x, id)
  <2>1. PICK ret, in : CallReturns(r, ret, in) /\ Outcome(copy[r], ret)
    BY <1>2, EngineCallOutcome
  <2>2. pc[r] = "held" /\ result[r] = "none"
    BY <1>2, EngineCallOutcome DEF PhaseInv
  <2> QED
    BY <2>1, <2>2 DEF CallReturns, Winner, Delivered, StoreErrors, TypeOK
<1>3. ASSUME NEW r \in Requests, SaveCopy(r)
      PROVE  /\ Winner(q, id)' => Winner(q, id)
             /\ \A x \in SavingOps : Delivered(q, x, id)' =>
                    Delivered(q, x, id) \/ (q = r /\ op[q] = x /\ sid[q] = id)
  BY <1>3 DEF SaveCopy, Winner, Delivered, TypeOK
<1>4. ASSUME NEW r \in Requests, Crash(r)
      PROVE  /\ Winner(q, id)' => Winner(q, id)
             /\ \A x \in SavingOps : Delivered(q, x, id)' => Delivered(q, x, id)
  BY <1>4 DEF Crash, Active, Winner, Delivered, TypeOK
<1>5. CASE Tick \/ UNCHANGED vars \/ \E i \in SessionIDs : CreateSession(i)
  BY <1>5 DEF Tick, vars, CreateSession, requestVars, Winner, Delivered
<1>6. CASE \E r \in Requests, o \in Ops, i \in SessionIDs : Open(r, o, i)
  BY <1>1, <1>6
<1>7. CASE \E r \in Requests : EngineCall(r)
  BY <1>2, <1>7
<1>8. CASE \E r \in Requests : SaveCopy(r)
  BY <1>3, <1>8
<1>9. CASE \E r \in Requests : Crash(r)
  BY <1>4, <1>9
<1> QED
  BY <1>5, <1>6, <1>7, <1>8, <1>9 DEF Next

\* Nothing has been used in the beginning.
LEMMA OnceInit == Init => OnceInv
  BY DEF Init, StoreInit, OnceInv, Exclusive, FreshCopies, AllRecorded, Recorded,
         NothingBeforeIssue, SingleConsumption, SingleServing, SingleRedemption,
         Active, Served, Claimed, Redeemed, Winner, Delivered

\* What the store grants to a winner was not consumed before.
LEMMA OpenConsume ==
    ASSUME BaseInv, NEW r \in Requests, NEW o \in ConsumeOps,
           NEW id \in SessionIDs, Open(r, o, id), pc'[r] = "held"
    PROVE  sessions[id] # NoSession /\ ~sessions[id].consumed
<1>1. o \in Ops /\ StoreTypeOK /\ pc'[r] # "done"
  BY DEF Ops, BaseInv, TypeOK
<1>2. \E s : Granted(o, id, s, sessions')
  BY <1>1, OpenOutcome DEF BaseInv, TypeOK
<1> QED
  BY <1>2 DEF Granted

\* A second use would need a stored session without the record of the first.
LEMMA SinglesStep ==
    ASSUME BaseInv, OnceInv, [Next]_vars
    PROVE  SingleConsumption' /\ SingleServing' /\ SingleRedemption'
<1> USE DEF OnceInv
<1>1. ASSUME NEW id \in SessionIDs, NEW q \in Requests, NEW r \in Requests,
             Winner(q, id)', Winner(r, id)'
      PROVE  q = r
  <2>1. ASSUME NEW x \in Requests, Winner(x, id)', ~Winner(x, id)
        PROVE  Claimed(id) = {} /\ pc[x] = "idle" /\ pc'[x] = "held"
               /\ \A y \in Requests : y # x => pc'[y] = pc[y]
    <3>1. PICK o \in ConsumeOps : Open(x, o, id) /\ pc'[x] = "held"
      BY <2>1, NewHistory
    <3>2. sessions[id] # NoSession /\ ~sessions[id].consumed
      BY <3>1, OpenConsume
    <3> QED
      BY <3>1, <3>2 DEF Open, AllRecorded, Recorded, BaseInv, TypeOK
  <2>2. CASE Winner(q, id) /\ Winner(r, id)
    BY <2>2 DEF SingleConsumption, Claimed
  <2>3. CASE ~Winner(q, id)
    BY <1>1, <2>1, <2>3 DEF Claimed
  <2>4. CASE ~Winner(r, id)
    BY <1>1, <2>1, <2>4 DEF Claimed
  <2> QED
    BY <2>2, <2>3, <2>4
<1>2. ASSUME NEW id \in SessionIDs, NEW o \in {"fetch", "redeem"},
             NEW q \in Requests, NEW r \in Requests,
             Delivered(q, o, id)', Delivered(r, o, id)'
      PROVE  q = r
  <2>1. ASSUME NEW x \in Requests, Delivered(x, o, id)', ~Delivered(x, o, id)
        PROVE  /\ \A y \in Requests : ~Delivered(y, o, id)
               /\ \A y \in Requests : y # x => ~Delivered(y, o, id)'
    <3>1. SaveCopy(x) /\ op[x] = o /\ sid[x] = id
      BY <2>1, NewHistory DEF SavingOps
    <3>2. FreshCopy(x) /\ pc[x] = "saving"
      BY <3>1 DEF FreshCopies, SaveCopy, Active
    <3>3. /\ sessions[id] # NoSession
          /\ o = "fetch" => ~sessions[id].served
          /\ o = "redeem" => ~sessions[id].codeUsed
      BY <3>1, <3>2 DEF FreshCopy, Fresh
    <3>4. \A y \in Requests : ~Delivered(y, o, id)
      BY <3>3 DEF AllRecorded, Recorded, Served, Redeemed
    <3>5. \A y \in Requests : y # x => ~SaveCopy(y)
      BY <3>1 DEF SaveCopy, BaseInv, TypeOK
    <3> QED
      BY <3>4, <3>5, NewHistory DEF SavingOps
  <2>2. CASE Delivered(q, o, id) /\ Delivered(r, o, id)
    BY <2>2 DEF SingleServing, SingleRedemption, Served, Redeemed
  <2>3. CASE ~Delivered(q, o, id)
    BY <1>2, <2>1, <2>3
  <2>4. CASE ~Delivered(r, o, id)
    BY <1>2, <2>1, <2>4
  <2> QED
    BY <2>2, <2>3, <2>4
<1>3. SingleConsumption'
  BY <1>1 DEF SingleConsumption, Claimed
<1>4. SingleServing'
  BY <1>2 DEF SingleServing, Served
<1>5. SingleRedemption'
  BY <1>2 DEF SingleRedemption, Redeemed
<1> QED
  BY <1>3, <1>4, <1>5

\* The first thing that happens to a session is that it is issued.
LEMMA NothingBeforeIssueStep ==
    ASSUME BaseInv, OnceInv, [Next]_vars
    PROVE  NothingBeforeIssue'
<1> USE DEF OnceInv
<1>1. ASSUME NEW id \in SessionIDs, issued'[id] = NoSession PROVE issued[id] = NoSession
  <2>1. ASSUME NEW i \in SessionIDs, CreateSession(i) PROVE issued[id] = NoSession
    BY <1>1, <2>1 DEF CreateSession, BaseInv, TypeOK
  <2>2. ASSUME NEW r \in Requests, EngineCall(r) PROVE issued' = issued
    <3>1. \E ret, in : CallReturns(r, ret, in)
      BY <2>2, EngineCallOutcome DEF BaseInv
    <3> QED
      BY <3>1 DEF CallReturns
  <2> QED
    BY <1>1, <2>1, <2>2 DEF Next, Open, SaveCopy, Crash, Tick, vars
<1>2. ASSUME NEW id \in SessionIDs, issued[id] = NoSession, NEW q \in Requests
      PROVE  /\ ~Winner(q, id)' /\ ~Delivered(q, "fetch", id)'
             /\ ~Delivered(q, "redeem", id)'
  <2>1. ~Winner(q, id) /\ ~Delivered(q, "fetch", id) /\ ~Delivered(q, "redeem", id)
    BY <1>2 DEF NothingBeforeIssue, Claimed, Served, Redeemed
  <2>2. sessions[id] = NoSession /\ ~(Active(q) /\ sid[q] = id)
    BY <1>2 DEF BaseInv, IdentityInv
  <2>3. ~(SaveCopy(q) /\ sid[q] = id)
    BY <2>2 DEF SaveCopy, Active
  <2>4. \A o \in ConsumeOps : ~(Open(q, o, id) /\ pc'[q] = "held")
    BY <2>2, OpenConsume
  <2> QED
    BY <2>1, <2>3, <2>4, NewHistory DEF SavingOps
<1> QED
  BY <1>1, <1>2 DEF NothingBeforeIssue, Claimed, Served, Redeemed

\* Handlers take turns, so a copy cannot go stale while its handler runs.
LEMMA FreshStep ==
    ASSUME Serialized, BaseInv, OnceInv, [Next]_vars
    PROVE  Exclusive' /\ FreshCopies'
<1> USE DEF OnceInv, BaseInv
<1>1. ASSUME NEW id \in SessionIDs, CreateSession(id) PROVE Exclusive' /\ FreshCopies'
  <2>1. PICK flow \in Flows, origins \in SUBSET Origins, reg \in Registrations,
             t \in Readings :
            sessions' = Save(NewSession(id, flow, origins, reg, t))
    BY <1>1 DEF CreateSession
  <2>2. \A i \in SessionIDs : i # id => sessions'[i] = sessions[i]
    BY <2>1, NewSessionIsSession, ReadingBound DEF Save, TypeOK, StoreTypeOK
  <2>3. \A r \in Requests : Active(r) => sid[r] \in SessionIDs /\ sid[r] # id
    BY <1>1 DEF CreateSession, IdentityInv
  <2> QED
    BY <1>1, <2>2, <2>3
    DEF CreateSession, requestVars, Exclusive, FreshCopies, FreshCopy, Active
<1>2. ASSUME NEW r \in Requests, NEW o \in Ops, NEW id \in SessionIDs, Open(r, o, id)
      PROVE  Exclusive' /\ FreshCopies'
  <2>1. /\ op' = [op EXCEPT ![r] = o]
        /\ sid' = [sid EXCEPT ![r] = id]
        /\ pc[r] = "idle"
        /\ \A q \in Requests : Active(q) => sid[q] # id
    BY <1>2 DEF Open
  <2>2. CASE /\ \E s : /\ Granted(o, id, s, sessions')
                       /\ copy' = [copy EXCEPT ![r] = s]
             /\ pc' = [pc EXCEPT ![r] = "held"]
    <3>1. PICK s : /\ Granted(o, id, s, sessions')
                   /\ copy' = [copy EXCEPT ![r] = s]
      BY <2>2
    <3>2. s # NoSession /\ sessions' = [sessions EXCEPT ![id] = s]
      BY <3>1, SessionNotNil DEF Granted
    <3>3. Exclusive'
      BY <2>1, <2>2 DEF Exclusive, Active, TypeOK
    <3>4. Fresh(r, "held", o, s, s)
      BY <3>2 DEF Fresh
    <3>5. FreshCopies'
      BY <2>1, <2>2, <3>1, <3>2, <3>4
      DEF FreshCopies, FreshCopy, Active, TypeOK, StoreTypeOK, IdentityInv
    <3> QED
      BY <3>3, <3>5
  <2>3. CASE /\ copy' = [copy EXCEPT ![r] = NoSession]
             /\ pc' = [pc EXCEPT ![r] = "done"]
             /\ \E err : Refused(id, err, sessions')
    <3>1. \A i \in SessionIDs : i # id => sessions'[i] = sessions[i]
      BY <2>3 DEF Refused, TypeOK, StoreTypeOK
    <3> QED
      BY <2>1, <2>3, <3>1
      DEF Exclusive, FreshCopies, FreshCopy, Active, TypeOK, IdentityInv
  <2> QED
    BY <1>2, <2>2, <2>3, OpenOutcome DEF TypeOK
<1>3. ASSUME NEW r \in Requests, EngineCall(r) PROVE Exclusive' /\ FreshCopies'
  <2>1. PICK ret, in :
            /\ CallReturns(r, ret, in)
            /\ ret.err = "nil" => Effect(r, op[r], copy[r], ret, in)
    BY <1>3, EngineCallOutcome
  <2>2. pc[r] = "held" /\ Active(r)
    BY <1>3, EngineCallOutcome DEF Active
  <2>3. /\ sessions' = sessions /\ op' = op /\ sid' = sid
        /\ \A q \in Requests : q # r => pc'[q] = pc[q] /\ copy'[q] = copy[q]
    BY <2>1 DEF CallReturns, TypeOK
  <2>4. Exclusive'
    BY <2>2, <2>3 DEF Exclusive, Active
  <2>5. ASSUME Active(r)' PROVE FreshCopy(r)'
    <3>1. /\ ret.err = "nil" /\ op[r] \in SavingOps
          /\ pc'[r] = "saving" /\ copy'[r] = ret.s
      BY <2>1, <2>5 DEF CallReturns, Active, TypeOK
    <3>2. copy[r] = sessions[sid[r]] /\ sessions[sid[r]] # NoSession
      BY <2>2 DEF FreshCopies, FreshCopy, Fresh
    <3>3. Effect(r, op[r], copy[r], ret, in)
      BY <2>1, <3>1
    <3> QED
      BY <2>3, <3>1, <3>2, <3>3 DEF FreshCopy, Fresh, Effect, RespondEffect
  <2>6. ASSUME NEW q \in Requests, q # r, Active(q)' PROVE FreshCopy(q)'
    BY <2>3, <2>6 DEF FreshCopies, FreshCopy, Active
  <2> QED
    BY <2>4, <2>5, <2>6 DEF FreshCopies
<1>4. ASSUME NEW r \in Requests, SaveCopy(r) PROVE Exclusive' /\ FreshCopies'
  <2>1. /\ Active(r) /\ sid[r] \in SessionIDs /\ copy[r].id = sid[r]
        /\ sessions' = [sessions EXCEPT ![sid[r]] = copy[r]]
    BY <1>4 DEF SaveCopy, Save, Active, IdentityInv, Identity
  <2>2. \A q \in Requests : Active(q)' => q # r /\ Active(q)
    BY <1>4 DEF SaveCopy, Active, TypeOK
  <2>3. \A q \in Requests : Active(q) /\ q # r =>
            sid[q] \in SessionIDs /\ sessions'[sid[q]] = sessions[sid[q]]
    BY <2>1 DEF Exclusive, IdentityInv, TypeOK, StoreTypeOK
  <2> QED
    BY <1>4, <2>2, <2>3 DEF SaveCopy, Exclusive, FreshCopies, FreshCopy, TypeOK
<1>5. ASSUME NEW r \in Requests, Crash(r) PROVE Exclusive' /\ FreshCopies'
  BY <1>5 DEF Crash, Exclusive, FreshCopies, FreshCopy, Active, TypeOK
<1>6. CASE Tick \/ UNCHANGED vars
  BY <1>6 DEF Tick, vars, requestVars, Exclusive, FreshCopies, FreshCopy, Active
<1> QED
  BY <1>1, <1>2, <1>3, <1>4, <1>5, <1>6 DEF Next

\* A delivered response was the claimant's.
LEMMA DeliveredIsWinner ==
    ASSUME NEW r \in Requests, NEW id \in SessionIDs, Delivered(r, "respond", id)
    PROVE  Winner(r, id)
  BY DEF Delivered, Winner, ConsumeOps, StoreErrors

\* What a save keeps, and what it adds, if the copy is fresh.
LEMMA FreshSave ==
    ASSUME NEW r, NEW o \in SavingOps, NEW c \in Session, NEW s \in Session,
           Fresh(r, "saving", o, c, s)
    PROVE  /\ c.consumed = s.consumed
           /\ s.served => c.served
           /\ o = "fetch" => c.served
           /\ o # "respond" => c.code = s.code /\ (s.codeUsed => c.codeUsed)
           /\ o = "redeem" => c.codeUsed
           /\ o = "respond" => c.flow # "same-device" \/ c.code = r
  BY DEF Fresh, SavingOps, Session

\* The record of a use stays with the stored session.
LEMMA RecordedStep ==
    ASSUME Serialized, BaseInv, MarkersInv, OnceInv, [Next]_vars
    PROVE  AllRecorded'
<1> USE DEF OnceInv
<1> SUFFICES ASSUME NEW id \in SessionIDs, sessions'[id] # NoSession
             PROVE  /\ Claimed(id)' # {} => sessions'[id].consumed
                    /\ Served(id)' # {} => sessions'[id].served
                    /\ Redeemed(id)' # {} => sessions'[id].codeUsed
                    /\ \A q \in Requests : Delivered(q, "respond", id)' =>
                        sessions'[id].flow # "same-device" \/ sessions'[id].code = q
  BY DEF AllRecorded, Recorded
<1> DEFINE Kept == /\ Claimed(id) # {} => sessions'[id].consumed
                   /\ Served(id) # {} => sessions'[id].served
                   /\ Redeemed(id) # {} => sessions'[id].codeUsed
                   /\ \A q \in Requests : Delivered(q, "respond", id) =>
                        sessions'[id].flow # "same-device" \/ sessions'[id].code = q
           Goal == /\ Claimed(id)' # {} => sessions'[id].consumed
                   /\ Served(id)' # {} => sessions'[id].served
                   /\ Redeemed(id)' # {} => sessions'[id].codeUsed
                   /\ \A q \in Requests : Delivered(q, "respond", id)' =>
                        sessions'[id].flow # "same-device" \/ sessions'[id].code = q
<1>1. sessions'[id] = sessions[id] => Kept
  BY DEF AllRecorded, Recorded
<1>2. ASSUME Kept, \A q \in Requests : ~(SaveCopy(q) /\ sid[q] = id),
             \A q \in Requests, o \in ConsumeOps :
                Open(q, o, id) /\ pc'[q] = "held" => sessions'[id].consumed
      PROVE  Goal
  <2>1. \A q \in Requests, o \in SavingOps :
            Delivered(q, o, id)' => Delivered(q, o, id)
    BY <1>2, NewHistory
  <2>2. \A q \in Requests : Winner(q, id)' => Winner(q, id) \/ sessions'[id].consumed
    BY <1>2, NewHistory
  <2> QED
    BY <1>2, <2>1, <2>2 DEF Claimed, Served, Redeemed, SavingOps
<1>3. ASSUME NEW i \in SessionIDs, CreateSession(i) PROVE Goal
  <2>1. Kept
    <3>1. CASE i = id
      <4>1. Claimed(id) = {} /\ Served(id) = {} /\ Redeemed(id) = {}
        BY <1>3, <3>1 DEF CreateSession, NothingBeforeIssue
      <4>2. \A q \in Requests : ~Delivered(q, "respond", id)
        BY <4>1, DeliveredIsWinner DEF Claimed
      <4> QED
        BY <4>1, <4>2
    <3>2. CASE i # id
      <4>1. PICK flow \in Flows, origins \in SUBSET Origins, reg \in Registrations,
                 t \in Readings :
                sessions' = Save(NewSession(i, flow, origins, reg, t))
        BY <1>3 DEF CreateSession
      <4>2. sessions'[id] = sessions[id]
        BY <3>2, <4>1, NewSessionIsSession, ReadingBound
        DEF Save, BaseInv, TypeOK, StoreTypeOK
      <4> QED
        BY <4>2, <1>1
    <3> QED
      BY <3>1, <3>2
  <2>2. pc' = pc
    BY <1>3 DEF CreateSession, requestVars
  <2> QED
    BY <1>2, <2>1, <2>2 DEF SaveCopy, Open, BaseInv, TypeOK
<1>4. ASSUME NEW r \in Requests, NEW o \in Ops, NEW i \in SessionIDs, Open(r, o, i)
      PROVE  Goal
  <2>1. /\ Kept
        /\ o \in ConsumeOps /\ i = id /\ pc'[r] = "held" => sessions'[id].consumed
    <3>1. CASE \E s : Granted(o, i, s, sessions')
      <4>1. PICK s : Granted(o, i, s, sessions')
        BY <3>1
      <4>2. CASE i = id
        <5>1. sessions'[id] = s /\ sessions[id] \in Session /\ sessions[id] # NoSession
          BY <4>1, <4>2 DEF Granted, BaseInv, TypeOK, StoreTypeOK
        <5>2. /\ s.served = sessions[id].served
              /\ s.code = sessions[id].code
              /\ s.flow = sessions[id].flow
              /\ s.codeUsed = sessions[id].codeUsed
              /\ sessions[id].consumed => s.consumed
              /\ o \in ConsumeOps => s.consumed
          BY <4>1, <4>2, <5>1 DEF Granted, Session
        <5> QED
          BY <5>1, <5>2 DEF AllRecorded, Recorded
      <4>3. CASE i # id
        <5>1. sessions'[id] = sessions[id]
          BY <4>1, <4>3 DEF Granted, BaseInv, TypeOK, StoreTypeOK
        <5> QED
          BY <5>1, <1>1, <4>3
      <4> QED
        BY <4>2, <4>3
    <3>2. CASE pc' = [pc EXCEPT ![r] = "done"] /\ \E err : Refused(i, err, sessions')
      <4>1. sessions'[id] = sessions[id]
        BY <3>2 DEF Refused, BaseInv, TypeOK, StoreTypeOK
      <4>2. pc'[r] # "held"
        BY <3>2 DEF BaseInv, TypeOK
      <4> QED
        BY <4>1, <4>2, <1>1
    <3> QED
      BY <1>4, <3>1, <3>2, OpenOutcome DEF BaseInv, TypeOK
  <2> HIDE DEF Kept, Goal
  <2>2. \A q \in Requests : ~SaveCopy(q)
    BY <1>4 DEF Open, SaveCopy, BaseInv, TypeOK
  <2>3. \A q \in Requests, x \in ConsumeOps : Open(q, x, id) /\ pc'[q] = "held" =>
            q = r /\ x = o /\ i = id
    BY <1>4 DEF Open, BaseInv, TypeOK
  <2> QED
    BY <1>2, <2>1, <2>2, <2>3
<1>5. ASSUME NEW r \in Requests, EngineCall(r) \/ Crash(r) PROVE Goal
  <2>1. sessions' = sessions /\ sid' = sid /\ pc[r] \in {"held", "saving"}
        /\ pc'[r] # pc[r] /\ op' = op
        /\ (pc[r] = "held" \/ pc'[r] = "crashed")
        /\ \A q \in Requests : q # r => pc'[q] = pc[q]
    <3>1. CASE EngineCall(r)
      <4>1. PICK ret, in : CallReturns(r, ret, in)
        BY <3>1, EngineCallOutcome DEF BaseInv
      <4>2. pc[r] = "held"
        BY <3>1, EngineCallOutcome DEF BaseInv
      <4> QED
        BY <4>1, <4>2 DEF CallReturns, BaseInv, TypeOK
    <3>2. CASE Crash(r)
      BY <3>2 DEF Crash, Active, BaseInv, TypeOK
    <3> QED
      BY <1>5, <3>1, <3>2
  <2>2. \A q \in Requests : ~SaveCopy(q)
    BY <2>1 DEF SaveCopy, BaseInv, TypeOK
  <2>3. \A q \in Requests, o \in ConsumeOps : ~Open(q, o, id)
    BY <2>1 DEF Open, BaseInv, TypeOK
  <2> QED
    BY <1>1, <1>2, <2>1, <2>2, <2>3
<1>6. ASSUME NEW r \in Requests, SaveCopy(r) PROVE Goal
  <2>1. /\ pc[r] = "saving" /\ Active(r) /\ sid[r] \in SessionIDs
        /\ copy[r].id = sid[r] /\ op[r] \in SavingOps /\ copy[r] \in Session
        /\ sessions' = [sessions EXCEPT ![sid[r]] = copy[r]]
    <3>1. pc[r] = "saving" /\ Active(r) /\ sessions' = Save(copy[r])
      BY <1>6 DEF SaveCopy, Active
    <3>2. sid[r] \in SessionIDs /\ copy[r].id = sid[r]
      BY <3>1 DEF BaseInv, IdentityInv, Identity
    <3>3. op[r] \in SavingOps
      BY <3>1 DEF BaseInv, PhaseInv
    <3>4. copy[r] \in Session
      BY <3>1 DEF BaseInv, TypeOK
    <3> QED
      BY <3>1, <3>2, <3>3, <3>4 DEF Save
  <2>2. /\ \A q \in Requests, o \in ConsumeOps : ~(Open(q, o, id) /\ pc'[q] = "held")
        /\ \A q \in Requests : SaveCopy(q) => q = r
    BY <1>6 DEF SaveCopy, Open, BaseInv, TypeOK
  <2>3. CASE sid[r] # id
    <3>1. sessions'[id] = sessions[id]
      BY <2>1, <2>3 DEF BaseInv, TypeOK, StoreTypeOK
    <3> QED
      BY <1>1, <1>2, <2>2, <2>3, <3>1
  <2>4. CASE sid[r] = id
    <3> DEFINE s == sessions[id]
               c == copy[r]
    <3>1. sessions'[id] = c /\ Fresh(r, "saving", op[r], c, s) /\ s \in Session
      <4>1. sessions'[id] = c
        BY <2>1, <2>4 DEF BaseInv, TypeOK, StoreTypeOK
      <4>2. Fresh(r, "saving", op[r], c, s)
        BY <2>1, <2>4 DEF FreshCopies, FreshCopy
      <4>3. s # NoSession
        BY <4>2 DEF Fresh
      <4> QED
        BY <4>1, <4>2, <4>3 DEF BaseInv, TypeOK, StoreTypeOK
    <3>2. /\ c.consumed = s.consumed
          /\ s.served => c.served
          /\ op[r] = "fetch" => c.served
          /\ op[r] # "respond" => c.code = s.code /\ (s.codeUsed => c.codeUsed)
          /\ op[r] = "redeem" => c.codeUsed
          /\ op[r] = "respond" => c.flow # "same-device" \/ c.code = r
          /\ c.flow = s.flow
      <4>1. c.flow = s.flow
        BY <2>1, <2>4, <3>1, SessionNotNil DEF BaseInv, IdentityInv, Identity
      <4> QED
        BY <2>1, <3>1, <4>1, FreshSave
    <3> HIDE DEF s, c
    <3>3. op[r] = "respond" => Winner(r, id)
      BY <1>6, <2>4 DEF SaveCopy, Winner, ConsumeOps, StoreErrors, BaseInv, PhaseInv
    <3>4. op[r] = "respond" => /\ \A q \in Requests : ~Delivered(q, "respond", id)
                               /\ Redeemed(id) = {}
      <4>1. ASSUME op[r] = "respond", NEW q \in Requests, Delivered(q, "respond", id)
            PROVE  FALSE
        BY <2>1, <3>3, <4>1, DeliveredIsWinner DEF SingleConsumption, Claimed, Delivered
      <4>2. ASSUME op[r] = "respond", NEW q \in Redeemed(id) PROVE FALSE
        BY <4>1, <4>2 DEF MarkersInv, RedeemedOwnCode
      <4> QED
        BY <4>1, <4>2
    <3>5. s # NoSession
      BY <3>1, SessionNotNil
    <3>6. /\ Claimed(id)' # {} => c.consumed
      <4>1. Claimed(id)' # {} => Claimed(id) # {}
        BY <2>2, NewHistory DEF Claimed
      <4> QED
        BY <4>1, <3>2, <3>5 DEF AllRecorded, Recorded, s
    <3>7. Served(id)' # {} => c.served
      <4>1. Served(id)' # {} => Served(id) # {} \/ op[r] = "fetch"
        BY <2>2, NewHistory DEF Served, SavingOps
      <4> QED
        BY <4>1, <3>2, <3>5 DEF AllRecorded, Recorded, s
    <3>8. Redeemed(id)' # {} => c.codeUsed
      <4>1. Redeemed(id)' # {} => Redeemed(id) # {} \/ op[r] = "redeem"
        BY <2>2, NewHistory DEF Redeemed, SavingOps
      <4> QED
        BY <4>1, <3>2, <3>4, <3>5 DEF AllRecorded, Recorded, s
    <3>9. ASSUME NEW q \in Requests, Delivered(q, "respond", id)'
          PROVE  c.flow # "same-device" \/ c.code = q
      <4>1. Delivered(q, "respond", id) \/ (q = r /\ op[r] = "respond")
        BY <2>2, <3>9, NewHistory DEF SavingOps
      <4> QED
        BY <4>1, <3>2, <3>4, <3>5 DEF AllRecorded, Recorded, s
    <3> QED
      BY <3>1, <3>6, <3>7, <3>8, <3>9
  <2> QED
    BY <2>3, <2>4
<1>7. CASE Tick \/ UNCHANGED vars
  <2>1. sessions' = sessions /\ pc' = pc
    BY <1>7 DEF Tick, vars, requestVars
  <2> QED
    BY <1>1, <1>2, <2>1 DEF SaveCopy, Open, BaseInv, TypeOK
<1> QED
  BY <1>3, <1>4, <1>5, <1>6, <1>7 DEF Next

\* With requests taking turns, every step preserves OnceInv.
LEMMA OnceStep ==
    ASSUME Serialized, BaseInv, MarkersInv, OnceInv, [Next]_vars
    PROVE  OnceInv'
  BY FreshStep, RecordedStep, SinglesStep, NothingBeforeIssueStep DEF OnceInv

\* OnceInv holds in every reachable state of a serialised service.
THEOREM OnceInvariant ==
    ASSUME Serialized
    PROVE  Spec => []OnceInv
<1>1. BaseInv /\ MarkersInv /\ OnceInv /\ [Next]_vars => OnceInv'
  BY OnceStep
<1> QED
  BY BaseInvariant, MarkersInvariant, OnceInit, <1>1, PTL DEF Spec

\* The SessionStore contract holds for the whole life of a session: at most
\* one request ever receives it from ConsumeOnce.
THEOREM SingleConsumptionHolds ==
    ASSUME Serialized
    PROVE  Spec => []SingleConsumption
<1>1. OnceInv => SingleConsumption
  BY DEF OnceInv
<1> QED
  BY OnceInvariant, <1>1, PTL

\* At most one request object is delivered for a session.
THEOREM SingleServingHolds ==
    ASSUME Serialized
    PROVE  Spec => []SingleServing
<1>1. OnceInv => SingleServing
  BY DEF OnceInv
<1> QED
  BY OnceInvariant, <1>1, PTL

\* At most one request redeems the response code of a session.
THEOREM SingleRedemptionHolds ==
    ASSUME Serialized
    PROVE  Spec => []SingleRedemption
<1>1. OnceInv => SingleRedemption
  BY DEF OnceInv
<1> QED
  BY OnceInvariant, <1>1, PTL

\* The code that a same-device wallet was answered with is the stored one,
\* and it is redeemable until it is redeemed.
THEOREM DeliveredCodeRedeemableHolds ==
    ASSUME Serialized
    PROVE  Spec => []DeliveredCodeRedeemable
<1>1. MarkersInv /\ OnceInv => DeliveredCodeRedeemable
  <2> SUFFICES ASSUME MarkersInv, OnceInv, NEW id \in SessionIDs, NEW r \in Requests,
                      Delivered(r, "respond", id), sessions[id] # NoSession,
                      sessions[id].flow = "same-device", Redeemed(id) = {}
               PROVE  /\ RedirectURI(sessions[id]) = [err |-> "nil", code |-> r]
                      /\ ConsumeResponseCode(sessions[id], r).err = "nil"
    BY DEF DeliveredCodeRedeemable
  <2>1. sessions[id].code = r
    BY DEF OnceInv, AllRecorded, Recorded
  <2>2. ~sessions[id].codeUsed
    BY DEF MarkersInv, MarkersTruthful
  <2>3. r # NoCode
    BY CodeAssumption
  <2> QED
    BY <2>1, <2>2, <2>3 DEF RedirectURI, ConsumeResponseCode, Return
<1> QED
  BY MarkersInvariant, OnceInvariant, <1>1, PTL
=============================================================================
