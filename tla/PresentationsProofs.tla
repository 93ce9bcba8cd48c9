------------------------- MODULE PresentationsProofs -------------------------
(***************************************************************************)
(* What the walk over vp_token gives the caller, for any number of keys    *)
(* and entries and for every order in which the map yields its keys.       *)
(***************************************************************************)
EXTENDS Presentations, SequenceTheorems, TLAPS

-----------------------------------------------------------------------------
(* Presentations                                                           *)

\* The presentations the walk may append.
Handed == {presentation(id, e) : id \in DOMAIN session.formats, e \in STRING}

\* What the walk may hand out depends on the session only.
LEMMA HandedStays ==
    ASSUME session' = session
    PROVE  Handed' = Handed
<1>1. \A id, e : presentation(id, e)' = presentation(id, e)
  BY DEF presentation, formatOf
<1>2. Handed' = {presentation(id, e)' : id \in DOMAIN session'.formats, e \in STRING}
  BY DEF Handed
<1>3. Handed' = {presentation(id, e) : id \in DOMAIN session'.formats, e \in STRING}
  BY <1>1, <1>2
<1>4. Handed = {presentation(id, e) : id \in DOMAIN session.formats, e \in STRING}
  BY DEF Handed
<1>5. DOMAIN session'.formats = DOMAIN session.formats
  OBVIOUS
<1> QED
  BY <1>3, <1>4, <1>5

\* The fields of a presentation that presentationsFromVPToken builds.
LEMMA PresentationFields ==
    ASSUME NEW id, NEW e
    PROVE  LET p == presentation(id, e)
           IN /\ p.queryCredID = id /\ p.format = formatOf(id) /\ p.payload[2] = e
              /\ p.nonce = "nonce" /\ p.clientID = "client"
              /\ p.responseURI = session.responseURI
              /\ p.format = "mso_mdoc" => p.thumbprint = "thumbprint"
              /\ p.origin = EmptyURL
BY DEF presentation, Verbatim, Decoded

\* The origin loop of ProcessDCAPIResponse touches the origin only.
LEMMA DeliveredFields ==
    ASSUME NEW p \in Handed, NEW o
    PROVE  LET q == [p EXCEPT !.origin = o]
           IN /\ q.queryCredID = p.queryCredID /\ q.format = p.format
              /\ q.payload = p.payload /\ q.nonce = "nonce" /\ q.clientID = "client"
              /\ q.responseURI = session.responseURI
              /\ q.format = "mso_mdoc" => q.thumbprint = "thumbprint"
              /\ q.origin = o
              /\ q.queryCredID \in DOMAIN session.formats
<1>1. PICK id \in DOMAIN session.formats, e \in STRING : p = presentation(id, e)
  BY DEF Handed
<1> QED
  BY <1>1 DEF presentation

\* The origin of a session that validateSpec admits is no empty string.
LEMMA NotEmptyURL ==
    ASSUME NEW u, validHTTPSURL(u) \/ validOrigin(u)
    PROVE  u # EmptyURL
BY DEF validHTTPSURL, validOrigin, EmptyURL, https

InputsOK ==
    /\ session \in Sessions
    /\ origin \in IF session.flow = "dcapi" THEN session.origins ELSE {EmptyURL}
    /\ vpToken \in UNION {[S -> Values] : S \in SUBSET IDs \ {{}}}

\* validateSpec leaves each flow what its handover needs.
LEMMA SessionShape ==
    ASSUME InputsOK
    PROVE  IF session.flow = "dcapi" THEN origin # EmptyURL
           ELSE origin = EmptyURL /\ session.responseURI # EmptyURL
<1>1. CASE session.flow = "dcapi"
  <2>1. origin \in session.origins /\ \A o \in session.origins : validOrigin(o)
    BY <1>1 DEF InputsOK, Sessions
  <2> QED
    BY <1>1, <2>1, NotEmptyURL
<1>2. CASE session.flow # "dcapi"
  <2>1. origin = EmptyURL /\ validHTTPSURL(session.responseURI)
    BY <1>2 DEF InputsOK, Sessions
  <2> QED
    BY <1>2, <2>1, NotEmptyURL
<1> QED
  BY <1>1, <1>2

\* The keys of vp_token are ordered and their entries are sequences.
LEMMA TokenFacts ==
    ASSUME InputsOK, NEW id \in DOMAIN vpToken
    PROVE  id \in IDs /\ id \in Nat /\ vpToken[id].entries \in Seq(STRING)
<1>1. PICK S \in SUBSET IDs \ {{}} : vpToken \in [S -> Values]
  BY DEF InputsOK
<1>2. id \in S /\ vpToken[id] \in Values
  BY <1>1
<1>3. vpToken[id] \in [array : BOOLEAN, entries : Seq(STRING)]
  BY <1>2, ValuesAssumption
<1> QED
  BY <1>2, <1>3, IDsAssumption

-----------------------------------------------------------------------------
(* The inductive invariant                                                 *)

KeysInv ==
    /\ ids \in Seq(IDs) /\ Range(ids) \subseteq DOMAIN vpToken
    /\ \A i, j \in DOMAIN ids : ids[i] = ids[j] => i = j
    /\ phase \in {"sort", "walk", "done"} => Range(ids) = DOMAIN vpToken
    /\ phase \in {"walk", "done"} => \A i, j \in DOMAIN ids : i < j => ids[i] < ids[j]
    /\ phase \in {"gather", "sort", "walk", "done"}
    /\ pos \in 1..(Len(ids) + 1)
    /\ phase \in {"gather", "sort"} => pos = 1 /\ out = <<>>
    /\ phase # "done" => err = "nil"

\* The keys behind the walk.
Walked == {ids[p] : p \in 1..(pos - 1)}

Ascending == \A k, l \in DOMAIN out : k < l => out[k].queryCredID <= out[l].queryCredID

WalkInv ==
    /\ \A id \in Walked : keyError(id, vpToken[id]) = "nil"
    /\ out \in Seq(Handed)
    /\ Ascending
    /\ \A k \in DOMAIN out : out[k].queryCredID \in Walked
    /\ \E before \in [Walked -> 0..Len(out)] : Delivered(before)

DoneInv ==
    /\ err \in {"nil", "ErrUnknownCredentialID", "ErrMalformedResponse"}
    /\ \A k \in DOMAIN out : out[k].queryCredID \in DOMAIN session.formats
    /\ ErrorIsDeterministic
    /\ WholeOrNothing
    /\ MdocHasTranscript

PresentationsInv ==
    /\ InputsOK
    /\ KeysInv
    /\ phase = "walk" => WalkInv
    /\ phase = "done" => DoneInv

\* Before the first key is read nothing is collected.
LEMMA PresentationsInvInit ==
    ASSUME Init
    PROVE  PresentationsInv
<1>1. InputsOK
  BY DEF Init, InputsOK
<1>2. KeysInv
  BY DEF Init, KeysInv, Range
<1> QED
  BY <1>1, <1>2 DEF Init, PresentationsInv

\* Reading the next key of the map, in whatever order.
LEMMA InvGather ==
    ASSUME PresentationsInv, Gather
    PROVE  PresentationsInv'
<1>1. PICK id \in DOMAIN vpToken \ Range(ids) : ids' = Append(ids, id)
  BY DEF Gather
<1>2. /\ phase = "gather" /\ UNCHANGED <<session, origin, vpToken, pos, out, err>>
      /\ phase' = IF Range(ids') = DOMAIN vpToken THEN "sort" ELSE "gather"
  BY DEF Gather, inputs
<1>3. /\ ids \in Seq(IDs) /\ Range(ids) \subseteq DOMAIN vpToken /\ id \in IDs
      /\ \A i, j \in DOMAIN ids : ids[i] = ids[j] => i = j
      /\ pos = 1 /\ out = <<>> /\ err = "nil"
  BY <1>2, TokenFacts DEF PresentationsInv, KeysInv
<1>4. /\ ids' \in Seq(IDs) /\ Len(ids') = Len(ids) + 1 /\ Len(ids) \in Nat
      /\ DOMAIN ids = 1..Len(ids) /\ DOMAIN ids' = 1..(Len(ids) + 1)
      /\ \A i \in 1..Len(ids) : ids'[i] = ids[i]
      /\ ids'[Len(ids) + 1] = id
  BY <1>1, <1>3
<1>5. \A i \in 1..Len(ids) : ids[i] # id
  BY <1>1, <1>4 DEF Range
<1>6. \A i, j \in DOMAIN ids' : ids'[i] = ids'[j] => i = j
  BY <1>3, <1>4, <1>5
<1>7. Range(ids') \subseteq DOMAIN vpToken
  BY <1>1, <1>3, <1>4 DEF Range
<1>8. KeysInv'
  BY <1>2, <1>3, <1>4, <1>6, <1>7 DEF KeysInv
<1>9. InputsOK'
  BY <1>2 DEF PresentationsInv, InputsOK, Sessions
<1> QED
  BY <1>2, <1>8, <1>9 DEF PresentationsInv

\* Before its first key the walk has nothing.
LEMMA WalkStarts ==
    ASSUME pos' = 1, out' = <<>>
    PROVE  WalkInv'
<1>1. Walked' = {} /\ DOMAIN out' = {} /\ out' \in Seq(Handed') /\ Len(out') = 0
  BY DEF Walked
<1>2. <<>> \in [Walked' -> 0..Len(out')] /\ Delivered(<<>>)'
  BY <1>1 DEF Delivered
<1> QED
  BY <1>1, <1>2 DEF WalkInv, Ascending

\* sort.Strings leaves the same keys in ascending order; the walk starts.
LEMMA InvSort ==
    ASSUME PresentationsInv, SortIDs
    PROVE  PresentationsInv'
<1>1. /\ phase = "sort" /\ phase' = "walk" /\ ids' \in Sorted(ids)
      /\ UNCHANGED <<session, origin, vpToken, pos, out, err>>
  BY DEF SortIDs, inputs
<1>2. /\ ids \in Seq(IDs) /\ Range(ids) = DOMAIN vpToken
      /\ pos = 1 /\ out = <<>> /\ err = "nil"
  BY <1>1 DEF PresentationsInv, KeysInv
<1>3. Len(ids) \in Nat /\ DOMAIN ids = 1..Len(ids)
  BY <1>2, LenProperties
<1>4. /\ ids' \in [1..Len(ids) -> Range(ids)] /\ Range(ids') = Range(ids)
      /\ \A i, j \in 1..Len(ids) : i < j => ids'[i] < ids'[j]
  BY <1>1, <1>3 DEF Sorted
<1>5. Range(ids) \subseteq IDs /\ IDs \subseteq Nat
  BY <1>2, TokenFacts, IDsAssumption DEF PresentationsInv
<1>6. ids' \in Seq(IDs) /\ DOMAIN ids' = 1..Len(ids) /\ Len(ids') = Len(ids)
  BY <1>3, <1>4, <1>5
<1>7. \A i, j \in DOMAIN ids' : ids'[i] = ids'[j] => i = j
  <2> SUFFICES ASSUME NEW i \in 1..Len(ids), NEW j \in 1..Len(ids), ids'[i] = ids'[j]
               PROVE  i = j
    BY <1>6
  <2>1. ids'[i] \in Nat /\ ids'[j] \in Nat
    BY <1>4, <1>5
  <2>2. ~(i < j) /\ ~(j < i)
    BY <1>4, <2>1
  <2> QED
    BY <1>3, <2>2
<1>8. KeysInv'
  BY <1>1, <1>2, <1>3, <1>4, <1>6, <1>7 DEF KeysInv
<1>9. InputsOK'
  BY <1>1 DEF PresentationsInv, InputsOK, Sessions
<1>10. WalkInv'
  BY <1>1, <1>2, WalkStarts
<1> QED
  BY <1>1, <1>8, <1>9, <1>10 DEF PresentationsInv

\* A key without an error: its presentations are appended.
LEMMA InvWalkOn ==
    ASSUME PresentationsInv, Walk, keyError(ids[pos], vpToken[ids[pos]]) = "nil"
    PROVE  PresentationsInv'
<1> DEFINE id == ids[pos]
           entries == vpToken[id].entries
           P == presentationsOf(id, vpToken[id])
<1>1. /\ phase = "walk" /\ pos <= Len(ids) /\ out' = out \o P /\ pos' = pos + 1
      /\ UNCHANGED <<session, origin, vpToken, ids, phase, err>>
  BY DEF Walk, inputs
<1>2. /\ InputsOK /\ KeysInv /\ WalkInv
  BY <1>1 DEF PresentationsInv
<1>3. /\ ids \in Seq(IDs) /\ Range(ids) = DOMAIN vpToken /\ pos \in 1..(Len(ids) + 1)
      /\ \A i, j \in DOMAIN ids : i < j => ids[i] < ids[j]
      /\ \A i, j \in DOMAIN ids : ids[i] = ids[j] => i = j
      /\ err = "nil"
  BY <1>1, <1>2 DEF KeysInv
<1>4. Len(ids) \in Nat /\ DOMAIN ids = 1..Len(ids) /\ pos \in DOMAIN ids
  BY <1>1, <1>3, LenProperties
<1>5. id \in DOMAIN vpToken
  BY <1>3, <1>4 DEF Range
<1>6. id \in Nat /\ entries \in Seq(STRING)
  BY <1>2, <1>5, TokenFacts
<1>7. id \in DOMAIN session.formats
  BY DEF keyError
<1>8. Len(entries) \in Nat /\ DOMAIN entries = 1..Len(entries)
  BY <1>6, LenProperties
<1>9. \A i \in 1..Len(entries) : presentation(id, entries[i]) \in Handed
  BY <1>6, <1>7, <1>8, ElementOfSeq DEF Handed
<1>10. P = [i \in 1..Len(entries) |-> presentation(id, entries[i])]
  BY <1>8 DEF presentationsOf
<1>11. /\ P \in Seq(Handed) /\ Len(P) = Len(entries)
       /\ \A i \in 1..Len(entries) : P[i] = presentation(id, entries[i])
  <2> DEFINE p(i) == presentation(id, entries[i])
  <2>1. \A i \in 1..Len(entries) : p(i) \in Handed
    BY <1>9
  <2>2. P = [i \in 1..Len(entries) |-> p(i)]
    BY <1>10
  <2> HIDE DEF p, P, entries
  <2>3. /\ P \in Seq(Handed) /\ Len(P) = Len(entries)
        /\ \A i \in 1..Len(entries) : P[i] = p(i)
    BY <1>8, <2>1, <2>2
  <2> QED
    BY <2>3 DEF p
<1>12. \A i \in 1..Len(entries) : P[i].queryCredID = id /\ P[i].payload[2] = entries[i]
  BY <1>11, PresentationFields
<1> HIDE DEF P, entries, id
<1>13. out \in Seq(Handed) /\ Len(out) \in Nat /\ DOMAIN out = 1..Len(out)
  BY <1>2, LenProperties DEF WalkInv
<1>14. /\ out' \in Seq(Handed) /\ Len(out') = Len(out) + Len(entries)
       /\ DOMAIN out' = 1..(Len(out) + Len(entries))
       /\ \A k \in 1..Len(out) : out'[k] = out[k]
       /\ \A i \in 1..Len(entries) : out'[Len(out) + i] = P[i]
  <2>1. /\ out \o P \in Seq(Handed) /\ Len(out \o P) = Len(out) + Len(P)
        /\ \A i \in 1..(Len(out) + Len(P)) :
            (out \o P)[i] = IF i <= Len(out) THEN out[i] ELSE P[i - Len(out)]
    BY <1>11, <1>13, ConcatProperties
  <2> QED
    BY <1>1, <1>8, <1>11, <1>13, <2>1, LenProperties
<1>15. Walked' = Walked \cup {id} /\ id \notin Walked /\ \A j \in Walked : j < id
  <2>1. 1..(pos' - 1) = (1..(pos - 1)) \cup {pos}
    BY <1>1, <1>3
  <2>2. Walked' = Walked \cup {id}
    BY <1>1, <2>1 DEF Walked, id
  <2>3. \A j \in Walked : j < id
    BY <1>3, <1>4 DEF Walked, id
  <2>4. id \notin Walked
    BY <1>3, <1>4 DEF Walked, id
  <2> QED
    BY <2>2, <2>3, <2>4
<1>16. \A k \in DOMAIN out' : \/ k \in DOMAIN out /\ out'[k] = out[k]
                              \/ out'[k].queryCredID = id
  <2> TAKE k \in DOMAIN out'
  <2>1. CASE k <= Len(out)
    BY <1>13, <1>14, <2>1
  <2>2. CASE k > Len(out)
    <3>1. k - Len(out) \in 1..Len(entries) /\ k = Len(out) + (k - Len(out))
      BY <1>8, <1>13, <1>14, <2>2
    <3> QED
      BY <1>12, <1>14, <3>1
  <2> QED
    BY <1>13, <1>14, <2>1, <2>2
<1>17. \A k \in DOMAIN out' : k > Len(out) => out'[k].queryCredID = id
  <2> TAKE k \in DOMAIN out'
  <2> HAVE k > Len(out)
  <2>1. k \notin DOMAIN out
    BY <1>13
  <2> QED
    BY <1>16, <2>1
<1>18. \A k \in DOMAIN out' : out'[k].queryCredID \in Walked'
  BY <1>2, <1>15, <1>16 DEF WalkInv
<1>19. Ascending'
  <2> SUFFICES ASSUME NEW k \in DOMAIN out', NEW l \in DOMAIN out', k < l
               PROVE  out'[k].queryCredID <= out'[l].queryCredID
    BY DEF Ascending
  <2>1. CASE l <= Len(out)
    <3>1. k \in DOMAIN out /\ l \in DOMAIN out /\ out'[k] = out[k] /\ out'[l] = out[l]
      BY <1>13, <1>14, <2>1
    <3> QED
      BY <1>2, <3>1 DEF WalkInv, Ascending
  <2>2. CASE l > Len(out)
    <3>1. out'[l].queryCredID = id
      BY <1>17, <2>2
    <3>2. out'[k].queryCredID \in Walked \cup {id}
      BY <1>15, <1>18
    <3>3. \A j \in Walked : j \in Nat
      <4>1. \A p \in 1..(pos - 1) : p \in DOMAIN ids
        BY <1>1, <1>3, <1>4
      <4>2. \A p \in DOMAIN ids : ids[p] \in IDs
        BY <1>3, <1>4, ElementOfSeq
      <4> QED
        BY <4>1, <4>2, IDsAssumption DEF Walked
    <3> QED
      BY <1>6, <1>15, <3>1, <3>2, <3>3
  <2> QED
    BY <1>13, <1>14, <2>1, <2>2
<1>20. \E before \in [Walked' -> 0..Len(out')] : Delivered(before)'
  <2>1. PICK b \in [Walked -> 0..Len(out)] : Delivered(b)
    BY <1>2 DEF WalkInv
  <2> DEFINE w == [j \in Walked \cup {id} |-> IF j = id THEN Len(out) ELSE b[j]]
  <2>2. PICK n \in [Walked' -> 0..Len(out')] : n = w
    <3>1. 0..Len(out) \subseteq 0..Len(out') /\ Len(out) \in 0..Len(out)
      BY <1>8, <1>13, <1>14
    <3>2. w \in [Walked \cup {id} -> 0..Len(out)]
      BY <3>1
    <3>3. w \in [Walked \cup {id} -> 0..Len(out')]
      BY <3>1, <3>2
    <3> HIDE DEF w
    <3> QED
      BY <1>15, <3>3
  <2>3. /\ DOMAIN n = Walked \cup {id} /\ n[id] = Len(out)
        /\ \A j \in Walked : n[j] = b[j] /\ b[j] \in Nat
    BY <1>13, <1>15, <2>2
  <2>4. ASSUME NEW j \in Walked, NEW i \in DOMAIN vpToken[j].entries
        PROVE  /\ n[j] + i \in DOMAIN out' /\ out'[n[j] + i].queryCredID = j
               /\ out'[n[j] + i].payload[2] = vpToken[j].entries[i]
    <3>1. /\ b[j] + i \in DOMAIN out /\ out[b[j] + i].queryCredID = j
          /\ out[b[j] + i].payload[2] = vpToken[j].entries[i]
      BY <2>1, <2>4 DEF Delivered
    <3> QED
      BY <1>8, <1>13, <1>14, <2>3, <3>1
  <2>5. ASSUME NEW i \in DOMAIN entries
        PROVE  /\ n[id] + i \in DOMAIN out' /\ out'[n[id] + i].queryCredID = id
               /\ out'[n[id] + i].payload[2] = entries[i]
    <3>1. i \in 1..Len(entries) /\ n[id] + i \in DOMAIN out'
      BY <1>8, <1>13, <1>14, <2>3, <2>5
    <3>2. out'[n[id] + i] = P[i]
      BY <1>14, <2>3, <3>1
    <3> QED
      BY <1>12, <3>1, <3>2
  <2>6. ASSUME NEW k \in DOMAIN out'
        PROVE  \E j \in DOMAIN n : k - n[j] \in DOMAIN vpToken[j].entries
    <3>1. CASE k <= Len(out)
      <4>1. k \in DOMAIN out
        BY <1>13, <1>14, <3>1
      <4>2. PICK j \in Walked : k - b[j] \in DOMAIN vpToken[j].entries
        BY <2>1, <4>1 DEF Delivered
      <4> QED
        BY <2>3, <4>2
    <3>2. CASE k > Len(out)
      <4>1. k - n[id] \in DOMAIN entries
        BY <1>8, <1>13, <1>14, <2>3, <3>2
      <4> QED
        BY <2>3, <4>1 DEF entries
    <3> QED
      BY <1>13, <1>14, <3>1, <3>2
  <2>7. Delivered(n)'
    BY <1>1, <2>3, <2>4, <2>5, <2>6 DEF Delivered, entries
  <2> QED
    BY <2>2, <2>7
<1>21. \A j \in Walked' : keyError(j, vpToken[j])' = "nil"
  BY <1>1, <1>2, <1>15 DEF WalkInv, keyError, formatOf, id
<1>22. out' \in Seq(Handed')
  BY <1>1, <1>14, HandedStays
<1>23. WalkInv'
  BY <1>18, <1>19, <1>20, <1>21, <1>22 DEF WalkInv
<1>24. KeysInv' /\ InputsOK'
  BY <1>1, <1>2, <1>3, <1>4 DEF KeysInv, InputsOK, Sessions
<1> QED
  BY <1>1, <1>23, <1>24 DEF PresentationsInv

\* What Min chooses from a set with a least element.
LEMMA MinIs ==
    ASSUME NEW S \in SUBSET Nat, NEW x \in S, \A y \in S : x <= y
    PROVE  Min(S) = x
<1>1. Min(S) \in S /\ \A y \in S : Min(S) <= y
  BY DEF Min
<1>2. Min(S) <= x /\ x <= Min(S) /\ Min(S) \in Nat /\ x \in Nat
  BY <1>1
<1> QED
  BY <1>2

Bad == {id \in DOMAIN vpToken : keyError(id, vpToken[id]) # "nil"}

\* Which keys have an error depends on the inputs only.
LEMMA ErrorStays ==
    ASSUME UNCHANGED <<session, vpToken>>,
           err' = IF Bad = {} THEN "nil" ELSE keyError(Min(Bad), vpToken[Min(Bad)])
    PROVE  ErrorIsDeterministic'
<1>1. session' = session /\ vpToken' = vpToken
  OBVIOUS
<1>2. Bad' = Bad
  BY <1>1 DEF Bad, keyError, formatOf
<1>3. \A x : keyError(x, vpToken[x])' = keyError(x, vpToken[x])
  BY <1>1 DEF keyError, formatOf
<1> QED
  BY <1>1, <1>2, <1>3 DEF ErrorIsDeterministic, Bad, keyError, formatOf

\* The first key with an error is the least one that has one, as the walk
\* goes in ascending order.
LEMMA InvWalkRefused ==
    ASSUME PresentationsInv, Walk, keyError(ids[pos], vpToken[ids[pos]]) # "nil"
    PROVE  PresentationsInv'
<1> DEFINE id == ids[pos]
<1>1. /\ phase = "walk" /\ pos <= Len(ids) /\ out' = <<>> /\ phase' = "done"
      /\ err' = keyError(id, vpToken[id])
      /\ UNCHANGED <<session, origin, vpToken, ids, pos>>
  BY DEF Walk, inputs
<1>2. InputsOK /\ KeysInv /\ WalkInv
  BY <1>1 DEF PresentationsInv
<1>3. /\ ids \in Seq(IDs) /\ Range(ids) = DOMAIN vpToken /\ pos \in 1..(Len(ids) + 1)
      /\ \A i, j \in DOMAIN ids : i < j => ids[i] < ids[j]
  BY <1>1, <1>2 DEF KeysInv
<1>4. Len(ids) \in Nat /\ DOMAIN ids = 1..Len(ids) /\ pos \in DOMAIN ids
  BY <1>1, <1>3, LenProperties
<1>5. id \in Bad /\ Bad \subseteq Nat
  BY <1>2, <1>3, <1>4, TokenFacts DEF Bad, Range
<1>6. \A j \in Bad : id <= j
  <2> TAKE j \in Bad
  <2>1. PICK q \in DOMAIN ids : j = ids[q]
    BY <1>3 DEF Bad, Range
  <2>2. ~(q < pos)
    <3> SUFFICES ASSUME q < pos PROVE FALSE
      OBVIOUS
    <3>1. q \in 1..(pos - 1)
      BY <1>3, <1>4
    <3>2. j \in Walked
      BY <2>1, <3>1 DEF Walked
    <3> QED
      BY <1>2, <3>2 DEF WalkInv, Bad
  <2>3. q = pos \/ pos < q
    BY <1>4, <2>2
  <2>4. CASE q = pos
    BY <1>5, <2>1, <2>4
  <2>5. CASE pos < q
    <3>1. id < j
      BY <1>3, <1>4, <2>1, <2>5
    <3>2. id \in Nat /\ j \in Nat
      BY <1>5
    <3> HIDE DEF id
    <3> QED
      BY <3>1, <3>2
  <2> QED
    BY <2>3, <2>4, <2>5
<1>7. Min(Bad) = id
  BY <1>5, <1>6, MinIs
<1>8. err' = IF Bad = {} THEN "nil" ELSE keyError(Min(Bad), vpToken[Min(Bad)])
  BY <1>1, <1>5, <1>7
<1>9. ErrorIsDeterministic'
  BY <1>1, <1>8, ErrorStays
<1>10. err' \in {"ErrUnknownCredentialID", "ErrMalformedResponse"}
  BY <1>1 DEF keyError
<1>11. WholeOrNothing' /\ MdocHasTranscript'
  BY <1>1, <1>10 DEF WholeOrNothing, MdocHasTranscript
<1>12. DoneInv'
  BY <1>1, <1>9, <1>10, <1>11 DEF DoneInv
<1>13. KeysInv' /\ InputsOK'
  BY <1>1, <1>2, <1>3 DEF KeysInv, InputsOK, Sessions
<1> QED
  BY <1>1, <1>12, <1>13 DEF PresentationsInv

\* The caller gets what was collected, with the origin of a DCAPI response.
LEMMA InvDeliver ==
    ASSUME PresentationsInv, Deliver
    PROVE  PresentationsInv'
<1>1. /\ phase = "walk" /\ pos > Len(ids) /\ phase' = "done"
      /\ out' = [k \in DOMAIN out |-> [out[k] EXCEPT !.origin = origin]]
      /\ UNCHANGED <<session, origin, vpToken, ids, pos, err>>
  BY DEF Deliver, inputs
<1>2. InputsOK /\ KeysInv /\ WalkInv
  BY <1>1 DEF PresentationsInv
<1>3. /\ ids \in Seq(IDs) /\ Range(ids) = DOMAIN vpToken /\ pos \in 1..(Len(ids) + 1)
      /\ err = "nil"
  BY <1>1, <1>2 DEF KeysInv
<1>4. Len(ids) \in Nat /\ DOMAIN ids = 1..Len(ids) /\ pos - 1 = Len(ids)
  BY <1>1, <1>3, LenProperties
<1>5. Walked = DOMAIN vpToken
  BY <1>3, <1>4 DEF Walked, Range
<1>6. out \in Seq(Handed) /\ Len(out) \in Nat /\ DOMAIN out = 1..Len(out)
  BY <1>2, LenProperties DEF WalkInv
<1>7. \A k \in DOMAIN out : out[k] \in Handed
  BY <1>6, ElementOfSeq
<1>8. DOMAIN out' = DOMAIN out /\ \A k \in DOMAIN out : out'[k] = [out[k] EXCEPT !.origin = origin]
  BY <1>1
<1>9. Len(out') = Len(out)
  BY <1>6, <1>8
<1>10. \A k \in DOMAIN out :
        /\ out'[k].queryCredID = out[k].queryCredID /\ out'[k].format = out[k].format
        /\ out'[k].payload = out[k].payload /\ out'[k].nonce = "nonce"
        /\ out'[k].clientID = "client" /\ out'[k].responseURI = session.responseURI
        /\ out'[k].format = "mso_mdoc" => out'[k].thumbprint = "thumbprint"
        /\ out'[k].origin = origin
        /\ out'[k].queryCredID \in DOMAIN session.formats
  <2> TAKE k \in DOMAIN out
  <2>1. out[k] \in Handed /\ out'[k] = [out[k] EXCEPT !.origin = origin]
    BY <1>7, <1>8
  <2> QED
    BY <2>1, DeliveredFields
<1>11. ErrorIsDeterministic'
  <2>1. \A id \in DOMAIN vpToken : keyError(id, vpToken[id]) = "nil"
    BY <1>2, <1>5 DEF WalkInv
  <2>2. Bad = {}
    BY <2>1 DEF Bad
  <2> QED
    BY <1>1, <1>3, <2>2, ErrorStays
<1>12. WholeOrNothing'
  <2>1. Ascending'
    BY <1>2, <1>8, <1>10 DEF WalkInv, Ascending
  <2>2. PICK b \in [DOMAIN vpToken -> 0..Len(out)] : Delivered(b)
    BY <1>2, <1>5 DEF WalkInv
  <2>3. Delivered(b)'
    BY <1>1, <1>8, <1>10, <2>2 DEF Delivered
  <2> QED
    BY <1>1, <1>3, <1>9, <2>1, <2>2, <2>3 DEF WholeOrNothing, Ascending
<1>13. MdocHasTranscript'
  <2> SUFFICES ASSUME NEW k \in DOMAIN out, out'[k].format = "mso_mdoc"
               PROVE  SessionTranscriptFor(out'[k]) =
                        [err |-> "nil",
                         handover |-> IF session.flow = "dcapi"
                                      THEN <<"dcapi", origin, "nonce", "thumbprint">>
                                      ELSE <<"oid4vp", "client", "nonce", "thumbprint",
                                             session.responseURI>>]
    BY <1>1, <1>8 DEF MdocHasTranscript
  <2>1. /\ out'[k].nonce = "nonce" /\ out'[k].clientID = "client"
        /\ out'[k].responseURI = session.responseURI
        /\ out'[k].thumbprint = "thumbprint" /\ out'[k].origin = origin
    BY <1>10
  <2>2. CASE session.flow = "dcapi"
    <3>1. origin # EmptyURL
      BY <1>2, <2>2, SessionShape
    <3> QED
      BY <2>1, <2>2, <3>1 DEF SessionTranscriptFor
  <2>3. CASE session.flow # "dcapi"
    <3>1. origin = EmptyURL /\ session.responseURI # EmptyURL
      BY <1>2, <2>3, SessionShape
    <3> QED
      BY <2>1, <2>3, <3>1 DEF SessionTranscriptFor
  <2> QED
    BY <2>2, <2>3
<1>14. DoneInv'
  BY <1>1, <1>3, <1>8, <1>10, <1>11, <1>12, <1>13 DEF DoneInv
<1>15. KeysInv' /\ InputsOK'
  BY <1>1, <1>2, <1>3 DEF KeysInv, InputsOK, Sessions
<1> QED
  BY <1>1, <1>14, <1>15 DEF PresentationsInv

\* A stuttering step preserves the invariant.
LEMMA InvStutter ==
    ASSUME PresentationsInv, UNCHANGED vars
    PROVE  PresentationsInv'
<1>1. /\ session' = session /\ origin' = origin /\ vpToken' = vpToken /\ phase' = phase
      /\ ids' = ids /\ pos' = pos /\ out' = out /\ err' = err
  BY DEF vars
<1>2. InputsOK' /\ KeysInv'
  BY <1>1 DEF PresentationsInv, InputsOK, Sessions, KeysInv
<1>3. ASSUME phase = "walk" PROVE WalkInv'
  <2>1. WalkInv
    BY <1>3 DEF PresentationsInv
  <2>2. Handed' = Handed /\ Walked' = Walked /\ Ascending' = Ascending
    BY <1>1, HandedStays DEF Walked, Ascending
  <2>3. \A id \in Walked : keyError(id, vpToken[id])' = "nil"
    BY <1>1, <2>1 DEF WalkInv, keyError, formatOf
  <2>4. \E before \in [Walked -> 0..Len(out)] : Delivered(before)'
    BY <1>1, <2>1 DEF WalkInv, Delivered
  <2> QED
    BY <1>1, <2>1, <2>2, <2>3, <2>4 DEF WalkInv
<1>4. ASSUME phase = "done" PROVE DoneInv'
  <2>1. DoneInv
    BY <1>4 DEF PresentationsInv
  <2>2. ErrorIsDeterministic'
    BY <1>1, <1>4, <2>1, ErrorStays DEF DoneInv, ErrorIsDeterministic, Bad
  <2>3. WholeOrNothing'
    BY <1>1, <2>1 DEF DoneInv, WholeOrNothing, Delivered
  <2>4. MdocHasTranscript'
    BY <1>1, <2>1 DEF DoneInv, MdocHasTranscript
  <2> QED
    BY <1>1, <2>1, <2>2, <2>3, <2>4 DEF DoneInv
<1> QED
  BY <1>1, <1>2, <1>3, <1>4 DEF PresentationsInv

\* What the walk of presentationsFromVPToken has established at each key.
THEOREM PresentationsInvariant == Spec => []PresentationsInv
<1>1. Init => PresentationsInv
  BY PresentationsInvInit
<1>2. PresentationsInv /\ [Next]_vars => PresentationsInv'
  BY InvGather, InvSort, InvWalkOn, InvWalkRefused, InvDeliver, InvStutter DEF Next
<1> QED
  BY <1>1, <1>2, PTL DEF Spec

-----------------------------------------------------------------------------
(* What follows                                                            *)

\* Types; every presentation that presentationsFromVPToken builds belongs to a
\* credential query of the session.
THEOREM PresentationsTypeCorrect == Spec => []TypeOK
<1>1. PresentationsInv => TypeOK
  <2> SUFFICES ASSUME PresentationsInv PROVE TypeOK
    OBVIOUS
  <2>1. \A k \in DOMAIN out : out[k].queryCredID \in DOMAIN session.formats
    <3>1. CASE phase = "walk"
      <4>1. out \in Seq(Handed)
        BY <3>1 DEF PresentationsInv, WalkInv
      <4>2. \A k \in DOMAIN out : out[k] \in Handed
        BY <4>1, LenProperties, ElementOfSeq
      <4> QED
        BY <4>2, PresentationFields DEF Handed
    <3>2. CASE phase = "done"
      BY <3>2 DEF PresentationsInv, DoneInv
    <3>3. CASE phase \in {"gather", "sort"}
      BY <3>3 DEF PresentationsInv, KeysInv
    <3> QED
      BY <3>1, <3>2, <3>3 DEF PresentationsInv, KeysInv
  <2>2. DOMAIN vpToken \subseteq IDs
    BY TokenFacts DEF PresentationsInv
  <2>3. err \in {"nil", "ErrUnknownCredentialID", "ErrMalformedResponse"}
    BY DEF PresentationsInv, KeysInv, DoneInv
  <2> QED
    BY <2>1, <2>2, <2>3 DEF PresentationsInv, InputsOK, KeysInv, TypeOK, IsInjective
<1> QED
  BY <1>1, PresentationsInvariant, PTL

\* For any vp_token, the error does not depend on the order of the map: it is
\* that of the least key that has one.
THEOREM ErrorIsDeterministicHolds == Spec => []ErrorIsDeterministic
<1>1. PresentationsInv => ErrorIsDeterministic
  BY DEF PresentationsInv, DoneInv, ErrorIsDeterministic
<1> QED
  BY <1>1, PresentationsInvariant, PTL

\* For any vp_token, the caller gets every entry of every key in order, or
\* nothing.
THEOREM WholeOrNothingHolds == Spec => []WholeOrNothing
<1>1. PresentationsInv => WholeOrNothing
  BY DEF PresentationsInv, DoneInv, WholeOrNothing
<1> QED
  BY <1>1, PresentationsInvariant, PTL

\* For every session that validateSpec admits, SessionTranscriptFor succeeds on
\* every mdoc presentation with the handover of the session's flow.
THEOREM MdocHasTranscriptHolds == Spec => []MdocHasTranscript
<1>1. PresentationsInv => MdocHasTranscript
  BY DEF PresentationsInv, DoneInv, MdocHasTranscript
<1> QED
  BY <1>1, PresentationsInvariant, PTL
=============================================================================
