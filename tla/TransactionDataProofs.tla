------------------------ MODULE TransactionDataProofs ------------------------
(***************************************************************************)
(* ValidateTransactionDataEcho decides exactly whether the echo confirms   *)
(* the session's entries, for any entries, algorithms and echo.            *)
(***************************************************************************)
EXTENDS TransactionData, FiniteSetTheorems, SequenceTheorems, TLAPS

-----------------------------------------------------------------------------
(* Counting                                                                *)

\* The positions of h in s.
Class(s, h) == {i \in DOMAIN s : s[i] = h}

\* The hashes that the loop is matched against.
Want == TransactionDataHashes(td, alg)

\* The positions of a sequence, counted.
LEMMA DomainFinite ==
    ASSUME NEW S, NEW s \in Seq(S)
    PROVE  /\ Len(s) \in Nat /\ DOMAIN s = 1..Len(s)
           /\ IsFiniteSet(DOMAIN s) /\ Cardinality(DOMAIN s) = Len(s)
<1>1. Len(s) \in Nat /\ DOMAIN s = 1..Len(s)
  BY LenProperties
<1>2. /\ IsFiniteSet(1..Len(s))
      /\ Cardinality(1..Len(s)) = IF 1 > Len(s) THEN 0 ELSE Len(s) - 1 + 1
  BY <1>1, FS_Interval
<1> QED
  BY <1>1, <1>2

\* The positions of one hash, counted.
LEMMA ClassFinite ==
    ASSUME NEW S, NEW s \in Seq(S), NEW h
    PROVE  IsFiniteSet(Class(s, h)) /\ Cardinality(Class(s, h)) \in Nat
BY DomainFinite, FS_Subset, FS_CardinalityType DEF Class

\* TransactionDataHashes hashes each entry in its place.
LEMMA HashesFacts ==
    ASSUME NEW s \in Seq(Objects), NEW a \in Algs
    PROVE  /\ TransactionDataHashes(s, a) \in Seq(Hashes)
           /\ DOMAIN TransactionDataHashes(s, a) = DOMAIN s
           /\ \A i \in DOMAIN s : TransactionDataHashes(s, a)[i] = Hash(a, s[i])
<1>1. \A i \in 1..Len(s) : Hash(a, s[i]) \in Hashes
  BY ObjectsAssumption DEF Hash, Hashes
<1>2. DOMAIN s = 1..Len(s) /\ Len(s) \in Nat
  BY LenProperties
<1>3. TransactionDataHashes(s, a) = [i \in 1..Len(s) |-> Hash(a, s[i])]
  BY <1>2 DEF TransactionDataHashes
<1>4. TransactionDataHashes(s, a) \in Seq(Hashes)
  BY <1>1, <1>2, <1>3
<1> QED
  BY <1>2, <1>3, <1>4

\* The loop's counters start as the number of entries with that hash.
LEMMA CountWantedType ==
    ASSUME NEW S, NEW s \in Seq(S)
    PROVE  /\ countWanted(s) \in [Hashes -> Nat]
           /\ \A h \in Hashes : countWanted(s)[h] = Cardinality(Class(s, h))
BY ClassFinite DEF countWanted, Class

\* A confirmation has the length of what it confirms and repeats no hash more
\* often than that asks for.
LEMMA ConfirmsCounts ==
    ASSUME NEW s \in Seq(Objects), NEW a \in Algs, NEW echo \in Seq(Hashes),
           Confirms(echo, s, a)
    PROVE  /\ Len(s) = Len(echo)
           /\ \A h \in Hashes :
                Cardinality(Class(echo, h))
                    <= Cardinality(Class(TransactionDataHashes(s, a), h))
<1> DEFINE w == TransactionDataHashes(s, a)
<1>1. PICK m \in Bijection(DOMAIN echo, DOMAIN s) :
        \A i \in DOMAIN echo : echo[i] = Hash(a, s[m[i]])
  BY DEF Confirms
<1>2. /\ w \in Seq(Hashes) /\ DOMAIN w = DOMAIN s
      /\ \A i \in DOMAIN s : w[i] = Hash(a, s[i])
  BY HashesFacts
<1> HIDE DEF w
<1>3. Len(s) = Len(echo)
  <2>1. ExistsBijection(DOMAIN echo, DOMAIN s)
    BY <1>1 DEF ExistsBijection
  <2>2. Cardinality(DOMAIN s) = Cardinality(DOMAIN echo)
    BY <2>1, DomainFinite, FS_Bijection
  <2> QED
    BY <2>2, DomainFinite
<1>4. ASSUME NEW h \in Hashes
      PROVE  Cardinality(Class(echo, h)) <= Cardinality(Class(w, h))
  <2> DEFINE f == [j \in Class(echo, h) |-> m[j]]
  <2>1. /\ m \in [DOMAIN echo -> DOMAIN s]
        /\ \A i, j \in DOMAIN echo : m[i] = m[j] => i = j
    BY <1>1 DEF Bijection, Injection, IsInjective
  <2>2. \A j \in Class(echo, h) : m[j] \in Class(w, h)
    BY <1>1, <1>2, <2>1 DEF Class
  <2>3. f \in Injection(Class(echo, h), Class(w, h))
    BY <2>1, <2>2 DEF Injection, IsInjective, Class
  <2>4. IsFiniteSet(Class(w, h))
    BY <1>2, ClassFinite
  <2> QED
    BY <2>3, <2>4, FS_Injection
<1> QED
  BY <1>3, <1>4 DEF w

-----------------------------------------------------------------------------
(* The inductive invariant                                                 *)

\* Each echoed hash in front of next has an entry of its own.
MatchedSoFar ==
    \E m \in Injection(1..(next - 1), DOMAIN td) :
        \A j \in 1..(next - 1) : echoed[j] = Hash(alg, td[m[j]])

\* The positions of h in front of next.
Seen(h) == {j \in 1..(next - 1) : echoed[j] = h}

\* The loop: what was wanted is what remains and what was seen.
LoopInv ==
    phase = "matching" =>
        /\ alg \in Algs /\ td # <<>> /\ echoed # <<>> /\ Len(td) = Len(echoed)
        /\ \A h \in Hashes :
            Cardinality(Class(Want, h)) = remaining[h] + Cardinality(Seen(h))
        /\ MatchedSoFar

\* Some reason why the echo is no confirmation.
Mismatch ==
    \/ Len(td) # Len(echoed)
    \/ \E h \in Hashes : Cardinality(Class(echoed, h)) > Cardinality(Class(Want, h))

\* What each result says.
ResultInv ==
    phase = "done" =>
        /\ result # "ErrTransactionDataInvalid"
        /\ result = "nil" => Confirms(echoed, td, alg)
        /\ result = "ErrTransactionDataMismatch" => Mismatch
        /\ result = "ErrAlgorithmNotAllowed" => alg \notin Algs
        /\ result = "ErrTransactionDataUnexpected" => td = <<>> /\ echoed # <<>>
        /\ result = "ErrTransactionDataMissing" => td # <<>> /\ echoed = <<>>
        /\ td # <<>> /\ echoed = <<>> =>
            result \in {"ErrTransactionDataDisabled", "ErrTransactionDataMissing"}

EchoInv ==
    /\ TypeOK
    /\ carried \in {<<>>, td}
    /\ phase \in {"none", "created", "requested"} => next = 1
    /\ LoopInv
    /\ ResultInv

\* A bounded sequence is a sequence.
LEMMA BoundedIsSeq ==
    ASSUME NEW S, NEW n \in Nat, NEW s \in BoundedSeq(S, n)
    PROVE  s \in Seq(S)
BY DEF BoundedSeq, SeqOf

\* Before NewSession there is nothing to establish.
LEMMA EchoInvInit ==
    ASSUME Init
    PROVE  EchoInv
<1>1. remaining \in [Hashes -> Nat]
  BY EmptySeq, CountWantedType DEF Init
<1>2. TypeOK
  BY <1>1, EmptySeq DEF Init, TypeOK
<1> QED
  BY <1>2 DEF Init, EchoInv, LoopInv, ResultInv

\* validateSpec admits objects only.
LEMMA SpecErrorFacts ==
    ASSUME NEW s \in Seq(Entries), NEW on \in BOOLEAN
    PROVE  /\ specError(s, on) \in {"nil", "ErrTransactionDataDisabled",
                                    "ErrTransactionDataInvalid"}
           /\ specError(s, on) = "nil" => s \in Seq(Objects)
<1>1. Range(s) \subseteq Objects => s \in Seq(Objects)
  <2> SUFFICES ASSUME Range(s) \subseteq Objects PROVE s \in Seq(Objects)
    OBVIOUS
  <2>1. Len(s) \in Nat /\ DOMAIN s = 1..Len(s) /\ s \in [1..Len(s) -> Entries]
    BY LenProperties
  <2>2. \A i \in 1..Len(s) : s[i] \in Objects
    BY <2>1 DEF Range
  <2>3. s \in [1..Len(s) -> Objects]
    BY <2>1, <2>2
  <2> QED
    BY <2>1, <2>3
<1> QED
  BY <1>1, EmptySeq DEF specError

\* A session keeps only entries that validateTransactionData admits.
LEMMA EchoInvNewSession ==
    ASSUME EchoInv, NEW s \in BoundedSeq(Entries, MaxEntries), NewSession(s)
    PROVE  EchoInv'
<1>1. s \in Seq(Entries)
  BY BoundedIsSeq, MaxEntriesAssumption
<1>2. /\ result' \in {"nil", "ErrTransactionDataDisabled", "ErrTransactionDataInvalid"}
      /\ result' = "nil" => s \in Seq(Objects)
  BY <1>1, SpecErrorFacts DEF NewSession, EchoInv, TypeOK
<1>3. td' \in Seq(Objects)
  BY <1>2, EmptySeq DEF NewSession
<1>4. remaining' \in [Hashes -> Nat]
  BY EmptySeq, CountWantedType DEF NewSession
<1>5. TypeOK'
  BY <1>2, <1>3, <1>4, EmptySeq DEF NewSession, EchoInv, TypeOK
<1>6. phase' \in {"none", "created"} /\ next' = 1 /\ carried' = <<>>
  BY DEF NewSession
<1> QED
  BY <1>5, <1>6 DEF EchoInv, LoopInv, ResultInv

\* Another engine with another flag changes nothing that was decided.
LEMMA EchoInvUnchanged ==
    ASSUME EchoInv, UNCHANGED <<phase, td, carried, echoed, alg, remaining, next, result>>,
           flag' \in BOOLEAN
    PROVE  EchoInv'
BY DEF EchoInv, TypeOK, LoopInv, MatchedSoFar, Seen, ResultInv, Mismatch, Want, Class

\* The request carries all entries of the session or none.
LEMMA EchoInvRequest ==
    ASSUME EchoInv, Request
    PROVE  EchoInv'
<1>1. carried' \in {<<>>, td} /\ carried' \in Seq(Objects)
  BY EmptySeq DEF Request, transactionDataMember, EchoInv, TypeOK
<1> QED
  BY <1>1 DEF Request, EchoInv, TypeOK, LoopInv, ResultInv

\* The loop starts with all counts and nothing seen.
LEMMA LoopStarts ==
    ASSUME EchoInv, NEW echo \in Seq(Hashes), NEW a \in Algs, Len(td) = Len(echo),
           td # <<>>, echo # <<>>, next' = 1, next = 1,
           echoed' = echo, alg' = a, td' = td,
           remaining' = countWanted(TransactionDataHashes(td, a))
    PROVE  LoopInv' /\ remaining' \in [Hashes -> Nat]
<1>1. td \in Seq(Objects)
  BY DEF EchoInv, TypeOK
<1>2. Want' = TransactionDataHashes(td, a) /\ Want' \in Seq(Hashes)
  BY <1>1, HashesFacts DEF Want
<1>3. /\ remaining' \in [Hashes -> Nat]
      /\ \A h \in Hashes : remaining'[h] = Cardinality(Class(Want', h))
  BY <1>2, CountWantedType
<1>4. \A h \in Hashes : Seen(h)' = {}
  BY DEF Seen
<1>5. \A h \in Hashes : Cardinality(Class(Want', h)) = remaining'[h] + Cardinality(Seen(h)')
  <2> TAKE h \in Hashes
  <2>1. Cardinality(Seen(h)') = 0
    BY <1>4, FS_EmptySet, Zenon
  <2>2. remaining'[h] = Cardinality(Class(Want', h)) /\ remaining'[h] \in Nat
    BY <1>3
  <2> QED
    BY <2>1, <2>2
<1>6. MatchedSoFar'
  <2>1. 1..(next' - 1) = {}
    OBVIOUS
  <2>2. <<>> \in Injection({}, DOMAIN td')
    BY DEF Injection, IsInjective
  <2> QED
    BY <2>1, <2>2 DEF MatchedSoFar
<1> QED
  BY <1>3, <1>5, <1>6 DEF LoopInv, Class

\* The tests in front of the loop, each with its error, and its start.
LEMMA EchoInvValidate ==
    ASSUME EchoInv, NEW echo \in BoundedSeq(Hashes, MaxEntries),
           NEW a \in Algs \cup {OtherAlg}, Validate(echo, a)
    PROVE  EchoInv'
<1>1. echo \in Seq(Hashes)
  BY BoundedIsSeq, MaxEntriesAssumption
<1>2. /\ echoed' = echo /\ alg' = a /\ next = 1 /\ next' = 1
      /\ UNCHANGED <<flag, td, carried>>
  BY DEF Validate, EchoInv
<1>3. td \in Seq(Objects) /\ Len(td) \in Nat /\ Len(echo) \in Nat
  BY <1>1, LenProperties DEF EchoInv, TypeOK
<1>4. CASE echoError(td, flag, echo, a) = "match"
  <2>1. a \in Algs /\ Len(td) = Len(echo) /\ td # <<>> /\ echo # <<>>
    BY <1>4 DEF echoError
  <2>2. /\ phase' = "matching" /\ result' = result
        /\ remaining' = countWanted(TransactionDataHashes(td, a))
    BY <1>4 DEF Validate
  <2>3. LoopInv' /\ remaining' \in [Hashes -> Nat]
    BY <1>1, <1>2, <2>1, <2>2, LoopStarts
  <2> QED
    BY <1>1, <1>2, <1>3, <2>2, <2>3 DEF EchoInv, TypeOK, ResultInv
<1>5. CASE echoError(td, flag, echo, a) # "match"
  <2>1. /\ phase' = "done" /\ result' = echoError(td, flag, echo, a)
        /\ remaining' = remaining
    BY <1>5 DEF Validate
  <2>2. /\ result' \in {"ErrTransactionDataDisabled", "ErrTransactionDataUnexpected",
                        "nil", "ErrTransactionDataMissing", "ErrAlgorithmNotAllowed",
                        "ErrTransactionDataMismatch"}
        /\ result' = "nil" => td = <<>> /\ echo = <<>>
        /\ result' = "ErrTransactionDataMismatch" => Len(td) # Len(echo)
        /\ result' = "ErrAlgorithmNotAllowed" => a \notin Algs
        /\ result' = "ErrTransactionDataUnexpected" => td = <<>> /\ echo # <<>>
        /\ result' = "ErrTransactionDataMissing" => td # <<>> /\ echo = <<>>
        /\ td # <<>> /\ echo = <<>> =>
            result' \in {"ErrTransactionDataDisabled", "ErrTransactionDataMissing"}
    BY <1>5, <2>1 DEF echoError
  <2>3. Confirms(<<>>, <<>>, a)
    <3>1. <<>> \in Bijection({}, {})
      BY DEF Bijection, Injection, Surjection, IsInjective
    <3> QED
      BY <3>1 DEF Confirms
  <2>4. ResultInv'
    BY <1>2, <2>2, <2>3 DEF ResultInv, Mismatch
  <2>5. TypeOK'
    BY <1>1, <1>2, <1>3, <2>1, <2>2 DEF EchoInv, TypeOK
  <2> QED
    BY <1>2, <2>1, <2>4, <2>5 DEF EchoInv, LoopInv
<1> QED
  BY <1>4, <1>5

\* One iteration: a hash without an entry left is a mismatch, any other one
\* gets an entry of its own.
LEMMA EchoInvMatch ==
    ASSUME EchoInv, Match
    PROVE  EchoInv'
<1> DEFINE h == echoed[next]
<1>1. /\ phase = "matching" /\ UNCHANGED <<flag, td, carried, echoed, alg>>
      /\ alg \in Algs /\ td # <<>> /\ echoed # <<>> /\ Len(td) = Len(echoed)
      /\ \A k \in Hashes :
            Cardinality(Class(Want, k)) = remaining[k] + Cardinality(Seen(k))
      /\ MatchedSoFar
  BY DEF Match, EchoInv, LoopInv
<1>2. /\ td \in Seq(Objects) /\ echoed \in Seq(Hashes) /\ remaining \in [Hashes -> Nat]
      /\ next \in Nat /\ next >= 1 /\ next <= Len(echoed) + 1
      /\ Len(td) \in Nat /\ Len(echoed) \in Nat
      /\ DOMAIN td = 1..Len(td) /\ DOMAIN echoed = 1..Len(echoed)
  BY LenProperties DEF EchoInv, TypeOK
<1>3. /\ Want \in Seq(Hashes) /\ DOMAIN Want = DOMAIN td /\ Want' = Want
      /\ \A i \in DOMAIN td : Want[i] = Hash(alg, td[i])
  BY <1>1, <1>2, HashesFacts DEF Want
<1>4. \A k \in Hashes : IsFiniteSet(Seen(k)) /\ Cardinality(Seen(k)) \in Nat
  <2>1. IsFiniteSet(1..(next - 1))
    BY <1>2, FS_Interval
  <2> QED
    BY <2>1, FS_Subset, FS_CardinalityType DEF Seen
<1>5. PICK m \in Injection(1..(next - 1), DOMAIN td) :
        \A j \in 1..(next - 1) : echoed[j] = Hash(alg, td[m[j]])
  BY <1>1 DEF MatchedSoFar
<1>6. /\ m \in [1..(next - 1) -> DOMAIN td]
      /\ \A i, j \in 1..(next - 1) : m[i] = m[j] => i = j
  BY <1>5 DEF Injection, IsInjective
<1>7. CASE next > Len(echoed)
  <2>1. phase' = "done" /\ result' = "nil" /\ UNCHANGED <<remaining, next>>
    BY <1>2, <1>7 DEF Match
  <2>2. 1..(next - 1) = DOMAIN echoed /\ DOMAIN echoed = DOMAIN td
    BY <1>1, <1>2, <1>7
  <2>3. m \in Injection(DOMAIN echoed, DOMAIN td)
    BY <1>5, <2>2
  <2>4. m \in Surjection(DOMAIN echoed, DOMAIN td)
    BY <1>2, <2>2, <2>3, DomainFinite, FS_Injection
  <2>5. Confirms(echoed, td, alg)
    BY <1>5, <2>2, <2>3, <2>4 DEF Confirms, Bijection
  <2>6. ResultInv'
    BY <1>1, <2>1, <2>5 DEF ResultInv
  <2> QED
    BY <1>1, <2>1, <2>6 DEF EchoInv, TypeOK, LoopInv
<1>8. CASE next <= Len(echoed)
  <2>1. next \in DOMAIN echoed /\ h \in Hashes
    BY <1>2, <1>8
  <2>2. CASE remaining[h] = 0
    <3>1. /\ phase' = "done" /\ result' = "ErrTransactionDataMismatch"
          /\ UNCHANGED <<remaining, next>>
      BY <1>2, <1>8, <2>2 DEF Match
    <3>2. Cardinality(Class(Want, h)) = Cardinality(Seen(h))
      BY <1>1, <1>4, <2>1, <2>2
    <3>3. Cardinality(Class(echoed, h)) > Cardinality(Seen(h))
      <4>1. next \notin Seen(h) /\ Seen(h) \cup {next} \subseteq Class(echoed, h)
        BY <1>2, <2>1 DEF Seen, Class
      <4>2. Cardinality(Seen(h) \cup {next}) = Cardinality(Seen(h)) + 1
        BY <1>4, <2>1, <4>1, FS_AddElement
      <4>3. IsFiniteSet(Class(echoed, h)) /\ Cardinality(Class(echoed, h)) \in Nat
        BY <1>2, ClassFinite
      <4>4. Cardinality(Seen(h) \cup {next}) <= Cardinality(Class(echoed, h))
        BY <4>1, <4>3, FS_Subset
      <4> QED
        BY <1>4, <2>1, <4>2, <4>3, <4>4
    <3>4. Mismatch'
      BY <1>1, <1>3, <2>1, <3>2, <3>3 DEF Mismatch, Class
    <3>5. ResultInv'
      BY <1>1, <3>1, <3>4 DEF ResultInv
    <3> QED
      BY <1>1, <3>1, <3>5 DEF EchoInv, TypeOK, LoopInv
  <2>3. CASE remaining[h] > 0
    <3>1. /\ phase' = "matching" /\ result' = result /\ next' = next + 1
          /\ remaining' = [remaining EXCEPT ![h] = @ - 1]
      BY <1>1, <1>2, <1>8, <2>3 DEF Match
    <3>2. \E i \in Class(Want, h) : \A j \in 1..(next - 1) : m[j] # i
      <4> SUFFICES ASSUME \A i \in Class(Want, h) : \E j \in 1..(next - 1) : m[j] = i
                   PROVE  FALSE
        OBVIOUS
      <4> DEFINE f == [j \in Seen(h) |-> m[j]]
      <4>1. \A j \in Seen(h) : m[j] \in Class(Want, h)
        BY <1>3, <1>5, <1>6 DEF Seen, Class
      <4>2. \A i \in Class(Want, h) : \E j \in Seen(h) : m[j] = i
        BY <1>3, <1>5, <1>6 DEF Seen, Class
      <4>3. f \in Surjection(Seen(h), Class(Want, h))
        BY <4>1, <4>2 DEF Surjection
      <4>4. Cardinality(Class(Want, h)) <= Cardinality(Seen(h))
        BY <1>4, <2>1, <4>3, FS_Surjection
      <4>5. Cardinality(Class(Want, h)) = remaining[h] + Cardinality(Seen(h))
        BY <1>1, <2>1
      <4> QED
        BY <1>2, <1>4, <2>1, <2>3, <4>4, <4>5
    <3>3. PICK i \in Class(Want, h) : \A j \in 1..(next - 1) : m[j] # i
      BY <3>2
    <3>4. i \in DOMAIN td /\ Hash(alg, td[i]) = h
      BY <1>3 DEF Class
    <3>5. MatchedSoFar'
      <4> DEFINE n == [j \in 1..next |-> IF j = next THEN i ELSE m[j]]
      <4>1. /\ 1..(next' - 1) = 1..next
            /\ \A j \in 1..next : j # next => j \in 1..(next - 1)
        BY <1>2, <3>1
      <4>2. n \in [1..next -> DOMAIN td]
        BY <1>6, <3>4, <4>1
      <4>3. \A j, k \in 1..next : n[j] = n[k] => j = k
        BY <1>6, <3>3, <4>1
      <4>4. n \in Injection(1..next, DOMAIN td)
        BY <4>2, <4>3 DEF Injection, IsInjective
      <4>5. \A j \in 1..next : echoed[j] = Hash(alg, td[n[j]])
        BY <1>5, <3>4, <4>1
      <4> HIDE DEF n
      <4> QED
        BY <1>1, <4>1, <4>4, <4>5 DEF MatchedSoFar
    <3>6. ASSUME NEW k \in Hashes
          PROVE  Cardinality(Class(Want', k)) = remaining'[k] + Cardinality(Seen(k)')
      <4>1. Cardinality(Class(Want', k)) = remaining[k] + Cardinality(Seen(k))
        BY <1>1, <1>3
      <4>2. next \notin Seen(k) /\ 1..(next' - 1) = (1..(next - 1)) \cup {next}
        BY <1>2, <3>1 DEF Seen
      <4>3. CASE k = h
        <5>1. Seen(k)' = Seen(k) \cup {next}
          BY <1>1, <4>2, <4>3 DEF Seen
        <5>2. Cardinality(Seen(k)') = Cardinality(Seen(k)) + 1
          BY <1>4, <4>2, <5>1, FS_AddElement
        <5>3. remaining'[k] = remaining[k] - 1
          BY <1>2, <3>1, <4>3
        <5> QED
          BY <1>2, <1>4, <4>1, <5>2, <5>3
      <4>4. CASE k # h
        <5>1. Seen(k)' = Seen(k)
          BY <1>1, <4>2, <4>4 DEF Seen
        <5>2. remaining'[k] = remaining[k]
          BY <1>2, <3>1, <4>4
        <5> QED
          BY <4>1, <5>1, <5>2
      <4> QED
        BY <4>3, <4>4
    <3>7. LoopInv'
      BY <1>1, <3>5, <3>6 DEF LoopInv, Class
    <3>8. remaining' \in [Hashes -> Nat] /\ next' \in 1..(Len(echoed') + 1)
      BY <1>1, <1>2, <1>8, <2>1, <2>3, <3>1
    <3> QED
      BY <1>1, <3>1, <3>7, <3>8 DEF EchoInv, TypeOK, ResultInv
  <2> QED
    BY <1>2, <2>1, <2>2, <2>3
<1> QED
  BY <1>2, <1>7, <1>8

\* Every step preserves the invariant.
LEMMA EchoInvNext ==
    ASSUME EchoInv, [Next]_vars
    PROVE  EchoInv'
<1>1. CASE UNCHANGED vars \/ Reconfigure
  <2>1. flag' \in BOOLEAN
    BY <1>1 DEF vars, Reconfigure, EchoInv, TypeOK
  <2> QED
    BY <1>1, <2>1, EchoInvUnchanged DEF vars, Reconfigure
<1> QED
  BY <1>1, EchoInvNewSession, EchoInvRequest, EchoInvValidate, EchoInvMatch DEF Next

\* What the session, the request and the loop of ValidateTransactionDataEcho
\* hold: no counter goes below zero, every echoed hash in front of next has an
\* entry of its own, and every result has its reason.
THEOREM EchoInvariant == Spec => []EchoInv
<1>1. Init => EchoInv
  BY EchoInvInit
<1>2. EchoInv /\ [Next]_vars => EchoInv'
  BY EchoInvNext
<1> QED
  BY <1>1, <1>2, PTL DEF Spec

-----------------------------------------------------------------------------
(* What follows                                                            *)

\* Types; the counters of the matching loop never go below zero and its index
\* never leaves the echo, for any number of entries.
THEOREM TransactionDataTypeCorrect == Spec => []TypeOK
<1>1. EchoInv => TypeOK
  BY DEF EchoInv
<1> QED
  BY <1>1, EchoInvariant, PTL

\* For any entries and any echo, ValidateTransactionDataEcho accepts only a full
\* confirmation: a bijection between hashes and entries.
THEOREM AcceptedIsConfirmedHolds == Spec => []AcceptedIsConfirmed
<1>1. EchoInv => AcceptedIsConfirmed
  BY DEF EchoInv, ResultInv, AcceptedIsConfirmed
<1> QED
  BY <1>1, EchoInvariant, PTL

\* A full confirmation is refused only for the flag.
LEMMA ConfirmedResult ==
    ASSUME EchoInv, phase = "done", alg \in Algs, Confirms(echoed, td, alg)
    PROVE  result \in {"nil", "ErrTransactionDataDisabled"}
<1>1. td \in Seq(Objects) /\ echoed \in Seq(Hashes)
  BY DEF EchoInv, TypeOK
<1>2. /\ Len(td) = Len(echoed)
      /\ \A h \in Hashes : Cardinality(Class(echoed, h)) <= Cardinality(Class(Want, h))
  BY <1>1, ConfirmsCounts DEF Want
<1>3. \A h \in Hashes : /\ Cardinality(Class(echoed, h)) \in Nat
                        /\ Cardinality(Class(Want, h)) \in Nat
  BY <1>1, ClassFinite, HashesFacts DEF Want
<1>4. ~Mismatch
  BY <1>2, <1>3 DEF Mismatch
<1>5. td = <<>> <=> echoed = <<>>
  BY <1>1, <1>2, EmptySeq, LenProperties
<1> QED
  BY <1>4, <1>5 DEF EchoInv, TypeOK, ResultInv

\* For any entries and any order of the echo, a full confirmation under an
\* allowed algorithm is refused only by an engine with the flag off.
THEOREM ConfirmedIsAcceptedHolds == Spec => []ConfirmedIsAccepted
<1>1. EchoInv => ConfirmedIsAccepted
  BY ConfirmedResult DEF ConfirmedIsAccepted
<1> QED
  BY <1>1, EchoInvariant, PTL

\* Whatever engines with whatever flags create, request and validate: a wallet
\* that confirms what its request carried is accepted only if that was all the
\* session asked for, and never told of a mismatch.
THEOREM HonestWalletOutcomeHolds == Spec => []HonestWalletOutcome
<1>1. EchoInv => HonestWalletOutcome
  <2> SUFFICES ASSUME EchoInv, phase = "done", alg \in Algs,
                      Confirms(echoed, carried, alg)
               PROVE  \/ result = "nil" /\ carried = td
                      \/ result = "ErrTransactionDataDisabled"
                      \/ result = "ErrTransactionDataMissing" /\ carried = <<>>
    BY DEF HonestWalletOutcome
  <2>1. carried \in Seq(Objects) /\ echoed \in Seq(Hashes) /\ carried \in {<<>>, td}
    BY DEF EchoInv, TypeOK
  <2>2. CASE carried = td
    BY <2>2, ConfirmedResult
  <2>3. CASE carried = <<>> /\ td # <<>>
    <3>1. Len(echoed) = 0
      BY <2>1, <2>3, ConfirmsCounts
    <3>2. echoed = <<>>
      BY <2>1, <3>1
    <3> QED
      BY <2>3, <3>2 DEF EchoInv, ResultInv
  <2> QED
    BY <2>1, <2>2, <2>3
<1> QED
  BY <1>1, EchoInvariant, PTL
=============================================================================
