----------------------------- MODULE StoreProofs -----------------------------
(***************************************************************************)
(* The reference store, statement by statement, implements the contract    *)
(* with its atomic methods, for any number of goroutines, any sessions and *)
(* any clock skew; and the contract suite passes on it, however the        *)
(* goroutines of its race interleave.                                      *)
(***************************************************************************)
EXTENDS StoreTest, FiniteSetTheorems, TLAPS

-----------------------------------------------------------------------------
(* The invariant                                                           *)

Phases == {"idle", "enter", "lock", "read", "clock", "write", "unlock", "leave"}

\* Where the mutex is held.
Critical == {"read", "clock", "write", "unlock"}

\* A goroutine in a method has a call; past the guards of Save the argument is
\* a session, and Save does not read.  Before the expiry test the copy is the
\* stored snapshot: nobody else writes the map meanwhile.
HolderInv ==
    \A g \in Callers :
        /\ pc[g] # "idle" => call[g] \in Contract!Calls
        /\ pc[g] \in {"lock"} \cup Critical /\ call[g].op = "Save"
             => call[g].s # NoSession
        /\ pc[g] \in {"read", "clock"} => call[g].op # "Save"
        /\ pc[g] = "clock" => /\ local[g] # NoSession
                              /\ local[g] = sessions[call[g].id]

LockInv ==
    /\ TypeOK
    /\ DOMAIN ret = Callers
    /\ HolderInv

-----------------------------------------------------------------------------
(* Calls, readings and sessions                                            *)

\* What a call looks like: the id of Save is that of its session.
LEMMA CallShape ==
    ASSUME NEW c \in Contract!Calls
    PROVE  /\ c.op \in {"Save", "Load", "ConsumeOnce"}
           /\ c.op # "Save" => c.id \in SessionIDs /\ c.s = NoSession
           /\ c.op = "Save" /\ c.s # NoSession
                => c.s \in Session /\ c.id = c.s.id /\ c.id \in SessionIDs
<1>1. CASE c \in {Contract!SaveCall(s) : s \in Saved}
  <2>1. PICK s \in Saved : c = Contract!SaveCall(s)
    BY <1>1
  <2>2. c.op = "Save" /\ c.s = s /\ (s # NoSession => c.id = s.id)
    BY <2>1 DEF Contract!SaveCall
  <2> QED
    BY <2>2, SavedAssumption DEF Session
<1>2. CASE c \in [op : {"Load", "ConsumeOnce"}, id : SessionIDs, s : {NoSession}]
  BY <1>2
<1> QED
  BY <1>1, <1>2 DEF Contract!Calls

\* A clock that is exact is among the readings.
LEMMA ReadingNow ==
    ASSUME now \in Nat
    PROVE  now \in Readings
BY SkewAssumption DEF Readings

\* The marked copy is a session.
LEMMA MarkedIsSession ==
    ASSUME NEW s \in Session
    PROVE  /\ [s EXCEPT !.consumed = TRUE] \in Session
           /\ [s EXCEPT !.consumed = TRUE] # NoSession
<1>1. [s EXCEPT !.consumed = TRUE] \in Session
  BY DEF Session
<1> QED
  BY <1>1, NoSessionAssumption

-----------------------------------------------------------------------------
(* The invariant is inductive: one lemma per statement                     *)

\* At first nobody has called and the mutex is free.
LEMMA LockInvInit ==
    ASSUME Init
    PROVE  LockInv
<1>1. StoreTypeOK
  BY DEF Init, StoreInit, StoreTypeOK
<1>2. TypeOK
  BY <1>1, UnlockedAssumption DEF Init, TypeOK
<1> QED
  BY <1>2 DEF Init, LockInv, HolderInv, Critical

\* A call begins outside the mutex.
LEMMA LockInvInvoke ==
    ASSUME LockInv, NEW g \in Callers, NEW c \in Contract!Calls, Invoke(g, c)
    PROVE  LockInv'
<1>1. TypeOK'
  BY DEF LockInv, TypeOK, StoreTypeOK, Invoke, Goes
<1>2. HolderInv'
  BY DEF LockInv, TypeOK, HolderInv, Critical, Invoke, Goes
<1> QED
  BY <1>1, <1>2 DEF LockInv, Invoke

\* The tests of Save in front of the mutex touch nothing shared.
LEMMA LockInvEnter ==
    ASSUME LockInv, NEW g \in Callers, Enter(g)
    PROVE  LockInv'
<1>1. TypeOK'
  BY DEF LockInv, TypeOK, StoreTypeOK, Enter, Goes
<1>2. HolderInv'
  BY DEF LockInv, TypeOK, HolderInv, Critical, Enter, Goes
<1> QED
  BY <1>1, <1>2 DEF LockInv, Enter, Returns

\* Lock succeeds only where nobody is inside.
LEMMA LockInvLock ==
    ASSUME LockInv, NEW g \in Callers, Lock(g)
    PROVE  LockInv'
<1>1. call[g].op = "Save" => call[g].s \in Session
  BY CallShape DEF LockInv, HolderInv, Lock
<1>2. TypeOK'
  BY <1>1, UnlockedAssumption DEF LockInv, TypeOK, StoreTypeOK, Lock, Goes
<1>3. HolderInv'
  BY DEF LockInv, TypeOK, HolderInv, Critical, Lock, Goes
<1> QED
  BY <1>2, <1>3 DEF LockInv, Lock, Returns

\* The map read copies the stored session.
LEMMA LockInvRead ==
    ASSUME LockInv, NEW g \in Callers, Read(g)
    PROVE  LockInv'
<1>1. call[g].id \in SessionIDs
  BY CallShape DEF LockInv, HolderInv, Read
<1>2. TypeOK'
  BY <1>1 DEF LockInv, TypeOK, StoreTypeOK, Read, Goes
<1>3. HolderInv'
  BY DEF LockInv, TypeOK, HolderInv, Critical, Read, Goes
<1> QED
  BY <1>2, <1>3 DEF LockInv, Read, Returns

\* The tests of expiry and marker leave the copy that is to be written.
LEMMA LockInvClock ==
    ASSUME LockInv, NEW g \in Callers, Clock(g)
    PROVE  LockInv'
<1>1. local[g] \in Session
  BY DEF LockInv, TypeOK, HolderInv, Clock
<1>2. [local[g] EXCEPT !.consumed = TRUE] \in Session
  BY <1>1, MarkedIsSession
<1>3. /\ pc[g] = "clock"
      /\ UNCHANGED <<now, sessions, owner, call>>
      /\ Goes(g, "write") \/ Goes(g, "unlock")
      /\ \E s \in Session \cup {NoSession} : local' = [local EXCEPT ![g] = s]
      /\ DOMAIN ret' = DOMAIN ret
  <2>1. local = [local EXCEPT ![g] = local[g]]
    BY DEF LockInv, TypeOK
  <2>2. /\ Goes(g, "write") \/ Goes(g, "unlock")
        /\ \/ local' = [local EXCEPT ![g] = NoSession]
           \/ local' = local
           \/ local' = [local EXCEPT ![g] = [local[g] EXCEPT !.consumed = TRUE]]
        /\ \E e, s : Returns(g, e, s)
    BY DEF Clock
  <2>3. DOMAIN ret' = DOMAIN ret
    BY <2>2 DEF Returns
  <2> QED
    BY <1>1, <1>2, <2>1, <2>2, <2>3 DEF Clock
<1>4. TypeOK'
  BY <1>3 DEF LockInv, TypeOK, StoreTypeOK, Goes
<1>5. HolderInv'
  BY <1>3 DEF LockInv, TypeOK, HolderInv, Critical, Goes
<1> QED
  BY <1>3, <1>4, <1>5 DEF LockInv

\* The write puts a well-formed session, or none, under the call's id.
LEMMA LockInvWrite ==
    ASSUME LockInv, NEW g \in Callers, Write(g)
    PROVE  LockInv'
<1>1. TypeOK'
  BY DEF LockInv, TypeOK, StoreTypeOK, Write, Goes
<1>2. \A h \in Callers : pc[h] = "clock" => h = g
  BY DEF LockInv, TypeOK, Write
<1>3. HolderInv'
  BY <1>2 DEF LockInv, TypeOK, HolderInv, Critical, Write, Goes
<1> QED
  BY <1>1, <1>3 DEF LockInv, Write

\* Unlock leaves the mutex free.
LEMMA LockInvUnlock ==
    ASSUME LockInv, NEW g \in Callers, Unlock(g)
    PROVE  LockInv'
<1>1. TypeOK'
  BY UnlockedAssumption DEF LockInv, TypeOK, StoreTypeOK, Unlock, Goes
<1>2. HolderInv'
  BY DEF LockInv, TypeOK, HolderInv, Critical, Unlock, Goes
<1> QED
  BY <1>1, <1>2 DEF LockInv, Unlock

\* A return is outside the mutex.
LEMMA LockInvLeave ==
    ASSUME LockInv, NEW g \in Callers, Leave(g)
    PROVE  LockInv'
<1>1. TypeOK'
  BY DEF LockInv, TypeOK, StoreTypeOK, Leave, Goes
<1>2. HolderInv'
  BY DEF LockInv, TypeOK, HolderInv, Critical, Leave, Goes
<1> QED
  BY <1>1, <1>2 DEF LockInv, Leave, Returns

\* Time passes.
LEMMA LockInvTick ==
    ASSUME LockInv, Tick
    PROVE  LockInv'
<1>1. TypeOK'
  BY DEF LockInv, TypeOK, StoreTypeOK, Tick
<1> QED
  BY <1>1 DEF LockInv, HolderInv, Tick

\* A stuttering step preserves the invariant.
LEMMA LockInvStutter ==
    ASSUME LockInv, UNCHANGED vars
    PROVE  LockInv'
BY DEF LockInv, TypeOK, StoreTypeOK, HolderInv, vars

\* Every statement of a method preserves the invariant.
LEMMA LockInvRuns ==
    ASSUME LockInv, NEW g \in Callers, Runs(g)
    PROVE  LockInv'
BY LockInvEnter, LockInvLock, LockInvRead, LockInvClock, LockInvWrite, LockInvUnlock,
   LockInvLeave DEF Runs

\* Every step preserves the invariant.
LEMMA LockInvNext ==
    ASSUME LockInv, [Next]_vars
    PROVE  LockInv'
<1>1. ASSUME NEW g \in Callers, NEW c \in Contract!Calls, Invoke(g, c) PROVE LockInv'
  BY <1>1, LockInvInvoke
<1>2. ASSUME NEW g \in Callers, Runs(g) PROVE LockInv'
  BY <1>2, LockInvRuns
<1> QED
  BY <1>1, <1>2, LockInvTick, LockInvStutter DEF Next

\* The mutex of memstore.go excludes: whatever the goroutines call, at most one
\* of them is between Lock and Unlock, and the map holds well-formed sessions.
THEOREM StoreTypeCorrect == Spec => []TypeOK
<1>1. Init => LockInv
  BY LockInvInit
<1>2. LockInv /\ [Next]_vars => LockInv'
  BY LockInvNext
<1>3. LockInv => TypeOK
  BY DEF LockInv
<1> QED
  BY <1>1, <1>2, <1>3, PTL DEF Spec

-----------------------------------------------------------------------------
(* The refinement                                                          *)

\* The status that the contract sees of a goroutine in phase p, and of all.
StatusOf(p) ==
    IF p = "idle" THEN "idle"
    ELSE IF p \in {"write", "unlock", "leave"} THEN "taken" ELSE "called"

Status == [g \in Callers |-> IF pc[g] = "idle" THEN "idle"
                             ELSE IF Decided(g) THEN "taken" ELSE "called"]

\* A goroutine that goes on changes its own status and no other.
LEMMA StatusStep ==
    ASSUME LockInv, NEW g \in Callers, NEW to \in Phases, Goes(g, to)
    PROVE  /\ Status[g] = StatusOf(pc[g])
           /\ Status' = [Status EXCEPT ![g] = StatusOf(to)]
BY DEF LockInv, TypeOK, Goes, Status, StatusOf, Decided

\* Outside its write phase the holder has changed nothing yet, or everything.
LEMMA EffectiveSettled ==
    ASSUME owner = Unlocked \/ pc[owner] # "write"
    PROVE  Effective = sessions
BY DEF Effective

\* In its write phase the map is as good as written.
LEMMA EffectivePending ==
    ASSUME LockInv, NEW g \in Callers, pc[g] = "write"
    PROVE  Effective = [sessions EXCEPT ![call[g].id] = local[g]]
BY UnlockedAssumption DEF LockInv, TypeOK, Effective

\* A goroutine without the mutex does not disturb the holder's write.
LEMMA EffectiveApart ==
    ASSUME LockInv, NEW g \in Callers, g # owner, NEW to,
           Goes(g, to), UNCHANGED <<sessions, owner>>,
           \A h \in Callers : h # g => call'[h] = call[h] /\ local'[h] = local[h]
    PROVE  Effective' = Effective
BY DEF LockInv, TypeOK, Goes, Effective

\* A call is the contract's invocation.
LEMMA InvokeRefines ==
    ASSUME LockInv, NEW g \in Callers, NEW c \in Contract!Calls, Invoke(g, c)
    PROVE  Contract!Invoke(g, c)
<1>1. /\ Status[g] = "idle" /\ Status' = [Status EXCEPT ![g] = "called"]
  BY StatusStep DEF Invoke, StatusOf, Phases
<1>2. g # owner
  BY DEF LockInv, TypeOK, Invoke
<1>3. Effective' = Effective
  BY <1>2, EffectiveApart DEF LockInv, TypeOK, Invoke
<1> QED
  BY <1>1, <1>3 DEF Invoke, Contract!Invoke, Status

\* What it takes to be the instant of a call's effect.
LEMMA TakeIntro ==
    ASSUME NEW g \in Callers, NEW t \in Readings, NEW e, NEW s, NEW after,
           LockInv, StatusOf(pc[g]) = "called",
           Goes(g, "write") \/ Goes(g, "unlock") \/ Goes(g, "leave"),
           Contract!Effect(call[g], t) = [err |-> e, s |-> s, after |-> after],
           Effective' = after, Returns(g, e, s), UNCHANGED <<now, call>>
    PROVE  Contract!Take(g)
<1>1. /\ Status[g] = "called" /\ Status' = [Status EXCEPT ![g] = "taken"]
  BY StatusStep DEF StatusOf, Phases
<1>2. Contract!Readings = Readings
  BY DEF Contract!Readings, Readings
<1>3. /\ Contract!Effect(call[g], t).err = e /\ Contract!Effect(call[g], t).s = s
      /\ Contract!Effect(call[g], t).after = after
  OBVIOUS
<1>4. LET got == Contract!Effect(call[g], t)
      IN /\ Effective' = got.after
         /\ ret' = [ret EXCEPT ![g] = [err |-> got.err, s |-> got.s]]
  BY <1>3 DEF Returns
<1> QED
  BY <1>1, <1>2, <1>4, Zenon DEF Contract!Take, Status

\* A step that neither changes the map nor decides a call is a stutter.
LEMMA StutterIntro ==
    ASSUME NEW g \in Callers, NEW to \in Phases, LockInv,
           Goes(g, to), StatusOf(to) = StatusOf(pc[g]),
           Effective' = Effective, UNCHANGED <<now, call, ret>>
    PROVE  UNCHANGED Contract!contractVars
<1>1. Status' = [Status EXCEPT ![g] = Status[g]]
  BY StatusStep
<1>2. Status' = Status
  BY <1>1 DEF Status
<1> QED
  BY <1>2 DEF Contract!contractVars, Status

\* A Save of nothing is decided in front of the mutex.
LEMMA EnterRefines ==
    ASSUME LockInv, NEW g \in Callers, Enter(g)
    PROVE  Contract!Take(g) \/ UNCHANGED Contract!contractVars
<1>1. g # owner
  BY DEF LockInv, TypeOK, Enter
<1>2. Effective' = Effective
  BY <1>1, EffectiveApart DEF LockInv, TypeOK, Enter
<1>3. CASE call[g].op = "Save" /\ call[g].s = NoSession
  <2>1. now \in Readings
    BY ReadingNow DEF LockInv, TypeOK, StoreTypeOK
  <2>2. Contract!Effect(call[g], now) =
            [err |-> "ErrSessionInvalid", s |-> NoSession, after |-> Effective]
    BY <1>3 DEF Contract!Effect
  <2> QED
    BY <1>2, <1>3, <2>1, <2>2, TakeIntro DEF Enter, StatusOf
<1>4. CASE ~(call[g].op = "Save" /\ call[g].s = NoSession)
  BY <1>2, <1>4, StutterIntro DEF Enter, StatusOf, Phases
<1> QED
  BY <1>3, <1>4

\* Save takes effect when it gets the mutex: its session is the next to be
\* written.
LEMMA LockRefines ==
    ASSUME LockInv, NEW g \in Callers, Lock(g)
    PROVE  Contract!Take(g) \/ UNCHANGED Contract!contractVars
<1>1. Effective = sessions
  BY EffectiveSettled DEF Lock
<1>2. LockInv'
  BY LockInvLock
<1>3. CASE call[g].op = "Save"
  <2>1. /\ call[g].s \in Session /\ call[g].s # NoSession
        /\ call[g].id = call[g].s.id
    BY <1>3, CallShape DEF LockInv, HolderInv, Lock
  <2>2. now \in Readings
    BY ReadingNow DEF LockInv, TypeOK, StoreTypeOK
  <2>3. Contract!Effect(call[g], now) =
            [err |-> "nil", s |-> NoSession,
             after |-> [sessions EXCEPT ![call[g].s.id] = call[g].s]]
    BY <1>1, <1>3, <2>1 DEF Contract!Effect, Contract!Save
  <2>4. pc'[g] = "write" /\ local'[g] = call[g].s
    BY <1>3 DEF Lock, Goes, LockInv, TypeOK
  <2>5. Effective' = [sessions EXCEPT ![call[g].s.id] = call[g].s]
    BY <1>2, <2>1, <2>4, UnlockedAssumption DEF LockInv, TypeOK, Effective, Lock
  <2> QED
    BY <1>3, <2>2, <2>3, <2>5, TakeIntro DEF Lock, StatusOf
<1>4. CASE call[g].op # "Save"
  <2>1. owner' = g /\ pc'[g] = "read" /\ sessions' = sessions
    BY <1>4 DEF Lock, Goes, LockInv, TypeOK
  <2>2. Effective' = Effective
    BY <1>1, <2>1 DEF Effective
  <2> QED
    BY <1>4, <2>2, StutterIntro DEF Lock, StatusOf, Phases
<1> QED
  BY <1>3, <1>4

\* Load or ConsumeOnce of an unknown session is decided by the map read.
LEMMA ReadRefines ==
    ASSUME LockInv, NEW g \in Callers, Read(g)
    PROVE  Contract!Take(g) \/ UNCHANGED Contract!contractVars
<1>1. owner = g /\ call[g].op \in {"Load", "ConsumeOnce"} /\ call[g].id \in SessionIDs
  BY CallShape DEF LockInv, TypeOK, HolderInv, Read
<1>2. Effective = sessions
  BY <1>1, EffectiveSettled DEF Read
<1>3. pc'[g] # "write" /\ owner' = g /\ sessions' = sessions
  BY <1>1 DEF Read, Goes, LockInv, TypeOK
<1>4. Effective' = sessions
  BY <1>3 DEF Effective
<1>5. CASE sessions[call[g].id] = NoSession
  <2>1. now \in Readings
    BY ReadingNow DEF LockInv, TypeOK, StoreTypeOK
  <2>2. [sessions EXCEPT ![call[g].id] = NoSession] = sessions
    BY <1>5 DEF LockInv, TypeOK, StoreTypeOK
  <2>3. ~Contract!Live(call[g].id, now)
    BY <1>2, <1>5 DEF Contract!Live
  <2>4. Contract!Load(call[g].id, now) =
            [err |-> "ErrSessionNotFound", s |-> NoSession, after |-> sessions]
    BY <1>2, <2>2, <2>3 DEF Contract!Load
  <2>5. Contract!Effect(call[g], now) =
            [err |-> "ErrSessionNotFound", s |-> NoSession, after |-> sessions]
    BY <1>1, <2>3, <2>4 DEF Contract!Effect, Contract!ConsumeOnce
  <2> QED
    BY <1>4, <1>5, <2>1, <2>5, TakeIntro DEF Read, StatusOf
<1>6. CASE sessions[call[g].id] # NoSession
  BY <1>2, <1>4, <1>6, StutterIntro DEF Read, StatusOf, Phases
<1> QED
  BY <1>5, <1>6

\* Otherwise the expiry test and the test of the marker decide it.
LEMMA ClockRefines ==
    ASSUME LockInv, NEW g \in Callers, Clock(g)
    PROVE  Contract!Take(g)
<1> DEFINE id == call[g].id
           s == local[g]
           marked == [s EXCEPT !.consumed = TRUE]
<1>1. /\ owner = g /\ call[g].op \in {"Load", "ConsumeOnce"} /\ id \in SessionIDs
      /\ s # NoSession /\ s = sessions[id] /\ pc[g] = "clock"
      /\ sessions' = sessions /\ owner' = g /\ call' = call /\ now' = now
  BY CallShape DEF LockInv, TypeOK, HolderInv, Clock
<1>2. Effective = sessions
  BY <1>1, EffectiveSettled
<1>3. PICK t \in Readings :
        \/ /\ ~(t < s.expiresAt)
           /\ Goes(g, "write") /\ local' = [local EXCEPT ![g] = NoSession]
           /\ Returns(g, "ErrSessionNotFound", NoSession)
        \/ /\ t < s.expiresAt /\ call[g].op = "Load"
           /\ Goes(g, "unlock") /\ Returns(g, "nil", s)
        \/ /\ t < s.expiresAt /\ call[g].op # "Load" /\ s.consumed
           /\ Goes(g, "unlock") /\ Returns(g, "ErrSessionConsumed", NoSession)
        \/ /\ t < s.expiresAt /\ call[g].op # "Load" /\ ~s.consumed
           /\ Goes(g, "write") /\ local' = [local EXCEPT ![g] = marked]
           /\ Returns(g, "nil", marked)
  BY DEF Clock
<1>4. Contract!Live(id, t) <=> t < s.expiresAt
  BY <1>1, <1>2 DEF Contract!Live
<1>5. ASSUME Goes(g, "unlock") PROVE Effective' = sessions
  BY <1>1, <1>5 DEF Goes, LockInv, TypeOK, Effective
<1>6. ASSUME NEW new, Goes(g, "write"), local' = [local EXCEPT ![g] = new]
      PROVE  Effective' = [sessions EXCEPT ![id] = new]
  <2>1. pc'[g] = "write" /\ local'[g] = new
    BY <1>6 DEF Goes, LockInv, TypeOK
  <2> QED
    BY <1>1, <2>1, UnlockedAssumption DEF Effective
<1>7. CASE /\ ~(t < s.expiresAt)
           /\ Goes(g, "write") /\ local' = [local EXCEPT ![g] = NoSession]
           /\ Returns(g, "ErrSessionNotFound", NoSession)
  <2>1. Contract!Load(id, t) = [err |-> "ErrSessionNotFound", s |-> NoSession,
                                after |-> [sessions EXCEPT ![id] = NoSession]]
    BY <1>2, <1>4, <1>7 DEF Contract!Load
  <2>2. Contract!Effect(call[g], t) =
            [err |-> "ErrSessionNotFound", s |-> NoSession,
             after |-> [sessions EXCEPT ![id] = NoSession]]
    BY <1>1, <1>4, <1>7, <2>1 DEF Contract!Effect, Contract!ConsumeOnce
  <2> QED
    BY <1>1, <1>6, <1>7, <2>2, TakeIntro DEF StatusOf
<1>8. CASE /\ t < s.expiresAt /\ call[g].op = "Load"
           /\ Goes(g, "unlock") /\ Returns(g, "nil", s)
  <2>1. Contract!Effect(call[g], t) = [err |-> "nil", s |-> s, after |-> sessions]
    BY <1>1, <1>2, <1>4, <1>8 DEF Contract!Effect, Contract!Load
  <2> QED
    BY <1>1, <1>5, <1>8, <2>1, TakeIntro DEF StatusOf
<1>9. CASE /\ t < s.expiresAt /\ call[g].op # "Load" /\ s.consumed
           /\ Goes(g, "unlock") /\ Returns(g, "ErrSessionConsumed", NoSession)
  <2>1. Contract!ConsumeOnce(id, t) =
            [err |-> "ErrSessionConsumed", s |-> NoSession, after |-> sessions]
    BY <1>1, <1>2, <1>4, <1>9 DEF Contract!ConsumeOnce
  <2>2. Contract!Effect(call[g], t) =
            [err |-> "ErrSessionConsumed", s |-> NoSession, after |-> sessions]
    BY <1>1, <1>9, <2>1 DEF Contract!Effect
  <2> QED
    BY <1>1, <1>5, <1>9, <2>2, TakeIntro DEF StatusOf
<1>10. CASE /\ t < s.expiresAt /\ call[g].op # "Load" /\ ~s.consumed
            /\ Goes(g, "write") /\ local' = [local EXCEPT ![g] = marked]
            /\ Returns(g, "nil", marked)
  <2>1. Contract!ConsumeOnce(id, t) =
            [err |-> "nil", s |-> marked, after |-> [sessions EXCEPT ![id] = marked]]
    BY <1>1, <1>2, <1>4, <1>10 DEF Contract!ConsumeOnce
  <2>2. Contract!Effect(call[g], t) =
            [err |-> "nil", s |-> marked, after |-> [sessions EXCEPT ![id] = marked]]
    BY <1>1, <1>10, <2>1 DEF Contract!Effect
  <2>3. Effective' = [sessions EXCEPT ![id] = marked]
    BY <1>6, <1>10
  <2> QED
    BY <1>1, <1>10, <2>2, <2>3, TakeIntro DEF StatusOf
<1> QED
  BY <1>3, <1>7, <1>8, <1>9, <1>10

\* The write and the unlock that follow are not seen.
LEMMA WriteRefines ==
    ASSUME LockInv, NEW g \in Callers, Write(g)
    PROVE  UNCHANGED Contract!contractVars
<1>1. owner = g /\ owner' = g /\ pc'[g] = "unlock"
  BY DEF LockInv, TypeOK, Write, Goes
<1>2. Effective = [sessions EXCEPT ![call[g].id] = local[g]]
  BY EffectivePending DEF Write
<1>3. Effective' = sessions'
  BY <1>1 DEF Effective
<1> QED
  BY <1>2, <1>3, StutterIntro DEF Write, StatusOf, Phases

\* The unlock is not seen either.
LEMMA UnlockRefines ==
    ASSUME LockInv, NEW g \in Callers, Unlock(g)
    PROVE  UNCHANGED Contract!contractVars
<1>1. owner = g /\ owner' = Unlocked /\ sessions' = sessions
  BY DEF LockInv, TypeOK, Unlock
<1>2. Effective' = Effective
  BY <1>1 DEF Effective, Unlock
<1> QED
  BY <1>2, StutterIntro DEF Unlock, StatusOf, Phases

\* A return is the contract's return.
LEMMA LeaveRefines ==
    ASSUME LockInv, NEW g \in Callers, Leave(g)
    PROVE  Contract!Return(g)
<1>1. Status[g] = "taken" /\ Status' = [Status EXCEPT ![g] = "idle"]
  BY StatusStep DEF Leave, StatusOf, Phases
<1>2. g # owner
  BY DEF LockInv, TypeOK, Leave
<1>3. Effective' = Effective
  BY <1>2, EffectiveApart DEF LockInv, TypeOK, Leave
<1> QED
  BY <1>1, <1>3 DEF Leave, Returns, Contract!Return, Contract!Nothing, Status

\* Time is the contract's time.
LEMMA TickRefines ==
    ASSUME Tick
    PROVE  Contract!Tick
BY DEF Tick, Contract!Tick, Effective, Decided

\* A stuttering step is one of the contract.
LEMMA StutterRefines ==
    ASSUME UNCHANGED vars
    PROVE  UNCHANGED Contract!contractVars
BY DEF vars, Contract!contractVars, Effective, Decided

\* The empty store is the contract's.
LEMMA InitRefines ==
    ASSUME Init
    PROVE  Contract!ContractInit
<1>1. Effective = sessions
  BY EffectiveSettled DEF Init
<1> QED
  BY <1>1 DEF Init, StoreInit, Contract!ContractInit, Contract!StoreInit

\* What the statements of a method amount to.
LEMMA RunsRefine ==
    ASSUME LockInv, NEW g \in Callers, Runs(g)
    PROVE  [Contract!ContractNext]_(Contract!contractVars)
BY EnterRefines, LockRefines, ReadRefines, ClockRefines, WriteRefines, UnlockRefines,
   LeaveRefines DEF Runs, Contract!ContractNext

\* "Contract (verified by storetest.Run)" of the session store, for any callers:
\* every behaviour of memstore.go, with its statements interleaved at will, is
\* one in which Save, Load and ConsumeOnce take effect at one instant between
\* call and return.
THEOREM ImplementsContractHolds == Spec => ImplementsContract
<1>1. Init => LockInv /\ Contract!ContractInit
  BY LockInvInit, InitRefines
<1>2. LockInv /\ [Next]_vars => LockInv' /\ [Contract!ContractNext]_(Contract!contractVars)
  <2> SUFFICES ASSUME LockInv, [Next]_vars
               PROVE  LockInv' /\ [Contract!ContractNext]_(Contract!contractVars)
    OBVIOUS
  <2>1. LockInv'
    BY LockInvNext
  <2>2. ASSUME NEW g \in Callers, NEW c \in Contract!Calls, Invoke(g, c)
        PROVE  Contract!ContractNext
    BY <2>2, InvokeRefines DEF Contract!ContractNext
  <2>3. ASSUME Tick PROVE Contract!ContractNext
    BY <2>3, TickRefines DEF Contract!ContractNext
  <2> QED
    BY <2>1, <2>2, <2>3, RunsRefine, StutterRefines DEF Next
<1> QED
  BY <1>1, <1>2, PTL DEF Spec, ImplementsContract, Contract!ContractSpec

-----------------------------------------------------------------------------
(* The contract suite                                                      *)

\* The three states in which a subtest leaves a session: new, with an expiry
\* that the suite does not live to see; consumed; and gone or expired.
Lifetimes == TTL..(MaxTime + TTL)

IsFresh(s, id) == \E t \in Lifetimes : s = newSession(id, t)

IsMarked(s, id) ==
    \E t \in Lifetimes, c \in Codes :
        s = consumedCopy(newSession(id, t), c)

IsGone(s, id) == s = NoSession \/ s = newSession(id, 0)

\* Steps of the subtests.
Loads(id, want) == Step("Load", id, "", want)
Consumes(id, want) == Step("ConsumeOnce", id, "", want)
Tampers(id) == Step("tamper", id, "", "")
Mints(id) == Step("mint", id, "", "")
Resaves(id) == Step("Save", id, "held", "nil")
Race(id) == Step("race", id, "", "")
SavesNothing(id, arg) == Step("Save", id, arg, "ErrSessionInvalid")

\* What is left of a subtest, by what it needs of the map m, of the session sv
\* that was saved last and of the copy h in hand so as not to fail.
NeedsNothing(rest, id, id2) ==
    rest \in { <<>>, SaveLoadRoundtrip(id), LoadReturnsACopy(id), SaveRequiresID(id),
               <<SavesNothing(id, "nil")>>,
               ExpiredSessionIsNotFound(id, id2),
               <<SaveExpired(id), Consumes(id, "ErrSessionNotFound")>>,
               ConsumeOnceConsumes(id), ConsumedMarkerSurvivesSave(id),
               ConcurrentConsumeExactlyOnce(id) }

NeedsFresh(rest, id) ==
    rest \in { <<Loads(id, "saved")>>,
               <<Loads(id, "nil"), Tampers(id), Loads(id, "saved")>>,
               <<Tampers(id), Loads(id, "saved")>>,
               <<Consumes(id, "consumed"), Consumes(id, "ErrSessionConsumed"),
                 Loads(id, "consumed")>>,
               <<Consumes(id, "nil"), Mints(id), Resaves(id),
                 Consumes(id, "ErrSessionConsumed"), Loads(id, "code")>>,
               <<Race(id)>> }

NeedsGone(rest, id, id2) ==
    rest \in { <<Loads(id, "ErrSessionNotFound")>>,
               <<Consumes(id, "ErrSessionNotFound")>>,
               <<Loads(id, "ErrSessionNotFound"), SaveExpired(id2),
                 Consumes(id2, "ErrSessionNotFound")>> }

NeedsMarked(rest, id) ==
    rest \in { <<Consumes(id, "ErrSessionConsumed"), Loads(id, "consumed")>>,
               <<Loads(id, "consumed")>> }

NeedsMarkedCopy(rest, id) ==
    rest \in { <<Mints(id), Resaves(id), Consumes(id, "ErrSessionConsumed"),
                 Loads(id, "code")>>,
               <<Resaves(id), Consumes(id, "ErrSessionConsumed"), Loads(id, "code")>> }

NeedsCode(rest, id) ==
    rest \in { <<Consumes(id, "ErrSessionConsumed"), Loads(id, "code")>>,
               <<Loads(id, "code")>> }

CanGoOn(rest, m, sv, h) ==
    \E id, id2 \in SessionIDs :
        \/ NeedsNothing(rest, id, id2)
        \/ NeedsFresh(rest, id) /\ IsFresh(m[id], id) /\ sv = m[id]
        \/ NeedsGone(rest, id, id2) /\ IsGone(m[id], id)
        \/ NeedsMarked(rest, id) /\ IsMarked(m[id], id)
        \/ NeedsMarkedCopy(rest, id) /\ IsMarked(h, id)
        \/ NeedsCode(rest, id) /\ IsMarked(m[id], id) /\ sv.code = m[id].code

\* The call the test has made is the one of its step; Save has its argument.
CallMatches(step) ==
    IF step.op # "Save"
    THEN /\ step.op \in {"Load", "ConsumeOnce"}
         /\ call[Test] = [op |-> step.op, id |-> step.id, s |-> NoSession]
    ELSE /\ call[Test] = Contract!SaveCall(saved)
         /\ CASE step.arg = "fresh" -> IsFresh(saved, step.id)
              [] step.arg = "expired" -> saved = newSession(step.id, 0)
              [] step.arg = "held" -> IsMarked(saved, step.id)
              [] OTHER -> saved = NoSession

\* No goroutine is in a method.
Quiet == \A g \in Goroutines : pc[g] = "idle"

\* A subtest is on its way: the test is about to make a step, has called, or
\* gets the result that the step wants.
SubtestInv ==
    /\ Quiet /\ waiting = Goroutines /\ wins = 0 /\ conflicts = 0
    /\ Status[Test] = "idle" => CanGoOn(script, Effective, saved, held)
    /\ Status[Test] = "called" => /\ script # <<>>
                                  /\ CanGoOn(script, Effective, saved, held)
                                  /\ CallMatches(script[1])
    /\ Status[Test] = "taken" => /\ script # <<>>
                                 /\ script[1].op \in {"Save", "Load", "ConsumeOnce"}
                                 /\ Wanted(script[1].want, ret[Test])
                                 /\ CanGoOn(Tail(script), Effective, saved, ret[Test].s)

Counted == {g \in Goroutines : g \notin waiting /\ pc[g] = "idle"}

\* Who runs in the race, and who is counted.
RaceShape(id) ==
    /\ script = <<Race(id)>> /\ pc[Test] = "idle"
    /\ waiting \subseteq Goroutines /\ \A g \in waiting : pc[g] = "idle"
    /\ \A g \in Goroutines : pc[g] # "idle" =>
            call[g] = [op |-> "ConsumeOnce", id |-> id, s |-> NoSession]
    /\ wins \in Nat /\ conflicts \in Nat
    /\ wins + conflicts = Cardinality(Counted)

Undecided(id) ==
    /\ IsFresh(Effective[id], id)
    /\ Counted = {} /\ \A g \in Goroutines : Status[g] # "taken"

WinnerCounted(id) ==
    /\ IsMarked(Effective[id], id) /\ wins = 1
    /\ \A g \in Goroutines : Status[g] = "taken" => ret[g].err = "ErrSessionConsumed"

WinnerReturns(id) ==
    /\ IsMarked(Effective[id], id) /\ wins = 0
    /\ \E w \in Goroutines :
        /\ Status[w] = "taken" /\ ret[w].err = "nil"
        /\ \A g \in Goroutines \ {w} :
            Status[g] = "taken" => ret[g].err = "ErrSessionConsumed"

\* As long as the session is not consumed nobody has a result; then the one
\* winner is counted, or it is on its way, and everyone else was refused.
RaceInv(id) ==
    RaceShape(id) /\ (Undecided(id) \/ WinnerCounted(id) \/ WinnerReturns(id))

SuiteInv ==
    /\ LockInv
    /\ now <= MaxTime
    /\ failed = FALSE
    /\ \/ script = NoTest /\ pc[Test] = "idle"
       \/ script # NoTest /\ SubtestInv
       \/ \E id \in SessionIDs : RaceInv(id)
       \/ script = <<>> /\ Quiet /\ pc[Test] = "idle"

-----------------------------------------------------------------------------
(* Sessions of the suite                                                   *)

\* What newSession of the suite makes is a session.
LEMMA NewSessionFacts ==
    ASSUME NEW id \in SessionIDs, NEW t \in Nat
    PROVE  /\ newSession(id, t) \in Session
           /\ \A c \in Codes :
                consumedCopy(newSession(id, t), c) \in Session
BY DEF newSession, consumedCopy, Session, Flows, Codes

\* Changing the fields of a session.
LEMMA ConsumedCopyFacts ==
    ASSUME NEW s \in Session, NEW c \in Codes
    PROVE  /\ consumedCopy(s, c) \in Session
           /\ consumedCopy(s, c).id = s.id /\ consumedCopy(s, c).consumed
           /\ consumedCopy(s, c).expiresAt = s.expiresAt
           /\ [s EXCEPT !.consumed = TRUE] = consumedCopy(s, s.code)
           /\ \A r \in Codes : [consumedCopy(s, c) EXCEPT !.code = r] = consumedCopy(s, r)
BY DEF consumedCopy, Session

\* A new session of the suite, and what ConsumeOnce makes of it.
LEMMA FreshFacts ==
    ASSUME NEW id \in SessionIDs, NEW s, IsFresh(s, id)
    PROVE  /\ s \in Session /\ s # NoSession /\ s \in Saved
           /\ s.id = id /\ ~s.consumed /\ s.expiresAt \in Nat /\ s.expiresAt >= TTL
           /\ IsMarked([s EXCEPT !.consumed = TRUE], id)
<1>1. PICK t \in Lifetimes : s = newSession(id, t)
  BY DEF IsFresh
<1>2. t \in Nat /\ t >= TTL /\ t \in 0..(MaxTime + TTL)
  BY TTLAssumption, MaxTimeAssumption DEF Lifetimes
<1>3. s \in Session /\ s # NoSession
  BY <1>1, <1>2, NewSessionFacts, NoSessionAssumption
<1>4. s \in Saved
  <2>1. s \in {newSession(i, u) : i \in SessionIDs, u \in 0..(MaxTime + TTL)}
    BY <1>1, <1>2
  <2> QED
    BY <2>1, SuiteSavesAssumption DEF SuiteSaves
<1>5. s.id = id /\ ~s.consumed /\ s.expiresAt = t
  BY <1>1 DEF newSession
<1>6. [s EXCEPT !.consumed = TRUE] =
        consumedCopy(newSession(id, t), NoCode)
  <2>1. s.code = NoCode /\ NoCode \in Codes
    BY <1>1 DEF newSession, Codes
  <2>2. [s EXCEPT !.consumed = TRUE] = consumedCopy(s, s.code)
    BY <1>3, <2>1, ConsumedCopyFacts
  <2> QED
    BY <1>1, <2>1, <2>2
<1>7. IsMarked([s EXCEPT !.consumed = TRUE], id)
  BY <1>6 DEF IsMarked, Codes
<1> QED
  BY <1>2, <1>3, <1>4, <1>5, <1>7

\* A consumed session of the suite, and what a minted code makes of it.
LEMMA MarkedFacts ==
    ASSUME NEW id \in SessionIDs, NEW s, IsMarked(s, id)
    PROVE  /\ s \in Session /\ s # NoSession /\ s \in Saved
           /\ s.id = id /\ s.consumed /\ s.expiresAt \in Nat /\ s.expiresAt >= TTL
           /\ \A r \in Requests : IsMarked([s EXCEPT !.code = r], id)
<1>1. PICK t \in Lifetimes, c \in Codes :
        s = consumedCopy(newSession(id, t), c)
  BY DEF IsMarked
<1>2. t \in Nat /\ t >= TTL /\ t \in 0..(MaxTime + TTL)
  BY TTLAssumption, MaxTimeAssumption DEF Lifetimes
<1>3. s \in Session /\ s # NoSession
  BY <1>1, <1>2, NewSessionFacts, NoSessionAssumption
<1>4. s \in Saved
  <2>1. s \in {consumedCopy(newSession(i, u), k) :
                i \in SessionIDs, u \in 0..(MaxTime + TTL), k \in Codes}
    BY <1>1, <1>2
  <2> QED
    BY <2>1, SuiteSavesAssumption DEF SuiteSaves
<1>5. s.id = id /\ s.consumed /\ s.expiresAt = t
  <2>1. newSession(id, t).id = id /\ newSession(id, t).expiresAt = t
    BY DEF newSession
  <2> QED
    BY <1>1, <1>2, <2>1, NewSessionFacts, ConsumedCopyFacts
<1>6. ASSUME NEW r \in Requests PROVE IsMarked([s EXCEPT !.code = r], id)
  <2>1. [consumedCopy(newSession(id, t), c) EXCEPT !.code = r]
            = consumedCopy(newSession(id, t), r)
    <3>1. newSession(id, t) \in Session /\ r \in Codes
      BY <1>2, NewSessionFacts DEF Codes
    <3> QED
      BY <3>1, ConsumedCopyFacts, Zenon
  <2>2. [s EXCEPT !.code = r] = consumedCopy(newSession(id, t), r)
    BY <1>1, <2>1, Zenon
  <2> QED
    BY <2>2 DEF IsMarked, Codes
<1> QED
  BY <1>2, <1>3, <1>4, <1>5, <1>6

\* The session that newSession makes with a negative lifetime.
LEMMA ExpiredFacts ==
    ASSUME NEW id \in SessionIDs
    PROVE  /\ newSession(id, 0) \in Session /\ newSession(id, 0) # NoSession
           /\ newSession(id, 0) \in Saved
           /\ newSession(id, 0).id = id /\ newSession(id, 0).expiresAt = 0
<1>1. newSession(id, 0) \in Session
  BY NewSessionFacts
<1>2. newSession(id, 0) \in Saved
  <2>1. 0 \in 0..(MaxTime + TTL)
    BY TTLAssumption, MaxTimeAssumption
  <2>2. newSession(id, 0) \in {newSession(i, u) : i \in SessionIDs, u \in 0..(MaxTime + TTL)}
    BY <2>1
  <2> QED
    BY <2>2, SuiteSavesAssumption DEF SuiteSaves
<1> QED
  BY <1>1, <1>2, NoSessionAssumption DEF newSession

\* No reading of the clock reaches the expiry of a new session.
LEMMA SuiteReadings ==
    ASSUME now \in Nat, now <= MaxTime, NEW t \in Readings
    PROVE  t \in Nat /\ t < TTL
BY SkewAssumption, MaxTimeAssumption, TTLAssumption, SuiteIsShort DEF Readings

\* The map that callers see holds sessions.
LEMMA EffectiveType ==
    ASSUME LockInv
    PROVE  Effective \in [SessionIDs -> Session \cup {NoSession}]
BY DEF LockInv, TypeOK, StoreTypeOK, Effective

-----------------------------------------------------------------------------
(* What a call does, at the instant when it is decided                     *)

\* Everything but the map and the result.
LEMMA TakeFrame ==
    ASSUME LockInv, NEW g \in Callers, Contract!Take(g)
    PROVE  /\ Status[g] = "called" /\ Status' = [Status EXCEPT ![g] = "taken"]
           /\ now' = now /\ call' = call
           /\ \A h \in Callers \ {g} : ret'[h] = ret[h]
           /\ \E t \in Readings :
                LET got == Contract!Effect(call[g], t)
                IN /\ Effective' = got.after
                   /\ ret'[g] = [err |-> got.err, s |-> got.s]
<1>1. Contract!Readings = Readings
  BY DEF Contract!Readings, Readings
<1>2. Status[g] = "called" /\ Status' = [Status EXCEPT ![g] = "taken"]
  BY DEF Contract!Take, Status
<1>3. now' = now /\ call' = call
  BY DEF Contract!Take
<1>4. PICK t \in Readings :
        LET got == Contract!Effect(call[g], t)
        IN /\ Effective' = got.after
           /\ ret' = [ret EXCEPT ![g] = [err |-> got.err, s |-> got.s]]
  BY <1>1, Zenon DEF Contract!Take
<1> QED
  BY <1>2, <1>3, <1>4 DEF LockInv

\* A call whose effect does not depend on the clock reading.
LEMMA TakeResult ==
    ASSUME LockInv, NEW g \in Callers, Contract!Take(g), NEW e, NEW s, NEW after,
           \A t \in Readings :
                Contract!Effect(call[g], t) = [err |-> e, s |-> s, after |-> after]
    PROVE  Effective' = after /\ ret'[g] = [err |-> e, s |-> s]
<1>1. PICK t \in Readings :
        /\ Effective' = Contract!Effect(call[g], t).after
        /\ ret'[g] = [err |-> Contract!Effect(call[g], t).err,
                      s |-> Contract!Effect(call[g], t).s]
  BY TakeFrame
<1>2. Contract!Effect(call[g], t) = [err |-> e, s |-> s, after |-> after]
  OBVIOUS
<1> QED
  BY <1>1, <1>2

\* Save of nothing is refused and changes nothing.
LEMMA TakeSaveNil ==
    ASSUME LockInv, NEW g \in Callers, Contract!Take(g),
           call[g] = Contract!SaveCall(NoSession)
    PROVE  Effective' = Effective /\ ret'[g] = [err |-> "ErrSessionInvalid", s |-> NoSession]
<1>1. call[g].op = "Save" /\ call[g].s = NoSession
  BY DEF Contract!SaveCall
<1>2. \A t : Contract!Effect(call[g], t) =
            [err |-> "ErrSessionInvalid", s |-> NoSession, after |-> Effective]
  BY <1>1 DEF Contract!Effect
<1> QED
  BY <1>2, TakeResult

\* Save replaces the snapshot.
LEMMA TakeSave ==
    ASSUME LockInv, NEW g \in Callers, Contract!Take(g), NEW s, s # NoSession,
           call[g] = Contract!SaveCall(s)
    PROVE  /\ Effective' = [Effective EXCEPT ![s.id] = s]
           /\ ret'[g] = [err |-> "nil", s |-> NoSession]
<1>1. call[g].op = "Save" /\ call[g].s = s
  BY DEF Contract!SaveCall
<1>2. \A t : Contract!Effect(call[g], t) =
            [err |-> "nil", s |-> NoSession, after |-> [Effective EXCEPT ![s.id] = s]]
  BY <1>1 DEF Contract!Effect, Contract!Save
<1> QED
  BY <1>2, TakeResult

\* Load and ConsumeOnce of an unknown or expired session do not find it.
LEMMA TakeGone ==
    ASSUME LockInv, NEW g \in Callers, Contract!Take(g), NEW id \in SessionIDs,
           NEW op \in {"Load", "ConsumeOnce"},
           call[g] = [op |-> op, id |-> id, s |-> NoSession],
           IsGone(Effective[id], id)
    PROVE  /\ Effective' = [Effective EXCEPT ![id] = NoSession]
           /\ ret'[g] = [err |-> "ErrSessionNotFound", s |-> NoSession]
<1>1. \A t \in Readings : ~Contract!Live(id, t)
  BY ExpiredFacts DEF IsGone, Contract!Live, Readings
<1>2. \A t \in Readings : Contract!Effect(call[g], t) =
            [err |-> "ErrSessionNotFound", s |-> NoSession,
             after |-> [Effective EXCEPT ![id] = NoSession]]
  BY <1>1 DEF Contract!Effect, Contract!Load, Contract!ConsumeOnce
<1> QED
  BY <1>2, TakeResult

\* A session that is new or consumed is live whatever the clock reads.
LEMMA LiveInSuite ==
    ASSUME LockInv, now <= MaxTime, NEW id \in SessionIDs,
           IsFresh(Effective[id], id) \/ IsMarked(Effective[id], id)
    PROVE  \A t \in Readings : Contract!Live(id, t)
<1>1. now \in Nat
  BY DEF LockInv, TypeOK, StoreTypeOK
<1>2. /\ Effective[id] # NoSession
      /\ Effective[id].expiresAt \in Nat /\ Effective[id].expiresAt >= TTL
  BY FreshFacts, MarkedFacts
<1> QED
  BY <1>1, <1>2, SuiteReadings, TTLAssumption DEF Contract!Live

\* Load of a live session returns it.
LEMMA TakeLoad ==
    ASSUME LockInv, now <= MaxTime, NEW g \in Callers, Contract!Take(g),
           NEW id \in SessionIDs,
           call[g] = [op |-> "Load", id |-> id, s |-> NoSession],
           IsFresh(Effective[id], id) \/ IsMarked(Effective[id], id)
    PROVE  Effective' = Effective /\ ret'[g] = [err |-> "nil", s |-> Effective[id]]
<1>1. \A t \in Readings : Contract!Effect(call[g], t) =
            [err |-> "nil", s |-> Effective[id], after |-> Effective]
  BY LiveInSuite DEF Contract!Effect, Contract!Load
<1> QED
  BY <1>1, TakeResult

\* The first ConsumeOnce marks and returns the session.
LEMMA TakeConsumeFresh ==
    ASSUME LockInv, now <= MaxTime, NEW g \in Callers, Contract!Take(g),
           NEW id \in SessionIDs,
           call[g] = [op |-> "ConsumeOnce", id |-> id, s |-> NoSession],
           IsFresh(Effective[id], id)
    PROVE  /\ IsMarked(Effective'[id], id)
           /\ ret'[g] = [err |-> "nil", s |-> Effective'[id]]
<1> DEFINE s == [Effective[id] EXCEPT !.consumed = TRUE]
<1>1. ~Effective[id].consumed /\ IsMarked(s, id)
  BY FreshFacts
<1>2. \A t \in Readings : Contract!ConsumeOnce(id, t) =
            [err |-> "nil", s |-> s, after |-> [Effective EXCEPT ![id] = s]]
  BY <1>1, LiveInSuite DEF Contract!ConsumeOnce
<1>3. \A t \in Readings : Contract!Effect(call[g], t) =
            [err |-> "nil", s |-> s, after |-> [Effective EXCEPT ![id] = s]]
  BY <1>2 DEF Contract!Effect
<1> HIDE DEF s
<1>4. Effective' = [Effective EXCEPT ![id] = s] /\ ret'[g] = [err |-> "nil", s |-> s]
  BY <1>3, TakeResult
<1>5. Effective'[id] = s
  BY <1>4, EffectiveType
<1> QED
  BY <1>1, <1>4, <1>5

\* A later ConsumeOnce is refused.
LEMMA TakeConsumeMarked ==
    ASSUME LockInv, now <= MaxTime, NEW g \in Callers, Contract!Take(g),
           NEW id \in SessionIDs,
           call[g] = [op |-> "ConsumeOnce", id |-> id, s |-> NoSession],
           IsMarked(Effective[id], id)
    PROVE  /\ Effective' = Effective
           /\ ret'[g] = [err |-> "ErrSessionConsumed", s |-> NoSession]
<1>1. Effective[id].consumed
  BY MarkedFacts
<1>2. \A t \in Readings : Contract!Effect(call[g], t) =
            [err |-> "ErrSessionConsumed", s |-> NoSession, after |-> Effective]
  BY <1>1, LiveInSuite DEF Contract!Effect, Contract!ConsumeOnce
<1> QED
  BY <1>2, TakeResult

-----------------------------------------------------------------------------
(* The first step of what is left of a subtest, and what is left then      *)

\* The fields of the steps.
LEMMA StepFacts ==
    \A id, w :
        /\ Loads(id, w).op = "Load" /\ Loads(id, w).id = id /\ Loads(id, w).want = w
        /\ Consumes(id, w).op = "ConsumeOnce" /\ Consumes(id, w).id = id
        /\ Consumes(id, w).want = w
        /\ Tampers(id).op = "tamper" /\ Tampers(id).id = id
        /\ Mints(id).op = "mint" /\ Mints(id).id = id
        /\ Race(id).op = "race" /\ Race(id).id = id
        /\ Resaves(id).op = "Save" /\ Resaves(id).id = id
        /\ Resaves(id).arg = "held" /\ Resaves(id).want = "nil"
        /\ SaveFresh(id).op = "Save" /\ SaveFresh(id).id = id
        /\ SaveFresh(id).arg = "fresh" /\ SaveFresh(id).want = "nil"
        /\ SaveExpired(id).op = "Save" /\ SaveExpired(id).id = id
        /\ SaveExpired(id).arg = "expired" /\ SaveExpired(id).want = "nil"
        /\ SavesNothing(id, w).op = "Save" /\ SavesNothing(id, w).id = id
        /\ SavesNothing(id, w).arg = w /\ SavesNothing(id, w).want = "ErrSessionInvalid"
BY DEF Loads, Consumes, Tampers, Mints, Race, Resaves, SaveFresh, SaveExpired,
   SavesNothing, Step

\* The subtests, in these steps.
LEMMA SubtestSteps ==
    ASSUME NEW id, NEW id2
    PROVE  /\ SaveLoadRoundtrip(id) = <<SaveFresh(id), Loads(id, "saved")>>
           /\ LoadReturnsACopy(id) =
                <<SaveFresh(id), Loads(id, "nil"), Tampers(id), Loads(id, "saved")>>
           /\ LoadUnknownIsNotFound(id) = <<Loads(id, "ErrSessionNotFound")>>
           /\ SaveRequiresID(id) = <<SavesNothing(id, "empty"), SavesNothing(id, "nil")>>
           /\ ExpiredSessionIsNotFound(id, id2) =
                <<SaveExpired(id), Loads(id, "ErrSessionNotFound"), SaveExpired(id2),
                  Consumes(id2, "ErrSessionNotFound")>>
           /\ ConsumeOnceConsumes(id) =
                <<SaveFresh(id), Consumes(id, "consumed"),
                  Consumes(id, "ErrSessionConsumed"), Loads(id, "consumed")>>
           /\ ConsumeOnceUnknownIsNotFound(id) = <<Consumes(id, "ErrSessionNotFound")>>
           /\ ConsumedMarkerSurvivesSave(id) =
                <<SaveFresh(id), Consumes(id, "nil"), Mints(id), Resaves(id),
                  Consumes(id, "ErrSessionConsumed"), Loads(id, "code")>>
           /\ ConcurrentConsumeExactlyOnce(id) = <<SaveFresh(id), Race(id)>>
BY DEF SaveLoadRoundtrip, LoadReturnsACopy, LoadUnknownIsNotFound, SaveRequiresID,
   ExpiredSessionIsNotFound, ConsumeOnceConsumes, ConsumeOnceUnknownIsNotFound,
   ConsumedMarkerSurvivesSave, ConcurrentConsumeExactlyOnce,
   Loads, Consumes, Tampers, Mints, Race, Resaves, SavesNothing

\* How a subtest begins that assumes nothing of the store.
LEMMA HeadNothing ==
    ASSUME NEW rest, NEW id, NEW id2, NeedsNothing(rest, id, id2), rest # <<>>
    PROVE  /\ rest[1].op = "Save" /\ rest[1].id = id
           /\ \/ /\ rest[1].arg = "fresh" /\ rest[1].want = "nil"
                 /\ NeedsFresh(Tail(rest), id)
              \/ /\ rest[1].arg = "expired" /\ rest[1].want = "nil"
                 /\ NeedsGone(Tail(rest), id, id2)
              \/ /\ rest[1].arg \in {"empty", "nil"} /\ rest[1].want = "ErrSessionInvalid"
                 /\ NeedsNothing(Tail(rest), id, id2)
<1>1. CASE rest = <<SaveFresh(id), Loads(id, "saved")>>
  BY <1>1, StepFacts DEF NeedsFresh
<1>2. CASE rest = <<SaveFresh(id), Loads(id, "nil"), Tampers(id), Loads(id, "saved")>>
  BY <1>2, StepFacts DEF NeedsFresh
<1>3. CASE rest = <<SavesNothing(id, "empty"), SavesNothing(id, "nil")>>
  BY <1>3, StepFacts DEF NeedsNothing
<1>4. CASE rest = <<SavesNothing(id, "nil")>>
  BY <1>4, StepFacts DEF NeedsNothing
<1>5. CASE rest = <<SaveExpired(id), Loads(id, "ErrSessionNotFound"), SaveExpired(id2),
                    Consumes(id2, "ErrSessionNotFound")>>
  BY <1>5, StepFacts DEF NeedsGone
<1>6. CASE rest = <<SaveExpired(id), Consumes(id, "ErrSessionNotFound")>>
  BY <1>6, StepFacts DEF NeedsGone
<1>7. CASE rest = <<SaveFresh(id), Consumes(id, "consumed"), Consumes(id, "ErrSessionConsumed"),
                    Loads(id, "consumed")>>
  BY <1>7, StepFacts DEF NeedsFresh
<1>8. CASE rest = <<SaveFresh(id), Consumes(id, "nil"), Mints(id), Resaves(id),
                    Consumes(id, "ErrSessionConsumed"), Loads(id, "code")>>
  BY <1>8, StepFacts DEF NeedsFresh
<1>9. CASE rest = <<SaveFresh(id), Race(id)>>
  BY <1>9, StepFacts DEF NeedsFresh
<1> QED
  BY SubtestSteps, <1>1, <1>2, <1>3, <1>4, <1>5, <1>6, <1>7, <1>8, <1>9 DEF NeedsNothing

\* How a subtest goes on from a new session.
LEMMA HeadFresh ==
    ASSUME NEW rest, NEW id, NeedsFresh(rest, id)
    PROVE  /\ rest # <<>> /\ rest[1].id = id
           /\ \/ /\ rest[1].op = "Load" /\ rest[1].want \in {"saved", "nil"}
                 /\ Tail(rest) = <<>> \/ NeedsFresh(Tail(rest), id)
              \/ rest[1].op = "tamper" /\ NeedsFresh(Tail(rest), id)
              \/ /\ rest[1].op = "ConsumeOnce" /\ rest[1].want = "consumed"
                 /\ NeedsMarked(Tail(rest), id)
              \/ /\ rest[1].op = "ConsumeOnce" /\ rest[1].want = "nil"
                 /\ NeedsMarkedCopy(Tail(rest), id)
              \/ rest[1].op = "race" /\ rest = <<Race(id)>>
<1>1. CASE rest = <<Loads(id, "saved")>>
  BY <1>1, StepFacts DEF NeedsFresh
<1>2. CASE rest = <<Loads(id, "nil"), Tampers(id), Loads(id, "saved")>>
  BY <1>2, StepFacts DEF NeedsFresh
<1>3. CASE rest = <<Tampers(id), Loads(id, "saved")>>
  BY <1>3, StepFacts DEF NeedsFresh
<1>4. CASE rest = <<Consumes(id, "consumed"), Consumes(id, "ErrSessionConsumed"),
                    Loads(id, "consumed")>>
  BY <1>4, StepFacts DEF NeedsMarked
<1>5. CASE rest = <<Consumes(id, "nil"), Mints(id), Resaves(id), Consumes(id, "ErrSessionConsumed"),
                    Loads(id, "code")>>
  BY <1>5, StepFacts DEF NeedsMarkedCopy
<1>6. CASE rest = <<Race(id)>>
  BY <1>6, StepFacts DEF NeedsFresh
<1> QED
  BY <1>1, <1>2, <1>3, <1>4, <1>5, <1>6 DEF NeedsFresh

\* How a subtest goes on from an expired or unknown session.
LEMMA HeadGone ==
    ASSUME NEW rest, NEW id, NEW id2, NeedsGone(rest, id, id2)
    PROVE  /\ rest # <<>> /\ rest[1].id = id /\ rest[1].want = "ErrSessionNotFound"
           /\ rest[1].op \in {"Load", "ConsumeOnce"}
           /\ NeedsNothing(Tail(rest), id2, id)
<1>1. CASE rest = <<Loads(id, "ErrSessionNotFound")>>
  BY <1>1, StepFacts DEF NeedsNothing
<1>2. CASE rest = <<Consumes(id, "ErrSessionNotFound")>>
  BY <1>2, StepFacts DEF NeedsNothing
<1>3. CASE rest = <<Loads(id, "ErrSessionNotFound"), SaveExpired(id2),
                    Consumes(id2, "ErrSessionNotFound")>>
  BY <1>3, StepFacts DEF NeedsNothing
<1> QED
  BY <1>1, <1>2, <1>3 DEF NeedsGone

\* How a subtest goes on from a consumed session.
LEMMA HeadMarked ==
    ASSUME NEW rest, NEW id, NeedsMarked(rest, id)
    PROVE  /\ rest # <<>> /\ rest[1].id = id
           /\ \/ /\ rest[1].op = "ConsumeOnce" /\ rest[1].want = "ErrSessionConsumed"
                 /\ NeedsMarked(Tail(rest), id)
              \/ rest[1].op = "Load" /\ rest[1].want = "consumed" /\ Tail(rest) = <<>>
<1>1. CASE rest = <<Consumes(id, "ErrSessionConsumed"), Loads(id, "consumed")>>
  BY <1>1, StepFacts DEF NeedsMarked
<1>2. CASE rest = <<Loads(id, "consumed")>>
  BY <1>2, StepFacts DEF NeedsMarked
<1> QED
  BY <1>1, <1>2 DEF NeedsMarked

\* How a subtest goes on with the winner's copy.
LEMMA HeadMarkedCopy ==
    ASSUME NEW rest, NEW id, NeedsMarkedCopy(rest, id)
    PROVE  /\ rest # <<>> /\ rest[1].id = id
           /\ \/ rest[1].op = "mint" /\ NeedsMarkedCopy(Tail(rest), id)
              \/ /\ rest[1].op = "Save" /\ rest[1].arg = "held" /\ rest[1].want = "nil"
                 /\ NeedsCode(Tail(rest), id)
<1>1. CASE rest = <<Mints(id), Resaves(id), Consumes(id, "ErrSessionConsumed"),
                    Loads(id, "code")>>
  BY <1>1, StepFacts DEF NeedsMarkedCopy
<1>2. CASE rest = <<Resaves(id), Consumes(id, "ErrSessionConsumed"), Loads(id, "code")>>
  BY <1>2, StepFacts DEF NeedsCode
<1> QED
  BY <1>1, <1>2 DEF NeedsMarkedCopy

\* How a subtest goes on after it saved the winner's copy.
LEMMA HeadCode ==
    ASSUME NEW rest, NEW id, NeedsCode(rest, id)
    PROVE  /\ rest # <<>> /\ rest[1].id = id
           /\ \/ /\ rest[1].op = "ConsumeOnce" /\ rest[1].want = "ErrSessionConsumed"
                 /\ NeedsCode(Tail(rest), id)
              \/ rest[1].op = "Load" /\ rest[1].want = "code" /\ Tail(rest) = <<>>
<1>1. CASE rest = <<Consumes(id, "ErrSessionConsumed"), Loads(id, "code")>>
  BY <1>1, StepFacts DEF NeedsCode
<1>2. CASE rest = <<Loads(id, "code")>>
  BY <1>2, StepFacts DEF NeedsCode
<1> QED
  BY <1>1, <1>2 DEF NeedsCode

-----------------------------------------------------------------------------
(* A subtest step by step                                                  *)

\* The kinds of states from which a subtest can go on.
LEMMA CanGoOnIntro ==
    ASSUME NEW rest, NEW m, NEW sv, NEW h, NEW id \in SessionIDs, NEW id2 \in SessionIDs,
           \/ NeedsNothing(rest, id, id2) \/ rest = <<>>
           \/ NeedsFresh(rest, id) /\ IsFresh(m[id], id) /\ sv = m[id]
           \/ NeedsGone(rest, id, id2) /\ IsGone(m[id], id)
           \/ NeedsMarked(rest, id) /\ IsMarked(m[id], id)
           \/ NeedsMarkedCopy(rest, id) /\ IsMarked(h, id)
           \/ NeedsCode(rest, id) /\ IsMarked(m[id], id) /\ sv.code = m[id].code
    PROVE  CanGoOn(rest, m, sv, h)
<1>1. rest = <<>> => NeedsNothing(rest, id, id2)
  BY DEF NeedsNothing
<1> QED
  BY <1>1 DEF CanGoOn

\* A decided call has the result its step wants, and the subtest can go on.
LEMMA SubtestTake ==
    ASSUME LockInv, now <= MaxTime, Contract!Take(Test), script # <<>>,
           CanGoOn(script, Effective, saved, held), CallMatches(script[1])
    PROVE  /\ script[1].op \in {"Save", "Load", "ConsumeOnce"}
           /\ Wanted(script[1].want, ret'[Test])
           /\ CanGoOn(Tail(script), Effective', saved, ret'[Test].s)
<1> DEFINE step == script[1]
           rest == Tail(script)
<1>1. PICK id \in SessionIDs, id2 \in SessionIDs :
        \/ NeedsNothing(script, id, id2)
        \/ NeedsFresh(script, id) /\ IsFresh(Effective[id], id) /\ saved = Effective[id]
        \/ NeedsGone(script, id, id2) /\ IsGone(Effective[id], id)
        \/ NeedsMarked(script, id) /\ IsMarked(Effective[id], id)
        \/ NeedsMarkedCopy(script, id) /\ IsMarked(held, id)
        \/ /\ NeedsCode(script, id)
           /\ IsMarked(Effective[id], id) /\ saved.code = Effective[id].code
  BY DEF CanGoOn
<1>2. Test \in Callers /\ DOMAIN Effective = SessionIDs
  BY TestAssumption, EffectiveType
<1> HIDE DEF step, rest
<1>3. step.op # "Save" =>
        call[Test] = [op |-> step.op, id |-> step.id, s |-> NoSession]
  BY DEF CallMatches, step
<1>4. step.op = "Save" =>
        /\ call[Test] = Contract!SaveCall(saved)
        /\ step.arg = "fresh" => IsFresh(saved, step.id)
        /\ step.arg = "expired" => saved = newSession(step.id, 0)
        /\ step.arg = "held" => IsMarked(saved, step.id)
        /\ step.arg \in {"empty", "nil"} => saved = NoSession
  BY DEF CallMatches, step
<1>5. ASSUME NEW s, call[Test] = Contract!SaveCall(s), s.id = id, s # NoSession
      PROVE  Effective'[id] = s /\ ret'[Test] = [err |-> "nil", s |-> NoSession]
  BY <1>2, <1>5, TakeSave
<1>6. CASE NeedsNothing(script, id, id2)
  <2>1. step.op = "Save" /\ step.id = id
    BY <1>6, HeadNothing DEF step
  <2>2. CASE step.arg = "fresh" /\ step.want = "nil" /\ NeedsFresh(rest, id)
    <3>1. IsFresh(saved, id) /\ call[Test] = Contract!SaveCall(saved)
      BY <1>4, <2>1, <2>2
    <3>2. Effective'[id] = saved /\ ret'[Test].err = "nil"
      <4>1. saved.id = id /\ saved # NoSession
        BY <3>1, FreshFacts
      <4> QED
        BY <1>5, <3>1, <4>1
    <3>3. CanGoOn(rest, Effective', saved, ret'[Test].s)
      BY <2>2, <3>1, <3>2, CanGoOnIntro
    <3> QED
      BY <2>1, <2>2, <3>2, <3>3 DEF Wanted, step, rest
  <2>3. CASE step.arg = "expired" /\ step.want = "nil" /\ NeedsGone(rest, id, id2)
    <3>1. saved = newSession(id, 0) /\ call[Test] = Contract!SaveCall(saved)
      BY <1>4, <2>1, <2>3
    <3>2. Effective'[id] = saved /\ ret'[Test].err = "nil"
      BY <1>5, <3>1, ExpiredFacts
    <3>3. IsGone(Effective'[id], id)
      BY <3>1, <3>2 DEF IsGone
    <3>4. CanGoOn(rest, Effective', saved, ret'[Test].s)
      BY <2>3, <3>3, CanGoOnIntro
    <3> QED
      BY <2>1, <2>3, <3>2, <3>4 DEF Wanted, step, rest
  <2>4. CASE /\ step.arg \in {"empty", "nil"} /\ step.want = "ErrSessionInvalid"
             /\ NeedsNothing(rest, id, id2)
    <3>1. call[Test] = Contract!SaveCall(NoSession)
      BY <1>4, <2>1, <2>4
    <3>2. ret'[Test].err = "ErrSessionInvalid"
      BY <1>2, <3>1, TakeSaveNil
    <3>3. CanGoOn(rest, Effective', saved, ret'[Test].s)
      BY <2>4, CanGoOnIntro
    <3> QED
      BY <2>1, <2>4, <3>2, <3>3 DEF Wanted, step, rest
  <2> QED
    BY <1>6, <2>2, <2>3, <2>4, HeadNothing DEF step, rest
<1>7. CASE NeedsFresh(script, id) /\ IsFresh(Effective[id], id) /\ saved = Effective[id]
  <2>1. step.id = id /\ step.op \in {"Save", "Load", "ConsumeOnce"}
    BY <1>7, HeadFresh DEF step, CallMatches
  <2>2. CASE /\ step.op = "Load" /\ step.want \in {"saved", "nil"}
             /\ rest = <<>> \/ NeedsFresh(rest, id)
    <3>1. Effective' = Effective /\ ret'[Test] = [err |-> "nil", s |-> Effective[id]]
      BY <1>2, <1>3, <1>7, <2>1, <2>2, TakeLoad
    <3>2. CanGoOn(rest, Effective', saved, ret'[Test].s)
      BY <1>7, <2>2, <3>1, CanGoOnIntro
    <3> QED
      BY <1>7, <2>1, <2>2, <3>1, <3>2 DEF Wanted, step, rest
  <2>3. CASE step.op = "ConsumeOnce"
    <3>1. /\ IsMarked(Effective'[id], id)
          /\ ret'[Test] = [err |-> "nil", s |-> Effective'[id]]
      BY <1>2, <1>3, <1>7, <2>1, <2>3, TakeConsumeFresh
    <3>2. Effective'[id].consumed
      BY <3>1, MarkedFacts
    <3>3. \/ step.want = "consumed" /\ NeedsMarked(rest, id)
          \/ step.want = "nil" /\ NeedsMarkedCopy(rest, id)
      BY <1>7, <2>3, HeadFresh DEF step, rest
    <3>4. IsMarked(ret'[Test].s, id)
      BY <3>1
    <3>5. CanGoOn(rest, Effective', saved, ret'[Test].s)
      BY <3>1, <3>3, <3>4, CanGoOnIntro
    <3> QED
      BY <2>1, <3>1, <3>2, <3>3, <3>5 DEF Wanted, step, rest
  <2> QED
    BY <1>7, <2>1, <2>2, <2>3, HeadFresh DEF step, rest
<1>8. CASE NeedsGone(script, id, id2) /\ IsGone(Effective[id], id)
  <2>1. /\ step.id = id /\ step.want = "ErrSessionNotFound"
        /\ step.op \in {"Load", "ConsumeOnce"} /\ NeedsNothing(rest, id2, id)
    BY <1>8, HeadGone DEF step, rest
  <2>2. ret'[Test] = [err |-> "ErrSessionNotFound", s |-> NoSession]
    BY <1>2, <1>3, <1>8, <2>1, TakeGone
  <2>3. CanGoOn(rest, Effective', saved, ret'[Test].s)
    BY <2>1, CanGoOnIntro
  <2> QED
    BY <2>1, <2>2, <2>3 DEF Wanted, step, rest
<1>9. CASE NeedsMarked(script, id) /\ IsMarked(Effective[id], id)
  <2>1. step.id = id
    BY <1>9, HeadMarked DEF step
  <2>2. CASE /\ step.op = "ConsumeOnce" /\ step.want = "ErrSessionConsumed"
             /\ NeedsMarked(rest, id)
    <3>1. /\ Effective' = Effective
          /\ ret'[Test] = [err |-> "ErrSessionConsumed", s |-> NoSession]
      BY <1>2, <1>3, <1>9, <2>1, <2>2, TakeConsumeMarked
    <3>2. CanGoOn(rest, Effective', saved, ret'[Test].s)
      BY <1>9, <2>2, <3>1, CanGoOnIntro
    <3> QED
      BY <2>2, <3>1, <3>2 DEF Wanted, step, rest
  <2>3. CASE step.op = "Load" /\ step.want = "consumed" /\ rest = <<>>
    <3>1. Effective' = Effective /\ ret'[Test] = [err |-> "nil", s |-> Effective[id]]
      BY <1>2, <1>3, <1>9, <2>1, <2>3, TakeLoad
    <3>2. Effective[id].consumed
      BY <1>9, MarkedFacts
    <3>3. CanGoOn(rest, Effective', saved, ret'[Test].s)
      BY <2>3, CanGoOnIntro
    <3> QED
      BY <2>3, <3>1, <3>2, <3>3 DEF Wanted, step, rest
  <2> QED
    BY <1>9, <2>2, <2>3, HeadMarked DEF step, rest
<1>10. CASE NeedsMarkedCopy(script, id) /\ IsMarked(held, id)
  <2>1. /\ step.id = id /\ step.op = "Save" /\ step.arg = "held" /\ step.want = "nil"
        /\ NeedsCode(rest, id)
    BY <1>10, HeadMarkedCopy DEF step, rest, CallMatches
  <2>2. IsMarked(saved, id) /\ call[Test] = Contract!SaveCall(saved)
    BY <1>4, <2>1
  <2>3. Effective'[id] = saved /\ ret'[Test].err = "nil"
    BY <1>5, <2>2, MarkedFacts
  <2>4. CanGoOn(rest, Effective', saved, ret'[Test].s)
    BY <2>1, <2>2, <2>3, CanGoOnIntro
  <2> QED
    BY <2>1, <2>3, <2>4 DEF Wanted, step, rest
<1>11. CASE /\ NeedsCode(script, id)
            /\ IsMarked(Effective[id], id) /\ saved.code = Effective[id].code
  <2>1. step.id = id
    BY <1>11, HeadCode DEF step
  <2>2. CASE /\ step.op = "ConsumeOnce" /\ step.want = "ErrSessionConsumed"
             /\ NeedsCode(rest, id)
    <3>1. /\ Effective' = Effective
          /\ ret'[Test] = [err |-> "ErrSessionConsumed", s |-> NoSession]
      BY <1>2, <1>3, <1>11, <2>1, <2>2, TakeConsumeMarked
    <3>2. CanGoOn(rest, Effective', saved, ret'[Test].s)
      BY <1>11, <2>2, <3>1, CanGoOnIntro
    <3> QED
      BY <2>2, <3>1, <3>2 DEF Wanted, step, rest
  <2>3. CASE step.op = "Load" /\ step.want = "code" /\ rest = <<>>
    <3>1. Effective' = Effective /\ ret'[Test] = [err |-> "nil", s |-> Effective[id]]
      BY <1>2, <1>3, <1>11, <2>1, <2>3, TakeLoad
    <3>2. CanGoOn(rest, Effective', saved, ret'[Test].s)
      BY <2>3, CanGoOnIntro
    <3> QED
      BY <1>11, <2>3, <3>1, <3>2 DEF Wanted, step, rest
  <2> QED
    BY <1>11, <2>2, <2>3, HeadCode DEF step, rest
<1> QED
  BY <1>1, <1>6, <1>7, <1>8, <1>9, <1>10, <1>11

\* NoTest is not what is left of a subtest.
LEMMA OpNone ==
    /\ NoTest # <<>> /\ NoTest[1].op = "none"
    /\ \A id : <<Race(id)>> # NoTest /\ <<Race(id)>> # <<>> /\ <<Race(id)>>[1] = Race(id)
<1>1. NoTest # <<>> /\ NoTest[1] = Step("none", NoSession, "", "")
  BY DEF NoTest
<1>2. Step("none", NoSession, "", "").op = "none"
  BY DEF Step
<1>3. ASSUME NEW id
      PROVE  <<Race(id)>> # NoTest /\ <<Race(id)>> # <<>> /\ <<Race(id)>>[1] = Race(id)
  <2>1. <<Race(id)>> # <<>> /\ <<Race(id)>>[1] = Race(id)
    OBVIOUS
  <2>2. NoTest[1] # Race(id)
    <3>1. Race(id).op = "race"
      BY StepFacts
    <3> QED
      BY <1>1, <1>2, <3>1
  <2>3. <<Race(id)>> # NoTest
    BY <2>1, <2>2, Zenon
  <2> QED
    BY <2>1, <2>3
<1> QED
  BY <1>1, <1>2, <1>3, Zenon

\* The operation a subtest goes on with, and its session.
LEMMA CanGoOnOp ==
    ASSUME NEW rest, NEW m, NEW sv, NEW h, CanGoOn(rest, m, sv, h), rest # <<>>
    PROVE  /\ rest[1].op \in {"Save", "Load", "ConsumeOnce", "tamper", "mint", "race"}
           /\ rest[1].id \in SessionIDs
<1>1. PICK id \in SessionIDs, id2 \in SessionIDs :
        \/ NeedsNothing(rest, id, id2) \/ NeedsFresh(rest, id)
        \/ NeedsGone(rest, id, id2) \/ NeedsMarked(rest, id)
        \/ NeedsMarkedCopy(rest, id) \/ NeedsCode(rest, id)
  BY DEF CanGoOn
<1>2. rest[1].op \in {"Save", "Load", "ConsumeOnce", "tamper", "mint", "race"}
  BY <1>1, HeadNothing, HeadFresh, HeadGone, HeadMarked, HeadMarkedCopy, HeadCode
<1>3. \/ rest[1].id = id
      \/ NeedsMarked(rest, id) \/ NeedsMarkedCopy(rest, id) \/ NeedsCode(rest, id)
  BY <1>1, HeadNothing, HeadFresh, HeadGone
<1>4. rest[1].id = id
  BY <1>3, HeadMarked, HeadMarkedCopy, HeadCode
<1> QED
  BY <1>2, <1>4

\* The argument of a Save step is a session the suite saves.
LEMMA SubtestArgument ==
    ASSUME LockInv, now <= MaxTime, script # <<>>, script[1].op = "Save",
           CanGoOn(script, Effective, saved, held), NEW s, s = Argument(script[1])
    PROVE  /\ s \in Saved
           /\ CanGoOn(script, Effective, s, held)
           /\ CASE script[1].arg = "fresh" -> IsFresh(s, script[1].id)
                [] script[1].arg = "expired" -> s = newSession(script[1].id, 0)
                [] script[1].arg = "held" -> IsMarked(s, script[1].id)
                [] OTHER -> s = NoSession
<1>1. PICK id \in SessionIDs, id2 \in SessionIDs :
        \/ NeedsNothing(script, id, id2) \/ NeedsFresh(script, id)
        \/ NeedsGone(script, id, id2) \/ NeedsMarked(script, id)
        \/ NeedsMarkedCopy(script, id) /\ IsMarked(held, id)
        \/ NeedsCode(script, id)
  BY DEF CanGoOn
<1>2. \/ NeedsNothing(script, id, id2)
      \/ NeedsMarkedCopy(script, id) /\ IsMarked(held, id)
  BY <1>1, HeadFresh, HeadGone, HeadMarked, HeadCode
<1>3. CanGoOn(script, Effective, s, held)
  BY <1>2, CanGoOnIntro
<1>4. CASE NeedsNothing(script, id, id2)
  <2>1. script[1].id = id /\ script[1].arg \in {"fresh", "expired", "empty", "nil"}
    BY <1>4, HeadNothing
  <2>2. CASE script[1].arg = "fresh"
    <3>1. now + TTL \in Lifetimes
      BY TTLAssumption, MaxTimeAssumption DEF Lifetimes, LockInv, TypeOK, StoreTypeOK
    <3>2. IsFresh(s, id)
      BY <2>1, <2>2, <3>1 DEF Argument, IsFresh
    <3>3. s \in Saved
      BY <3>2, FreshFacts
    <3> QED
      BY <1>3, <2>1, <2>2, <3>2, <3>3
  <2>3. CASE script[1].arg = "expired"
    <3>1. s = newSession(id, 0)
      BY <2>1, <2>3 DEF Argument
    <3>2. s \in Saved
      BY <3>1, ExpiredFacts
    <3> QED
      BY <1>3, <2>1, <2>3, <3>1, <3>2
  <2>4. CASE script[1].arg \in {"empty", "nil"}
    <3>1. s = NoSession
      BY <2>4 DEF Argument
    <3>2. s \in Saved
      BY <3>1, SuiteSavesAssumption DEF SuiteSaves
    <3> QED
      BY <1>3, <2>4, <3>1, <3>2
  <2> QED
    BY <2>1, <2>2, <2>3, <2>4
<1>5. CASE NeedsMarkedCopy(script, id) /\ IsMarked(held, id)
  <2>1. script[1].id = id /\ script[1].arg = "held"
    BY <1>5, HeadMarkedCopy
  <2>2. s = held
    BY <2>1 DEF Argument
  <2>3. s \in Saved
    BY <1>5, <2>2, MarkedFacts
  <2> QED
    BY <1>3, <1>5, <2>1, <2>2, <2>3
<1> QED
  BY <1>2, <1>4, <1>5

\* What the test does to its copy does not harm.
LEMMA SubtestMutates ==
    ASSUME script # <<>>, CanGoOn(script, Effective, saved, held), NEW h,
           \/ script[1].op = "tamper"
           \/ script[1].op = "mint" /\ \E r \in Requests : h = [held EXCEPT !.code = r]
    PROVE  CanGoOn(Tail(script), Effective, saved, h)
<1>1. PICK id \in SessionIDs, id2 \in SessionIDs :
        \/ NeedsNothing(script, id, id2)
        \/ NeedsFresh(script, id) /\ IsFresh(Effective[id], id) /\ saved = Effective[id]
        \/ NeedsGone(script, id, id2) \/ NeedsMarked(script, id)
        \/ NeedsMarkedCopy(script, id) /\ IsMarked(held, id)
        \/ NeedsCode(script, id)
  BY DEF CanGoOn
<1>2. CASE NeedsFresh(script, id) /\ IsFresh(Effective[id], id) /\ saved = Effective[id]
  <2>1. NeedsFresh(Tail(script), id)
    BY <1>2, HeadFresh
  <2> QED
    BY <1>2, <2>1, CanGoOnIntro
<1>3. CASE NeedsMarkedCopy(script, id) /\ IsMarked(held, id)
  <2>1. script[1].op = "mint" /\ NeedsMarkedCopy(Tail(script), id)
    BY <1>3, HeadMarkedCopy
  <2>2. IsMarked(h, id)
    <3>1. PICK r \in Requests : h = [held EXCEPT !.code = r]
      BY <2>1, Zenon
    <3>2. IsMarked([held EXCEPT !.code = r], id)
      BY <1>3, MarkedFacts, Zenon
    <3> QED
      BY <3>1, <3>2, Zenon
  <2> QED
    BY <2>1, <2>2, CanGoOnIntro
<1> QED
  BY <1>1, <1>2, <1>3, HeadNothing, HeadGone, HeadMarked, HeadCode

-----------------------------------------------------------------------------
(* The steps of a goroutine as the suite sees them                         *)

\* The contract's status of a goroutine.
LEMMA StatusFacts ==
    /\ Status \in [Callers -> {"idle", "called", "taken"}]
    /\ \A g \in Callers : Status[g] = "idle" <=> pc[g] = "idle"
BY DEF Status

\* What a call changes, as the suite sees it.
LEMMA InvokeStep ==
    ASSUME LockInv, NEW g \in Callers, NEW c \in Contract!Calls, Invoke(g, c)
    PROVE  /\ LockInv'
           /\ pc[g] = "idle" /\ pc'[g] # "idle"
           /\ \A h \in Callers \ {g} : pc'[h] = pc[h] /\ call'[h] = call[h]
           /\ call'[g] = c
           /\ Status' = [Status EXCEPT ![g] = "called"]
           /\ Effective' = Effective /\ ret' = ret /\ now' = now
<1>1. LockInv' /\ Contract!Invoke(g, c)
  BY LockInvInvoke, InvokeRefines
<1>2. Status' = [Status EXCEPT ![g] = "called"] /\ Effective' = Effective
  BY <1>1 DEF Contract!Invoke, Status
<1> QED
  BY <1>1, <1>2 DEF Invoke, Goes, LockInv, TypeOK

\* What a return changes, as the suite sees it.
LEMMA LeaveStep ==
    ASSUME LockInv, NEW g \in Callers, Leave(g)
    PROVE  /\ LockInv'
           /\ pc[g] # "idle" /\ pc'[g] = "idle" /\ Status[g] = "taken"
           /\ \A h \in Callers \ {g} :
                pc'[h] = pc[h] /\ call'[h] = call[h] /\ ret'[h] = ret[h]
           /\ Status' = [Status EXCEPT ![g] = "idle"]
           /\ Effective' = Effective /\ now' = now
<1>1. LockInv' /\ Contract!Return(g)
  BY LockInvLeave, LeaveRefines
<1>2. /\ Status[g] = "taken" /\ Status' = [Status EXCEPT ![g] = "idle"]
      /\ Effective' = Effective
  BY <1>1 DEF Contract!Return, Status
<1> QED
  BY <1>1, <1>2 DEF Leave, Goes, Returns, LockInv, TypeOK

\* What a statement of a method changes, as the suite sees it.
LEMMA InsideStep ==
    ASSUME LockInv, NEW g \in Callers, Lock(g) \/ Inside(g)
    PROVE  /\ LockInv'
           /\ pc[g] # "idle" /\ pc'[g] # "idle"
           /\ \A h \in Callers \ {g} : pc'[h] = pc[h]
           /\ now' = now /\ call' = call
           /\ \/ Contract!Take(g)
              \/ Effective' = Effective /\ Status' = Status /\ ret' = ret
<1>1. LockInv'
  BY LockInvRuns DEF Inside, Runs
<1>2. now' = now /\ call' = call
  BY DEF Inside, Enter, Lock, Read, Clock, Write, Unlock
<1>3. Contract!Take(g) \/ UNCHANGED Contract!contractVars
  BY EnterRefines, LockRefines, ReadRefines, ClockRefines, WriteRefines, UnlockRefines
     DEF Inside
<1>4. UNCHANGED Contract!contractVars =>
        Effective' = Effective /\ Status' = Status /\ ret' = ret
  BY DEF Contract!contractVars, Status
<1>5. \E to \in Phases \ {"idle"} : pc[g] # "idle" /\ Goes(g, to)
  <2>1. CASE Clock(g)
    <3>1. pc[g] # "idle" /\ (Goes(g, "write") \/ Goes(g, "unlock"))
      BY <2>1 DEF Clock
    <3> QED
      BY <3>1 DEF Phases
  <2>2. CASE Enter(g) \/ Lock(g) \/ Read(g) \/ Write(g) \/ Unlock(g)
    BY <2>2 DEF Enter, Lock, Read, Write, Unlock, Phases
  <2> QED
    BY <2>1, <2>2 DEF Inside
<1>6. pc[g] # "idle" /\ pc'[g] # "idle" /\ \A h \in Callers \ {g} : pc'[h] = pc[h]
  BY <1>5 DEF Goes, LockInv, TypeOK
<1> QED
  BY <1>1, <1>2, <1>3, <1>4, <1>6

\* What a tick changes, as the suite sees it.
LEMMA TickStep ==
    ASSUME LockInv, Tick
    PROVE  /\ LockInv' /\ now' <= MaxTime
           /\ Effective' = Effective /\ Status' = Status
           /\ pc' = pc /\ call' = call /\ ret' = ret
<1>1. now' <= MaxTime
  BY MaxTimeAssumption DEF Tick, LockInv, TypeOK, StoreTypeOK
<1> QED
  BY <1>1, LockInvTick DEF Tick, Effective, Status, Decided

-----------------------------------------------------------------------------
(* The suite invariant is inductive                                        *)

\* Where no subtest runs.
LEMMA TrafficStep ==
    ASSUME SuiteInv, script = NoTest, pc[Test] = "idle", SuiteNext
    PROVE  SuiteInv'
<1> USE TestAssumption DEF Goroutines
<1>1. \A op \in {"Save", "Load", "ConsumeOnce", "tamper", "mint", "race"} : ~Doing(op)
  BY OpNone DEF Doing
<1>2. ~Calls /\ ~Mutates /\ ~Joins /\ \A g \in Callers : ~Races(g) /\ ~Counts(g)
  BY <1>1 DEF Calls, Mutates, Joins, Races, Counts
<1>3. ~Looks
  BY DEF Looks, Leave
<1>4. ASSUME LockInv', now' <= MaxTime, pc'[Test] = "idle", UNCHANGED testVars
      PROVE  SuiteInv'
  BY <1>4 DEF SuiteInv, testVars
<1>5. ASSUME NEW g \in Callers, Uses(g) PROVE SuiteInv'
  <2>1. g # Test /\ UNCHANGED testVars
    BY <1>5 DEF Uses
  <2>2. LockInv' /\ now' = now /\ pc'[Test] = pc[Test]
    BY <1>5, <2>1, InvokeStep, LeaveStep DEF Uses, SuiteInv
  <2> QED
    BY <1>4, <2>1, <2>2 DEF SuiteInv
<1>6. ASSUME NEW g \in Callers, Lock(g) \/ Inside(g), UNCHANGED testVars PROVE SuiteInv'
  <2>1. LockInv' /\ now' = now /\ pc'[Test] = pc[Test]
    BY <1>6, InsideStep DEF SuiteInv
  <2> QED
    BY <1>4, <1>6, <2>1 DEF SuiteInv
<1>7. ASSUME Tick, UNCHANGED testVars PROVE SuiteInv'
  BY <1>4, <1>7, TickStep DEF SuiteInv
<1> QED
  BY <1>2, <1>3, <1>5, <1>6, <1>7 DEF SuiteNext

\* A subtest that stays one, from its parts in the next state.
LEMMA SubtestIntro ==
    ASSUME LockInv', now' <= MaxTime, failed' = FALSE, script' # NoTest,
           Quiet', waiting' = Goroutines, wins' = 0, conflicts' = 0,
           \/ /\ Status'[Test] = "idle"
              /\ CanGoOn(script', Effective', saved', held')
           \/ /\ Status'[Test] = "called" /\ script' # <<>>
              /\ CanGoOn(script', Effective', saved', held')
              /\ CallMatches(script[1])'
           \/ /\ Status'[Test] = "taken" /\ script' # <<>>
              /\ script'[1].op \in {"Save", "Load", "ConsumeOnce"}
              /\ Wanted(script[1].want, ret[Test])'
              /\ CanGoOn(Tail(script'), Effective', saved', ret'[Test].s)
    PROVE  SuiteInv'
BY DEF SuiteInv, SubtestInv

\* What the test calls is a call of the contract, and leaves the test on its way.
LEMMA SubtestCall ==
    ASSUME SuiteInv, script # NoTest, SubtestInv, Calls
    PROVE  \E c \in Contract!Calls :
            /\ Invoke(Test, c)
            /\ CanGoOn(script, Effective, saved', held)
            /\ call'[Test] = c => CallMatches(script[1])'
<1> USE TestAssumption DEF Goroutines
<1>1. /\ script # <<>> /\ script[1].op \in {"Save", "Load", "ConsumeOnce"}
      /\ UNCHANGED <<script, held, waiting, wins, conflicts, failed>>
  BY DEF Calls, Doing
<1>2. \E c : Invoke(Test, c)
  BY DEF Calls
<1>3. pc[Test] = "idle" /\ Status[Test] = "idle"
  BY <1>2, StatusFacts DEF Invoke
<1>4. CanGoOn(script, Effective, saved, held)
  BY <1>3 DEF SubtestInv
<1>5. CASE script[1].op = "Save"
  <2> DEFINE s == Argument(script[1])
  <2>1. Invoke(Test, Contract!SaveCall(s)) /\ saved' = s
    BY <1>5 DEF Calls
  <2>2. /\ s \in Saved /\ CanGoOn(script, Effective, s, held)
        /\ CASE script[1].arg = "fresh" -> IsFresh(s, script[1].id)
             [] script[1].arg = "expired" -> s = newSession(script[1].id, 0)
             [] script[1].arg = "held" -> IsMarked(s, script[1].id)
             [] OTHER -> s = NoSession
    BY <1>1, <1>4, <1>5, SubtestArgument DEF SuiteInv
  <2>3. Contract!SaveCall(s) \in Contract!Calls
    BY <2>2 DEF Contract!Calls
  <2> HIDE DEF s
  <2>4. call'[Test] = Contract!SaveCall(s) => CallMatches(script[1])'
    BY <1>1, <1>5, <2>1, <2>2 DEF CallMatches
  <2> QED
    BY <2>1, <2>2, <2>3, <2>4
<1>6. CASE script[1].op # "Save"
  <2> DEFINE c == [op |-> script[1].op, id |-> script[1].id, s |-> NoSession]
  <2>1. Invoke(Test, c) /\ saved' = saved
    BY <1>6 DEF Calls
  <2>2. script[1].id \in SessionIDs
    BY <1>1, <1>4, CanGoOnOp
  <2>3. c \in Contract!Calls
    BY <1>1, <1>6, <2>2 DEF Contract!Calls
  <2>4. call'[Test] = c => CallMatches(script[1])'
    BY <1>1, <1>6 DEF CallMatches
  <2> QED
    BY <1>4, <2>1, <2>3, <2>4
<1> QED
  BY <1>5, <1>6

\* The test calls the store.
LEMMA SubtestCallsStep ==
    ASSUME SuiteInv, script # NoTest, SubtestInv, Calls
    PROVE  SuiteInv'
<1> USE TestAssumption DEF Goroutines
<1>1. /\ script # <<>> /\ script[1].op \in {"Save", "Load", "ConsumeOnce"}
      /\ UNCHANGED <<script, held, waiting, wins, conflicts, failed>>
  BY DEF Calls, Doing
<1>2. PICK c \in Contract!Calls :
        /\ Invoke(Test, c)
        /\ CanGoOn(script, Effective, saved', held)
        /\ call'[Test] = c => CallMatches(script[1])'
  BY SubtestCall
<1>3. /\ LockInv' /\ now' = now /\ Effective' = Effective /\ call'[Test] = c
      /\ Status' = [Status EXCEPT ![Test] = "called"]
      /\ \A h \in Callers \ {Test} : pc'[h] = pc[h]
  BY <1>2, InvokeStep DEF SuiteInv
<1>4. Status'[Test] = "called"
  BY <1>3, StatusFacts
<1>5. Quiet'
  BY <1>3 DEF SubtestInv, Quiet
<1> QED
  BY <1>1, <1>2, <1>3, <1>4, <1>5, SubtestIntro DEF SuiteInv, SubtestInv

\* The call returns: the result is the one the step wants.
LEMMA SubtestLooksStep ==
    ASSUME SuiteInv, script # NoTest, SubtestInv, Looks
    PROVE  SuiteInv'
<1> USE TestAssumption DEF Goroutines
<1>1. /\ Leave(Test) /\ held' = ret[Test].s /\ script' = Tail(script)
      /\ failed' = ~Wanted(script[1].want, ret[Test])
      /\ UNCHANGED <<saved, waiting, wins, conflicts>>
  BY DEF Looks
<1>2. /\ LockInv' /\ now' = now /\ Effective' = Effective
      /\ Status[Test] = "taken" /\ Status' = [Status EXCEPT ![Test] = "idle"]
      /\ \A h \in Callers \ {Test} : pc'[h] = pc[h]
  BY <1>1, LeaveStep DEF SuiteInv
<1>3. Status'[Test] = "idle"
  BY <1>2, StatusFacts
<1>4. /\ Wanted(script[1].want, ret[Test])
      /\ CanGoOn(Tail(script), Effective, saved, ret[Test].s)
  BY <1>2 DEF SubtestInv
<1>5. failed' = FALSE
  BY <1>1, <1>4
<1>6. CanGoOn(script', Effective', saved', held')
  BY <1>1, <1>2, <1>4
<1>7. script' # NoTest
  BY <1>6, OpNone, CanGoOnOp
<1>8. Quiet'
  BY <1>2 DEF SubtestInv, Quiet
<1> QED
  BY <1>1, <1>2, <1>3, <1>5, <1>6, <1>7, <1>8, SubtestIntro DEF SuiteInv, SubtestInv

\* The test changes its copy.
LEMMA SubtestMutatesStep ==
    ASSUME SuiteInv, script # NoTest, SubtestInv, Mutates
    PROVE  SuiteInv'
<1> USE TestAssumption DEF Goroutines
<1>1. /\ script # <<>> /\ script' = Tail(script)
      /\ UNCHANGED <<vars, saved, waiting, wins, conflicts, failed>>
      /\ \/ script[1].op = "tamper"
         \/ script[1].op = "mint" /\ \E r \in Requests : held' = [held EXCEPT !.code = r]
  BY Zenon DEF Mutates, Doing
<1>2. script[1].op \in {"tamper", "mint"}
  BY <1>1
<1>3. Status[Test] = "idle"
  BY <1>2, StatusFacts DEF SubtestInv, CallMatches
<1>4. CanGoOn(Tail(script), Effective, saved, held')
  BY <1>1, <1>3, SubtestMutates DEF SubtestInv
<1>5. /\ LockInv' /\ Effective' = Effective /\ Status' = Status /\ pc' = pc /\ now' = now
  BY <1>1, LockInvStutter DEF SuiteInv, vars, Effective, Status, Decided
<1>6. CanGoOn(script', Effective', saved', held')
  BY <1>1, <1>4, <1>5
<1>7. script' # NoTest
  BY <1>6, OpNone, CanGoOnOp
<1>8. Quiet'
  BY <1>5 DEF SubtestInv, Quiet
<1> QED
  BY <1>1, <1>3, <1>5, <1>6, <1>7, <1>8, SubtestIntro DEF SuiteInv, SubtestInv

\* A statement of the method the test is in.
LEMMA SubtestInsideStep ==
    ASSUME SuiteInv, script # NoTest, SubtestInv, UNCHANGED testVars,
           NEW g \in Callers, Lock(g) \/ Inside(g)
    PROVE  SuiteInv'
<1> USE TestAssumption DEF Goroutines
<1>1. /\ LockInv' /\ now' = now /\ call' = call
      /\ pc[g] # "idle" /\ \A h \in Callers \ {g} : pc'[h] = pc[h]
      /\ \/ Contract!Take(g)
         \/ Effective' = Effective /\ Status' = Status /\ ret' = ret
  BY InsideStep DEF SuiteInv
<1>2. g = Test
  BY <1>1 DEF SubtestInv, Quiet
<1>3. Quiet'
  BY <1>1, <1>2 DEF SubtestInv, Quiet
<1>4. /\ now' <= MaxTime /\ failed' = FALSE /\ script' = script /\ saved' = saved
      /\ held' = held /\ waiting' = Goroutines /\ wins' = 0 /\ conflicts' = 0
  BY <1>1 DEF SuiteInv, SubtestInv, testVars
<1>5. CASE Contract!Take(g)
  <2>1. Status[Test] = "called" /\ Status' = [Status EXCEPT ![Test] = "taken"]
    BY <1>2, <1>5, TakeFrame DEF SuiteInv
  <2>2. Status'[Test] = "taken"
    BY <2>1, StatusFacts
  <2>3. /\ script # <<>> /\ CanGoOn(script, Effective, saved, held)
        /\ CallMatches(script[1])
    BY <2>1 DEF SubtestInv
  <2>4. /\ script[1].op \in {"Save", "Load", "ConsumeOnce"}
        /\ Wanted(script[1].want, ret'[Test])
        /\ CanGoOn(Tail(script), Effective', saved, ret'[Test].s)
    BY <1>2, <1>5, <2>3, SubtestTake DEF SuiteInv
  <2>5. Wanted(script[1].want, ret[Test])'
    BY <1>4, <2>4 DEF Wanted
  <2> QED
    BY <1>1, <1>3, <1>4, <2>2, <2>3, <2>4, <2>5, SubtestIntro
<1>6. CASE Effective' = Effective /\ Status' = Status /\ ret' = ret
  <2>1. Status[Test] = "called" => CallMatches(script[1])'
    BY <1>1, <1>4 DEF SubtestInv, CallMatches
  <2>2. Status[Test] = "taken" => Wanted(script[1].want, ret[Test])'
    BY <1>4, <1>6 DEF SubtestInv, Wanted
  <2>3. Status[Test] \in {"idle", "called", "taken"}
    BY StatusFacts
  <2> QED
    BY <1>1, <1>3, <1>4, <1>6, <2>1, <2>2, <2>3, SubtestIntro DEF SubtestInv
<1> QED
  BY <1>1, <1>5, <1>6

-----------------------------------------------------------------------------
(* The race                                                                *)

\* The racing goroutines are finitely many callers and not the test.
LEMMA GoroutinesFacts ==
    /\ IsFiniteSet(Goroutines) /\ Goroutines # {} /\ Goroutines \subseteq Callers
    /\ Test \notin Goroutines
BY FS_Subset, RaceAssumption, TestAssumption DEF Goroutines

\* Those that have been counted are finitely many.
LEMMA CountedFinite ==
    IsFiniteSet(Counted) /\ Cardinality(Counted) \in Nat
<1>1. Counted \subseteq Goroutines
  BY DEF Counted
<1> QED
  BY <1>1, GoroutinesFacts, FS_Subset, FS_CardinalityType

\* A subtest that has come to its race.
LEMMA RaceStarts ==
    ASSUME SuiteInv, SubtestInv, Doing("race")
    PROVE  \E id \in SessionIDs : RaceInv(id)
<1> USE TestAssumption
<1>1. script # <<>> /\ script[1].op = "race"
  BY DEF Doing
<1>2. Status[Test] = "idle" /\ pc[Test] = "idle"
  BY <1>1, StatusFacts DEF SubtestInv, CallMatches
<1>3. CanGoOn(script, Effective, saved, held)
  BY <1>2 DEF SubtestInv
<1>4. PICK id \in SessionIDs, id2 \in SessionIDs :
        \/ NeedsNothing(script, id, id2)
        \/ NeedsFresh(script, id) /\ IsFresh(Effective[id], id)
        \/ NeedsGone(script, id, id2) \/ NeedsMarked(script, id)
        \/ NeedsMarkedCopy(script, id) \/ NeedsCode(script, id)
  BY <1>3 DEF CanGoOn
<1>5. NeedsFresh(script, id) /\ IsFresh(Effective[id], id)
  BY <1>1, <1>4, HeadNothing, HeadGone, HeadMarked, HeadMarkedCopy, HeadCode
<1>6. script = <<Race(id)>>
  BY <1>1, <1>5, HeadFresh
<1>7. Counted = {}
  BY DEF Counted, SubtestInv
<1>8. Cardinality(Counted) = 0
  BY <1>7, FS_EmptySet
<1>9. RaceShape(id)
  BY <1>2, <1>6, <1>8 DEF RaceShape, SubtestInv, Quiet
<1>10. Undecided(id)
  BY <1>5, <1>7, StatusFacts, GoroutinesFacts DEF Undecided, SubtestInv, Quiet
<1> QED
  BY <1>9, <1>10 DEF RaceInv

\* A racing goroutine calls ConsumeOnce.
LEMMA RaceCallsStep ==
    ASSUME SuiteInv, NEW id \in SessionIDs, RaceInv(id), NEW g \in Callers, Races(g)
    PROVE  SuiteInv'
<1> DEFINE c == [op |-> "ConsumeOnce", id |-> id, s |-> NoSession]
<1>1. /\ g \in waiting /\ waiting' = waiting \ {g} /\ Invoke(g, c)
      /\ UNCHANGED <<script, saved, held, wins, conflicts, failed>>
  <2>1. script[1].id = id
    BY OpNone, StepFacts DEF RaceInv, RaceShape
  <2> QED
    BY <2>1 DEF Races
<1>2. c \in Contract!Calls /\ g \in Goroutines
  BY <1>1 DEF Contract!Calls, RaceInv, RaceShape
<1>3. /\ LockInv' /\ now' = now /\ Effective' = Effective /\ ret' = ret
      /\ pc[g] = "idle" /\ pc'[g] # "idle" /\ call'[g] = c
      /\ Status' = [Status EXCEPT ![g] = "called"]
      /\ \A h \in Callers \ {g} : pc'[h] = pc[h] /\ call'[h] = call[h]
  BY <1>1, <1>2, InvokeStep DEF SuiteInv
<1>4. Counted' = Counted
  BY <1>1, <1>3, GoroutinesFacts DEF Counted
<1>5. RaceShape(id)'
  BY <1>1, <1>2, <1>3, <1>4, GoroutinesFacts, TestAssumption DEF RaceInv, RaceShape
<1>6. \A h \in Goroutines : Status'[h] = "taken" <=> Status[h] = "taken"
  BY <1>3, StatusFacts, GoroutinesFacts
<1>7. Undecided(id) => Undecided(id)'
  BY <1>3, <1>4, <1>6 DEF Undecided
<1>8. WinnerCounted(id) => WinnerCounted(id)'
  BY <1>1, <1>3, <1>6 DEF WinnerCounted
<1>9. WinnerReturns(id) => WinnerReturns(id)'
  BY <1>1, <1>3, <1>6 DEF WinnerReturns
<1> QED
  BY <1>1, <1>3, <1>5, <1>7, <1>8, <1>9 DEF SuiteInv, RaceInv

\* A racing goroutine's call returns and it counts its result under the test's
\* mutex.
LEMMA RaceCountsStep ==
    ASSUME SuiteInv, NEW id \in SessionIDs, RaceInv(id), NEW g \in Callers, Counts(g)
    PROVE  SuiteInv'
<1>1. /\ g \in Goroutines /\ Leave(g)
      /\ wins' = IF ret[g].err = "nil" THEN wins + 1 ELSE wins
      /\ conflicts' = IF ret[g].err = "ErrSessionConsumed" THEN conflicts + 1 ELSE conflicts
      /\ failed' = (failed \/ ret[g].err \notin {"nil", "ErrSessionConsumed"})
      /\ UNCHANGED <<script, saved, held, waiting>>
  BY DEF Counts
<1>2. /\ LockInv' /\ now' = now /\ Effective' = Effective
      /\ pc[g] # "idle" /\ pc'[g] = "idle" /\ Status[g] = "taken"
      /\ Status' = [Status EXCEPT ![g] = "idle"]
      /\ \A h \in Callers \ {g} :
            pc'[h] = pc[h] /\ call'[h] = call[h] /\ ret'[h] = ret[h]
  BY <1>1, LeaveStep DEF SuiteInv
<1>3. ret[g].err \in {"nil", "ErrSessionConsumed"}
  BY <1>1, <1>2 DEF RaceInv, Undecided, WinnerCounted, WinnerReturns
<1>4. failed' = FALSE
  BY <1>1, <1>3 DEF SuiteInv
<1>5. Counted' = Counted \cup {g} /\ g \notin Counted
  BY <1>1, <1>2, GoroutinesFacts DEF Counted, RaceInv, RaceShape
<1>6. Cardinality(Counted') = Cardinality(Counted) + 1
  BY <1>5, CountedFinite, FS_AddElement
<1>7. RaceShape(id)'
  <2>1. wins' \in Nat /\ conflicts' \in Nat /\ wins' + conflicts' = Cardinality(Counted)'
    BY <1>1, <1>3, <1>6, CountedFinite DEF RaceInv, RaceShape
  <2>2. \A h \in Goroutines : pc'[h] # "idle" =>
            call'[h] = [op |-> "ConsumeOnce", id |-> id, s |-> NoSession]
    BY <1>1, <1>2, GoroutinesFacts DEF RaceInv, RaceShape
  <2>3. \A h \in waiting' : pc'[h] = "idle"
    BY <1>1, <1>2, GoroutinesFacts DEF RaceInv, RaceShape
  <2>4. pc'[Test] = "idle"
    BY <1>1, <1>2, GoroutinesFacts, TestAssumption DEF RaceInv, RaceShape
  <2> QED
    BY <1>1, <2>1, <2>2, <2>3, <2>4 DEF RaceInv, RaceShape
<1>8. \A h \in Goroutines : Status'[h] = "taken" <=> Status[h] = "taken" /\ h # g
  BY <1>2, StatusFacts, GoroutinesFacts
<1>9. ~Undecided(id)
  BY <1>1, <1>2 DEF Undecided
<1>10. WinnerCounted(id) => WinnerCounted(id)'
  BY <1>1, <1>2, <1>8, GoroutinesFacts DEF WinnerCounted
<1>11. WinnerReturns(id) => WinnerCounted(id)' \/ WinnerReturns(id)'
  <2> SUFFICES ASSUME WinnerReturns(id) PROVE WinnerCounted(id)' \/ WinnerReturns(id)'
    OBVIOUS
  <2>1. PICK w \in Goroutines :
            /\ Status[w] = "taken" /\ ret[w].err = "nil"
            /\ \A h \in Goroutines \ {w} :
                Status[h] = "taken" => ret[h].err = "ErrSessionConsumed"
    BY DEF WinnerReturns
  <2>2. IsMarked(Effective'[id], id) /\ wins = 0
    BY <1>2 DEF WinnerReturns
  <2>3. CASE g = w
    <3>1. wins' = 1
      BY <1>1, <2>1, <2>2, <2>3
    <3> QED
      BY <1>2, <1>8, <2>1, <2>2, <2>3, <3>1, GoroutinesFacts DEF WinnerCounted
  <2>4. CASE g # w
    <3>1. wins' = 0
      BY <1>1, <1>2, <2>1, <2>2, <2>4
    <3>2. /\ Status'[w] = "taken" /\ ret'[w].err = "nil"
          /\ \A h \in Goroutines \ {w} :
                Status'[h] = "taken" => ret'[h].err = "ErrSessionConsumed"
      BY <1>2, <1>8, <2>1, <2>4, GoroutinesFacts
    <3> QED
      BY <2>2, <3>1, <3>2 DEF WinnerReturns
  <2> QED
    BY <2>3, <2>4
<1> QED
  BY <1>2, <1>4, <1>7, <1>9, <1>10, <1>11 DEF SuiteInv, RaceInv

\* A statement of ConsumeOnce in the race: who takes effect first wins, everyone
\* behind finds the marker.
LEMMA RaceInsideStep ==
    ASSUME SuiteInv, NEW id \in SessionIDs, RaceInv(id), UNCHANGED testVars,
           NEW g \in Callers, Lock(g) \/ Inside(g)
    PROVE  SuiteInv'
<1>1. /\ LockInv' /\ now' = now /\ call' = call
      /\ pc[g] # "idle" /\ pc'[g] # "idle" /\ \A h \in Callers \ {g} : pc'[h] = pc[h]
      /\ \/ Contract!Take(g)
         \/ Effective' = Effective /\ Status' = Status /\ ret' = ret
  BY InsideStep DEF SuiteInv
<1>2. /\ script' = script /\ waiting' = waiting /\ wins' = wins
      /\ conflicts' = conflicts /\ failed' = failed
  BY DEF testVars
<1>3. g \in Goroutines
  BY <1>1 DEF RaceInv, RaceShape, Goroutines
<1>4. Counted' = Counted
  BY <1>1, <1>2, GoroutinesFacts DEF Counted
<1>5. RaceShape(id)'
  BY <1>1, <1>2, <1>3, <1>4, GoroutinesFacts, TestAssumption DEF RaceInv, RaceShape
<1>6. Undecided(id)' \/ WinnerCounted(id)' \/ WinnerReturns(id)'
  <2>1. CASE Effective' = Effective /\ Status' = Status /\ ret' = ret
    BY <1>2, <1>4, <2>1 DEF RaceInv, Undecided, WinnerCounted, WinnerReturns
  <2>2. CASE Contract!Take(g)
    <3>1. /\ Status' = [Status EXCEPT ![g] = "taken"] /\ Status[g] = "called"
          /\ \A h \in Callers \ {g} : ret'[h] = ret[h]
      BY <2>2, TakeFrame DEF SuiteInv
    <3>2. \A h \in Goroutines : Status'[h] = "taken" <=> Status[h] = "taken" \/ h = g
      BY <3>1, StatusFacts, GoroutinesFacts
    <3>3. call[g] = [op |-> "ConsumeOnce", id |-> id, s |-> NoSession]
      BY <1>1, <1>3 DEF RaceInv, RaceShape
    <3>4. CASE Undecided(id)
      <4>1. IsMarked(Effective'[id], id) /\ ret'[g].err = "nil"
        <5>1. IsFresh(Effective[id], id) /\ LockInv /\ now <= MaxTime
          BY <3>4 DEF SuiteInv, Undecided
        <5>2. IsMarked(Effective'[id], id) /\ ret'[g] = [err |-> "nil", s |-> Effective'[id]]
          BY <2>2, <3>3, <5>1, TakeConsumeFresh
        <5> QED
          BY <5>2
      <4>2. wins' = 0
        BY <1>2, <3>4, FS_EmptySet DEF Undecided, RaceInv, RaceShape
      <4>3. \A h \in Goroutines \ {g} : Status'[h] # "taken"
        BY <3>2, <3>4 DEF Undecided
      <4>4. Status'[g] = "taken"
        BY <1>3, <3>2
      <4>5. WinnerReturns(id)'
        BY <1>3, <4>1, <4>2, <4>3, <4>4 DEF WinnerReturns
      <4> QED
        BY <4>5
    <3>5. CASE WinnerCounted(id) \/ WinnerReturns(id)
      <4>1. IsMarked(Effective[id], id)
        BY <3>5 DEF WinnerCounted, WinnerReturns
      <4>2. Effective' = Effective /\ ret'[g].err = "ErrSessionConsumed"
        BY <2>2, <3>3, <4>1, TakeConsumeMarked DEF SuiteInv
      <4>3. WinnerCounted(id) => WinnerCounted(id)'
        BY <1>2, <3>1, <3>2, <4>1, <4>2, GoroutinesFacts DEF WinnerCounted
      <4>4. WinnerReturns(id) => WinnerReturns(id)'
        <5> SUFFICES ASSUME WinnerReturns(id) PROVE WinnerReturns(id)'
          OBVIOUS
        <5>1. PICK w \in Goroutines :
                /\ Status[w] = "taken" /\ ret[w].err = "nil"
                /\ \A h \in Goroutines \ {w} :
                    Status[h] = "taken" => ret[h].err = "ErrSessionConsumed"
          BY DEF WinnerReturns
        <5>2. w # g
          BY <3>1, <5>1
        <5>3. /\ Status'[w] = "taken" /\ ret'[w].err = "nil"
              /\ \A h \in Goroutines \ {w} :
                    Status'[h] = "taken" => ret'[h].err = "ErrSessionConsumed"
          BY <3>1, <3>2, <4>2, <5>1, <5>2, GoroutinesFacts
        <5>4. wins' = 0 /\ IsMarked(Effective'[id], id)
          BY <1>2, <4>1, <4>2 DEF WinnerReturns
        <5> QED
          BY <5>3, <5>4 DEF WinnerReturns
      <4> QED
        BY <3>5, <4>3, <4>4
    <3> QED
      BY <3>4, <3>5 DEF RaceInv
  <2> QED
    BY <1>1, <2>1, <2>2
<1> QED
  BY <1>1, <1>2, <1>5, <1>6 DEF SuiteInv, RaceInv

\* wg.Wait() returns when everyone is counted: one won, all others conflicted.
LEMMA RaceJoinsStep ==
    ASSUME SuiteInv, NEW id \in SessionIDs, RaceInv(id), Joins
    PROVE  SuiteInv'
<1>1. /\ waiting = {} /\ \A g \in Goroutines : pc[g] = "idle"
      /\ failed' = (wins # 1 \/ conflicts # Cardinality(Goroutines) - 1)
      /\ script' = Tail(script) /\ UNCHANGED vars
  BY DEF Joins
<1>2. Counted = Goroutines
  BY <1>1 DEF Counted
<1>3. \A g \in Goroutines : Status[g] # "taken"
  BY <1>1, StatusFacts, GoroutinesFacts
<1>4. WinnerCounted(id)
  BY <1>2, <1>3, GoroutinesFacts DEF RaceInv, Undecided, WinnerReturns
<1>5. wins = 1 /\ conflicts = Cardinality(Goroutines) - 1
  BY <1>2, <1>4, CountedFinite DEF RaceInv, RaceShape, WinnerCounted
<1>6. failed' = FALSE
  BY <1>1, <1>5
<1>7. script' = <<>>
  BY <1>1 DEF RaceInv, RaceShape
<1>8. LockInv' /\ now' = now /\ pc' = pc
  BY <1>1, LockInvStutter DEF SuiteInv, vars
<1> QED
  BY <1>1, <1>6, <1>7, <1>8 DEF SuiteInv, Quiet, RaceInv, RaceShape

\* Every step of the race preserves the invariant.
LEMMA RaceStep ==
    ASSUME SuiteInv, NEW id \in SessionIDs, RaceInv(id), SuiteNext
    PROVE  SuiteInv'
<1>1. script # NoTest /\ script # <<>> /\ script[1].op = "race" /\ pc[Test] = "idle"
  BY OpNone, StepFacts DEF RaceInv, RaceShape
<1>2. ~Calls /\ ~Mutates /\ ~Looks /\ \A g \in Callers : ~Uses(g)
  BY <1>1 DEF Calls, Mutates, Looks, Leave, Uses, Doing
<1>3. ASSUME Tick, UNCHANGED testVars PROVE SuiteInv'
  <2>1. /\ LockInv' /\ now' <= MaxTime /\ Effective' = Effective /\ Status' = Status
        /\ pc' = pc /\ call' = call /\ ret' = ret
    BY <1>3, TickStep DEF SuiteInv
  <2>2. /\ script' = script /\ waiting' = waiting /\ wins' = wins
        /\ conflicts' = conflicts /\ failed' = failed
    BY <1>3 DEF testVars
  <2>3. Counted' = Counted
    BY <2>1, <2>2 DEF Counted
  <2>4. RaceShape(id)'
    BY <2>1, <2>2, <2>3 DEF RaceInv, RaceShape
  <2>5. Undecided(id)' \/ WinnerCounted(id)' \/ WinnerReturns(id)'
    BY <2>1, <2>2, <2>3 DEF RaceInv, Undecided, WinnerCounted, WinnerReturns
  <2> QED
    BY <2>1, <2>2, <2>4, <2>5 DEF SuiteInv, RaceInv
<1> QED
  BY <1>2, <1>3, RaceCallsStep, RaceCountsStep, RaceInsideStep, RaceJoinsStep
     DEF SuiteNext

\* Every step of a subtest preserves the invariant.
LEMMA SubtestStep ==
    ASSUME SuiteInv, script # NoTest, SubtestInv, SuiteNext
    PROVE  SuiteInv'
<1>1. CASE Doing("race")
  BY <1>1, RaceStarts, RaceStep
<1>2. CASE ~Doing("race")
  <2>1. ~Joins /\ \A g \in Callers : ~Races(g) /\ ~Uses(g) /\ ~Counts(g)
    BY <1>2 DEF Joins, Races, Uses, Counts, Leave, SubtestInv, Quiet
  <2>2. ASSUME Tick, UNCHANGED testVars PROVE SuiteInv'
    <3>1. /\ LockInv' /\ now' <= MaxTime /\ Effective' = Effective /\ Status' = Status
          /\ pc' = pc /\ call' = call /\ ret' = ret
      BY <2>2, TickStep DEF SuiteInv
    <3>2. /\ script' = script /\ saved' = saved /\ held' = held /\ failed' = FALSE
          /\ waiting' = Goroutines /\ wins' = 0 /\ conflicts' = 0
      BY <2>2 DEF testVars, SuiteInv, SubtestInv
    <3>3. Quiet'
      BY <3>1 DEF SubtestInv, Quiet
    <3>4. Status[Test] = "called" => CallMatches(script[1])'
      BY <3>1, <3>2 DEF SubtestInv, CallMatches
    <3>5. Status[Test] = "taken" => Wanted(script[1].want, ret[Test])'
      BY <3>1, <3>2 DEF SubtestInv, Wanted
    <3>6. Status[Test] \in {"idle", "called", "taken"}
      BY StatusFacts, TestAssumption
    <3> QED
      BY <3>1, <3>2, <3>3, <3>4, <3>5, <3>6, SubtestIntro DEF SubtestInv
  <2> QED
    BY <2>1, <2>2, SubtestCallsStep, SubtestLooksStep, SubtestMutatesStep,
       SubtestInsideStep DEF SuiteNext
<1> QED
  BY <1>1, <1>2

\* Nothing happens after the end.
LEMMA EndStep ==
    ASSUME SuiteInv, script = <<>>, Quiet, pc[Test] = "idle", SuiteNext
    PROVE  SuiteInv'
<1>1. ~Calls /\ ~Mutates /\ ~Joins /\ ~Looks
  BY DEF Calls, Mutates, Joins, Looks, Leave, Doing
<1>2. \A g \in Callers : pc[g] = "idle"
  BY DEF Quiet, Goroutines
<1>3. \A g \in Callers : ~Races(g) /\ ~Counts(g) /\ ~Uses(g)
  BY <1>2, OpNone DEF Races, Doing, Counts, Leave, Uses
<1>4. \A g \in Callers : ~(Lock(g) \/ Inside(g))
  BY <1>2, InsideStep DEF SuiteInv
<1>5. ASSUME Tick, UNCHANGED testVars PROVE SuiteInv'
  BY <1>5, TickStep DEF SuiteInv, testVars, Quiet
<1> QED
  BY <1>1, <1>3, <1>4, <1>5 DEF SuiteNext

\* Each subtest starts on an empty store, which is what it needs.
LEMMA SuiteInvInit ==
    ASSUME SuiteInit
    PROVE  SuiteInv
<1>1. LockInv /\ Effective = sessions
  BY LockInvInit, EffectiveSettled DEF SuiteInit, Init
<1>2. now <= MaxTime /\ failed = FALSE /\ pc = [g \in Callers |-> "idle"]
  BY MaxTimeAssumption DEF SuiteInit, Init, StoreInit
<1>3. CASE script = NoTest
  BY <1>1, <1>2, <1>3, TestAssumption DEF SuiteInv
<1>4. CASE script \in Run
  <2>1. PICK id \in SessionIDs, id2 \in SessionIDs :
            script \in { SaveLoadRoundtrip(id), LoadReturnsACopy(id),
                         LoadUnknownIsNotFound(id), SaveRequiresID(id),
                         ExpiredSessionIsNotFound(id, id2), ConsumeOnceConsumes(id),
                         ConsumeOnceUnknownIsNotFound(id),
                         ConsumedMarkerSurvivesSave(id), ConcurrentConsumeExactlyOnce(id) }
    BY <1>4 DEF Run
  <2>2. Effective[id] = NoSession
    BY <1>1 DEF SuiteInit, Init, StoreInit
  <2>3. IsGone(Effective[id], id)
    BY <2>2 DEF IsGone
  <2>4. NeedsNothing(script, id, id2) \/ NeedsGone(script, id, id2)
    BY <2>1, SubtestSteps DEF NeedsNothing, NeedsGone
  <2>5. CanGoOn(script, Effective, saved, held)
    BY <2>3, <2>4, CanGoOnIntro
  <2>6. script # NoTest
    BY <2>5, OpNone, CanGoOnOp
  <2>7. Quiet /\ Status[Test] = "idle"
    BY <1>2, StatusFacts, GoroutinesFacts, TestAssumption DEF Quiet
  <2>8. SubtestInv
    BY <2>5, <2>7 DEF SubtestInv, SuiteInit
  <2> QED
    BY <1>1, <1>2, <2>6, <2>8 DEF SuiteInv
<1> QED
  BY <1>3, <1>4 DEF SuiteInit

\* Every step of the suite preserves the invariant.
LEMMA SuiteInvNext ==
    ASSUME SuiteInv, SuiteNext
    PROVE  SuiteInv'
BY TrafficStep, SubtestStep, RaceStep, EndStep DEF SuiteInv

\* A stuttering step preserves the invariant.
LEMMA SuiteInvStutter ==
    ASSUME SuiteInv, UNCHANGED suiteVars
    PROVE  SuiteInv'
<1>1. UNCHANGED vars /\ UNCHANGED testVars
  BY DEF suiteVars
<1>2. LockInv' /\ Effective' = Effective /\ Status' = Status
  BY <1>1, LockInvStutter DEF SuiteInv, vars, Effective, Status, Decided
<1> QED
  BY <1>1, <1>2 DEF SuiteInv, SubtestInv, RaceInv, RaceShape, Undecided, WinnerCounted,
     WinnerReturns, Counted, Quiet, CallMatches, Wanted, CanGoOn, vars, testVars

\* The two together.
LEMMA SuiteInvSteps ==
    ASSUME SuiteInv, [SuiteNext]_suiteVars
    PROVE  SuiteInv'
BY SuiteInvNext, SuiteInvStutter

\* Under the suite, and under traffic beside it, the mutex of memstore.go
\* excludes and the map holds well-formed sessions.
THEOREM SuiteTypeCorrect == SuiteSpec => []TypeOK
<1>1. SuiteInit => SuiteInv
  BY SuiteInvInit
<1>2. SuiteInv /\ [SuiteNext]_suiteVars => SuiteInv'
  BY SuiteInvSteps
<1>3. SuiteInv => TypeOK
  BY DEF SuiteInv, LockInv
<1> QED
  BY <1>1, <1>2, <1>3, PTL DEF SuiteSpec

\* Every subtest of storetest.go passes on memstore.go, for any session ids, any
\* lifetime longer than the suite, and any number of racing goroutines: exactly
\* one ConsumeOnce wins and all the others get ErrSessionConsumed.
THEOREM SuitePassesHolds == SuiteSpec => []SuitePasses
<1>1. SuiteInit => SuiteInv
  BY SuiteInvInit
<1>2. SuiteInv /\ [SuiteNext]_suiteVars => SuiteInv'
  BY SuiteInvSteps
<1>3. SuiteInv => SuitePasses
  BY DEF SuiteInv, SuitePasses
<1> QED
  BY <1>1, <1>2, <1>3, PTL DEF SuiteSpec

\* What the suite calls are calls of the contract.
LEMMA SuiteCallRefines ==
    ASSUME SuiteInv, Calls
    PROVE  Contract!ContractNext
<1>1. /\ script # <<>> /\ script[1].op \in {"Save", "Load", "ConsumeOnce"}
  BY DEF Calls, Doing
<1>2. script # NoTest
  BY <1>1, OpNone
<1>3. \A id \in SessionIDs : ~RaceInv(id)
  BY <1>1, StepFacts DEF RaceInv, RaceShape
<1>4. SubtestInv
  BY <1>1, <1>2, <1>3 DEF SuiteInv
<1>5. PICK c \in Contract!Calls : Invoke(Test, c)
  BY <1>2, <1>4, SubtestCall
<1> QED
  BY <1>5, InvokeRefines, TestAssumption DEF SuiteInv, Contract!ContractNext

\* So are the calls of the racing goroutines.
LEMMA SuiteRaceRefines ==
    ASSUME SuiteInv, NEW g \in Callers, Races(g)
    PROVE  Contract!ContractNext
<1>1. Doing("race") /\ script # <<>> /\ script[1].op = "race"
  BY DEF Races, Doing
<1>2. script # NoTest
  BY <1>1, OpNone
<1>3. script[1].id \in SessionIDs
  <2>1. CASE SubtestInv
    <3>1. PICK id \in SessionIDs : RaceInv(id)
      BY <1>1, <1>2, <2>1, RaceStarts
    <3> QED
      BY <3>1, StepFacts DEF RaceInv, RaceShape
  <2>2. ASSUME NEW id \in SessionIDs, RaceInv(id) PROVE script[1].id \in SessionIDs
    BY <2>2, StepFacts DEF RaceInv, RaceShape
  <2> QED
    BY <1>1, <1>2, <2>1, <2>2 DEF SuiteInv
<1> DEFINE c == [op |-> "ConsumeOnce", id |-> script[1].id, s |-> NoSession]
<1>4. c \in Contract!Calls /\ Invoke(g, c)
  BY <1>3 DEF Contract!Calls, Races
<1> QED
  BY <1>4, InvokeRefines DEF SuiteInv, Contract!ContractNext

\* Every step of the suite is a step of the contract or not seen by it.
LEMMA SuiteRefines ==
    ASSUME SuiteInv, [SuiteNext]_suiteVars
    PROVE  [Contract!ContractNext]_(Contract!contractVars)
<1>1. LockInv
  BY DEF SuiteInv
<1>2. ASSUME NEW g \in Callers, Leave(g)
      PROVE  Contract!ContractNext
  BY <1>1, <1>2, LeaveRefines DEF Contract!ContractNext
<1>3. ASSUME NEW g \in Callers, Lock(g) \/ Inside(g)
      PROVE  [Contract!ContractNext]_(Contract!contractVars)
  BY <1>1, <1>3, RunsRefine DEF Runs, Inside
<1>4. ASSUME NEW g \in Callers, Uses(g)
      PROVE  Contract!ContractNext
  <2>1. CASE Leave(g)
    BY <1>2, <2>1
  <2>2. CASE \E c \in Traffic : Invoke(g, c)
    BY <1>1, <2>2, InvokeRefines, TestAssumption DEF Contract!ContractNext
  <2> QED
    BY <1>4, <2>1, <2>2 DEF Uses
<1>5. ASSUME Looks PROVE Contract!ContractNext
  BY <1>2, <1>5, TestAssumption DEF Looks
<1>6. ASSUME NEW g \in Callers, Counts(g) PROVE Contract!ContractNext
  BY <1>2, <1>6 DEF Counts
<1>7. ASSUME Tick PROVE Contract!ContractNext
  BY <1>7, TickRefines DEF Contract!ContractNext
<1>8. ASSUME Mutates \/ Joins \/ UNCHANGED suiteVars
      PROVE  UNCHANGED Contract!contractVars
  BY <1>8, StutterRefines DEF Mutates, Joins, suiteVars
<1> QED
  BY <1>3, <1>4, <1>5, <1>6, <1>7, <1>8, SuiteCallRefines, SuiteRaceRefines
     DEF SuiteNext

\* The suite and the goroutines it races see a store that keeps its contract:
\* each of their calls takes effect at one instant.
THEOREM SuiteImplementsContract == SuiteSpec => ImplementsContract
<1>1. SuiteInit => SuiteInv /\ Contract!ContractInit
  BY SuiteInvInit, InitRefines DEF SuiteInit
<1>2. SuiteInv /\ [SuiteNext]_suiteVars
        => SuiteInv' /\ [Contract!ContractNext]_(Contract!contractVars)
  BY SuiteInvSteps, SuiteRefines
<1> QED
  BY <1>1, <1>2, PTL DEF SuiteSpec, ImplementsContract, Contract!ContractSpec
=============================================================================
