------------------------------ MODULE StoreTest ------------------------------
(***************************************************************************)
(* storetest.go: the contract suite every SessionStore must pass, run      *)
(* against the reference store of memstore.go.  A subtest is a script of   *)
(* calls with the result each one must have; the last one starts           *)
(* goroutines that race in ConsumeOnce.  Where no subtest runs, the        *)
(* goroutines use the store at will.                                       *)
(***************************************************************************)
EXTENDS MemStoreLocking, Sequences, FiniteSets

CONSTANTS
    Test,           \* the goroutine that runs the subtest
    Traffic         \* calls that goroutines make where no subtest runs

ASSUME TestAssumption == Test \in Callers /\ Traffic \subseteq Contract!Calls

\* An hour is longer than the suite takes.
ASSUME SuiteIsShort == MaxTime + Skew < TTL

\* The race is one of some finite number of goroutines.
ASSUME RaceAssumption == IsFiniteSet(Callers) /\ Callers # {Test}

VARIABLES
    script,         \* what is left of the subtest
    saved,          \* the session last passed to Save
    held,           \* the session the last call returned
    waiting,        \* goroutines of the race that have not called yet
    wins,           \* how many consumed the session
    conflicts,      \* how many were refused
    failed          \* t.Error or t.Fatal was called

testVars == <<script, saved, held, waiting, wins, conflicts, failed>>
suiteVars == <<vars, testVars>>

Goroutines == Callers \ {Test}

\* newSession; a negative ttl puts the expiry at or before the present.
newSession(id, expiresAt) ==
    [ id |-> id, flow |-> "cross-device", origins |-> {}, registration |-> "complete",
      expiresAt |-> expiresAt, served |-> FALSE, metadata |-> FALSE,
      consumed |-> FALSE, code |-> NoCode, codeUsed |-> FALSE ]

\* What the suite saves: nil, a new session, and its consumed copy with or
\* without a code.
consumedCopy(s, code) == [s EXCEPT !.consumed = TRUE, !.code = code]

SuiteSaves ==
    {NoSession}
        \cup {newSession(id, t) : id \in SessionIDs, t \in 0..(MaxTime + TTL)}
        \cup {consumedCopy(newSession(id, t), c) :
                id \in SessionIDs, t \in 0..(MaxTime + TTL), c \in Codes}

ASSUME SuiteSavesAssumption == SuiteSaves \subseteq Saved

Step(op, id, arg, want) == [op |-> op, id |-> id, arg |-> arg, want |-> want]

SaveFresh(id) == Step("Save", id, "fresh", "nil")
SaveExpired(id) == Step("Save", id, "expired", "nil")

SaveLoadRoundtrip(id) == <<SaveFresh(id), Step("Load", id, "", "saved")>>

LoadReturnsACopy(id) ==
    << SaveFresh(id), Step("Load", id, "", "nil"), Step("tamper", id, "", ""),
       Step("Load", id, "", "saved") >>

LoadUnknownIsNotFound(id) == <<Step("Load", id, "", "ErrSessionNotFound")>>

SaveRequiresID(id) ==
    << Step("Save", id, "empty", "ErrSessionInvalid"),
       Step("Save", id, "nil", "ErrSessionInvalid") >>

ExpiredSessionIsNotFound(id, id2) ==
    << SaveExpired(id), Step("Load", id, "", "ErrSessionNotFound"),
       SaveExpired(id2), Step("ConsumeOnce", id2, "", "ErrSessionNotFound") >>

ConsumeOnceConsumes(id) ==
    << SaveFresh(id), Step("ConsumeOnce", id, "", "consumed"),
       Step("ConsumeOnce", id, "", "ErrSessionConsumed"),
       Step("Load", id, "", "consumed") >>

ConsumeOnceUnknownIsNotFound(id) ==
    <<Step("ConsumeOnce", id, "", "ErrSessionNotFound")>>

ConsumedMarkerSurvivesSave(id) ==
    << SaveFresh(id), Step("ConsumeOnce", id, "", "nil"), Step("mint", id, "", ""),
       Step("Save", id, "held", "nil"),
       Step("ConsumeOnce", id, "", "ErrSessionConsumed"),
       Step("Load", id, "", "code") >>

ConcurrentConsumeExactlyOnce(id) == <<SaveFresh(id), Step("race", id, "", "")>>

\* Run: every subtest, each with a store of its own.
Run ==
    UNION {
      { SaveLoadRoundtrip(p[1]), LoadReturnsACopy(p[1]), LoadUnknownIsNotFound(p[1]),
        SaveRequiresID(p[1]), ExpiredSessionIsNotFound(p[1], p[2]),
        ConsumeOnceConsumes(p[1]), ConsumeOnceUnknownIsNotFound(p[1]),
        ConsumedMarkerSurvivesSave(p[1]), ConcurrentConsumeExactlyOnce(p[1]) } :
      p \in {q \in SessionIDs \X SessionIDs : q[1] # q[2]} }

NoTest == <<Step("none", NoSession, "", "")>>

SuiteInit ==
    /\ Init
    /\ script \in Run \cup {NoTest}
    /\ saved = NoSession /\ held = NoSession
    /\ waiting = Goroutines /\ wins = 0 /\ conflicts = 0
    /\ failed = FALSE

-----------------------------------------------------------------------------
Doing(op) == ~failed /\ script # <<>> /\ script[1].op = op

\* The session a Save step passes; one without an id is refused like nil.
Argument(step) ==
    CASE step.arg = "fresh" -> newSession(step.id, now + TTL)
      [] step.arg = "expired" -> newSession(step.id, 0)
      [] step.arg = "held" -> held
      [] OTHER -> NoSession

\* The test calls the store.
Calls ==
    /\ \E op \in {"Save", "Load", "ConsumeOnce"} : Doing(op)
    /\ LET step == script[1]
           s == Argument(step)
       IN IF step.op = "Save"
          THEN Invoke(Test, Contract!SaveCall(s)) /\ saved' = s
          ELSE /\ Invoke(Test, [op |-> step.op, id |-> step.id, s |-> NoSession])
               /\ UNCHANGED saved
    /\ UNCHANGED <<script, held, waiting, wins, conflicts, failed>>

\* The result r is the one the step wants.
Wanted(want, r) ==
    CASE want = "saved" -> r.err = "nil" /\ r.s = saved
      [] want = "consumed" -> r.err = "nil" /\ r.s.consumed
      [] want = "code" -> r.err = "nil" /\ r.s.code = saved.code
      [] OTHER -> r.err = want

\* The call returns and the test looks at its result.
Looks ==
    /\ Leave(Test)
    /\ held' = ret[Test].s
    /\ failed' = ~Wanted(script[1].want, ret[Test])
    /\ script' = Tail(script)
    /\ UNCHANGED <<saved, waiting, wins, conflicts>>

\* first.Nonce = "TAMPERED", or s.ResponseCode = "minted-after-consume": a
\* field of the copy the test holds is changed.
Mutates ==
    /\ \/ Doing("tamper") /\ held' = [held EXCEPT !.metadata = ~@]
       \/ Doing("mint") /\ \E r \in Requests : held' = [held EXCEPT !.code = r]
    /\ script' = Tail(script)
    /\ UNCHANGED <<vars, saved, waiting, wins, conflicts, failed>>

\* close(start): the goroutines call ConsumeOnce, each of them once.
Races(g) ==
    /\ Doing("race") /\ g \in waiting
    /\ waiting' = waiting \ {g}
    /\ Invoke(g, [op |-> "ConsumeOnce", id |-> script[1].id, s |-> NoSession])
    /\ UNCHANGED <<script, saved, held, wins, conflicts, failed>>

\* Variant: without the test's mutex, so that an increment can get lost.
CountsUnlocked(g) ==
    /\ script # NoTest /\ g \in Goroutines
    /\ Leave(g)
    /\ wins' \in IF ret[g].err = "nil" THEN {wins, wins + 1} ELSE {wins}
    /\ conflicts' \in IF ret[g].err = "nil" THEN {conflicts} ELSE {conflicts, conflicts + 1}
    /\ UNCHANGED <<script, saved, held, waiting, failed>>

\* The result of one is counted under the test's own mutex.
Counts(g) ==
    /\ script # NoTest /\ g \in Goroutines
    /\ Leave(g)
    /\ wins' = IF ret[g].err = "nil" THEN wins + 1 ELSE wins
    /\ conflicts' = IF ret[g].err = "ErrSessionConsumed" THEN conflicts + 1 ELSE conflicts
    /\ failed' = (failed \/ ret[g].err \notin {"nil", "ErrSessionConsumed"})
    /\ UNCHANGED <<script, saved, held, waiting>>

\* wg.Wait(), then the test of the counters.
Joins ==
    /\ Doing("race")
    /\ waiting = {} /\ \A g \in Goroutines : pc[g] = "idle"
    /\ failed' = (wins # 1 \/ conflicts # Cardinality(Goroutines) - 1)
    /\ script' = Tail(script)
    /\ UNCHANGED <<vars, saved, held, waiting, wins, conflicts>>

\* Callers that no test drives.
Uses(g) ==
    /\ script = NoTest /\ g \in Goroutines
    /\ \/ \E c \in Traffic : Invoke(g, c)
       \/ Leave(g)
    /\ UNCHANGED testVars

Inside(g) == Enter(g) \/ Read(g) \/ Clock(g) \/ Write(g) \/ Unlock(g)

SuiteNext ==
    \/ Calls \/ Looks \/ Mutates \/ Joins
    \/ \E g \in Callers :
        \/ Races(g) \/ Counts(g) \/ Uses(g)
        \/ (Lock(g) \/ Inside(g)) /\ UNCHANGED testVars
    \/ Tick /\ UNCHANGED testVars

\* What a goroutine does without waiting for the mutex or for a new task.
Proceeds(g) ==
    \/ Races(g) \/ Counts(g)
    \/ (Inside(g) \/ (script = NoTest /\ Leave(g))) /\ UNCHANGED testVars

\* The scheduler runs every goroutine, and Go's mutex starves no waiter: one
\* that finds it free again and again gets it.
SuiteSpec ==
    /\ SuiteInit /\ [][SuiteNext]_suiteVars
    /\ WF_suiteVars(Calls \/ Looks \/ Mutates \/ Joins)
    /\ \A g \in Callers :
        /\ WF_suiteVars(Proceeds(g))
        /\ SF_suiteVars(Lock(g) /\ UNCHANGED testVars)

-----------------------------------------------------------------------------
\* The reference store passes the suite under every interleaving of the racing
\* goroutines: "wins = 1 and conflicts = goroutines-1" included.
SuitePasses == ~failed

\* The suite comes to its end: no call hangs and every goroutine is counted.
SuiteCompletes == script # NoTest ~> script = <<>>
=============================================================================
