------------------------------ MODULE MemStore ------------------------------
(***************************************************************************)
(* memstore.go: the in-memory SessionStore.  Every method runs under one   *)
(* mutex, so each is a single step.  A method is an operator that returns  *)
(* what the Go method returns together with the map it leaves behind:      *)
(* [err, s, after]; t is its reading of the clock.  Snapshots are values,  *)
(* so a loaded session is an independent copy.                             *)
(***************************************************************************)
EXTENDS SessionRecord

CONSTANT Skew       \* how far a clock may be from the time, in ticks

ASSUME SkewAssumption == Skew \in Nat

VARIABLES
    now,            \* the time
    sessions        \* [SessionIDs -> Session or NoSession]

storeVars == <<now, sessions>>

\* What clock() may return now, in the store or in any engine instance.
Readings == {t \in 0..(now + Skew) : now <= t + Skew}

\* NewMemStore
StoreInit ==
    /\ now = 0
    /\ sessions = [id \in SessionIDs |-> NoSession]

StoreTypeOK ==
    /\ now \in Nat
    /\ sessions \in [SessionIDs -> Session \cup {NoSession}]

\* MemStore.Save: the snapshot replaces whatever is stored.
Save(s) == [sessions EXCEPT ![s.id] = s]

Live(id, t) == sessions[id] # NoSession /\ t < sessions[id].expiresAt

\* Variant of load without the expiry test.
LoadIgnoresExpiry(id, t) ==
    IF sessions[id] = NoSession
    THEN [err |-> "ErrSessionNotFound", s |-> NoSession, after |-> sessions]
    ELSE [err |-> "nil", s |-> sessions[id], after |-> sessions]

\* MemStore.Load and load: an expired snapshot is evicted and not found.
Load(id, t) ==
    IF Live(id, t)
    THEN [err |-> "nil", s |-> sessions[id], after |-> sessions]
    ELSE [err   |-> "ErrSessionNotFound",
          s     |-> NoSession,
          after |-> [sessions EXCEPT ![id] = NoSession]]

\* Variant that hands out the session without recording it in the map.
ConsumeOnceForgets(id, t) ==
    IF ~Live(id, t) THEN Load(id, t)
    ELSE [err   |-> "nil",
          s     |-> [sessions[id] EXCEPT !.consumed = TRUE],
          after |-> sessions]

\* Variant that marks the map but returns the session as it was loaded.
ConsumeOnceReturnsUnmarked(id, t) ==
    IF ~Live(id, t) THEN Load(id, t)
    ELSE IF sessions[id].consumed
         THEN [err |-> "ErrSessionConsumed", s |-> NoSession, after |-> sessions]
         ELSE [err   |-> "nil",
               s     |-> sessions[id],
               after |-> [sessions EXCEPT ![id].consumed = TRUE]]

\* MemStore.ConsumeOnce
ConsumeOnce(id, t) ==
    IF ~Live(id, t) THEN Load(id, t)
    ELSE IF sessions[id].consumed
         THEN [err |-> "ErrSessionConsumed", s |-> NoSession, after |-> sessions]
         ELSE LET s == [sessions[id] EXCEPT !.consumed = TRUE]
              IN [err |-> "nil", s |-> s, after |-> [sessions EXCEPT ![id] = s]]
=============================================================================
