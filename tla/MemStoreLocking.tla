--------------------------- MODULE MemStoreLocking ---------------------------
(***************************************************************************)
(* memstore.go, statement by statement: goroutines inside Save, Load and   *)
(* ConsumeOnce, with the mutex and the local copy of the snapshot.  Time   *)
(* passes between the statements.  Here sessions is the Go map itself; it  *)
(* is shown to implement StoreContract, which is what lets VerifierService *)
(* take a method of the store as one step.                                 *)
(***************************************************************************)
EXTENDS MemStore

CONSTANTS
    Callers, Saved, MaxTime,    \* as in StoreContract
    Unlocked                    \* the mutex is free

ASSUME SavedAssumption == Saved \subseteq Session \cup {NoSession}
ASSUME UnlockedAssumption == Unlocked \notin Callers
ASSUME MaxTimeAssumption == MaxTime \in Nat

VARIABLES
    owner,          \* who holds m.mu
    pc,             \* [Callers -> idle, enter, lock, read, clock, write, unlock, leave]
    call,           \* [Callers -> the call and its arguments]
    local,          \* [Callers -> the snapshot the method works on]
    ret             \* [Callers -> what it is going to return]

vars == <<now, sessions, owner, pc, call, local, ret>>

\* The call of g has been decided: nothing can change its effect any more.
Decided(g) == pc[g] \in {"write", "unlock", "leave"}

\* The map as it is once the holder of the mutex has done its write.
Effective ==
    IF owner # Unlocked /\ pc[owner] = "write"
    THEN [sessions EXCEPT ![call[owner].id] = local[owner]] ELSE sessions

Contract == INSTANCE StoreContract
    WITH sessions <- Effective,
         status   <- [g \in Callers |-> IF pc[g] = "idle" THEN "idle"
                                        ELSE IF Decided(g) THEN "taken" ELSE "called"]

Init ==
    /\ StoreInit
    /\ owner = Unlocked
    /\ pc = [g \in Callers |-> "idle"]
    /\ call = [g \in Callers |-> Contract!NoCall]
    /\ local = [g \in Callers |-> NoSession]
    /\ ret = [g \in Callers |-> Contract!Nothing]

Goes(g, to) == pc' = [pc EXCEPT ![g] = to]
Returns(g, err, s) == ret' = [ret EXCEPT ![g] = [err |-> err, s |-> s]]

-----------------------------------------------------------------------------
\* A method is called with the arguments of c.
Invoke(g, c) ==
    /\ pc[g] = "idle"
    /\ call' = [call EXCEPT ![g] = c]
    /\ Goes(g, "enter")
    /\ UNCHANGED <<now, sessions, owner, local, ret>>

\* Save refuses nil and an empty id, and marshals, before it takes the mutex.
Enter(g) ==
    /\ pc[g] = "enter"
    /\ IF call[g].op = "Save" /\ call[g].s = NoSession
       THEN Goes(g, "leave") /\ Returns(g, "ErrSessionInvalid", NoSession)
       ELSE Goes(g, "lock") /\ UNCHANGED ret
    /\ UNCHANGED <<now, sessions, owner, call, local>>

\* Variant: the mutex excludes nobody.
LockShared(g) ==
    /\ pc[g] = "lock"
    /\ owner' = g
    /\ Goes(g, IF call[g].op = "Save" THEN "write" ELSE "read")
    /\ local' = [local EXCEPT ![g] = call[g].s]
    /\ ret' = [ret EXCEPT ![g] = IF call[g].op = "Save"
                                 THEN [err |-> "nil", s |-> NoSession] ELSE @]
    /\ UNCHANGED <<now, sessions, call>>

\* m.mu.Lock()
Lock(g) ==
    /\ pc[g] = "lock" /\ owner = Unlocked
    /\ owner' = g
    /\ IF call[g].op = "Save"
       THEN /\ Goes(g, "write")
            /\ local' = [local EXCEPT ![g] = call[g].s]
            /\ Returns(g, "nil", NoSession)
       ELSE Goes(g, "read") /\ UNCHANGED <<local, ret>>
    /\ UNCHANGED <<now, sessions, call>>

\* Variant: wait for an unknown session to be saved, with the mutex held.
ReadWaits(g) ==
    /\ pc[g] = "read"
    /\ LET s == sessions[call[g].id]
       IN IF s = NoSession THEN UNCHANGED <<pc, local>>
          ELSE Goes(g, "clock") /\ local' = [local EXCEPT ![g] = s]
    /\ UNCHANGED <<now, sessions, owner, call, ret>>

\* load: the map read and json.Unmarshal
Read(g) ==
    /\ pc[g] = "read"
    /\ LET s == sessions[call[g].id]
       IN IF s = NoSession
          THEN /\ Goes(g, "unlock") /\ Returns(g, "ErrSessionNotFound", NoSession)
               /\ UNCHANGED local
          ELSE /\ Goes(g, "clock") /\ local' = [local EXCEPT ![g] = s]
               /\ UNCHANGED ret
    /\ UNCHANGED <<now, sessions, owner, call>>

\* Variant: the consumed marker is set on the copy only.
ClockForgetsWrite(g) ==
    /\ pc[g] = "clock"
    /\ Goes(g, "unlock") /\ Returns(g, "nil", [local[g] EXCEPT !.consumed = TRUE])
    /\ UNCHANGED <<now, sessions, owner, call, local>>

\* load: the expiry test; then ConsumeOnce: the consumed test and the marker.
\* The write that follows stores the marked session, or deletes an expired
\* one.
Clock(g) ==
    /\ pc[g] = "clock"
    /\ \E t \in Readings :
        LET s == local[g]
            marked == [s EXCEPT !.consumed = TRUE]
        IN IF ~(t < s.expiresAt)
           THEN /\ Goes(g, "write") /\ local' = [local EXCEPT ![g] = NoSession]
                /\ Returns(g, "ErrSessionNotFound", NoSession)
           ELSE IF call[g].op = "Load"
           THEN Goes(g, "unlock") /\ Returns(g, "nil", s) /\ UNCHANGED local
           ELSE IF s.consumed
           THEN /\ Goes(g, "unlock") /\ Returns(g, "ErrSessionConsumed", NoSession)
                /\ UNCHANGED local
           ELSE /\ Goes(g, "write") /\ local' = [local EXCEPT ![g] = marked]
                /\ Returns(g, "nil", marked)
    /\ UNCHANGED <<now, sessions, owner, call>>

\* m.sessions[id] = raw, or delete(m.sessions, id)
Write(g) ==
    /\ pc[g] = "write"
    /\ sessions' = [sessions EXCEPT ![call[g].id] = local[g]]
    /\ Goes(g, "unlock")
    /\ UNCHANGED <<now, owner, call, local, ret>>

\* The deferred m.mu.Unlock()
Unlock(g) ==
    /\ pc[g] = "unlock"
    /\ owner' = Unlocked
    /\ Goes(g, "leave")
    /\ UNCHANGED <<now, sessions, call, local, ret>>

\* The method returns to its caller.
Leave(g) ==
    /\ pc[g] = "leave"
    /\ Goes(g, "idle")
    /\ call' = [call EXCEPT ![g] = Contract!NoCall]
    /\ local' = [local EXCEPT ![g] = NoSession]
    /\ Returns(g, "none", NoSession)
    /\ UNCHANGED <<now, sessions, owner>>

Tick ==
    /\ now < MaxTime
    /\ now' = now + 1
    /\ UNCHANGED <<sessions, owner, pc, call, local, ret>>

\* A statement of a method.
Runs(g) ==
    Enter(g) \/ Lock(g) \/ Read(g) \/ Clock(g) \/ Write(g) \/ Unlock(g) \/ Leave(g)

Next ==
    \/ \E g \in Callers :
        \/ \E c \in Contract!Calls : Invoke(g, c)
        \/ Runs(g)
    \/ Tick

Spec == Init /\ [][Next]_vars

-----------------------------------------------------------------------------
\* Types of the variables; the mutex is held exactly by the goroutine between
\* Lock and Unlock.
TypeOK ==
    /\ StoreTypeOK
    /\ owner \in Callers \cup {Unlocked}
    /\ pc \in [Callers -> {"idle", "enter", "lock", "read", "clock", "write",
                           "unlock", "leave"}]
    /\ call \in [Callers -> Contract!Calls \cup {Contract!NoCall}]
    /\ local \in [Callers -> Session \cup {NoSession}]
    /\ \A g \in Callers : pc[g] \in {"read", "clock", "write", "unlock"} <=> owner = g

\* "Contract (verified by storetest.Run)": Save, Load and ConsumeOnce of the
\* reference store take effect atomically, whatever runs between their
\* statements and however long they hold the mutex.
ImplementsContract == Contract!ContractSpec

\* Every call of a store method returns: no path leaves the mutex locked.
CallsReturn == \A g \in Callers : pc[g] = "enter" ~> pc[g] = "idle"
=============================================================================
