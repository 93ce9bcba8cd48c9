---------------------------- MODULE StoreContract ----------------------------
(***************************************************************************)
(* The SessionStore contract as concurrent callers see it (session.go):    *)
(* every call takes effect at one instant between its invocation and its   *)
(* return, and the effect is that of the methods in MemStore.              *)
(***************************************************************************)
EXTENDS MemStore

CONSTANTS
    Callers,        \* goroutines that use the store
    Saved,          \* sessions they save; NoSession is a nil argument
    MaxTime         \* bound on the clock

VARIABLES
    call,           \* [Callers -> the call in progress]
    status,         \* [Callers -> idle, called, taken]
    ret             \* [Callers -> what the call returns]

contractVars == <<now, sessions, call, status, ret>>

NoCall == [op |-> "none", id |-> NoSession, s |-> NoSession]
Nothing == [err |-> "none", s |-> NoSession]

SaveCall(s) ==
    [op |-> "Save", id |-> IF s = NoSession THEN NoSession ELSE s.id, s |-> s]

Calls ==
    {SaveCall(s) : s \in Saved}
        \cup [op : {"Load", "ConsumeOnce"}, id : SessionIDs, s : {NoSession}]

\* What call c does when its clock reads t.
Effect(c, t) ==
    CASE c.op = "Save" /\ c.s = NoSession ->
            [err |-> "ErrSessionInvalid", s |-> NoSession, after |-> sessions]
      [] c.op = "Save" /\ c.s # NoSession ->
            [err |-> "nil", s |-> NoSession, after |-> Save(c.s)]
      [] c.op = "Load" -> Load(c.id, t)
      [] c.op = "ConsumeOnce" -> ConsumeOnce(c.id, t)

ContractInit ==
    /\ StoreInit
    /\ call = [g \in Callers |-> NoCall]
    /\ status = [g \in Callers |-> "idle"]
    /\ ret = [g \in Callers |-> Nothing]

Invoke(g, c) ==
    /\ status[g] = "idle"
    /\ status' = [status EXCEPT ![g] = "called"]
    /\ call' = [call EXCEPT ![g] = c]
    /\ UNCHANGED <<now, sessions, ret>>

Take(g) ==
    /\ status[g] = "called"
    /\ status' = [status EXCEPT ![g] = "taken"]
    /\ \E t \in Readings :
        LET got == Effect(call[g], t)
        IN /\ sessions' = got.after
           /\ ret' = [ret EXCEPT ![g] = [err |-> got.err, s |-> got.s]]
    /\ UNCHANGED <<now, call>>

Return(g) ==
    /\ status[g] = "taken"
    /\ status' = [status EXCEPT ![g] = "idle"]
    /\ call' = [call EXCEPT ![g] = NoCall]
    /\ ret' = [ret EXCEPT ![g] = Nothing]
    /\ UNCHANGED <<now, sessions>>

Tick ==
    /\ now < MaxTime
    /\ now' = now + 1
    /\ UNCHANGED <<sessions, call, status, ret>>

ContractNext ==
    \/ \E g \in Callers :
        \/ \E c \in Calls : Invoke(g, c)
        \/ Take(g) \/ Return(g)
    \/ Tick

ContractSpec == ContractInit /\ [][ContractNext]_contractVars
=============================================================================
