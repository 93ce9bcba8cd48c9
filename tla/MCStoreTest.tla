----------------------------- MODULE MCStoreTest -----------------------------
(* The store under TLC: the contract suite, and goroutines at will.        *)
EXTENDS StoreTest

CONSTANT Busy       \* the session that goroutines use where no subtest runs

\* Traffic is about a session that expires while it runs.
MCTraffic ==
    {c \in Contract!Calls : c.id = Busy /\ c.s \in {NoSession, newSession(Busy, 1)}}
=============================================================================
