--------------------------- MODULE SerialReleases ---------------------------
(***************************************************************************)
(* What the locks of the release transactions are for: what an operation   *)
(* looked up before it commits still holds when it commits.  Here every    *)
(* operation looks up and takes effect in one step, at its end; meanwhile  *)
(* others come and go.                                                     *)
(***************************************************************************)
EXTENDS FiniteSets, Naturals

CONSTANTS Transactions, Calls, NoCall, Limits

VARIABLES
    active,       \* the deployments that are live
    limit,        \* how many documents the plan allows to be live
    running,      \* the call of each transaction, or NoCall
    overtaken     \* those whose deployment moved since they were called

serialVars == <<active, limit, running, overtaken>>

Place(c) == <<c.document, c.environment>>
LiveDocuments == {place[1] : place \in active}
Allowed(d) == d \in LiveDocuments \/ Cardinality(LiveDocuments) + 1 <= limit

Init ==
    /\ active = {}
    /\ limit \in Limits
    /\ running = [t \in Transactions |-> NoCall]
    /\ overtaken = {}

Begin(t, c) ==
    /\ running[t] = NoCall
    /\ running' = [running EXCEPT ![t] = c]
    /\ UNCHANGED <<active, limit, overtaken>>

Ends(t, kinds) ==
    /\ running[t] # NoCall
    /\ running[t].kind \in kinds
    /\ running' = [running EXCEPT ![t] = NoCall]

\* Whoever is about the same deployment is overtaken.
Moves(t, deployments) ==
    /\ active' = deployments
    /\ overtaken' = {u \in Transactions \ {t} :
                        \/ u \in overtaken
                        \/ running[u] # NoCall /\ Place(running[u]) = Place(running[t])}
    /\ UNCHANGED limit

\* A publish replaces what its caller saw, a start whatever is there.
Publish(t) ==
    /\ Ends(t, {"publish"})
    /\ t \notin overtaken
    /\ Allowed(running[t].document)
    /\ Moves(t, active \union {Place(running[t])})

Start(t) ==
    /\ Ends(t, {"start"})
    /\ Allowed(running[t].document)
    /\ Moves(t, active \union {Place(running[t])})

Promote(t) ==
    /\ Ends(t, {"promote"})
    /\ <<running[t].document, "staging">> \in active
    /\ Moves(t, active \union {Place(running[t])})

Withdraw(t) ==
    /\ Ends(t, {"unpublish", "end"})
    /\ Place(running[t]) \in active
    /\ Moves(t, active \ {Place(running[t])})

ChangePlan(t) ==
    /\ Ends(t, {"changePlan"})
    /\ limit' \in Limits
    /\ overtaken' = overtaken \ {t}
    /\ UNCHANGED active

\* Nothing changes that is live: a refusal, a rollback, or another operation.
Leave(t) ==
    /\ running[t] # NoCall
    /\ running' = [running EXCEPT ![t] = NoCall]
    /\ overtaken' = overtaken \ {t}
    /\ UNCHANGED <<active, limit>>

Next ==
    \E t \in Transactions :
        \/ \E c \in Calls : Begin(t, c)
        \/ Publish(t) \/ Start(t) \/ Promote(t) \/ Withdraw(t)
        \/ ChangePlan(t) \/ Leave(t)

Spec == Init /\ [][Next]_serialVars
=============================================================================
