------------------------------ MODULE ReleaseLog ------------------------------
(***************************************************************************)
(* What the release tables promise to whoever reads the pointer: for each  *)
(* environment a log of what was live, one entry per generation.  Staging  *)
(* takes new artifacts; production only takes what is live on staging and  *)
(* vouched for by the latest report on it; either may go back to an        *)
(* earlier entry of its own log, or offline.                               *)
(***************************************************************************)
EXTENDS Integers, Sequences

CONSTANTS Artifacts, Offline

VARIABLES
    log,
    vouched     \* the latest report on what staging shows says it works

promised == <<log, vouched>>

Environments == {"staging", "production"}
Entries == Artifacts \union {Offline}

Current(e) == IF log[e] = <<>> THEN Offline ELSE log[e][Len(log[e])]

\* What comes to staging, anew or once more, has no report yet.
Extend(e, entry) ==
    /\ log' = [log EXCEPT ![e] = Append(@, entry)]
    /\ vouched' = (vouched /\ e # "staging")

Init ==
    /\ log = [e \in Environments |-> <<>>]
    /\ vouched = FALSE

Report(passed) ==
    /\ Current("staging") # Offline
    /\ vouched' = passed
    /\ UNCHANGED log

Publish(artifact) == Extend("staging", artifact)

Promote ==
    /\ Current("staging") # Offline
    /\ vouched
    /\ Extend("production", Current("staging"))

Rollback(e, generation) ==
    /\ Current(e) # Offline
    /\ generation < Len(log[e])
    /\ log[e][generation] # Offline
    /\ Extend(e, log[e][generation])

TakeOffline(e) ==
    /\ Current(e) # Offline
    /\ Extend(e, Offline)

Next ==
    \/ \E artifact \in Artifacts : Publish(artifact)
    \/ \E passed \in BOOLEAN : Report(passed)
    \/ Promote
    \/ \E e \in Environments :
          \/ \E generation \in 1..Len(log[e]) : Rollback(e, generation)
          \/ TakeOffline(e)

Spec == Init /\ [][Next]_promised

=============================================================================
