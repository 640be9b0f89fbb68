--------------------------- MODULE AuthEmailOutbox ---------------------------
(***************************************************************************)
(* The outbox of authentication e-mails and the workers that send them:    *)
(* apps/api/src/auth/auth-email-outbox.ts over the four outbox tables of   *)
(* packages/database/src/drizzle/identity-outbox.ts, which are modelled as *)
(* one: a mail is a row, and the tables differ only in their columns.      *)
(*                                                                         *)
(* A worker leases a batch in one transaction and settles it row by row.   *)
(* Between two of these steps other workers claim, the person asks for a   *)
(* new link or uses one, the lease runs out, the process stops or dies.    *)
(*                                                                         *)
(* Clocks are left out: the delay before a retry ends at any moment, and a *)
(* lease may run out at any moment.  That it does so under a worker still  *)
(* at its batch is a loss, like a crash: 2 minutes are meant to cover 5    *)
(* sends of at most 10 seconds.                                            *)
(***************************************************************************)
EXTENDS Integers, FiniteSets

CONSTANTS
    Mails,          \* ids of outbox rows
    Workers,        \* API processes
    BatchSize,      \* rows of one claim: 5 in the code
    MaxAttempts,    \* after which a failure is final: 8 in the code
    ClaimLimit,     \* attempts at which a row is claimed no more: 20
    MaxLosses       \* bound: stops, crashes and leases that ran out too early

ASSUME OutboxConstants ==
    /\ BatchSize \in Nat \ {0}
    /\ MaxAttempts \in Nat \ {0}
    /\ ClaimLimit \in Nat
    /\ MaxLosses \in Nat

VARIABLES
    rows,           \* by mail: its row, or NoRow before it is requested
    accepted,       \* mails the provider has accepted
    batches,        \* by worker: the claims it has yet to begin
    current,        \* by worker: the claim it is settling, or NoClaim
    answers,        \* by worker: how the send of that mail ended
    stopping,       \* workers told to stop that have not yet stopped
    losses          \* stops, crashes and leases that ran out so far

workerVars == <<batches, current, answers, stopping, losses>>
vars == <<rows, accepted, workerVars>>

NoRow == [state |-> "none"]

(***************************************************************************)
(* A row is due when available_at has passed; it is not while it is leased *)
(* or waits for its retry.                                                 *)
(***************************************************************************)
Row == [state : {"open", "processed", "terminal"},
        error : {"none", "superseded", "refused", "exhausted"},
        due : BOOLEAN,
        attempts : 0..ClaimLimit,
        leaseVersion : Nat]

Claim == [mail : Mails, leaseVersion : Nat, attempt : 1..ClaimLimit]
NoClaim == [mail |-> "none"]
Answers == {"none", "ok", "retryable", "permanent"}

OutboxTypeOK ==
    /\ rows \in [Mails -> Row \union {NoRow}]
    /\ accepted \subseteq Mails
    /\ batches \in [Workers -> SUBSET Claim]
    /\ current \in [Workers -> Claim \union {NoClaim}]
    /\ answers \in [Workers -> Answers]
    /\ stopping \subseteq Workers
    /\ losses \in 0..MaxLosses

Init ==
    /\ rows = [m \in Mails |-> NoRow]
    /\ accepted = {}
    /\ batches = [w \in Workers |-> {}]
    /\ current = [w \in Workers |-> NoClaim]
    /\ answers = [w \in Workers |-> "none"]
    /\ stopping = {}
    /\ losses = 0

Open(m) == rows[m].state = "open"

-----------------------------------------------------------------------------
(***************************************************************************)
(* Requests of the person the mails are for.                               *)
(***************************************************************************)
RequestMail(m) ==
    /\ rows[m] = NoRow
    /\ rows' = [rows EXCEPT ![m] = [state |-> "open", error |-> "none", due |-> TRUE,
                                    attempts |-> 0, leaseVersion |-> 0]]
    /\ UNCHANGED <<accepted, workerVars>>

(***************************************************************************)
(* A newer link was asked for, or the challenge was used: the row becomes  *)
(* terminal whoever holds its lease, and keeps its lease version.          *)
(***************************************************************************)
SupersedeMail(m) ==
    /\ Open(m)
    /\ rows' = [rows EXCEPT ![m].state = "terminal", ![m].error = "superseded"]
    /\ UNCHANGED <<accepted, workerVars>>

Claims(w) == batches[w] \union ({current[w]} \ {NoClaim})

HeldBy(w, m) ==
    \E c \in Claims(w) : c.mail = m /\ c.leaseVersion = rows[m].leaseVersion

BecomesDue(m) ==
    /\ Open(m)
    /\ ~rows[m].due
    /\ rows' = [rows EXCEPT ![m].due = TRUE]
    /\ UNCHANGED <<accepted, batches, current, answers, stopping>>

AvailableAtPasses(m) ==
    /\ \A w \in Workers : ~HeldBy(w, m)
    /\ BecomesDue(m)
    /\ UNCHANGED losses

\* The worker that holds the lease is slower than the lease is long.
LeaseRunsOut(m) ==
    /\ \E w \in Workers : HeldBy(w, m)
    /\ losses < MaxLosses
    /\ BecomesDue(m)
    /\ losses' = losses + 1

-----------------------------------------------------------------------------
(***************************************************************************)
(* A worker.                                                               *)
(***************************************************************************)
\* Mutant of IsDue: rows are claimed as often as they may fail.
IsDueWhileMayFail(m) == Open(m) /\ rows[m].due /\ rows[m].attempts < MaxAttempts

IsDue(m) == Open(m) /\ rows[m].due /\ rows[m].attempts < ClaimLimit

\* Mutant of Leased: a claim keeps the lease version.
LeasedUnderOldVersion(row) == [row EXCEPT !.due = FALSE, !.attempts = @ + 1]

Leased(row) == [row EXCEPT !.due = FALSE, !.attempts = @ + 1, !.leaseVersion = @ + 1]

ClaimOf(m) == [mail |-> m, leaseVersion |-> rows[m].leaseVersion + 1,
               attempt |-> rows[m].attempts + 1]

Working(w) == Claims(w) # {}

(***************************************************************************)
(* Rows another transaction has locked are skipped, so any due rows may be *)
(* taken, up to the batch size.                                            *)
(***************************************************************************)
ClaimDue(w) ==
    \E taken \in SUBSET {m \in Mails : IsDue(m)} :
        /\ ~Working(w)
        /\ Cardinality(taken) \in 1..BatchSize
        /\ rows' = [m \in Mails |-> IF m \in taken THEN Leased(rows[m]) ELSE rows[m]]
        /\ batches' = [batches EXCEPT ![w] = {ClaimOf(m) : m \in taken}]
        /\ UNCHANGED <<accepted, current, answers, stopping, losses>>

Begin(w, c, answer) ==
    /\ current[w] = NoClaim
    /\ w \notin stopping
    /\ c \in batches[w]
    /\ batches' = [batches EXCEPT ![w] = @ \ {c}]
    /\ current' = [current EXCEPT ![w] = c]
    /\ answers' = [answers EXCEPT ![w] = answer]
    /\ UNCHANGED <<rows, stopping, losses>>

\* The claim is malformed, or the key its token was made with is gone.
RejectClaim(w) ==
    \E c \in batches[w] : Begin(w, c, "permanent") /\ UNCHANGED accepted

(***************************************************************************)
(* The provider takes the mail or does not, and its answer may be lost: an *)
(* aborted, timed-out or broken request counts as a failure to retry.      *)
(***************************************************************************)
Send(w) ==
    \E c \in batches[w], answer \in {"ok", "retryable", "permanent"} :
        /\ Begin(w, c, answer)
        /\ \/ answer # "permanent" /\ accepted' = accepted \union {c.mail}
           \/ answer # "ok" /\ UNCHANGED accepted

SettleCurrent(w) ==
    /\ current' = [current EXCEPT ![w] = NoClaim]
    /\ answers' = [answers EXCEPT ![w] = "none"]

\* Mutant of HoldsLease: a superseded row is taken for an open one.
HoldsVersion(c) == rows[c.mail].leaseVersion = c.leaseVersion

HoldsLease(c) == Open(c.mail) /\ rows[c.mail].leaseVersion = c.leaseVersion

Acknowledge(w) ==
    LET c == current[w]
    IN  /\ answers[w] = "ok"
        /\ rows' = IF HoldsLease(c) /\ ~rows[c.mail].due
                   THEN [rows EXCEPT ![c.mail].state = "processed"]
                   ELSE rows
        /\ SettleCurrent(w)
        /\ UNCHANGED <<accepted, batches, stopping, losses>>

\* Mutant of IsFinal: one attempt fewer than the limit is the last.
IsFinalTooEarly(c, answer) == answer = "permanent" \/ c.attempt + 1 >= MaxAttempts

IsFinal(c, answer) == answer = "permanent" \/ c.attempt >= MaxAttempts

Failed(row, c, answer) ==
    IF IsFinal(c, answer)
    THEN [row EXCEPT !.state = "terminal", !.leaseVersion = @ + 1,
                     !.error = IF answer = "permanent" THEN "refused" ELSE "exhausted"]
    ELSE [row EXCEPT !.due = FALSE, !.leaseVersion = @ + 1]

RecordFailure(w) ==
    LET c == current[w]
    IN  /\ answers[w] \in {"retryable", "permanent"}
        /\ rows' = IF HoldsLease(c)
                   THEN [rows EXCEPT ![c.mail] = Failed(@, c, answers[w])]
                   ELSE rows
        /\ SettleCurrent(w)
        /\ UNCHANGED <<accepted, batches, stopping, losses>>

(***************************************************************************)
(* stop() aborts the request under way, which counts as a failure to       *)
(* retry; its row is settled and the rest of the batch stays leased.       *)
(***************************************************************************)
Stop(w) ==
    /\ Working(w)
    /\ w \notin stopping
    /\ losses < MaxLosses
    /\ stopping' = stopping \union {w}
    /\ losses' = losses + 1
    /\ UNCHANGED <<rows, accepted, batches, current, answers>>

LeaveBatch(w) ==
    /\ w \in stopping
    /\ current[w] = NoClaim
    /\ batches' = [batches EXCEPT ![w] = {}]
    /\ stopping' = stopping \ {w}
    /\ UNCHANGED <<rows, accepted, current, answers, losses>>

\* The process dies, or settling a row throws: the cycle is abandoned.
LoseBatch(w) ==
    /\ Working(w)
    /\ losses < MaxLosses
    /\ losses' = losses + 1
    /\ batches' = [batches EXCEPT ![w] = {}]
    /\ SettleCurrent(w)
    /\ stopping' = stopping \ {w}
    /\ UNCHANGED <<rows, accepted>>

-----------------------------------------------------------------------------
WorkerStep(w) ==
    \/ ClaimDue(w) \/ RejectClaim(w) \/ Send(w)
    \/ Acknowledge(w) \/ RecordFailure(w) \/ LeaveBatch(w)

Next ==
    \/ \E m \in Mails :
            RequestMail(m) \/ SupersedeMail(m) \/ AvailableAtPasses(m) \/ LeaseRunsOut(m)
    \/ \E w \in Workers : WorkerStep(w) \/ Stop(w) \/ LoseBatch(w)

Spec == Init /\ [][Next]_vars

(***************************************************************************)
(* A worker polls again whatever its last cycle did, and clocks advance.   *)
(***************************************************************************)
FairSpec ==
    /\ Spec
    /\ \A w \in Workers : WF_vars(WorkerStep(w))
    /\ \A m \in Mails : WF_vars(AvailableAtPasses(m))

-----------------------------------------------------------------------------
(***************************************************************************)
(* A mail is dropped (RecordFailure, SupersedeMail) only because its       *)
(* person no longer needs it, because it was refused for good, or after    *)
(* the last attempt.                                                       *)
(***************************************************************************)
DroppedForAReason ==
    \A m \in Mails : rows[m].state = "terminal" =>
        /\ rows[m].error # "none"
        /\ rows[m].error = "exhausted" => rows[m].attempts >= MaxAttempts

(***************************************************************************)
(* Two workers never both hold a lease of one mail: whatever expired,      *)
(* stopped or was superseded, at most one claim can still settle it.       *)
(***************************************************************************)
OneSettler ==
    \A u, w \in Workers : \A c \in Claims(u), d \in Claims(w) :
        c.mail = d.mail /\ c.leaseVersion = d.leaseVersion
        => u = w /\ c = d /\ ~(c = current[u] /\ c \in batches[u])

(***************************************************************************)
(* The outbox keeps the promise: settled once and for good, and recorded   *)
(* as sent only when the provider accepted it.                             *)
(***************************************************************************)
Outcome(m) ==
    CASE rows[m].state = "processed" -> "sent"
      [] rows[m].state = "terminal" -> "dropped"
      [] OTHER -> rows[m].state

Promise == INSTANCE MailPromise WITH outcome <- [m \in Mails |-> Outcome(m)],
                                     taken <- accepted
KeepsPromise == Promise!PromiseSpec

(***************************************************************************)
(* Every mail is settled in the end, however the provider answers, as long *)
(* as no more stops, crashes and early ends of a lease happen than claims  *)
(* are left after the last attempt: 12 in the code.                        *)
(***************************************************************************)
EveryMailSettles ==
    [](losses <= ClaimLimit - MaxAttempts) =>
        \A m \in Mails : Open(m) ~> rows[m].state \in {"processed", "terminal"}
=============================================================================
