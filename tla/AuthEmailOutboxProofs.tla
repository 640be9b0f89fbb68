------------------------ MODULE AuthEmailOutboxProofs ------------------------
(***************************************************************************)
(* Proofs about AuthEmailOutbox, for any number of mails and workers and   *)
(* any batch size and limits: its type, that a mail has one settler and is *)
(* dropped only for a reason, and that the outbox implements MailPromise.  *)
(***************************************************************************)
EXTENDS AuthEmailOutbox, TLAPS

-----------------------------------------------------------------------------
(***************************************************************************)
(* The inductive invariant.  A claim never runs ahead of its row, two      *)
(* claims differ in mail or lease version, and an answer belongs to the    *)
(* current claim, whose mail the provider has when the answer is "ok".     *)
(***************************************************************************)
ClaimsAreOfRows ==
    \A w \in Workers : \A c \in Claims(w) :
        /\ rows[c.mail] \in Row
        /\ c.leaseVersion <= rows[c.mail].leaseVersion
        /\ c.attempt <= rows[c.mail].attempts

ClaimsDiffer ==
    \A u, w \in Workers : \A c \in Claims(u), d \in Claims(w) :
        c.mail = d.mail /\ c.leaseVersion = d.leaseVersion => u = w /\ c = d

CurrentIsOut == \A w \in Workers : current[w] \notin batches[w]

AnswersAreOfClaims ==
    \A w \in Workers : answers[w] # "none" =>
        /\ current[w] \in Claim
        /\ answers[w] = "ok" => current[w].mail \in accepted

TakenHaveRows == \A m \in accepted : rows[m] \in Row

IInv ==
    /\ OutboxTypeOK
    /\ ClaimsAreOfRows
    /\ ClaimsDiffer
    /\ CurrentIsOut
    /\ AnswersAreOfClaims
    /\ TakenHaveRows
    /\ DroppedForAReason

-----------------------------------------------------------------------------
(***************************************************************************)
(* Rows and claims.                                                        *)
(***************************************************************************)
LEMMA NoClaimIsNone == NoClaim \notin Claim
BY DEF NoClaim, Claim

LEMMA RowsAreSome ==
    ASSUME NEW r \in Row
    PROVE  r.state # "none" /\ r # NoRow
BY DEF Row, NoRow

LEMMA OpenHasRow ==
    ASSUME OutboxTypeOK, NEW m \in Mails, Open(m)
    PROVE  rows[m] \in Row /\ rows[m].state = "open"
<1>1. rows[m] \in Row \union {NoRow}
  BY DEF OutboxTypeOK
<1>2. NoRow.state # "open"
  BY DEF NoRow
<1>3. QED
  BY <1>1, <1>2 DEF Open

LEMMA LeasedRow ==
    ASSUME NEW r \in Row, r.attempts < ClaimLimit
    PROVE  /\ Leased(r) \in Row
           /\ Leased(r).state = r.state /\ Leased(r).error = r.error
           /\ Leased(r).leaseVersion = r.leaseVersion + 1
           /\ Leased(r).attempts = r.attempts + 1
<1> DEFINE attempts == r.attempts + 1
           version == r.leaseVersion + 1
<1>1. attempts \in 0..ClaimLimit /\ version \in Nat
  BY OutboxConstants DEF Row
<1>2. Leased(r) = [r EXCEPT !.due = FALSE, !.attempts = attempts, !.leaseVersion = version]
  BY Zenon DEF Leased
<1> HIDE DEF attempts, version
<1>3. /\ Leased(r) \in Row
      /\ Leased(r).state = r.state /\ Leased(r).error = r.error
      /\ Leased(r).leaseVersion = version /\ Leased(r).attempts = attempts
  BY <1>1, <1>2 DEF Row
<1>4. QED
  BY <1>3 DEF attempts, version

LEMMA FailedRow ==
    ASSUME NEW r \in Row, NEW c \in Claim, NEW answer \in {"retryable", "permanent"}
    PROVE  /\ Failed(r, c, answer) \in Row
           /\ Failed(r, c, answer).leaseVersion = r.leaseVersion + 1
           /\ Failed(r, c, answer).attempts = r.attempts
           /\ IF IsFinal(c, answer)
              THEN /\ Failed(r, c, answer).state = "terminal"
                   /\ Failed(r, c, answer).error \in {"refused", "exhausted"}
                   /\ Failed(r, c, answer).error = "exhausted" => c.attempt >= MaxAttempts
              ELSE /\ Failed(r, c, answer).state = r.state
                   /\ Failed(r, c, answer).error = r.error
<1>1. /\ r.state \in {"open", "processed", "terminal"}
      /\ r.error \in {"none", "superseded", "refused", "exhausted"}
      /\ r.due \in BOOLEAN
      /\ r.attempts \in 0..ClaimLimit
      /\ r.leaseVersion \in Nat /\ r.leaseVersion + 1 \in Nat
  BY DEF Row
<1>2. CASE IsFinal(c, answer)
  <2> DEFINE error == IF answer = "permanent" THEN "refused" ELSE "exhausted"
  <2>1. Failed(r, c, answer) = [state |-> "terminal", error |-> error, due |-> r.due,
                                attempts |-> r.attempts, leaseVersion |-> r.leaseVersion + 1]
    BY <1>2 DEF Failed, Row
  <2>2. error \in {"refused", "exhausted"}
    OBVIOUS
  <2>3. error = "exhausted" => c.attempt >= MaxAttempts
    BY <1>2 DEF IsFinal
  <2> HIDE DEF error
  <2>4. QED
    BY <1>1, <1>2, <2>1, <2>2, <2>3 DEF Row
<1>3. CASE ~IsFinal(c, answer)
  <2>1. Failed(r, c, answer) = [state |-> r.state, error |-> r.error, due |-> FALSE,
                                attempts |-> r.attempts, leaseVersion |-> r.leaseVersion + 1]
    BY <1>3 DEF Failed, Row
  <2>2. QED
    BY <1>1, <1>3, <2>1 DEF Row
<1>4. QED
  BY <1>2, <1>3

LEMMA ClaimsAreClaims ==
    ASSUME OutboxTypeOK, NEW w \in Workers
    PROVE  Claims(w) \subseteq Claim
BY DEF OutboxTypeOK, Claims

-----------------------------------------------------------------------------
(***************************************************************************)
(* Rows only grow in version and attempts, and except when a worker claims *)
(* it only lets go of claims: then claims stay apart and behind their rows.*)
(***************************************************************************)
RowsGrow ==
    /\ rows' \in [Mails -> Row \union {NoRow}]
    /\ \A m \in Mails : rows[m] \in Row =>
           /\ rows'[m] \in Row
           /\ rows'[m].leaseVersion >= rows[m].leaseVersion
           /\ rows'[m].attempts >= rows[m].attempts

ClaimsShrink ==
    \A w \in Workers : Claims(w)' \subseteq Claims(w) /\ current'[w] \notin batches'[w]

LEMMA ClaimsStayApart ==
    ASSUME IInv, RowsGrow, ClaimsShrink
    PROVE  ClaimsAreOfRows' /\ ClaimsDiffer' /\ CurrentIsOut'
<1>1. ClaimsAreOfRows'
  <2> SUFFICES ASSUME NEW w \in Workers, NEW c \in Claims(w)'
               PROVE  /\ rows'[c.mail] \in Row
                      /\ c.leaseVersion <= rows'[c.mail].leaseVersion
                      /\ c.attempt <= rows'[c.mail].attempts
    BY DEF ClaimsAreOfRows
  <2>1. c \in Claims(w)
    BY DEF ClaimsShrink
  <2>2. c \in Claim
    BY <2>1, ClaimsAreClaims DEF IInv
  <2>3. /\ rows[c.mail] \in Row
        /\ c.leaseVersion <= rows[c.mail].leaseVersion
        /\ c.attempt <= rows[c.mail].attempts
    BY <2>1 DEF IInv, ClaimsAreOfRows
  <2>4. /\ rows'[c.mail] \in Row
        /\ rows'[c.mail].leaseVersion >= rows[c.mail].leaseVersion
        /\ rows'[c.mail].attempts >= rows[c.mail].attempts
    BY <2>2, <2>3 DEF RowsGrow, Claim
  <2>5. QED
    BY <2>2, <2>3, <2>4 DEF Claim, Row
<1>2. ClaimsDiffer'
  BY DEF IInv, ClaimsDiffer, ClaimsShrink
<1>3. CurrentIsOut'
  BY DEF ClaimsShrink, CurrentIsOut
<1>4. QED
  BY <1>1, <1>2, <1>3

LEMMA WorkersKeepClaims ==
    ASSUME IInv, UNCHANGED <<batches, current>>
    PROVE  ClaimsShrink
BY DEF IInv, CurrentIsOut, ClaimsShrink, Claims

LEMMA SettlingLetsGo ==
    ASSUME IInv, NEW w \in Workers, UNCHANGED batches, SettleCurrent(w)
    PROVE  ClaimsShrink
<1> SUFFICES ASSUME NEW u \in Workers
             PROVE  Claims(u)' \subseteq Claims(u) /\ current'[u] \notin batches'[u]
  BY DEF ClaimsShrink
<1>1. current \in [Workers -> Claim \union {NoClaim}] /\ batches[u] \subseteq Claim
  BY DEF IInv, OutboxTypeOK
<1>2. CASE u = w
  BY <1>1, <1>2, NoClaimIsNone DEF SettleCurrent, Claims
<1>3. CASE u # w
  BY <1>1, <1>3 DEF SettleCurrent, Claims, IInv, CurrentIsOut
<1>4. QED
  BY <1>2, <1>3

\* Of the current claim, an answer is known.
LEMMA AnsweredClaim ==
    ASSUME IInv, NEW w \in Workers, answers[w] # "none"
    PROVE  /\ current[w] \in Claim
           /\ current[w] \in Claims(w)
           /\ rows[current[w].mail] \in Row
           /\ current[w].attempt <= rows[current[w].mail].attempts
           /\ current[w].mail \in Mails
<1>1. current[w] \in Claim
  BY DEF IInv, AnswersAreOfClaims
<1>2. current[w] \in Claims(w)
  BY <1>1, NoClaimIsNone DEF Claims
<1>3. QED
  BY <1>1, <1>2 DEF IInv, ClaimsAreOfRows, Claim

-----------------------------------------------------------------------------
(***************************************************************************)
(* The initial states and the steps.                                       *)
(***************************************************************************)
LEMMA InitIInv == Init => IInv
<1> SUFFICES ASSUME Init PROVE IInv
  OBVIOUS
<1>1. OutboxTypeOK
  BY OutboxConstants DEF Init, OutboxTypeOK, Answers
<1>2. \A w \in Workers : Claims(w) = {}
  BY DEF Init, Claims
<1>3. ClaimsAreOfRows /\ ClaimsDiffer
  BY <1>2 DEF ClaimsAreOfRows, ClaimsDiffer
<1>4. CurrentIsOut /\ AnswersAreOfClaims /\ TakenHaveRows
  BY DEF Init, CurrentIsOut, AnswersAreOfClaims, TakenHaveRows
<1>5. DroppedForAReason
  BY DEF Init, DroppedForAReason, NoRow
<1>6. QED
  BY <1>1, <1>3, <1>4, <1>5 DEF IInv

(***************************************************************************)
(* One row changes and the workers do not.                                 *)
(***************************************************************************)
LEMMA RowStep ==
    ASSUME IInv, RowsGrow, DroppedForAReason', losses' \in 0..MaxLosses,
           UNCHANGED <<accepted, batches, current, answers, stopping>>
    PROVE  IInv'
<1>1. OutboxTypeOK'
  BY DEF IInv, OutboxTypeOK, RowsGrow
<1>2. ClaimsShrink
  BY WorkersKeepClaims
<1>3. AnswersAreOfClaims' /\ TakenHaveRows'
  BY DEF IInv, AnswersAreOfClaims, TakenHaveRows, RowsGrow, OutboxTypeOK
<1>4. QED
  BY <1>1, <1>2, <1>3, ClaimsStayApart DEF IInv

LEMMA RequestStep ==
    ASSUME IInv, NEW m \in Mails, RequestMail(m)
    PROVE  IInv'
<1> DEFINE new == [state |-> "open", error |-> "none", due |-> TRUE,
                   attempts |-> 0, leaseVersion |-> 0]
<1>1. rows \in [Mails -> Row \union {NoRow}] /\ rows' = [rows EXCEPT ![m] = new]
  BY DEF IInv, OutboxTypeOK, RequestMail
<1>2. new \in Row
  BY OutboxConstants DEF Row
<1>3. rows[m] \notin Row
  BY RowsAreSome DEF RequestMail
<1>4. RowsGrow
  BY <1>1, <1>2, <1>3 DEF RowsGrow, Row
<1>5. DroppedForAReason'
  BY <1>1 DEF IInv, DroppedForAReason
<1>6. QED
  BY <1>4, <1>5, RowStep DEF RequestMail, workerVars, IInv, OutboxTypeOK

LEMMA SupersedeStep ==
    ASSUME IInv, NEW m \in Mails, SupersedeMail(m)
    PROVE  IInv'
<1> DEFINE new == [rows[m] EXCEPT !.state = "terminal", !.error = "superseded"]
<1>1. rows \in [Mails -> Row \union {NoRow}] /\ rows' = [rows EXCEPT ![m] = new]
  BY DEF IInv, OutboxTypeOK, SupersedeMail
<1>2. rows[m] \in Row
  BY OpenHasRow DEF IInv, SupersedeMail
<1>3. /\ new \in Row /\ new.error = "superseded"
      /\ new.leaseVersion = rows[m].leaseVersion /\ new.attempts = rows[m].attempts
  BY <1>2 DEF Row
<1> HIDE DEF new
<1>4. RowsGrow
  BY <1>1, <1>2, <1>3 DEF RowsGrow, Row
<1>5. DroppedForAReason'
  BY <1>1, <1>3 DEF IInv, DroppedForAReason
<1>6. QED
  BY <1>4, <1>5, RowStep DEF SupersedeMail, workerVars, IInv, OutboxTypeOK

LEMMA DueStep ==
    ASSUME IInv, NEW m \in Mails, AvailableAtPasses(m) \/ LeaseRunsOut(m)
    PROVE  IInv'
<1> DEFINE new == [rows[m] EXCEPT !.due = TRUE]
<1>1. BecomesDue(m) /\ losses' \in 0..MaxLosses
  BY OutboxConstants DEF AvailableAtPasses, LeaseRunsOut, IInv, OutboxTypeOK
<1>2. rows \in [Mails -> Row \union {NoRow}] /\ rows' = [rows EXCEPT ![m] = new]
  BY <1>1 DEF IInv, OutboxTypeOK, BecomesDue
<1>3. rows[m] \in Row
  BY <1>1, OpenHasRow DEF IInv, BecomesDue
<1>4. /\ new \in Row /\ new.state = rows[m].state /\ new.error = rows[m].error
      /\ new.leaseVersion = rows[m].leaseVersion /\ new.attempts = rows[m].attempts
  BY <1>3 DEF Row
<1> HIDE DEF new
<1>5. RowsGrow
  BY <1>2, <1>3, <1>4 DEF RowsGrow, Row
<1>6. DroppedForAReason'
  BY <1>2, <1>4 DEF IInv, DroppedForAReason
<1>7. QED
  BY <1>1, <1>5, <1>6, RowStep DEF BecomesDue

(***************************************************************************)
(* A claim: the new claims are ahead of every older claim of their mails.  *)
(***************************************************************************)
LEMMA ClaimStep ==
    ASSUME IInv, NEW w \in Workers, ClaimDue(w)
    PROVE  IInv'
<1>1. PICK taken \in SUBSET {m \in Mails : IsDue(m)} :
        /\ ~Working(w)
        /\ rows' = [m \in Mails |-> IF m \in taken THEN Leased(rows[m]) ELSE rows[m]]
        /\ batches' = [batches EXCEPT ![w] = {ClaimOf(m) : m \in taken}]
        /\ UNCHANGED <<accepted, current, answers, stopping, losses>>
  BY DEF ClaimDue
<1>2. \A m \in taken : m \in Mails /\ rows[m] \in Row /\ rows[m].state = "open"
                       /\ rows[m].attempts < ClaimLimit
  BY <1>1, OpenHasRow DEF IInv, IsDue
<1>3. \A m \in taken :
        /\ Leased(rows[m]) \in Row
        /\ Leased(rows[m]).state = rows[m].state /\ Leased(rows[m]).error = rows[m].error
        /\ Leased(rows[m]).leaseVersion = rows[m].leaseVersion + 1
        /\ Leased(rows[m]).attempts = rows[m].attempts + 1
  BY <1>2, LeasedRow
<1>4. \A m \in taken : /\ ClaimOf(m) \in Claim
                       /\ ClaimOf(m).mail = m
                       /\ ClaimOf(m).leaseVersion = rows[m].leaseVersion + 1
                       /\ ClaimOf(m).attempt = rows[m].attempts + 1
  BY <1>2, OutboxConstants DEF ClaimOf, Claim, Row
<1>5. rows \in [Mails -> Row \union {NoRow}]
  BY DEF IInv, OutboxTypeOK
<1>6. RowsGrow
  BY <1>1, <1>3, <1>5 DEF RowsGrow, Row
<1>7. batches \in [Workers -> SUBSET Claim] /\ current \in [Workers -> Claim \union {NoClaim}]
  BY DEF IInv, OutboxTypeOK
<1>8. OutboxTypeOK'
  BY <1>1, <1>4, <1>6, <1>7 DEF IInv, OutboxTypeOK, RowsGrow
<1>9. Claims(w) = {} /\ current[w] = NoClaim
  BY <1>1 DEF Working, Claims
<1>10. Claims(w)' = {ClaimOf(m) : m \in taken}
  BY <1>1, <1>7, <1>9 DEF Claims
<1>11. \A u \in Workers \ {w} : Claims(u)' = Claims(u)
  BY <1>1, <1>7 DEF Claims
<1>12. \A m \in taken : /\ rows'[m] \in Row
                        /\ rows'[m].leaseVersion = rows[m].leaseVersion + 1
                        /\ rows'[m].attempts = rows[m].attempts + 1
  BY <1>1, <1>2, <1>3
<1>13. ClaimsAreOfRows'
  <2> SUFFICES ASSUME NEW u \in Workers, NEW c \in Claims(u)'
               PROVE  /\ rows'[c.mail] \in Row
                      /\ c.leaseVersion <= rows'[c.mail].leaseVersion
                      /\ c.attempt <= rows'[c.mail].attempts
    BY DEF ClaimsAreOfRows
  <2>1. CASE u = w
    <3>1. PICK m \in taken : c = ClaimOf(m)
      BY <2>1, <1>10
    <3>2. QED
      BY <3>1, <1>4, <1>12, <1>2 DEF Row
  <2>2. CASE u # w
    <3>1. c \in Claims(u)
      BY <2>2, <1>11
    <3>2. c \in Claim
      BY <3>1, ClaimsAreClaims DEF IInv
    <3>3. /\ rows[c.mail] \in Row
          /\ c.leaseVersion <= rows[c.mail].leaseVersion
          /\ c.attempt <= rows[c.mail].attempts
      BY <3>1 DEF IInv, ClaimsAreOfRows
    <3>4. /\ rows'[c.mail] \in Row
          /\ rows'[c.mail].leaseVersion >= rows[c.mail].leaseVersion
          /\ rows'[c.mail].attempts >= rows[c.mail].attempts
      BY <3>2, <3>3, <1>6 DEF RowsGrow, Claim
    <3>5. QED
      BY <3>2, <3>3, <3>4 DEF Claim, Row
  <2>3. QED
    BY <2>1, <2>2
<1>14. \A m \in taken, u \in Workers \ {w} : \A c \in Claims(u) :
         ~(c.mail = m /\ c.leaseVersion = ClaimOf(m).leaseVersion)
  <2> SUFFICES ASSUME NEW m \in taken, NEW u \in Workers \ {w}, NEW c \in Claims(u), c.mail = m
               PROVE  c.leaseVersion # ClaimOf(m).leaseVersion
    OBVIOUS
  <2>1. c \in Claim
    BY ClaimsAreClaims DEF IInv
  <2>2. c.leaseVersion <= rows[m].leaseVersion
    BY DEF IInv, ClaimsAreOfRows
  <2>3. QED
    BY <2>1, <2>2, <1>2, <1>4 DEF Claim, Row
<1>15. ClaimsDiffer'
  <2> SUFFICES ASSUME NEW u \in Workers, NEW v \in Workers,
                      NEW c \in Claims(u)', NEW d \in Claims(v)',
                      c.mail = d.mail, c.leaseVersion = d.leaseVersion
               PROVE  u = v /\ c = d
    BY DEF ClaimsDiffer
  <2>1. CASE u = w /\ v = w
    <3>1. PICK m \in taken, n \in taken : c = ClaimOf(m) /\ d = ClaimOf(n)
      BY <2>1, <1>10
    <3>2. QED
      BY <2>1, <3>1, <1>4
  <2>2. CASE u = w /\ v # w
    <3>1. PICK m \in taken : c = ClaimOf(m)
      BY <2>2, <1>10
    <3>2. d \in Claims(v)
      BY <2>2, <1>11
    <3>3. QED
      BY <2>2, <3>1, <3>2, <1>4, <1>14
  <2>3. CASE u # w /\ v = w
    <3>1. PICK m \in taken : d = ClaimOf(m)
      BY <2>3, <1>10
    <3>2. c \in Claims(u)
      BY <2>3, <1>11
    <3>3. QED
      BY <2>3, <3>1, <3>2, <1>4, <1>14
  <2>4. CASE u # w /\ v # w
    BY <2>4, <1>11 DEF IInv, ClaimsDiffer
  <2>5. QED
    BY <2>1, <2>2, <2>3, <2>4
<1>16. CurrentIsOut'
  <2> SUFFICES ASSUME NEW u \in Workers PROVE current'[u] \notin batches'[u]
    BY DEF CurrentIsOut
  <2>1. CASE u = w
    BY <2>1, <1>1, <1>4, <1>7, <1>9, NoClaimIsNone
  <2>2. CASE u # w
    BY <2>2, <1>1, <1>7 DEF IInv, CurrentIsOut
  <2>3. QED
    BY <2>1, <2>2
<1>17. AnswersAreOfClaims' /\ TakenHaveRows'
  BY <1>1, <1>6 DEF IInv, AnswersAreOfClaims, TakenHaveRows, RowsGrow, OutboxTypeOK
<1>18. DroppedForAReason'
  BY <1>1, <1>2, <1>3 DEF IInv, DroppedForAReason
<1>19. QED
  BY <1>8, <1>13, <1>15, <1>16, <1>17, <1>18 DEF IInv

(***************************************************************************)
(* A send begins: a claim moves from the batch to the worker's hands.      *)
(***************************************************************************)
LEMMA BeginStep ==
    ASSUME IInv, NEW w \in Workers, NEW c \in batches[w],
           NEW answer \in {"ok", "retryable", "permanent"}, Begin(w, c, answer),
           accepted' = accepted \/ accepted' = accepted \union {c.mail},
           answer = "ok" => c.mail \in accepted'
    PROVE  IInv'
<1>1. batches \in [Workers -> SUBSET Claim] /\ current \in [Workers -> Claim \union {NoClaim}]
      /\ answers \in [Workers -> Answers]
  BY DEF IInv, OutboxTypeOK
<1>2. /\ batches' = [batches EXCEPT ![w] = batches[w] \ {c}]
      /\ current' = [current EXCEPT ![w] = c]
      /\ answers' = [answers EXCEPT ![w] = answer]
      /\ UNCHANGED <<rows, stopping, losses>>
  BY DEF Begin
<1>3. c \in Claim /\ c \in Claims(w)
  BY <1>1 DEF Claims
<1>4. rows[c.mail] \in Row /\ c.mail \in Mails
  BY <1>3 DEF IInv, ClaimsAreOfRows, Claim
<1>5. OutboxTypeOK'
  BY <1>1, <1>2, <1>3, <1>4 DEF IInv, OutboxTypeOK, Answers
<1>6. RowsGrow
  BY <1>2 DEF IInv, OutboxTypeOK, RowsGrow, Row
<1>7. ClaimsShrink
  <2> SUFFICES ASSUME NEW u \in Workers
               PROVE  Claims(u)' \subseteq Claims(u) /\ current'[u] \notin batches'[u]
    BY DEF ClaimsShrink
  <2>1. CASE u = w
    BY <2>1, <1>1, <1>2, <1>3 DEF Claims
  <2>2. CASE u # w
    BY <2>2, <1>1, <1>2 DEF Claims, IInv, CurrentIsOut
  <2>3. QED
    BY <2>1, <2>2
<1>8. AnswersAreOfClaims'
  <2> SUFFICES ASSUME NEW u \in Workers, answers'[u] # "none"
               PROVE  /\ current'[u] \in Claim
                      /\ answers'[u] = "ok" => current'[u].mail \in accepted'
    BY DEF AnswersAreOfClaims
  <2>1. CASE u = w
    BY <2>1, <1>1, <1>2, <1>3
  <2>2. CASE u # w
    BY <2>2, <1>1, <1>2 DEF IInv, AnswersAreOfClaims
  <2>3. QED
    BY <2>1, <2>2
<1>9. TakenHaveRows' /\ DroppedForAReason'
  BY <1>2, <1>4 DEF IInv, TakenHaveRows, DroppedForAReason
<1>10. QED
  BY <1>5, <1>6, <1>7, <1>8, <1>9, ClaimsStayApart DEF IInv

LEMMA RejectStep ==
    ASSUME IInv, NEW w \in Workers, RejectClaim(w)
    PROVE  IInv'
<1>1. PICK c \in batches[w] : Begin(w, c, "permanent") /\ UNCHANGED accepted
  BY DEF RejectClaim
<1>2. QED
  BY <1>1, BeginStep

LEMMA SendStep ==
    ASSUME IInv, NEW w \in Workers, Send(w)
    PROVE  IInv'
<1>1. PICK c \in batches[w], answer \in {"ok", "retryable", "permanent"} :
        /\ Begin(w, c, answer)
        /\ \/ answer # "permanent" /\ accepted' = accepted \union {c.mail}
           \/ answer # "ok" /\ UNCHANGED accepted
  BY DEF Send
<1>2. QED
  BY <1>1, BeginStep

(***************************************************************************)
(* A worker lets go of claims: it settles the current one or all are lost. *)
(***************************************************************************)
LEMMA SettleStep ==
    ASSUME IInv, NEW w \in Workers, SettleCurrent(w), RowsGrow, ClaimsShrink, DroppedForAReason',
           batches' \in [Workers -> SUBSET Claim], stopping' \subseteq Workers,
           losses' \in 0..MaxLosses, UNCHANGED accepted
    PROVE  IInv'
<1>1. current \in [Workers -> Claim \union {NoClaim}] /\ answers \in [Workers -> Answers]
  BY DEF IInv, OutboxTypeOK
<1>2. OutboxTypeOK'
  BY <1>1 DEF IInv, OutboxTypeOK, SettleCurrent, RowsGrow, Answers
<1>3. AnswersAreOfClaims'
  BY <1>1 DEF IInv, AnswersAreOfClaims, SettleCurrent
<1>4. TakenHaveRows'
  BY DEF IInv, TakenHaveRows, RowsGrow, OutboxTypeOK
<1>5. QED
  BY <1>2, <1>3, <1>4, ClaimsStayApart DEF IInv

LEMMA AcknowledgeStep ==
    ASSUME IInv, NEW w \in Workers, Acknowledge(w)
    PROVE  IInv'
<1> DEFINE c == current[w]
<1>1. c \in Claim /\ rows[c.mail] \in Row /\ c.mail \in Mails
  BY AnsweredClaim DEF Acknowledge
<1>2. rows \in [Mails -> Row \union {NoRow}]
  BY DEF IInv, OutboxTypeOK
<1>3. rows' = rows \/ rows' = [rows EXCEPT ![c.mail] = [rows[c.mail] EXCEPT !.state = "processed"]]
  BY <1>2 DEF Acknowledge
<1>4. RowsGrow
  BY <1>1, <1>2, <1>3 DEF RowsGrow, Row
<1>5. DroppedForAReason'
  BY <1>1, <1>2, <1>3 DEF IInv, DroppedForAReason, Row
<1>6. ClaimsShrink
  BY SettlingLetsGo DEF Acknowledge
<1>7. QED
  BY <1>4, <1>5, <1>6, SettleStep DEF Acknowledge, IInv, OutboxTypeOK

LEMMA FailureStep ==
    ASSUME IInv, NEW w \in Workers, RecordFailure(w)
    PROVE  IInv'
<1> DEFINE c == current[w]
           failed == Failed(rows[c.mail], c, answers[w])
<1>1. /\ c \in Claim /\ rows[c.mail] \in Row /\ c.mail \in Mails
      /\ c.attempt <= rows[c.mail].attempts
  BY AnsweredClaim DEF RecordFailure
<1>2. rows \in [Mails -> Row \union {NoRow}]
  BY DEF IInv, OutboxTypeOK
<1>3. rows' = rows \/ (HoldsLease(c) /\ rows' = [rows EXCEPT ![c.mail] = failed])
  BY <1>2 DEF RecordFailure
<1>4. answers[w] \in {"retryable", "permanent"}
  BY DEF RecordFailure
<1>5. /\ failed \in Row
      /\ failed.leaseVersion = rows[c.mail].leaseVersion + 1
      /\ failed.attempts = rows[c.mail].attempts
  BY <1>1, <1>4, FailedRow
<1>6. \/ failed.state = rows[c.mail].state /\ failed.error = rows[c.mail].error
      \/ failed.error \in {"refused", "exhausted"}
         /\ (failed.error = "exhausted" => c.attempt >= MaxAttempts)
  <2>1. CASE IsFinal(c, answers[w])
    BY <2>1, <1>1, <1>4, FailedRow
  <2>2. CASE ~IsFinal(c, answers[w])
    BY <2>2, <1>1, <1>4, FailedRow
  <2>3. QED
    BY <2>1, <2>2
<1> HIDE DEF failed
<1>7. RowsGrow
  BY <1>1, <1>2, <1>3, <1>5 DEF RowsGrow, Row
<1>8. DroppedForAReason'
  <2> SUFFICES ASSUME NEW m \in Mails, rows'[m].state = "terminal"
               PROVE  /\ rows'[m].error # "none"
                      /\ rows'[m].error = "exhausted" => rows'[m].attempts >= MaxAttempts
    BY DEF DroppedForAReason
  <2>1. CASE rows'[m] = rows[m]
    BY <2>1 DEF IInv, DroppedForAReason
  <2>2. CASE m = c.mail /\ rows'[m] = failed
    <3>1. CASE failed.state = rows[m].state /\ failed.error = rows[m].error
      BY <2>2, <3>1, <1>5 DEF IInv, DroppedForAReason
    <3>2. CASE failed.error \in {"refused", "exhausted"}
               /\ (failed.error = "exhausted" => c.attempt >= MaxAttempts)
      BY <2>2, <3>2, <1>1, <1>5, OutboxConstants DEF Claim, Row
    <3>3. QED
      BY <2>2, <3>1, <3>2, <1>6
  <2>3. QED
    BY <2>1, <2>2, <1>1, <1>2, <1>3
<1>9. ClaimsShrink
  BY SettlingLetsGo DEF RecordFailure
<1>10. QED
  BY <1>7, <1>8, <1>9, SettleStep DEF RecordFailure, IInv, OutboxTypeOK

LEMMA StopStep ==
    ASSUME IInv, NEW w \in Workers, Stop(w)
    PROVE  IInv'
<1>1. OutboxTypeOK'
  BY OutboxConstants DEF IInv, OutboxTypeOK, Stop
<1>2. RowsGrow
  BY DEF IInv, OutboxTypeOK, RowsGrow, Row, Stop
<1>3. ClaimsShrink
  BY WorkersKeepClaims DEF Stop
<1>4. AnswersAreOfClaims' /\ TakenHaveRows' /\ DroppedForAReason'
  BY DEF IInv, AnswersAreOfClaims, TakenHaveRows, DroppedForAReason, Stop
<1>5. QED
  BY <1>1, <1>2, <1>3, <1>4, ClaimsStayApart DEF IInv

LEMMA LeaveStep ==
    ASSUME IInv, NEW w \in Workers, LeaveBatch(w)
    PROVE  IInv'
<1>1. batches \in [Workers -> SUBSET Claim] /\ batches' = [batches EXCEPT ![w] = {}]
  BY DEF IInv, OutboxTypeOK, LeaveBatch
<1>2. OutboxTypeOK'
  BY <1>1 DEF IInv, OutboxTypeOK, LeaveBatch
<1>3. RowsGrow
  BY DEF IInv, OutboxTypeOK, RowsGrow, Row, LeaveBatch
<1>4. ClaimsShrink
  BY <1>1 DEF IInv, CurrentIsOut, ClaimsShrink, Claims, LeaveBatch
<1>5. AnswersAreOfClaims' /\ TakenHaveRows' /\ DroppedForAReason'
  BY DEF IInv, AnswersAreOfClaims, TakenHaveRows, DroppedForAReason, LeaveBatch
<1>6. QED
  BY <1>2, <1>3, <1>4, <1>5, ClaimsStayApart DEF IInv

LEMMA LoseStep ==
    ASSUME IInv, NEW w \in Workers, LoseBatch(w)
    PROVE  IInv'
<1>1. /\ batches \in [Workers -> SUBSET Claim] /\ batches' = [batches EXCEPT ![w] = {}]
      /\ current \in [Workers -> Claim \union {NoClaim}]
  BY DEF IInv, OutboxTypeOK, LoseBatch
<1>2. RowsGrow /\ DroppedForAReason'
  BY DEF IInv, OutboxTypeOK, RowsGrow, Row, LoseBatch, DroppedForAReason
<1>3. ClaimsShrink
  <2> SUFFICES ASSUME NEW u \in Workers
               PROVE  Claims(u)' \subseteq Claims(u) /\ current'[u] \notin batches'[u]
    BY DEF ClaimsShrink
  <2>1. CASE u = w
    BY <2>1, <1>1 DEF Claims, LoseBatch, SettleCurrent
  <2>2. CASE u # w
    BY <2>2, <1>1 DEF Claims, LoseBatch, SettleCurrent, IInv, CurrentIsOut
  <2>3. QED
    BY <2>1, <2>2
<1>4. batches' \in [Workers -> SUBSET Claim] /\ stopping' \subseteq Workers
      /\ losses' \in 0..MaxLosses
  BY <1>1, OutboxConstants DEF IInv, OutboxTypeOK, LoseBatch
<1>5. QED
  BY <1>2, <1>3, <1>4, SettleStep DEF LoseBatch

LEMMA StutterStep ==
    ASSUME IInv, UNCHANGED vars
    PROVE  IInv'
<1>1. RowsGrow /\ DroppedForAReason'
  BY DEF IInv, OutboxTypeOK, RowsGrow, Row, vars, DroppedForAReason
<1>2. QED
  BY <1>1, RowStep DEF vars, workerVars, IInv, OutboxTypeOK

LEMMA NextIInv == IInv /\ [Next]_vars => IInv'
<1> SUFFICES ASSUME IInv, [Next]_vars PROVE IInv'
  OBVIOUS
<1>1. CASE UNCHANGED vars
  BY <1>1, StutterStep
<1>2. ASSUME NEW m \in Mails,
             RequestMail(m) \/ SupersedeMail(m) \/ AvailableAtPasses(m) \/ LeaseRunsOut(m)
      PROVE  IInv'
  BY <1>2, RequestStep, SupersedeStep, DueStep
<1>3. ASSUME NEW w \in Workers, WorkerStep(w) \/ Stop(w) \/ LoseBatch(w)
      PROVE  IInv'
  <2>1. CASE ClaimDue(w) \/ RejectClaim(w) \/ Send(w)
    BY <2>1, ClaimStep, RejectStep, SendStep
  <2>2. CASE Acknowledge(w) \/ RecordFailure(w) \/ LeaveBatch(w)
    BY <2>2, AcknowledgeStep, FailureStep, LeaveStep
  <2>3. CASE Stop(w) \/ LoseBatch(w)
    BY <2>3, StopStep, LoseStep
  <2>4. QED
    BY <1>3, <2>1, <2>2, <2>3 DEF WorkerStep
<1>4. QED
  BY <1>1, <1>2, <1>3 DEF Next

LEMMA Invariance == Spec => []IInv
BY InitIInv, NextIInv, PTL DEF Spec

-----------------------------------------------------------------------------
(***************************************************************************)
(* The theorems.                                                           *)
(***************************************************************************)

(***************************************************************************)
(* identity-outbox.ts keeps its rows, claims and attempts within the types *)
(* and bounds of its tables.                                               *)
(***************************************************************************)
THEOREM OutboxTypes == Spec => []OutboxTypeOK
<1>1. IInv => OutboxTypeOK
  BY DEF IInv
<1>2. QED
  BY <1>1, Invariance, PTL

(***************************************************************************)
(* claimDue raises the lease version: at most one claim can settle a mail, *)
(* whatever leases ran out and whatever workers stopped or died.           *)
(***************************************************************************)
THEOREM SingleSettler == Spec => []OneSettler
<1>1. IInv => OneSettler
  BY DEF IInv, ClaimsDiffer, CurrentIsOut, OneSettler
<1>2. QED
  BY <1>1, Invariance, PTL

(***************************************************************************)
(* #recordFailure drops a mail only when it is refused or out of attempts. *)
(***************************************************************************)
THEOREM DropsHaveReasons == Spec => []DroppedForAReason
<1>1. IInv => DroppedForAReason
  BY DEF IInv
<1>2. QED
  BY <1>1, Invariance, PTL

-----------------------------------------------------------------------------
(***************************************************************************)
(* The refinement: what a change of one row or of the accepted mails does  *)
(* to the outcomes MailPromise speaks of.                                  *)
(***************************************************************************)
outcomes == [m \in Mails |-> Outcome(m)]

LEMMA OutcomeOfRow ==
    ASSUME NEW m \in Mails
    PROVE  /\ rows[m].state = "open" => Outcome(m) = "open"
           /\ rows[m].state = "processed" => Outcome(m) = "sent"
           /\ rows[m].state = "terminal" => Outcome(m) = "dropped"
           /\ rows[m] = NoRow => Outcome(m) = "none"
BY DEF Outcome, NoRow

LEMMA StateKept ==
    ASSUME \A m \in Mails : rows'[m].state = rows[m].state
    PROVE  outcomes' = outcomes
BY DEF outcomes, Outcome

LEMMA InitPromise == Init => Promise!PromiseInit
BY OutcomeOfRow DEF Init, Promise!PromiseInit, Outcome, NoRow

LEMMA StutterKeepsPromise ==
    ASSUME UNCHANGED accepted, \A m \in Mails : rows'[m].state = rows[m].state
    PROVE  UNCHANGED Promise!promiseVars
BY StateKept DEF outcomes, Promise!promiseVars

LEMMA OneRowChanges ==
    ASSUME NEW m \in Mails, NEW new, rows' = [rows EXCEPT ![m] = new],
           IInv, UNCHANGED accepted, NEW from, NEW to,
           Outcome(m) = from, Outcome(m)' = to
    PROVE  Promise!Becomes(m, from, to)
<1>1. \A n \in Mails \ {m} : rows'[n] = rows[n]
  BY DEF IInv, OutboxTypeOK
<1>2. \A n \in Mails \ {m} : Outcome(n)' = Outcome(n)
  BY <1>1 DEF Outcome
<1>3. QED
  BY <1>2 DEF Promise!Becomes

LEMMA StutterStates ==
    ASSUME UNCHANGED <<rows, accepted>>
    PROVE  UNCHANGED Promise!promiseVars
BY StutterKeepsPromise

LEMMA RequestPromised ==
    ASSUME IInv, NEW m \in Mails, RequestMail(m)
    PROVE  Promise!Request(m)
<1> DEFINE new == [state |-> "open", error |-> "none", due |-> TRUE,
                   attempts |-> 0, leaseVersion |-> 0]
<1>1. rows' = [rows EXCEPT ![m] = new] /\ UNCHANGED accepted /\ rows[m] = NoRow
  BY DEF RequestMail
<1>2. rows'[m] = new
  BY <1>1 DEF IInv, OutboxTypeOK
<1>3. Outcome(m) = "none" /\ Outcome(m)' = "open"
  BY <1>1, <1>2, OutcomeOfRow DEF Outcome
<1>4. QED
  BY <1>1, <1>3, OneRowChanges DEF Promise!Request

LEMMA SupersedePromised ==
    ASSUME IInv, NEW m \in Mails, SupersedeMail(m)
    PROVE  Promise!Drop(m)
<1> DEFINE new == [rows[m] EXCEPT !.state = "terminal", !.error = "superseded"]
<1>1. rows \in [Mails -> Row \union {NoRow}] /\ rows' = [rows EXCEPT ![m] = new]
      /\ UNCHANGED accepted
  BY DEF IInv, OutboxTypeOK, SupersedeMail
<1>2. rows[m] \in Row /\ rows[m].state = "open"
  BY OpenHasRow DEF IInv, SupersedeMail
<1>3. new.state = "terminal"
  BY <1>2 DEF Row
<1> HIDE DEF new
<1>4. Outcome(m) = "open" /\ Outcome(m)' = "dropped"
  BY <1>1, <1>2, <1>3 DEF Outcome
<1>5. QED
  BY <1>1, <1>4, OneRowChanges DEF Promise!Drop

LEMMA DueStutters ==
    ASSUME IInv, NEW m \in Mails, AvailableAtPasses(m) \/ LeaseRunsOut(m)
    PROVE  UNCHANGED Promise!promiseVars
<1> DEFINE new == [rows[m] EXCEPT !.due = TRUE]
<1>1. BecomesDue(m)
  BY DEF AvailableAtPasses, LeaseRunsOut
<1>2. rows \in [Mails -> Row \union {NoRow}] /\ rows' = [rows EXCEPT ![m] = new]
      /\ UNCHANGED accepted
  BY <1>1 DEF IInv, OutboxTypeOK, BecomesDue
<1>3. rows[m] \in Row
  BY <1>1, OpenHasRow DEF IInv, BecomesDue
<1>4. new.state = rows[m].state
  BY <1>3 DEF Row
<1> HIDE DEF new
<1>5. \A n \in Mails : rows'[n].state = rows[n].state
  BY <1>2, <1>4
<1>6. QED
  BY <1>2, <1>5, StutterKeepsPromise

LEMMA ClaimStutters ==
    ASSUME IInv, NEW w \in Workers, ClaimDue(w)
    PROVE  UNCHANGED Promise!promiseVars
<1>1. PICK taken \in SUBSET {m \in Mails : IsDue(m)} :
        rows' = [m \in Mails |-> IF m \in taken THEN Leased(rows[m]) ELSE rows[m]]
  BY DEF ClaimDue
<1>2. \A m \in taken : m \in Mails /\ rows[m] \in Row /\ rows[m].attempts < ClaimLimit
  BY <1>1, OpenHasRow DEF IInv, IsDue
<1>3. \A m \in taken : Leased(rows[m]).state = rows[m].state
  BY <1>2, LeasedRow
<1>4. \A n \in Mails : rows'[n].state = rows[n].state
  BY <1>1, <1>3
<1>5. QED
  BY <1>4, StutterKeepsPromise DEF ClaimDue

LEMMA SendPromised ==
    ASSUME IInv, NEW w \in Workers, Send(w)
    PROVE  \/ \E m \in Mails : Promise!ProviderTakes(m)
           \/ UNCHANGED Promise!promiseVars
<1>1. PICK c \in batches[w] :
        /\ UNCHANGED rows
        /\ accepted' = accepted \union {c.mail} \/ UNCHANGED accepted
  BY DEF Send, Begin
<1>2. c \in Claims(w)
  BY DEF Claims
<1>3. c.mail \in Mails /\ rows[c.mail] \in Row
  BY <1>2, ClaimsAreClaims DEF IInv, ClaimsAreOfRows, Claim
<1>4. Outcome(c.mail) # "none"
  BY <1>3 DEF Outcome, Row
<1>5. outcomes' = outcomes
  BY <1>1, StateKept
<1>6. CASE accepted' = accepted \union {c.mail}
  BY <1>3, <1>4, <1>5, <1>6 DEF Promise!ProviderTakes, outcomes
<1>7. CASE UNCHANGED accepted
  BY <1>5, <1>7 DEF Promise!promiseVars, outcomes
<1>8. QED
  BY <1>1, <1>6, <1>7

LEMMA AcknowledgePromised ==
    ASSUME IInv, NEW w \in Workers, Acknowledge(w)
    PROVE  \/ \E m \in Mails : Promise!RecordAsSent(m)
           \/ UNCHANGED Promise!promiseVars
<1>1. PICK m \in Mails : m = current[w].mail
  BY AnsweredClaim DEF Acknowledge
<1> DEFINE new == [rows[m] EXCEPT !.state = "processed"]
<1>2. rows[m] \in Row /\ m \in accepted /\ UNCHANGED accepted
  BY <1>1, AnsweredClaim DEF Acknowledge, IInv, AnswersAreOfClaims
<1>3. rows \in [Mails -> Row \union {NoRow}]
  BY DEF IInv, OutboxTypeOK
<1>4. (HoldsLease(current[w]) /\ rows' = [rows EXCEPT ![m] = new]) \/ rows' = rows
  BY <1>1, <1>3 DEF Acknowledge
<1>5. new.state = "processed"
  BY <1>2 DEF Row
<1> HIDE DEF new
<1>6. CASE HoldsLease(current[w]) /\ rows' = [rows EXCEPT ![m] = new]
  <2>1. rows[m].state = "open" /\ rows'[m].state = "processed"
    BY <1>1, <1>3, <1>5, <1>6 DEF HoldsLease, Open
  <2>2. Outcome(m) = "open" /\ Outcome(m)' = "sent"
    BY <2>1 DEF Outcome
  <2>3. QED
    BY <1>2, <1>6, <2>2, OneRowChanges DEF Promise!RecordAsSent
<1>7. CASE rows' = rows
  BY <1>2, <1>7, StutterStates
<1>8. QED
  BY <1>4, <1>6, <1>7

LEMMA FailurePromised ==
    ASSUME IInv, NEW w \in Workers, RecordFailure(w)
    PROVE  \/ \E m \in Mails : Promise!Drop(m)
           \/ UNCHANGED Promise!promiseVars
<1>1. PICK m \in Mails : m = current[w].mail
  BY AnsweredClaim DEF RecordFailure
<1> DEFINE new == Failed(rows[m], current[w], answers[w])
<1>2. current[w] \in Claim /\ rows[m] \in Row /\ UNCHANGED accepted
      /\ answers[w] \in {"retryable", "permanent"}
  BY <1>1, AnsweredClaim DEF RecordFailure
<1>3. rows \in [Mails -> Row \union {NoRow}]
  BY DEF IInv, OutboxTypeOK
<1>4. (HoldsLease(current[w]) /\ rows' = [rows EXCEPT ![m] = new]) \/ rows' = rows
  BY <1>1, <1>3 DEF RecordFailure
<1>5. new.state = "terminal" \/ new.state = rows[m].state
  BY <1>2, FailedRow
<1> HIDE DEF new
<1>6. CASE /\ HoldsLease(current[w]) /\ rows' = [rows EXCEPT ![m] = new]
           /\ new.state = "terminal"
  <2>1. rows[m].state = "open" /\ rows'[m].state = "terminal"
    BY <1>1, <1>3, <1>6 DEF HoldsLease, Open
  <2>2. Outcome(m) = "open" /\ Outcome(m)' = "dropped"
    BY <2>1 DEF Outcome
  <2>3. QED
    BY <1>2, <1>6, <2>2, OneRowChanges DEF Promise!Drop
<1>7. CASE rows' = [rows EXCEPT ![m] = new] /\ new.state = rows[m].state
  <2>1. \A n \in Mails : rows'[n].state = rows[n].state
    BY <1>3, <1>7
  <2>2. QED
    BY <1>2, <2>1, StutterKeepsPromise
<1>8. CASE rows' = rows
  BY <1>2, <1>8, StutterStates
<1>9. QED
  BY <1>4, <1>5, <1>6, <1>7, <1>8

LEMMA NextPromise ==
    IInv /\ [Next]_vars => [Promise!PromiseNext]_Promise!promiseVars
<1> SUFFICES ASSUME IInv, [Next]_vars
             PROVE  Promise!PromiseNext \/ UNCHANGED Promise!promiseVars
  OBVIOUS
<1>1. CASE UNCHANGED vars
  BY <1>1, StutterStates DEF vars
<1>2. ASSUME NEW m \in Mails, RequestMail(m) \/ SupersedeMail(m)
      PROVE  Promise!PromiseNext
  BY <1>2, RequestPromised, SupersedePromised DEF Promise!PromiseNext
<1>3. ASSUME NEW m \in Mails, AvailableAtPasses(m) \/ LeaseRunsOut(m)
      PROVE  UNCHANGED Promise!promiseVars
  BY <1>3, DueStutters
<1>4. ASSUME NEW w \in Workers, Send(w) \/ Acknowledge(w) \/ RecordFailure(w)
      PROVE  Promise!PromiseNext \/ UNCHANGED Promise!promiseVars
  BY <1>4, SendPromised, AcknowledgePromised, FailurePromised DEF Promise!PromiseNext
<1>5. ASSUME NEW w \in Workers, ClaimDue(w)
      PROVE  UNCHANGED Promise!promiseVars
  BY <1>5, ClaimStutters
<1>6. ASSUME NEW w \in Workers,
             RejectClaim(w) \/ LeaveBatch(w) \/ Stop(w) \/ LoseBatch(w)
      PROVE  UNCHANGED Promise!promiseVars
  BY <1>6, StutterStates DEF RejectClaim, Begin, LeaveBatch, Stop, LoseBatch
<1>7. QED
  BY <1>1, <1>2, <1>3, <1>4, <1>5, <1>6 DEF Next, WorkerStep

(***************************************************************************)
(* identity-outbox.ts keeps the promise of MailPromise: every step of the  *)
(* outbox requests, takes, records or drops one mail, or changes nothing   *)
(* the promise speaks of.                                                  *)
(***************************************************************************)
THEOREM PromiseKept == Spec => KeepsPromise
<1>1. Init => Promise!PromiseInit
  BY InitPromise
<1>2. IInv /\ [Next]_vars => [Promise!PromiseNext]_Promise!promiseVars
  BY NextPromise
<1>3. QED
  BY <1>1, <1>2, Invariance, PTL DEF Spec, KeepsPromise, Promise!PromiseSpec
=============================================================================
