--------------------------- MODULE DraftAuthoring ---------------------------
(***************************************************************************)
(* Concurrent authoring of one draft in the hosted editor: the authors'    *)
(* panels with their autosave queue (panel.ts), the editor frames that     *)
(* hold the document and the `updatedAt` they loaded                       *)
(* (authoring-frame-app.ts), the save route with its step-lock check and   *)
(* compare-and-swap, the Brand acknowledgement, and the dashboard routes   *)
(* that write a document back.                                             *)
(*                                                                         *)
(* A document is the set of the edits it contains.  Time is left out: a    *)
(* timer or a timeout fires in any state in which it runs, and two writes  *)
(* never get the same `updatedAt`.  Messages between a panel and its own   *)
(* frame, which arrive in order, take no time.                             *)
(***************************************************************************)
EXTENDS Integers, Sequences, FiniteSets, SequencesExt

CONSTANTS
  Sessions,       \* authoring sessions, one author and one panel each
  Steps,          \* steps of the document
  NoOne,          \* not a session: nobody holds the lock
  MaxEdits,       \* bound: edits of all authors
  MaxRetries,     \* AUTHORING_AUTOSAVE_MAX_RETRIES
  Limits,         \* bound: how often each kind of disturbance happens
  MaxKinds        \* bound: kinds of disturbance in one behaviour

\* Disturbances: claimed step locks; discards, and exits beside them; lost or late
\* answers and failed closes; Brand checks and acknowledgements; dashboard writes.
Kinds == {"claim", "discard", "fault", "review", "rewrite"}

ASSUME SessionsAssumption == NoOne \notin Sessions
ASSUME BoundsAssumption ==
  /\ MaxEdits \in Nat
  /\ MaxRetries \in Nat
  /\ Limits \in [Kinds -> Nat]
  /\ MaxKinds \in Nat

VARIABLES
  draft,      \* row of `documents`: content, updatedAt, updatedByUserId
  stored,     \* edits contained in some row of `document_versions`
  locks,      \* holder of each step's unexpired lock
  rewrites,   \* documents that dashboard requests have read and will write
  frames,     \* the editor frames with their sessions
  panels,     \* the panels with their autosave queues
  saves,      \* each session's save requests, in the order they were posted
  counts      \* how often the bounded things happened

vars == <<draft, stored, locks, rewrites, frames, panels, saves, counts>>

-----------------------------------------------------------------------------
(* Types *)

Edit == [by : Sessions, step : Steps, n : 1..MaxEdits]
Content == SUBSET Edit

\* `updatedAt` as the number of the write that set it.
Time == Nat

\* What a frame holds: the session's state at the API, the document, the
\* updatedAt it will send, the updatedAt of its last Brand check (0: none), and
\* the acknowledgements it has sent.
Frame ==
  [session : {"new", "open", "revoked"}, edits : Content, token : Time,
   reviewed : Time, acks : SUBSET [edits : Content, token : Time]]

\* autoSaveGeneration, pendingAutoSave (0: null), autoSaveTimer, the attempts
\* chained on autoSaveSequence, persistedAutoSaveGeneration, autoSaveRetryCount,
\* the save state shown, the progress of Save & exit, and whether a discard waits
\* for its close request (iframeOwnedDiscardPromise).
Panel ==
  [generation : 0..MaxEdits, pending : 0..MaxEdits, timer : BOOLEAN,
   chain : Seq(1..MaxEdits), persisted : 0..MaxEdits, retries : 0..MaxRetries,
   label : {"saved", "saving", "retrying", "failed", "closed", "discarded"},
   exit : {"no", "flushing", "draining", "saving", "closing"},
   waits : Nat, own : BOOLEAN, kept : 0..MaxEdits, discarding : BOOLEAN]

\* A save request: what the frame sent, who still waits for the answer, what
\* the route read, and the changed steps it found free of other locks.
Save ==
  [edits : Content, token : Time, awaited : {"autosave", "exit", "nobody"},
   phase : {"posted", "read", "checked", "stored", "conflict", "refused"},
   seen : Content, cleared : SUBSET Steps]

Count == [edits : Nat, unchecked : Nat, claim : Nat, discard : Nat, fault : Nat,
          review : Nat, rewrite : Nat]

\* changedAuthoringStepIds: the steps whose content differs.
ChangedSteps(current, next) ==
  {e.step : e \in (current \ next) \union (next \ current)}

NewPanel ==
  [generation |-> 0, pending |-> 0, timer |-> FALSE, chain |-> <<>>,
   persisted |-> 0, retries |-> 0, label |-> "saved", exit |-> "no",
   waits |-> 0, own |-> FALSE, kept |-> MaxEdits, discarding |-> FALSE]

Init ==
  /\ draft = [edits |-> {}, updatedAt |-> 1, by |-> NoOne]
  /\ stored = {}
  /\ locks = [t \in Steps |-> NoOne]
  /\ rewrites = {}
  /\ frames = [s \in Sessions |->
       [session |-> "new", edits |-> {}, token |-> 0, reviewed |-> 0, acks |-> {}]]
  /\ panels = [s \in Sessions |-> NewPanel]
  /\ saves = [s \in Sessions |-> <<>>]
  /\ counts = [edits |-> 0, unchecked |-> 0, claim |-> 0, discard |-> 0, fault |-> 0,
               review |-> 0, rewrite |-> 0]

IsOpen(s) ==
  /\ frames[s].session # "new"
  /\ panels[s].label \notin {"closed", "discarded"}

\* Bounds: one more disturbance of this kind.
Again(kind) ==
  /\ counts[kind] < Limits[kind]
  /\ counts' = [counts EXCEPT ![kind] = @ + 1]

\* Bounds: ... if it may add a kind.
Disturb(kind) ==
  /\ counts[kind] > 0 \/ Cardinality({k \in Kinds : counts[k] > 0}) < MaxKinds
  /\ Again(kind)

Fault == Disturb("fault")

-----------------------------------------------------------------------------
(* The autosave queue of a panel *)

\* flushAutoSave: the pending document joins the chain of attempts.
Flushed(p) ==
  IF p.pending = 0
  THEN [p EXCEPT !.timer = FALSE]
  ELSE [p EXCEPT !.timer = FALSE, !.pending = 0, !.label = "saving",
                 !.chain = Append(@, p.pending)]

\* Mutant of Persisted: any answer counts as the save of everything.
PersistedAsNewest(p) ==
  [p EXCEPT !.chain = Tail(@), !.retries = 0, !.persisted = p.generation,
            !.waits = IF @ > 0 THEN @ - 1 ELSE 0,
            !.label = IF p.pending = 0 THEN "saved" ELSE @]

\* An attempt was persisted (`then` of saveAttempt).
Persisted(p) ==
  LET reached == IF Head(p.chain) > p.persisted THEN Head(p.chain) ELSE p.persisted
  IN [p EXCEPT
        !.chain = Tail(@), !.retries = 0, !.persisted = reached,
        !.waits = IF @ > 0 THEN @ - 1 ELSE 0,
        !.label = IF p.pending = 0 /\ reached >= p.generation THEN "saved" ELSE @]

\* Mutant of Failed: a retry that nothing triggers.
FailedWithoutTimer(p) ==
  LET pending == IF p.pending = 0 /\ Head(p.chain) = p.generation
                 THEN p.generation ELSE p.pending
      retry == pending # 0 /\ p.retries < MaxRetries
  IN [p EXCEPT
        !.chain = Tail(@), !.pending = pending,
        !.waits = IF @ > 0 THEN @ - 1 ELSE 0,
        !.retries = IF retry THEN @ + 1 ELSE @,
        !.label = IF retry THEN "retrying" ELSE "failed"]

\* An attempt failed (`catch` of saveAttempt): only the newest generation is
\* queued again, and its retries are counted.
Failed(p) ==
  LET pending == IF p.pending = 0 /\ Head(p.chain) = p.generation
                 THEN p.generation ELSE p.pending
      retry == pending # 0 /\ p.retries < MaxRetries
  IN [p EXCEPT
        !.chain = Tail(@), !.pending = pending,
        !.waits = IF @ > 0 THEN @ - 1 ELSE 0,
        !.timer = @ \/ retry,
        !.retries = IF retry THEN @ + 1 ELSE @,
        !.label = IF retry THEN "retrying" ELSE "failed"]

\* saveAndCloseIframeOwned rejects: the panel stays, with its error shown.
ExitFailed(p) ==
  [p EXCEPT !.exit = "no", !.waits = 0, !.own = FALSE, !.label = "failed"]

\* The document of an exit is stored: it asks for the close, which is refused
\* while a discard waits for its own (requestHostedSessionClose).
ExitSaved(p) == IF p.discarding THEN ExitFailed(p) ELSE [p EXCEPT !.exit = "closing"]

\* The exit waits for its own attempt first, and gives up when that one fails.
FailedAttempt(p) ==
  IF p.exit = "flushing" /\ p.own /\ p.waits = 1
  THEN ExitFailed(Failed(p))
  ELSE Failed(p)

\* persistDocument sends the frame's document with the updatedAt it knows.
Request(s, why, token) ==
  [edits |-> frames[s].edits, token |-> token, awaited |-> why,
   phase |-> "posted", seen |-> {}, cleared |-> {}]

\* The promises of Save & exit: its attempts first, then those chained
\* meanwhile, then a save of its own (flushAutoSave, autoSaveSequence,
\* requestIframeSave).
Advanced(p) ==
  CASE p.exit = "flushing" /\ p.waits = 0 /\ p.chain # <<>> ->
         [p EXCEPT !.exit = "draining", !.own = FALSE, !.waits = Len(p.chain)]
    [] p.waits = 0 /\ (p.exit = "draining" \/ (p.exit = "flushing" /\ p.chain = <<>>)) ->
         [p EXCEPT !.exit = "saving", !.own = FALSE]
    [] OTHER -> p

IsAsking(queue, why) == \E i \in DOMAIN queue : queue[i].awaited = why

\* The panel goes on as p: the first attempt of its chain and the save of an
\* exit ask the frame at once.
Continue(s, p, rest, token) ==
  LET after == Advanced(p)
      attempt == IF after.chain # <<>> /\ ~IsAsking(rest, "autosave")
                 THEN <<Request(s, "autosave", token)>> ELSE <<>>
      leaving == IF after.exit = "saving" /\ p.exit # "saving"
                 THEN <<Request(s, "exit", token)>> ELSE <<>>
  IN /\ panels' = [panels EXCEPT ![s] = after]
     /\ saves' = [saves EXCEPT ![s] = rest \o attempt \o leaving]

\* destroyPanel: timers are cleared and pending requests rejected; nobody retries.
Destroyed(p, label) ==
  [p EXCEPT !.pending = 0, !.timer = FALSE, !.chain = <<>>, !.exit = "no",
            !.waits = 0, !.own = FALSE, !.discarding = FALSE, !.retries = 0, !.label = label]

Unawaited(queue) == [i \in DOMAIN queue |-> [queue[i] EXCEPT !.awaited = "nobody"]]

-----------------------------------------------------------------------------
(* Authors, panels and frames *)

\* establishHostedEditorSession loads the draft once.
OpenSession(s) ==
  /\ frames[s].session = "new"
  /\ frames' = [frames EXCEPT ![s].session = "open", ![s].edits = draft.edits,
                              ![s].token = draft.updatedAt]
  /\ UNCHANGED <<draft, stored, locks, rewrites, panels, saves, counts>>

\* An edit in the frame; its preview patch makes the panel schedule an autosave.
\* One that the panel refuses (presence, stale revision) is taken back by the
\* frame, which changes nothing here.
EditStep(s, t) ==
  /\ IsOpen(s)
  /\ counts.edits < MaxEdits
  /\ counts' = [counts EXCEPT !.edits = @ + 1]
  /\ LET n == panels[s].generation + 1
     IN /\ frames' = [frames EXCEPT ![s].edits = @ \union {[by |-> s, step |-> t, n |-> n]}]
        /\ panels' = [panels EXCEPT ![s].generation = n, ![s].pending = n, ![s].retries = 0,
                                    ![s].label = "saving", ![s].timer = TRUE]
  /\ UNCHANGED <<draft, stored, locks, rewrites, saves>>

\* The timer of the panel, or (without one) the author's Retry.
FlushAutoSave(s) ==
  /\ panels[s].timer \/ panels[s].pending # 0
  /\ Continue(s, Flushed(panels[s]), saves[s], frames[s].token)
  /\ UNCHANGED <<draft, stored, locks, rewrites, frames, counts>>

\* Mutant of ReceiveAnswer: the frame keeps the updatedAt it loaded.
ReceiveAnswerKeepingToken(s, i) ==
  /\ i \in DOMAIN saves[s]
  /\ saves[s][i].phase = "stored"
  /\ LET save == saves[s][i]
     IN Continue(s,
          CASE save.awaited = "autosave" -> Persisted(panels[s])
            [] save.awaited = "exit" -> ExitSaved(panels[s])
            [] OTHER -> panels[s],
          RemoveAt(saves[s], i), frames[s].token)
  /\ UNCHANGED <<draft, stored, locks, rewrites, frames, counts>>

\* An answer reaches the frame, which takes over the new updatedAt and tells
\* the panel; a panel that stopped waiting ignores it.
ReceiveAnswer(s, i) ==
  /\ i \in DOMAIN saves[s]
  /\ saves[s][i].phase = "stored"
  /\ LET save == saves[s][i]
     IN /\ frames' = [frames EXCEPT ![s].token = save.token]
        /\ Continue(s,
             CASE save.awaited = "autosave" -> Persisted(panels[s])
               [] save.awaited = "exit" -> ExitSaved(panels[s])
               [] OTHER -> panels[s],
             RemoveAt(saves[s], i), save.token)
  /\ UNCHANGED <<draft, stored, locks, rewrites, counts>>

\* requestIframeSave times out: for certain when the frame could not persist,
\* and as a fault when the answer is merely late.
GiveUp(s, i) ==
  /\ i \in DOMAIN saves[s]
  /\ saves[s][i].awaited # "nobody"
  /\ LET save == saves[s][i]
         failed == IF save.awaited = "exit"
                   THEN ExitFailed(panels[s]) ELSE FailedAttempt(panels[s])
     IN \/ /\ save.phase \in {"conflict", "refused"}
           /\ Continue(s, failed, RemoveAt(saves[s], i), frames[s].token)
           /\ UNCHANGED counts
        \/ /\ save.phase \notin {"conflict", "refused"}
           /\ Fault
           /\ Continue(s, failed, [saves[s] EXCEPT ![i].awaited = "nobody"], frames[s].token)
  /\ UNCHANGED <<draft, stored, locks, rewrites, frames>>

\* saveAndCloseIframeOwned: flush, wait for the attempts, save once more ...
SaveAndExit(s) ==
  /\ IsOpen(s)
  /\ panels[s].exit = "no"
  /\ LET p == Flushed(panels[s])
     IN Continue(s, [p EXCEPT !.label = "saving", !.exit = "flushing",
                              !.own = panels[s].pending # 0, !.waits = Len(p.chain),
                              !.kept = p.generation],
                 saves[s], frames[s].token)
  /\ IF panels[s].discarding THEN Again("discard") ELSE UNCHANGED counts
  /\ UNCHANGED <<draft, stored, locks, rewrites, frames>>

\* ... and revoke the session, after which the panel is destroyed.
CloseSession(s) ==
  /\ panels[s].exit = "closing"
  /\ frames' = [frames EXCEPT ![s].session = "revoked"]
  /\ panels' = [panels EXCEPT ![s] = Destroyed(@, "closed")]
  /\ saves' = [saves EXCEPT ![s] = Unawaited(@)]
  /\ UNCHANGED <<draft, stored, locks, rewrites, counts>>

\* The close request fails or its answer comes too late.
CloseFails(s) ==
  /\ panels[s].exit = "closing"
  /\ Fault
  /\ \E after \in {frames[s].session, "revoked"} :
       frames' = [frames EXCEPT ![s].session = after]
  /\ panels' = [panels EXCEPT ![s] = ExitFailed(@)]
  /\ UNCHANGED <<draft, stored, locks, rewrites, saves>>

\* discardAndCloseIframeOwned, at any time: what is pending is dropped, what was
\* autosaved stays, and the session is asked to close, in vain while Save & exit
\* waits for its own close.  Of its bound, one is kept for an exit beside it.
DiscardAndClose(s) ==
  /\ IsOpen(s)
  /\ ~panels[s].discarding
  /\ counts["discard"] + 1 < Limits["discard"]
  /\ Disturb("discard")
  /\ LET asks == panels[s].exit # "closing"
     IN panels' = [panels EXCEPT ![s] =
          [@ EXCEPT !.pending = 0, !.timer = FALSE, !.discarding = asks,
                    !.label = IF asks THEN "saving" ELSE "failed"]]
  /\ UNCHANGED <<draft, stored, locks, rewrites, frames, saves>>

\* The session is revoked, and the panel destroyed with all it waits for.
Discarded(s) ==
  /\ panels[s].discarding
  /\ frames' = [frames EXCEPT ![s].session = "revoked"]
  /\ panels' = [panels EXCEPT ![s] = Destroyed(@, "discarded")]
  /\ saves' = [saves EXCEPT ![s] = Unawaited(@)]
  /\ UNCHANGED <<draft, stored, locks, rewrites, counts>>

\* The close request fails or its answer comes too late: the panel stays open,
\* and what was pending is no longer queued.  The bound is of discards that fail
\* and of exits beside one, together.
DiscardFails(s) ==
  /\ panels[s].discarding
  /\ counts["discard"] < Limits["discard"]
  /\ Again("fault")
  /\ \E after \in {frames[s].session, "revoked"} :
       frames' = [frames EXCEPT ![s].session = after]
  /\ panels' = [panels EXCEPT ![s].discarding = FALSE, ![s].label = "failed"]
  /\ UNCHANGED <<draft, stored, locks, rewrites, saves>>

-----------------------------------------------------------------------------
(* The save route *)

\* A request nobody waits for any more leaves nothing behind when it fails.
Refused(s, i, phase) ==
  saves' = [saves EXCEPT ![s] =
    IF @[i].awaited = "nobody" THEN RemoveAt(@, i) ELSE [@ EXCEPT ![i].phase = phase]]

\* Authentication of the session, then getDocument.
ReadDraft(s, i) ==
  /\ i \in DOMAIN saves[s]
  /\ saves[s][i].phase = "posted"
  /\ IF frames[s].session = "open"
     THEN saves' = [saves EXCEPT ![s][i].seen = draft.edits, ![s][i].phase = "read"]
     ELSE Refused(s, i, "refused")
  /\ UNCHANGED <<draft, stored, locks, rewrites, frames, panels, counts>>

\* findAuthoringStepLockConflict compares with the document read before.
CheckStepLocks(s, i) ==
  /\ i \in DOMAIN saves[s]
  /\ saves[s][i].phase = "read"
  /\ LET changed == ChangedSteps(saves[s][i].seen, saves[s][i].edits)
     IN IF \A t \in changed : locks[t] \in {NoOne, s}
        THEN saves' = [saves EXCEPT ![s][i].cleared = changed, ![s][i].phase = "checked"]
        ELSE Refused(s, i, "refused")
  /\ UNCHANGED <<draft, stored, locks, rewrites, frames, panels, counts>>

\* Mutant of SaveExpected: whatever the session has seen may be written back.
SaveEverything(token) == token <= draft.updatedAt

\* saveDocument: compare-and-swap on updatedAt, and a new version row.
SaveExpected(token) == draft.updatedAt = token

Written(edits, author) ==
  [edits |-> edits, updatedAt |-> draft.updatedAt + 1, by |-> author]

SaveDocument(s, i) ==
  /\ i \in DOMAIN saves[s]
  /\ saves[s][i].phase = "checked"
  /\ IF SaveExpected(saves[s][i].token)
     THEN /\ draft' = Written(saves[s][i].edits, s)
          /\ stored' = stored \union saves[s][i].edits
          /\ saves' = [saves EXCEPT ![s][i].phase = "stored", ![s][i].token = draft'.updatedAt]
     ELSE /\ Refused(s, i, "conflict")
          /\ UNCHANGED <<draft, stored>>
  /\ UNCHANGED <<locks, rewrites, frames, panels, counts>>

\* A request or its answer is lost: the frame's fetch rejects.
LoseRequest(s, i) ==
  /\ i \in DOMAIN saves[s]
  /\ saves[s][i].phase \in {"posted", "stored"}
  /\ Fault
  /\ Refused(s, i, "refused")
  /\ UNCHANGED <<draft, stored, locks, rewrites, frames, panels>>

-----------------------------------------------------------------------------
(* Step locks: claimExperienceStepLock, its release and its expiry *)

\* A claim of a lock that somebody else holds is a takeover.
ClaimStepLock(s, t) ==
  /\ IsOpen(s) /\ frames[s].session = "open"
  /\ Disturb("claim")
  /\ locks' = [locks EXCEPT ![t] = s]
  /\ UNCHANGED <<draft, stored, rewrites, frames, panels, saves>>

\* releaseExperienceStepLock by the holder, or the lapse of the lease.
FreeStepLock(t) ==
  /\ locks[t] # NoOne
  /\ locks' = [locks EXCEPT ![t] = NoOne]
  /\ UNCHANGED <<draft, stored, rewrites, frames, panels, saves, counts>>

-----------------------------------------------------------------------------
(* Writes that are not compared with the writer's own document *)

\* checkAuthoringBrandDrift answers with the updatedAt of the row it read.
CheckBrand(s) ==
  /\ IsOpen(s) /\ frames[s].session = "open"
  /\ Disturb("review")
  /\ frames' = [frames EXCEPT ![s].reviewed = draft.updatedAt]
  /\ UNCHANGED <<draft, stored, locks, rewrites, panels, saves>>

\* acknowledgeThemeVersion sends the frame's document ...
SendAcknowledgement(s) ==
  /\ IsOpen(s) /\ frames[s].reviewed # 0 /\ frames[s].acks = {}
  /\ Disturb("review")
  /\ frames' = [frames EXCEPT ![s].acks = {[edits |-> frames[s].edits, token |-> frames[s].reviewed]}]
  /\ UNCHANGED <<draft, stored, locks, rewrites, panels, saves>>

\* ... acknowledgeDocumentTheme compares with the Brand check's updatedAt, and
\* the frame takes over the answer's document, but not its updatedAt.
AcknowledgeDocumentTheme(s) ==
  \E ack \in frames[s].acks :
    /\ IF frames[s].session = "open" /\ SaveExpected(ack.token)
       THEN /\ draft' = Written(ack.edits, s)
            /\ stored' = stored \union ack.edits
            /\ frames' = [frames EXCEPT ![s].edits = ack.edits, ![s].acks = {},
                                        ![s].reviewed = draft'.updatedAt]
            /\ counts' = [counts EXCEPT !.unchecked = @ + 1]
       ELSE /\ frames' = [frames EXCEPT ![s].acks = {}]
            /\ UNCHANGED <<draft, stored, counts>>
    /\ UNCHANGED <<locks, rewrites, panels, saves>>

\* POST .../compile and .../theme-binding read the document ...
ReadForRewrite ==
  /\ Disturb("rewrite")
  /\ rewrites' = rewrites \union {draft.edits}
  /\ UNCHANGED <<draft, stored, locks, frames, panels, saves>>

\* ... and a client of POST /v1/documents sends back what it likes of the draft
\* it read; ...
ChangeForRewrite ==
  /\ Disturb("rewrite")
  /\ \E edits \in SUBSET draft.edits : rewrites' = rewrites \union {edits}
  /\ UNCHANGED <<draft, stored, locks, frames, panels, saves>>

\* ... all of them save without an expected updatedAt.
Rewrite ==
  \E edits \in rewrites :
    /\ draft' = Written(edits, NoOne)
    /\ stored' = stored \union edits
    /\ rewrites' = rewrites \ {edits}
    /\ counts' = [counts EXCEPT !.unchecked = @ + 1]
    /\ UNCHANGED <<locks, frames, panels, saves>>

-----------------------------------------------------------------------------
(* The system *)

Route(s) ==
  \E i \in DOMAIN saves[s] : ReadDraft(s, i) \/ CheckStepLocks(s, i) \/ SaveDocument(s, i)

Author(s) ==
  \/ OpenSession(s)
  \/ \E t \in Steps : EditStep(s, t) \/ ClaimStepLock(s, t)
  \/ SaveAndExit(s)
  \/ DiscardAndClose(s)
  \/ CheckBrand(s)
  \/ SendAcknowledgement(s)

Network(s) ==
  \/ \E i \in DOMAIN saves[s] : ReceiveAnswer(s, i) \/ GiveUp(s, i) \/ LoseRequest(s, i)
  \/ CloseSession(s) \/ CloseFails(s)
  \/ Discarded(s) \/ DiscardFails(s)
  \/ AcknowledgeDocumentTheme(s)

Next ==
  \/ \E s \in Sessions :
       Author(s) \/ Network(s) \/ Route(s) \/ FlushAutoSave(s)
  \/ \E t \in Steps : FreeStepLock(t)
  \/ ReadForRewrite \/ ChangeForRewrite
  \/ Rewrite

Spec == Init /\ [][Next]_vars

-----------------------------------------------------------------------------
(* Properties *)

\* Documents, panels, frames and requests have their types.
AuthoringTypeOK ==
  /\ draft \in [edits : Content, updatedAt : Time, by : Sessions \union {NoOne}]
  /\ stored \in Content
  /\ locks \in [Steps -> Sessions \union {NoOne}]
  /\ rewrites \in SUBSET Content
  /\ frames \in [Sessions -> Frame]
  /\ panels \in [Sessions -> Panel]
  /\ saves \in [Sessions -> Seq(Save)]
  /\ counts \in Count

\* No author's work is overwritten by a save of somebody who has not seen it:
\* only an acknowledgement or a dashboard write can take an edit out of the
\* draft.
EditsSurviveSaves ==
  [][counts'.unchecked = counts.unchecked => draft.edits \subseteq draft'.edits]_vars

\* The lock check holds until the write although nothing is locked between the
\* two: whatever changes the draft meanwhile also fails the compare-and-swap,
\* so a save changes only steps that were free of other authors' locks.
LockChecksStayValid ==
  \A s \in Sessions : \A i \in DOMAIN saves[s] :
    LET save == saves[s][i]
    IN save.phase = "checked" /\ SaveExpected(save.token) =>
         ChangedSteps(draft.edits, save.edits) \subseteq save.cleared

\* All edits of an author up to a generation are in some stored version.
IsStored(s, generation) ==
  \A n \in 1..generation : \E e \in stored : e.by = s /\ e.n = n

\* "Draft saved" is true, whatever attempts overlap, fail or come late, and
\* Save & exit leaves only after everything typed before it is stored.
PromisesAreKept ==
  \A s \in Sessions :
    /\ panels[s].label = "saved" => IsStored(s, panels[s].generation)
    /\ panels[s].label = "closed" => IsStored(s, panels[s].kept)

\* The saves of one author never conflict with each other: who is told of a
\* conflict was overtaken by somebody else, or the requests of Save & exit and
\* of a late autosave overlap, or the author is discarding, or there was a fault
\* or an unchecked write.
ConflictsHaveACause ==
  \A s \in Sessions : \A i \in DOMAIN saves[s] :
    saves[s][i].phase = "conflict" /\ saves[s][i].awaited # "nobody" =>
      \/ draft.by # s
      \/ panels[s].exit \in {"saving", "closing"}
      \/ panels[s].discarding
      \/ counts.fault > 0
      \/ counts.unchecked > 0

\* No autosave gets stuck: while the panel shows that it saves or will try
\* again, a timer runs or a request is out whose answer or timeout moves it on,
\* and an exit waits only for attempts that are in the chain.
AutosavesAreUnderWay ==
  \A s \in Sessions :
    LET p == panels[s]
    IN /\ p.label \in {"saving", "retrying"} =>
            p.timer \/ p.exit # "no" \/ p.discarding \/ IsAsking(saves[s], "autosave")
       /\ p.chain # <<>> <=> IsAsking(saves[s], "autosave")
       /\ p.exit \in {"flushing", "draining"} => p.waits \in 1..Len(p.chain)
       /\ p.exit = "saving" <=> IsAsking(saves[s], "exit")

=============================================================================
