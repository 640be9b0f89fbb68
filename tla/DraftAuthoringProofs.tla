------------------------ MODULE DraftAuthoringProofs ------------------------
(***************************************************************************)
(* Proofs about DraftAuthoring, for any number of sessions, steps, edits,   *)
(* retries and disturbances, along three invariants.  SInv is about the     *)
(* draft: the compare-and-swap of the save route keeps every author's       *)
(* stored work, and the step-lock check holds until the write.  AInv adds   *)
(* what the panels and their requests are doing: what an author was told    *)
(* is saved is stored, and a panel that shows that it saves is saving.      *)
(* CInv adds who knows the last write: saves of one author do not conflict. *)
(***************************************************************************)
EXTENDS DraftAuthoring, SequenceTheorems, TLAPS

-----------------------------------------------------------------------------
(* The inductive invariant *)

PanelsOK == panels = [s \in Sessions |-> panels[s]]

Typed ==
  /\ draft \in [edits : Content, updatedAt : Nat, by : Sessions \union {NoOne}]
  /\ rewrites \subseteq Content
  /\ frames \in [Sessions -> Frame]
  /\ saves \in [Sessions -> Seq(Save)]
  /\ PanelsOK

\* A frame knows the draft it was the last to see.
FrameFits(s) ==
  /\ frames[s].token <= draft.updatedAt
  /\ frames[s].session # "new" /\ frames[s].token = draft.updatedAt =>
       draft.edits \subseteq frames[s].edits

\* So does a request with the newest updatedAt of a frame that holds these
\* edits, and what it has read and found free of locks is still true.
Fits(save, held) ==
  /\ save.token <= draft.updatedAt
  /\ save.token = draft.updatedAt =>
       /\ draft.edits \subseteq save.edits
       /\ save.edits \subseteq held
       /\ save.phase = "read" => save.seen = draft.edits
       /\ save.phase = "checked" => ChangedSteps(draft.edits, save.edits) \subseteq save.cleared

\* Nothing runs in a session that has not been opened.
NewIsIdle(s) == frames[s].session = "new" => (saves[s] = <<>> /\ panels[s] = NewPanel)

SessionFits(s) ==
  /\ FrameFits(s)
  /\ NewIsIdle(s)
  /\ \A i \in DOMAIN saves[s] : Fits(saves[s][i], frames[s].edits)

SInv == Typed /\ \A s \in Sessions : SessionFits(s)

LEMMA InitOK == Init => SInv
<1>1. ASSUME Init PROVE Typed
  <2>1. <<>> \in Seq(Save) /\ {} \in Content
    BY DEF Content
  <2>2. QED
    BY <1>1, <2>1 DEF Init, Typed, Frame, Time, PanelsOK
<1>2. ASSUME Init, NEW s \in Sessions PROVE SessionFits(s)
  BY <1>2 DEF Init, SessionFits, FrameFits, NewIsIdle
<1>3. QED
  BY <1>1, <1>2 DEF SInv

-----------------------------------------------------------------------------
(* Sequences of requests *)

\* RemoveAt removes the element and keeps the others in their order.
LEMMA RemovedExactly ==
  ASSUME NEW S, NEW q \in Seq(S), NEW i \in DOMAIN q
  PROVE  /\ RemoveAt(q, i) \in Seq(S)
         /\ DOMAIN RemoveAt(q, i) = 1..(Len(q) - 1)
         /\ DOMAIN q = 1..Len(q) /\ Len(q) \in Nat
         /\ \A j \in 1..(Len(q) - 1) :
              RemoveAt(q, i)[j] = q[IF j <= i - 1 THEN j ELSE j + 1]
<1>1. i \in 1..Len(q) /\ Len(q) \in Nat /\ DOMAIN q = 1..Len(q)
  OBVIOUS
<1> DEFINE left == SubSeq(q, 1, i - 1)
           right == SubSeq(q, i + 1, Len(q))
<1>2. left \in Seq(S) /\ Len(left) = i - 1 /\ \A j \in 1..(i - 1) : left[j] = q[j]
  BY <1>1
<1>3. right \in Seq(S) /\ Len(right) = Len(q) - i
      /\ \A j \in 1..(Len(q) - i) : right[j] = q[j + i]
  BY <1>1
<1>4. RemoveAt(q, i) = left \o right
  BY DEF RemoveAt
<1> HIDE DEF left, right
<1>5. /\ left \o right \in Seq(S) /\ Len(left \o right) = Len(q) - 1
      /\ \A j \in 1..(Len(q) - 1) :
           (left \o right)[j] = IF j <= i - 1 THEN left[j] ELSE right[j - (i - 1)]
  <2> DEFINE both == left \o right
  <2>1. /\ both \in Seq(S) /\ Len(both) = Len(left) + Len(right)
        /\ \A j \in 1..(Len(left) + Len(right)) :
             both[j] = IF j <= Len(left) THEN left[j] ELSE right[j - Len(left)]
    BY <1>2, <1>3, ConcatProperties
  <2> HIDE DEF both
  <2>2. Len(left) + Len(right) = Len(q) - 1
    BY <1>1, <1>2, <1>3
  <2>3. /\ both \in Seq(S) /\ Len(both) = Len(q) - 1
        /\ \A j \in 1..(Len(q) - 1) :
             both[j] = IF j <= i - 1 THEN left[j] ELSE right[j - (i - 1)]
    BY <1>2, <2>1, <2>2
  <2>4. QED
    BY <2>3 DEF both
<1>6. ASSUME NEW j \in 1..(Len(q) - 1)
      PROVE  (left \o right)[j] = q[IF j <= i - 1 THEN j ELSE j + 1]
  <2>1. CASE j <= i - 1
    <3>1. j \in 1..(i - 1)
      BY <2>1
    <3>2. QED
      BY <1>2, <1>5, <2>1, <3>1
  <2>2. CASE ~(j <= i - 1)
    <3>1. j - (i - 1) \in 1..(Len(q) - i) /\ (j - (i - 1)) + i = j + 1
      BY <1>1, <2>2
    <3>2. QED
      BY <1>3, <1>5, <2>2, <3>1
  <2>3. QED
    BY <2>1, <2>2
<1>7. DOMAIN (left \o right) = 1..(Len(q) - 1)
  BY <1>5
<1>8. QED
  BY <1>1, <1>4, <1>5, <1>6, <1>7

LEMMA Removed ==
  ASSUME NEW S, NEW q \in Seq(S), NEW i \in DOMAIN q
  PROVE  /\ RemoveAt(q, i) \in Seq(S)
         /\ \A j \in DOMAIN RemoveAt(q, i) : \E k \in DOMAIN q : RemoveAt(q, i)[j] = q[k]
<1>1. i \in 1..Len(q) /\ \A j \in 1..(Len(q) - 1) :
        (IF j <= i - 1 THEN j ELSE j + 1) \in DOMAIN q
  BY RemovedExactly
<1>2. QED
  BY <1>1, RemovedExactly

LEMMA Singleton ==
  ASSUME NEW S, NEW x \in S
  PROVE  <<x>> \in Seq(S) /\ Len(<<x>>) = 1 /\ <<x>>[1] = x
OBVIOUS

\* At most one request is awaited for this reason.
Alone(q, why) ==
  \A i, j \in DOMAIN q : q[i].awaited = why /\ q[j].awaited = why => i = j

LEMMA RemovedAsks ==
  ASSUME NEW S, NEW q \in Seq(S), NEW i \in DOMAIN q, NEW why, Alone(q, why)
  PROVE  /\ Alone(RemoveAt(q, i), why)
         /\ IsAsking(RemoveAt(q, i), why) <=> (IsAsking(q, why) /\ q[i].awaited # why)
<1> DEFINE r == RemoveAt(q, i)
           from(j) == IF j <= i - 1 THEN j ELSE j + 1
<1>1. /\ DOMAIN r = 1..(Len(q) - 1) /\ DOMAIN q = 1..Len(q) /\ Len(q) \in Nat
      /\ \A j \in 1..(Len(q) - 1) : r[j] = q[from(j)]
  BY RemovedExactly
<1>2. i \in 1..Len(q)
  BY <1>1
<1> HIDE DEF r
<1>3. \A j \in 1..(Len(q) - 1) : from(j) \in 1..Len(q) /\ from(j) # i
  BY <1>1, <1>2
<1>4. \A j, k \in 1..(Len(q) - 1) : from(j) = from(k) => j = k
  BY <1>1, <1>2
<1>5. \A k \in 1..Len(q) : k # i => \E j \in 1..(Len(q) - 1) : from(j) = k
  <2> TAKE k \in 1..Len(q)
  <2> HAVE k # i
  <2>1. CASE k < i
    <3>1. k \in 1..(Len(q) - 1) /\ from(k) = k
      BY <1>1, <1>2, <2>1
    <3>2. QED
      BY <3>1
  <2>2. CASE k > i
    <3>1. k - 1 \in 1..(Len(q) - 1) /\ from(k - 1) = k
      BY <1>1, <1>2, <2>2
    <3>2. QED
      BY <3>1
  <2>3. QED
    BY <1>1, <1>2, <2>1, <2>2
<1> HIDE DEF from
<1>6. Alone(r, why)
  BY <1>1, <1>3, <1>4 DEF Alone
<1>7. ASSUME IsAsking(r, why) PROVE IsAsking(q, why) /\ q[i].awaited # why
  <2>1. PICK j \in 1..(Len(q) - 1) : q[from(j)].awaited = why
    BY <1>1, <1>7 DEF IsAsking
  <2>2. from(j) \in DOMAIN q /\ from(j) # i
    BY <1>1, <1>3, <2>1
  <2>3. QED
    BY <2>1, <2>2 DEF IsAsking, Alone
<1>8. ASSUME IsAsking(q, why), q[i].awaited # why PROVE IsAsking(r, why)
  <2>1. PICK k \in 1..Len(q) : q[k].awaited = why
    BY <1>1, <1>8 DEF IsAsking
  <2>2. PICK j \in 1..(Len(q) - 1) : from(j) = k
    BY <1>5, <1>8, <2>1
  <2>3. QED
    BY <1>1, <2>1, <2>2 DEF IsAsking
<1>9. QED
  BY <1>6, <1>7, <1>8 DEF r

\* A request that is replaced asks as before, or no longer.
LEMMA ReplacedAsks ==
  ASSUME NEW S, NEW q \in Seq(S), NEW i \in DOMAIN q, NEW save,
         NEW why \in {"autosave", "exit"}, Alone(q, why),
         save.awaited = q[i].awaited \/ save.awaited = "nobody"
  PROVE  LET r == [q EXCEPT ![i] = save]
         IN /\ Alone(r, why)
            /\ IsAsking(r, why) <=>
                 (IsAsking(q, why) /\ (q[i].awaited = why => save.awaited = why))
<1> DEFINE r == [q EXCEPT ![i] = save]
<1>1. DOMAIN r = DOMAIN q /\ r[i] = save /\ \A j \in DOMAIN q : j # i => r[j] = q[j]
  OBVIOUS
<1> HIDE DEF r
<1>2. \A j \in DOMAIN q : r[j].awaited = why => q[j].awaited = why
  BY <1>1
<1>3. Alone(r, why)
  BY <1>1, <1>2 DEF Alone
<1>4. ASSUME IsAsking(r, why) PROVE IsAsking(q, why) /\ (q[i].awaited = why => save.awaited = why)
  BY <1>1, <1>2, <1>4 DEF IsAsking, Alone
<1>5. ASSUME IsAsking(q, why), q[i].awaited = why => save.awaited = why PROVE IsAsking(r, why)
  BY <1>1, <1>5 DEF IsAsking
<1>6. QED
  BY <1>3, <1>4, <1>5 DEF r

LEMMA ExtendedAsks ==
  ASSUME NEW S, NEW q \in Seq(S), NEW x \in S, NEW why
  PROVE  LET r == q \o <<x>>
         IN /\ r \in Seq(S)
            /\ Alone(q, why) /\ (x.awaited = why => ~IsAsking(q, why)) => Alone(r, why)
            /\ IsAsking(r, why) <=> (IsAsking(q, why) \/ x.awaited = why)
            /\ \A j \in DOMAIN r : r[j] = x \/ \E k \in DOMAIN q : r[j] = q[k]
<1> DEFINE r == q \o <<x>>
<1>1. /\ r \in Seq(S) /\ DOMAIN r = 1..(Len(q) + 1) /\ Len(q) \in Nat /\ DOMAIN q = 1..Len(q)
      /\ \A j \in 1..Len(q) : r[j] = q[j]
      /\ r[Len(q) + 1] = x
  <2>1. <<x>> \in Seq(S) /\ Len(<<x>>) = 1 /\ <<x>>[1] = x
    BY Singleton
  <2> DEFINE one == <<x>>
  <2>2. one \in Seq(S) /\ Len(one) = 1 /\ one[1] = x
    BY <2>1
  <2> HIDE DEF one
  <2>3. /\ q \o one \in Seq(S) /\ Len(q \o one) = Len(q) + 1
        /\ \A j \in 1..(Len(q) + 1) :
             (q \o one)[j] = IF j <= Len(q) THEN q[j] ELSE one[j - Len(q)]
    <3>1. /\ q \o one \in Seq(S) /\ Len(q \o one) = Len(q) + Len(one)
          /\ \A j \in 1..(Len(q) + Len(one)) :
               (q \o one)[j] = IF j <= Len(q) THEN q[j] ELSE one[j - Len(q)]
      BY <2>2, ConcatProperties
    <3> DEFINE both == q \o one
    <3>2. /\ both \in Seq(S) /\ Len(both) = Len(q) + Len(one)
          /\ \A j \in 1..(Len(q) + Len(one)) :
               both[j] = IF j <= Len(q) THEN q[j] ELSE one[j - Len(q)]
      BY <3>1
    <3> HIDE DEF both
    <3>3. /\ both \in Seq(S) /\ Len(both) = Len(q) + 1
          /\ \A j \in 1..(Len(q) + 1) :
               both[j] = IF j <= Len(q) THEN q[j] ELSE one[j - Len(q)]
      BY <2>2, <3>2
    <3>4. QED
      BY <3>3 DEF both
  <2>4. Len(q) \in Nat /\ DOMAIN q = 1..Len(q)
    BY LenProperties
  <2>5. (Len(q) + 1) - Len(q) = 1 /\ ~(Len(q) + 1 <= Len(q)) /\ Len(q) + 1 \in 1..(Len(q) + 1)
        /\ \A j \in 1..Len(q) : j \in 1..(Len(q) + 1) /\ j <= Len(q)
    BY <2>4
  <2>6. (q \o one)[Len(q) + 1] = x /\ \A j \in 1..Len(q) : (q \o one)[j] = q[j]
    BY <2>2, <2>3, <2>5
  <2>7. DOMAIN (q \o one) = 1..(Len(q) + 1)
    BY <2>3, LenProperties
  <2>8. QED
    BY <2>3, <2>4, <2>6, <2>7 DEF one
<1> HIDE DEF r
<1>2. \A j \in DOMAIN r : j \in DOMAIN q \/ j = Len(q) + 1
  BY <1>1
<1>3. \A j \in DOMAIN q : j \in DOMAIN r /\ r[j] = q[j]
  BY <1>1
<1>4. ASSUME Alone(q, why), x.awaited = why => ~IsAsking(q, why) PROVE Alone(r, why)
  <2>1. ASSUME NEW j \in DOMAIN r, NEW k \in DOMAIN r, r[j].awaited = why, r[k].awaited = why
        PROVE  j = k
    <3>1. CASE j \in DOMAIN q /\ k \in DOMAIN q
      <4>1. q[j].awaited = why /\ q[k].awaited = why
        BY <1>3, <2>1, <3>1
      <4>2. QED
        BY <1>4, <3>1, <4>1 DEF Alone
    <3>2. CASE j = Len(q) + 1 /\ k \in DOMAIN q
      BY <1>1, <1>3, <1>4, <2>1, <3>2 DEF IsAsking
    <3>3. CASE k = Len(q) + 1 /\ j \in DOMAIN q
      BY <1>1, <1>3, <1>4, <2>1, <3>3 DEF IsAsking
    <3>4. QED
      BY <1>2, <3>1, <3>2, <3>3
  <2>2. QED
    BY <2>1 DEF Alone
<1>5. IsAsking(r, why) <=> (IsAsking(q, why) \/ x.awaited = why)
  <2>1. Len(q) + 1 \in DOMAIN r
    BY <1>1
  <2>2. QED
    BY <1>1, <1>2, <1>3, <2>1 DEF IsAsking
<1>6. QED
  BY <1>1, <1>2, <1>3, <1>4, <1>5 DEF r

\* The same with a request that is only added on a condition.
LEMMA MaybeExtended ==
  ASSUME NEW S, NEW q \in Seq(S), NEW x \in S, NEW c \in BOOLEAN,
         NEW r, c => r = q \o <<x>>, ~c => r = q, NEW why
  PROVE  /\ r \in Seq(S)
         /\ Alone(q, why) /\ (c /\ x.awaited = why => ~IsAsking(q, why)) => Alone(r, why)
         /\ IsAsking(r, why) <=> (IsAsking(q, why) \/ (c /\ x.awaited = why))
         /\ \A j \in DOMAIN r : (c /\ r[j] = x) \/ \E k \in DOMAIN q : r[j] = q[k]
<1>1. CASE c
  <2> DEFINE t == q \o <<x>>
  <2>1. /\ t \in Seq(S)
        /\ Alone(q, why) /\ (x.awaited = why => ~IsAsking(q, why)) => Alone(t, why)
        /\ IsAsking(t, why) <=> (IsAsking(q, why) \/ x.awaited = why)
        /\ \A j \in DOMAIN t : t[j] = x \/ \E k \in DOMAIN q : t[j] = q[k]
    BY ExtendedAsks
  <2>2. r = t
    BY <1>1
  <2> HIDE DEF t
  <2>3. QED
    BY <1>1, <2>1, <2>2
<1>2. CASE ~c
  BY <1>2
<1>3. QED
  BY <1>1, <1>2

\* What a panel that goes on asks for, beside the rest of its requests.
Asks(p, rest, why) ==
  IF why = "autosave" THEN Advanced(p).chain # <<>> /\ ~IsAsking(rest, "autosave")
                      ELSE Advanced(p).exit = "saving" /\ p.exit # "saving"

RequestsAdded(s, p, rest, token) ==
  /\ panels' = [panels EXCEPT ![s] = Advanced(p)]
  /\ saves' \in [Sessions -> Seq(Save)]
  /\ \A x \in Sessions \ {s} : saves'[x] = saves[x] /\ panels'[x] = panels[x]
  /\ PanelsOK'
  /\ \A j \in DOMAIN saves'[s] :
       \/ \E k \in DOMAIN rest : saves'[s][j] = rest[k]
       \/ \E why \in {"autosave", "exit"} :
            saves'[s][j] = Request(s, why, token) /\ Asks(p, rest, why)
  /\ \A why \in {"autosave", "exit"} :
       /\ IsAsking(saves'[s], why) <=> (IsAsking(rest, why) \/ Asks(p, rest, why))
       /\ Alone(rest, why) /\ (Asks(p, rest, why) => ~IsAsking(rest, why))
            => Alone(saves'[s], why)

LEMMA Continued ==
  ASSUME NEW s \in Sessions, NEW p, NEW rest \in Seq(Save), NEW token \in Nat,
         Typed, Continue(s, p, rest, token)
  PROVE  RequestsAdded(s, p, rest, token)
<1>1. PICK first \in BOOLEAN, second \in BOOLEAN :
        first = Asks(p, rest, "autosave") /\ second = Asks(p, rest, "exit")
  BY DEF Asks, IsAsking
<1>2. PICK autosave, exit, some, all :
        /\ autosave = Request(s, "autosave", token) /\ exit = Request(s, "exit", token)
        /\ some = rest \o (IF first THEN <<autosave>> ELSE <<>>)
        /\ all = some \o (IF second THEN <<exit>> ELSE <<>>)
  OBVIOUS
<1>3. panels' = [panels EXCEPT ![s] = Advanced(p)] /\ saves' = [saves EXCEPT ![s] = all]
  BY <1>1, <1>2 DEF Continue, Asks
<1>4. /\ autosave \in Save /\ autosave.awaited = "autosave"
      /\ exit \in Save /\ exit.awaited = "exit"
  BY <1>2 DEF Request, Save, Typed, Frame, Time, Content
<1>5. ASSUME NEW why
      PROVE  /\ some \in Seq(Save)
             /\ Alone(rest, why) /\ (first /\ autosave.awaited = why => ~IsAsking(rest, why))
                  => Alone(some, why)
             /\ IsAsking(some, why) <=> (IsAsking(rest, why) \/ (first /\ autosave.awaited = why))
             /\ \A j \in DOMAIN some : \/ first /\ some[j] = autosave
                                       \/ \E k \in DOMAIN rest : some[j] = rest[k]
  <2>1. (first => some = rest \o <<autosave>>) /\ (~first => some = rest)
    BY <1>2, ConcatEmptySeq
  <2>2. QED
    BY <1>4, <2>1, MaybeExtended
<1>6. some \in Seq(Save)
  BY <1>5
<1>7. ASSUME NEW why
      PROVE  /\ all \in Seq(Save)
             /\ Alone(some, why) /\ (second /\ exit.awaited = why => ~IsAsking(some, why))
                  => Alone(all, why)
             /\ IsAsking(all, why) <=> (IsAsking(some, why) \/ (second /\ exit.awaited = why))
             /\ \A j \in DOMAIN all : \/ second /\ all[j] = exit
                                      \/ \E k \in DOMAIN some : all[j] = some[k]
  <2>1. (second => all = some \o <<exit>>) /\ (~second => all = some)
    BY <1>2, <1>6, ConcatEmptySeq
  <2>2. exit \in Save /\ second \in BOOLEAN /\ some \in Seq(Save)
    BY <1>4, <1>6
  <2>3. QED
    BY <2>1, <2>2, MaybeExtended
<1>8. /\ saves' \in [Sessions -> Seq(Save)] /\ saves'[s] = all
      /\ \A x \in Sessions \ {s} : saves'[x] = saves[x] /\ panels'[x] = panels[x]
      /\ PanelsOK'
  <2>1. all \in Seq(Save)
    BY <1>7
  <2>2. QED
    BY <1>3, <2>1 DEF Typed, PanelsOK
<1>9. \A j \in DOMAIN all :
        \/ \E k \in DOMAIN rest : all[j] = rest[k]
        \/ \E why \in {"autosave", "exit"} : all[j] = Request(s, why, token) /\ Asks(p, rest, why)
  <2>1. \A j \in DOMAIN some : \/ first /\ some[j] = autosave
                               \/ \E k \in DOMAIN rest : some[j] = rest[k]
    BY <1>5
  <2>2. \A j \in DOMAIN all : \/ second /\ all[j] = exit
                              \/ \E k \in DOMAIN some : all[j] = some[k]
    BY <1>7
  <2>3. ASSUME NEW j \in DOMAIN all, NEW k \in DOMAIN some, all[j] = some[k]
        PROVE  \/ first /\ all[j] = autosave
               \/ \E l \in DOMAIN rest : all[j] = rest[l]
    BY <2>1, <2>3
  <2>4. \A j \in DOMAIN all : \/ second /\ all[j] = exit
                              \/ first /\ all[j] = autosave
                              \/ \E k \in DOMAIN rest : all[j] = rest[k]
    BY <2>2, <2>3
  <2>5. QED
    BY <1>1, <1>2, <2>4
<1>10. ASSUME NEW why \in {"autosave", "exit"}
       PROVE  /\ IsAsking(all, why) <=> (IsAsking(rest, why) \/ Asks(p, rest, why))
              /\ Alone(rest, why) /\ (Asks(p, rest, why) => ~IsAsking(rest, why)) => Alone(all, why)
  <2>1. /\ Alone(rest, why) /\ (first /\ autosave.awaited = why => ~IsAsking(rest, why))
             => Alone(some, why)
        /\ IsAsking(some, why) <=> (IsAsking(rest, why) \/ (first /\ autosave.awaited = why))
    BY <1>5
  <2>2. /\ Alone(some, why) /\ (second /\ exit.awaited = why => ~IsAsking(some, why))
             => Alone(all, why)
        /\ IsAsking(all, why) <=> (IsAsking(some, why) \/ (second /\ exit.awaited = why))
    BY <1>7
  <2>3. why = "autosave" \/ why = "exit"
    OBVIOUS
  <2>4. QED
    BY <1>1, <1>4, <2>1, <2>2, <2>3
<1>11. QED
  BY <1>3, <1>8, <1>9, <1>10 DEF RequestsAdded

-----------------------------------------------------------------------------
(* What a step keeps *)

\* The same request, as far as the draft is concerned.
Same(a, b) ==
  /\ a.edits = b.edits /\ a.token = b.token /\ a.phase = b.phase
  /\ a.seen = b.seen /\ a.cleared = b.cleared

OthersKept(s) ==
  \A x \in Sessions \ {s} :
    frames'[x] = frames[x] /\ saves'[x] = saves[x] /\ panels'[x] = panels[x]

\* Steps of one session that do not write the draft.
LEMMA Keeps ==
  ASSUME Typed, \A x \in Sessions : SessionFits(x), NEW s \in Sessions,
         draft' = draft, Typed', OthersKept(s),
         frames'[s].session # "new", frames[s].edits \subseteq frames'[s].edits,
         frames'[s].token <= draft.updatedAt,
         frames'[s].token = draft.updatedAt => draft.edits \subseteq frames'[s].edits,
         \A j \in DOMAIN saves'[s] :
           \/ \E i \in DOMAIN saves[s] : Same(saves'[s][j], saves[s][i])
           \/ Fits(saves'[s][j], frames[s].edits)
  PROVE  \A x \in Sessions : SessionFits(x)'
<1>1. ASSUME NEW x \in Sessions \ {s} PROVE SessionFits(x)'
  BY <1>1 DEF OthersKept, SessionFits, FrameFits, NewIsIdle, Fits
<1>2. FrameFits(s)' /\ NewIsIdle(s)'
  BY DEF FrameFits, NewIsIdle
<1>3. ASSUME NEW j \in DOMAIN saves'[s] PROVE Fits(saves[s][j], frames[s].edits)'
  <2>1. Fits(saves'[s][j], frames[s].edits)
    BY <1>3 DEF SessionFits, Fits, Same
  <2>2. QED
    BY <2>1 DEF Fits
<1>4. SessionFits(s)'
  BY <1>2, <1>3 DEF SessionFits
<1>5. QED
  BY <1>1, <1>4

FrameTells(s, token) == frames' = [frames EXCEPT ![s].token = token]

TokenFits(s, token) ==
  /\ token <= draft.updatedAt
  /\ token = draft.updatedAt => draft.edits \subseteq frames[s].edits

KeptIn(rest, s) ==
  \A k \in DOMAIN rest : \E i \in DOMAIN saves[s] : Same(rest[k], saves[s][i])

\* A panel that goes on, its frame knowing the updatedAt it sends.
LEMMA ContinueKeeps ==
  ASSUME Typed, \A x \in Sessions : SessionFits(x), NEW s \in Sessions,
         NEW p, NEW rest \in Seq(Save), NEW token \in Nat, Continue(s, p, rest, token),
         draft' = draft, rewrites' = rewrites,
         FrameTells(s, token), frames[s].session # "new", TokenFits(s, token), KeptIn(rest, s)
  PROVE  SInv'
<1>1. RequestsAdded(s, p, rest, token)
  BY Continued
<1>2. /\ frames' \in [Sessions -> Frame]
      /\ \A x \in Sessions \ {s} : frames'[x] = frames[x]
      /\ frames'[s].session = frames[s].session /\ frames'[s].edits = frames[s].edits
      /\ frames'[s].token = token
  BY DEF Typed, Frame, Time, FrameTells
<1>3. Typed'
  BY <1>1, <1>2 DEF Typed, RequestsAdded
<1>4. OthersKept(s)
  BY <1>1, <1>2 DEF OthersKept, RequestsAdded
<1>5. ASSUME NEW j \in DOMAIN saves'[s]
      PROVE  \/ \E i \in DOMAIN saves[s] : Same(saves'[s][j], saves[s][i])
             \/ Fits(saves'[s][j], frames[s].edits)
  BY <1>1, <1>5 DEF Fits, RequestsAdded, Request, TokenFits, KeptIn
<1>6. \A x \in Sessions : SessionFits(x)'
  BY <1>2, <1>3, <1>4, <1>5, Keeps DEF TokenFits
<1>7. QED
  BY <1>3, <1>6 DEF SInv

\* A refused request is dropped or shows that it was refused.
LEMMA RefusedKeeps ==
  ASSUME Typed, \A x \in Sessions : SessionFits(x), NEW s \in Sessions,
         NEW i \in DOMAIN saves[s], NEW phase \in {"conflict", "refused"},
         Refused(s, i, phase), UNCHANGED <<draft, rewrites, frames, panels>>,
         frames[s].session # "new"
  PROVE  SInv'
<1> DEFINE q == saves[s]
           marked == [q EXCEPT ![i] = [q[i] EXCEPT !.phase = phase]]
<1>1. q \in Seq(Save) /\ i \in 1..Len(q) /\ q[i] \in Save
  BY LenProperties DEF Typed
<1>2. [q[i] EXCEPT !.phase = phase] \in Save
  BY <1>1 DEF Save, Time
<1>3. Fits([q[i] EXCEPT !.phase = phase], frames[s].edits)
  <2>1. Fits(q[i], frames[s].edits)
    BY DEF SessionFits
  <2>2. QED
    BY <1>1, <2>1 DEF Fits, Save, Time
<1>4. saves' = [saves EXCEPT ![s] = RemoveAt(q, i)] \/ saves' = [saves EXCEPT ![s] = marked]
  BY DEF Refused
<1>5. /\ marked \in Seq(Save)
      /\ \A j \in DOMAIN marked : (\E k \in DOMAIN q : Same(marked[j], q[k])) \/ Fits(marked[j], frames[s].edits)
  <2>1. /\ marked \in Seq(Save) /\ Len(marked) = Len(q)
        /\ \A j \in 1..Len(q) : marked[j] = IF j = i THEN [q[i] EXCEPT !.phase = phase] ELSE q[j]
    BY <1>1, <1>2, ExceptSeq
  <2>2. DOMAIN marked = 1..Len(q) /\ DOMAIN q = 1..Len(q)
    BY <1>1, <2>1, LenProperties
  <2> HIDE DEF marked, q
  <2>3. QED
    BY <1>3, <2>1, <2>2 DEF Same
<1>6. /\ RemoveAt(q, i) \in Seq(Save)
      /\ \A j \in DOMAIN RemoveAt(q, i) : \E k \in DOMAIN q : RemoveAt(q, i)[j] = q[k]
  BY <1>1, Removed
<1> HIDE DEF marked
<1>7. /\ saves' \in [Sessions -> Seq(Save)]
      /\ \A x \in Sessions \ {s} : saves'[x] = saves[x]
      /\ (saves'[s] = marked) \/ (saves'[s] = RemoveAt(q, i))
  BY <1>4, <1>5, <1>6 DEF Typed
<1>8. Typed' /\ OthersKept(s)
  BY <1>7 DEF Typed, OthersKept, PanelsOK
<1>9. \A j \in DOMAIN saves'[s] :
        \/ \E k \in DOMAIN saves[s] : Same(saves'[s][j], saves[s][k])
        \/ Fits(saves'[s][j], frames[s].edits)
  <2>1. CASE saves'[s] = marked
    BY <1>5, <2>1
  <2>2. CASE saves'[s] = RemoveAt(q, i)
    BY <1>6, <2>2 DEF Same
  <2>3. QED
    BY <1>7, <2>1, <2>2
<1>10. \A x \in Sessions : SessionFits(x)'
  <2>1. FrameFits(s)
    BY DEF SessionFits
  <2>2. QED
    BY <1>8, <1>9, <2>1, Keeps DEF FrameFits
<1>11. QED
  BY <1>8, <1>10 DEF SInv

-----------------------------------------------------------------------------
(* Authors, panels and frames *)

LEMMA FrameTypes ==
  ASSUME NEW f \in Frame, NEW held \in Content, NEW token \in Nat
  PROVE  [f EXCEPT !.session = "open", !.edits = held, !.token = token] \in Frame
BY DEF Frame, Time

LEMMA FrameEdited ==
  ASSUME NEW f \in Frame, NEW held \in Content
  PROVE  /\ [f EXCEPT !.edits = held] \in Frame
         /\ [f EXCEPT !.edits = held].session = f.session
         /\ [f EXCEPT !.edits = held].token = f.token
         /\ [f EXCEPT !.edits = held].edits = held
BY DEF Frame, Time

LEMMA OpenSessionOK ==
  ASSUME SInv, NEW s \in Sessions, OpenSession(s)
  PROVE  SInv'
<1>1. Typed
  BY DEF SInv
<1>2. Typed' /\ OthersKept(s) /\ saves'[s] = <<>>
  <2>1. frames' \in [Sessions -> Frame]
    <3>1. frames \in [Sessions -> Frame] /\ draft.edits \in Content /\ draft.updatedAt \in Nat
      BY <1>1 DEF Typed
    <3>2. frames' = [frames EXCEPT ![s] = [frames[s] EXCEPT !.session = "open", !.edits = draft.edits,
                                                            !.token = draft.updatedAt]]
      BY <3>1 DEF OpenSession, Frame, Time
    <3>3. QED
      BY <3>1, <3>2, FrameTypes
  <2>2. /\ UNCHANGED <<draft, rewrites, panels, saves>>
        /\ \A x \in Sessions \ {s} : frames'[x] = frames[x]
    BY <1>1 DEF OpenSession, Typed
  <2>3. saves[s] = <<>>
    BY DEF OpenSession, SInv, SessionFits, NewIsIdle
  <2>4. QED
    BY <1>1, <2>1, <2>2, <2>3 DEF Typed, OthersKept, PanelsOK
<1>3. /\ frames'[s].session = "open" /\ frames'[s].edits = draft.edits
      /\ frames'[s].token = draft.updatedAt
  BY <1>1 DEF OpenSession, Typed, Frame, Time
<1>4. SessionFits(s)'
  BY <1>1, <1>2, <1>3 DEF OpenSession, SessionFits, FrameFits, NewIsIdle, Typed
<1>5. ASSUME NEW x \in Sessions \ {s} PROVE SessionFits(x)'
  BY <1>2, <1>5 DEF OpenSession, SInv, OthersKept, SessionFits, FrameFits, NewIsIdle, Fits
<1>6. QED
  BY <1>2, <1>4, <1>5 DEF SInv

LEMMA EditStepOK ==
  ASSUME SInv, NEW s \in Sessions, NEW t \in Steps, EditStep(s, t),
         panels[s].generation + 1 \in 1..MaxEdits
  PROVE  SInv'
<1>1. Typed
  BY DEF SInv
<1>0. PICK edit : edit = [by |-> s, step |-> t, n |-> panels[s].generation + 1]
  OBVIOUS
<1>2. edit \in Edit
  BY <1>0 DEF Edit
<1>3. frames' = [frames EXCEPT ![s].edits = @ \union {edit}]
      /\ UNCHANGED <<draft, rewrites, saves>>
  BY <1>0 DEF EditStep
<1>4. /\ frames' \in [Sessions -> Frame]
      /\ \A x \in Sessions \ {s} : frames'[x] = frames[x]
      /\ frames'[s].session = frames[s].session /\ frames'[s].token = frames[s].token
      /\ frames'[s].edits = frames[s].edits \union {edit}
  <2>1. frames \in [Sessions -> Frame] /\ frames[s].edits \union {edit} \in Content
    BY <1>1, <1>2 DEF Typed, Frame, Content
  <2>2. PICK g : g = [frames[s] EXCEPT !.edits = frames[s].edits \union {edit}]
    OBVIOUS
  <2>3. frames' = [frames EXCEPT ![s] = g]
    BY <1>3, <2>2
  <2>4. /\ g \in Frame /\ g.session = frames[s].session
        /\ g.token = frames[s].token /\ g.edits = frames[s].edits \union {edit}
    <3>1. PICK f, h : f = frames[s] /\ h = frames[s].edits \union {edit}
      OBVIOUS
    <3>2. f \in Frame /\ h \in Content
      BY <2>1, <3>1
    <3>3. /\ [f EXCEPT !.edits = h] \in Frame
          /\ [f EXCEPT !.edits = h].session = f.session
          /\ [f EXCEPT !.edits = h].token = f.token
          /\ [f EXCEPT !.edits = h].edits = h
      BY <3>2, FrameEdited
    <3>4. g = [f EXCEPT !.edits = h]
      BY <2>2, <3>1
    <3>5. QED
      BY <3>1, <3>3, <3>4
  <2>5. QED
    BY <2>1, <2>3, <2>4
<1>5. /\ PanelsOK'
      /\ \A x \in Sessions \ {s} : panels'[x] = panels[x]
  BY <1>1 DEF EditStep, Typed, PanelsOK
<1>6. Typed' /\ OthersKept(s)
  BY <1>1, <1>3, <1>4, <1>5 DEF Typed, OthersKept
<1>7. frames[s].session # "new" /\ FrameFits(s) /\ \A x \in Sessions : SessionFits(x)
  BY DEF EditStep, IsOpen, SInv, SessionFits
<1>8. \A j \in DOMAIN saves'[s] : \E i \in DOMAIN saves[s] : Same(saves'[s][j], saves[s][i])
  BY <1>3 DEF Same
<1>9. /\ draft' = draft /\ frames'[s].session # "new" /\ frames[s].edits \subseteq frames'[s].edits
      /\ frames'[s].token <= draft.updatedAt
      /\ frames'[s].token = draft.updatedAt => draft.edits \subseteq frames'[s].edits
  BY <1>3, <1>4, <1>7 DEF FrameFits
<1>10. \A x \in Sessions : SessionFits(x)'
  BY <1>1, <1>6, <1>7, <1>8, <1>9, Keeps
<1>11. QED
  BY <1>6, <1>10 DEF SInv

\* The panel of a session that has not been opened is idle.
LEMMA Opened ==
  ASSUME SInv, NEW s \in Sessions,
         \/ panels[s].timer \/ panels[s].pending # 0 \/ panels[s].exit # "no"
         \/ panels[s].discarding \/ saves[s] # <<>>
  PROVE  frames[s].session # "new"
BY DEF SInv, SessionFits, NewIsIdle, NewPanel

LEMMA RemovedSame ==
  ASSUME NEW S, NEW q \in Seq(S), NEW i \in DOMAIN q
  PROVE  /\ RemoveAt(q, i) \in Seq(S)
         /\ \A j \in DOMAIN RemoveAt(q, i) :
              \E k \in DOMAIN q : Same(RemoveAt(q, i)[j], q[k])
<1>1. /\ RemoveAt(q, i) \in Seq(S)
      /\ \A j \in DOMAIN RemoveAt(q, i) : \E k \in DOMAIN q : RemoveAt(q, i)[j] = q[k]
  BY Removed
<1>2. \A a : Same(a, a)
  BY DEF Same
<1>3. QED
  BY <1>1, <1>2

\* Panels that go on without an answer: timer, Retry and Save & exit.
LEMMA UnansweredOK ==
  ASSUME SInv, NEW s \in Sessions, NEW p, Typed,
         NEW rest \in Seq(Save),
         KeptIn(rest, s), Continue(s, p, rest, frames[s].token),
         frames[s].session # "new", UNCHANGED <<draft, rewrites, frames>>
  PROVE  SInv'
<1>1. frames \in [Sessions -> Frame] /\ frames' = frames
  BY DEF Typed
<1>2. frames[s].token \in Nat /\ FrameTells(s, frames[s].token)
  BY <1>1 DEF Frame, Time, FrameTells
<1>3. TokenFits(s, frames[s].token) /\ \A x \in Sessions : SessionFits(x)
  BY DEF SInv, SessionFits, FrameFits, TokenFits
<1>4. draft' = draft /\ rewrites' = rewrites
  OBVIOUS
<1>5. QED
  BY <1>2, <1>3, <1>4, ContinueKeeps

LEMMA FlushAutoSaveOK ==
  ASSUME SInv, NEW s \in Sessions, FlushAutoSave(s)
  PROVE  SInv'
<1>1. Typed
  BY DEF SInv
<1>2. saves[s] \in Seq(Save) /\ KeptIn(saves[s], s)
  BY <1>1 DEF Typed, Same, KeptIn
<1>3. frames[s].session # "new"
  BY Opened DEF FlushAutoSave
<1>4. QED
  BY <1>1, <1>2, <1>3, UnansweredOK DEF FlushAutoSave

LEMMA SaveAndExitOK ==
  ASSUME SInv, NEW s \in Sessions, SaveAndExit(s)
  PROVE  SInv'
<1>1. Typed
  BY DEF SInv
<1>2. saves[s] \in Seq(Save) /\ KeptIn(saves[s], s)
  BY <1>1 DEF Typed, Same, KeptIn
<1>3. frames[s].session # "new" /\ UNCHANGED <<draft, rewrites, frames>>
  BY DEF SaveAndExit, IsOpen
<1>4. PICK p : Continue(s, p, saves[s], frames[s].token)
  BY DEF SaveAndExit
<1>5. QED
  BY <1>1, <1>2, <1>3, <1>4, UnansweredOK

LEMMA ReceiveAnswerOK ==
  ASSUME SInv, NEW s \in Sessions, NEW i, ReceiveAnswer(s, i)
  PROVE  SInv'
<1>1. Typed
  BY DEF SInv
<1>2. i \in DOMAIN saves[s] /\ saves[s] \in Seq(Save) /\ saves[s][i] \in Save
  <2>1. saves[s] \in Seq(Save) /\ i \in DOMAIN saves[s]
    BY <1>1 DEF Typed, ReceiveAnswer
  <2>2. QED
    BY <2>1, LenProperties
<1> DEFINE rest == RemoveAt(saves[s], i)
           token == saves[s][i].token
<1>3. PICK p : Continue(s, p, rest, token)
  BY DEF ReceiveAnswer
<1>4. FrameTells(s, token) /\ draft' = draft /\ rewrites' = rewrites
  BY DEF ReceiveAnswer, FrameTells
<1>5. rest \in Seq(Save) /\ KeptIn(rest, s)
  BY <1>2, RemovedSame DEF KeptIn
<1>6. token \in Nat /\ Fits(saves[s][i], frames[s].edits)
  BY <1>2 DEF Save, Time, SInv, SessionFits
<1>7. frames[s].session # "new"
  BY <1>2, Opened
<1> HIDE DEF rest
<1>8. TokenFits(s, token)
  BY <1>6 DEF Fits, TokenFits
<1> HIDE DEF token
<1>9. \A x \in Sessions : SessionFits(x)
  BY DEF SInv
<1>10. QED
  BY <1>1, <1>3, <1>4, <1>5, <1>6, <1>7, <1>8, <1>9, ContinueKeeps

LEMMA GiveUpOK ==
  ASSUME SInv, NEW s \in Sessions, NEW i, GiveUp(s, i)
  PROVE  SInv'
<1>1. Typed
  BY DEF SInv
<1> DEFINE q == saves[s]
           unawaited == [q EXCEPT ![i] = [q[i] EXCEPT !.awaited = "nobody"]]
<1>2. q \in Seq(Save) /\ i \in DOMAIN q
  BY <1>1 DEF Typed, GiveUp
<1>3. i \in 1..Len(q) /\ DOMAIN q = 1..Len(q) /\ q[i] \in Save
  BY <1>2, LenProperties
<1>4. UNCHANGED <<draft, rewrites, frames>>
  BY DEF GiveUp
<1>5. frames[s].session # "new"
  BY <1>2, Opened
<1>6. PICK p : \/ Continue(s, p, RemoveAt(q, i), frames[s].token)
               \/ Continue(s, p, unawaited, frames[s].token)
  BY DEF GiveUp
<1>7. unawaited \in Seq(Save) /\ KeptIn(unawaited, s)
  <2>1. PICK save : save = [q[i] EXCEPT !.awaited = "nobody"]
    OBVIOUS
  <2>2. save \in Save /\ Same(save, q[i])
    BY <1>3, <2>1 DEF Save, Time, Same
  <2>3. unawaited = [q EXCEPT ![i] = save]
    BY <2>1
  <2>4. /\ unawaited \in Seq(Save) /\ Len(unawaited) = Len(q)
        /\ \A j \in 1..Len(q) : unawaited[j] = IF j = i THEN save ELSE q[j]
    BY <1>2, <1>3, <2>2, <2>3, ExceptSeq
  <2>5. \A a : Same(a, a)
    BY DEF Same
  <2>6. DOMAIN unawaited = 1..Len(q)
    BY <2>4, LenProperties
  <2> HIDE DEF unawaited
  <2>7. QED
    BY <1>3, <2>2, <2>4, <2>5, <2>6 DEF KeptIn
<1>8. RemoveAt(q, i) \in Seq(Save) /\ KeptIn(RemoveAt(q, i), s)
  BY <1>2, RemovedSame DEF KeptIn
<1> HIDE DEF unawaited, q
<1>9. QED
  BY <1>1, <1>4, <1>5, <1>6, <1>7, <1>8, UnansweredOK

\* Sessions that end: their frame keeps its document, and what is out goes on.
LEMMA SessionEndsOK ==
  ASSUME SInv, NEW s \in Sessions, Typed,
         frames[s].session # "new", UNCHANGED <<draft, rewrites>>,
         NEW after \in {"open", "revoked"}, frames' = [frames EXCEPT ![s].session = after],
         NEW p, panels' = [panels EXCEPT ![s] = p],
         saves' = saves \/ saves' = [saves EXCEPT ![s] = Unawaited(saves[s])]
  PROVE  SInv'
<1>1. PICK g : g = [frames[s] EXCEPT !.session = after]
  OBVIOUS
<1>2. frames \in [Sessions -> Frame]
  BY DEF Typed
<1>3. /\ g \in Frame /\ g.session = after /\ g.edits = frames[s].edits
      /\ g.token = frames[s].token
  BY <1>1, <1>2 DEF Frame, Time
<1>4. frames' = [frames EXCEPT ![s] = g]
  BY <1>1
<1>5. /\ frames' \in [Sessions -> Frame] /\ frames'[s] = g
      /\ \A x \in Sessions \ {s} : frames'[x] = frames[x]
  BY <1>2, <1>3, <1>4
<1>6. PanelsOK' /\ \A x \in Sessions \ {s} : panels'[x] = panels[x]
  BY DEF Typed, PanelsOK
<1>7. saves[s] \in Seq(Save) /\ saves \in [Sessions -> Seq(Save)]
  BY DEF Typed
<1>8. /\ Unawaited(saves[s]) \in Seq(Save)
      /\ \A j \in DOMAIN Unawaited(saves[s]) :
           j \in DOMAIN saves[s] /\ Same(Unawaited(saves[s])[j], saves[s][j])
  <2>1. DOMAIN saves[s] = 1..Len(saves[s]) /\ Len(saves[s]) \in Nat
        /\ \A j \in 1..Len(saves[s]) : saves[s][j] \in Save
    BY <1>7, LenProperties
  <2>2. \A a \in Save : [a EXCEPT !.awaited = "nobody"] \in Save
                               /\ Same([a EXCEPT !.awaited = "nobody"], a)
    BY DEF Save, Time, Same
  <2>3. /\ DOMAIN Unawaited(saves[s]) = 1..Len(saves[s])
        /\ \A j \in 1..Len(saves[s]) :
             Unawaited(saves[s])[j] = [saves[s][j] EXCEPT !.awaited = "nobody"]
    BY <2>1 DEF Unawaited
  <2>4. Unawaited(saves[s]) \in [1..Len(saves[s]) -> Save]
    BY <2>1, <2>2 DEF Unawaited
  <2>5. PICK u, n : u = Unawaited(saves[s]) /\ n = Len(saves[s])
    OBVIOUS
  <2>6. u \in [1..n -> Save] /\ n \in Nat
    BY <2>1, <2>4, <2>5
  <2>7. u \in Seq(Save)
    BY <2>6
  <2>8. \A j \in 1..n : j \in DOMAIN saves[s] /\ Same(u[j], saves[s][j])
    BY <2>1, <2>2, <2>3, <2>5
  <2>9. QED
    BY <2>3, <2>5, <2>7, <2>8
<1>9. \A a : Same(a, a)
  BY DEF Same
<1>10. /\ saves' \in [Sessions -> Seq(Save)]
       /\ \A x \in Sessions \ {s} : saves'[x] = saves[x]
       /\ \A j \in DOMAIN saves'[s] : \E i \in DOMAIN saves[s] : Same(saves'[s][j], saves[s][i])
  BY <1>7, <1>8, <1>9
<1>11. Typed' /\ OthersKept(s)
  BY <1>5, <1>6, <1>10 DEF Typed, OthersKept
<1>12. /\ frames'[s].token <= draft.updatedAt
       /\ frames'[s].token = draft.updatedAt => draft.edits \subseteq frames'[s].edits
  BY <1>3, <1>5 DEF SInv, SessionFits, FrameFits
<1>13. \A x \in Sessions : SessionFits(x)
  BY DEF SInv
<1>14. \A x \in Sessions : SessionFits(x)'
  BY <1>3, <1>5, <1>10, <1>11, <1>12, <1>13, Keeps
<1>15. QED
  BY <1>11, <1>14 DEF SInv

LEMMA CloseOK ==
  ASSUME SInv, NEW s \in Sessions,
         \/ CloseSession(s) \/ CloseFails(s)
         \/ DiscardAndClose(s) \/ Discarded(s) \/ DiscardFails(s)
  PROVE  SInv'
<1>1. Typed
  BY DEF SInv
<1>2. frames[s].session # "new"
  <2>1. CASE panels[s].exit = "closing" \/ panels[s].discarding
    BY <2>1, Opened
  <2>2. CASE IsOpen(s)
    BY <2>2 DEF IsOpen
  <2>3. QED
    BY <2>1, <2>2 DEF CloseSession, CloseFails, DiscardAndClose, Discarded, DiscardFails
<1>3. frames[s].session \in {"open", "revoked"} /\ frames \in [Sessions -> Frame]
  BY <1>1, <1>2 DEF Typed, Frame, Time
<1>4. \E after \in {"open", "revoked"} : frames' = [frames EXCEPT ![s].session = after]
  <2>1. CASE DiscardAndClose(s)
    <3>1. frames' = [frames EXCEPT ![s].session = frames[s].session]
      BY <1>3, <2>1 DEF DiscardAndClose, Frame
    <3>2. QED
      BY <1>3, <3>1
  <2>2. QED
    BY <1>3, <2>1 DEF CloseSession, CloseFails, Discarded, DiscardFails
<1>5. \E p : panels' = [panels EXCEPT ![s] = p]
  BY DEF CloseSession, CloseFails, DiscardAndClose, Discarded, DiscardFails
<1>6. /\ UNCHANGED <<draft, rewrites>>
      /\ saves' = saves \/ saves' = [saves EXCEPT ![s] = Unawaited(saves[s])]
  BY DEF CloseSession, CloseFails, DiscardAndClose, Discarded, DiscardFails
<1>7. QED
  BY <1>1, <1>2, <1>4, <1>5, <1>6, SessionEndsOK

-----------------------------------------------------------------------------
(* The save route *)

LEMMA ReplacedOK ==
  ASSUME SInv, Typed, NEW s \in Sessions, NEW i \in DOMAIN saves[s],
         NEW save \in Save, Fits(save, frames[s].edits),
         saves' = [saves EXCEPT ![s] = [saves[s] EXCEPT ![i] = save]],
         UNCHANGED <<draft, rewrites, frames, panels>>
  PROVE  SInv'
<1> DEFINE q == saves[s]
           next == [q EXCEPT ![i] = save]
<1>1. q \in Seq(Save) /\ saves \in [Sessions -> Seq(Save)]
  BY DEF Typed
<1>2. i \in 1..Len(q) /\ DOMAIN q = 1..Len(q)
  BY <1>1, LenProperties
<1>3. /\ next \in Seq(Save) /\ Len(next) = Len(q)
      /\ \A j \in 1..Len(q) : next[j] = IF j = i THEN save ELSE q[j]
  BY <1>1, <1>2, ExceptSeq
<1>4. DOMAIN next = 1..Len(q)
  BY <1>3, LenProperties
<1>5. saves' = [saves EXCEPT ![s] = next]
  OBVIOUS
<1>6. \A a : Same(a, a)
  BY DEF Same
<1> HIDE DEF next
<1>7. /\ saves' \in [Sessions -> Seq(Save)] /\ saves'[s] = next
      /\ \A x \in Sessions \ {s} : saves'[x] = saves[x]
  BY <1>1, <1>3, <1>5
<1>8. Typed' /\ OthersKept(s)
  BY <1>7 DEF Typed, OthersKept, PanelsOK
<1>9. \A j \in DOMAIN saves'[s] :
        \/ \E k \in DOMAIN saves[s] : Same(saves'[s][j], saves[s][k])
        \/ Fits(saves'[s][j], frames[s].edits)
  BY <1>2, <1>3, <1>4, <1>6, <1>7
<1>10. /\ frames'[s].session # "new" /\ frames[s].edits \subseteq frames'[s].edits
       /\ frames'[s].token <= draft.updatedAt
       /\ frames'[s].token = draft.updatedAt => draft.edits \subseteq frames'[s].edits
  <2>1. frames[s].session # "new"
    BY <1>2, Opened
  <2>2. QED
    BY <2>1 DEF SInv, SessionFits, FrameFits
<1>11. \A x \in Sessions : SessionFits(x)
  BY DEF SInv
<1>12. draft' = draft
  OBVIOUS
<1>13. \A x \in Sessions : SessionFits(x)'
  BY <1>8, <1>9, <1>10, <1>11, <1>12, Keeps
<1>14. QED
  BY <1>8, <1>13 DEF SInv

\* The request that the route works on.
LEMMA Requested ==
  ASSUME SInv, Typed, NEW s \in Sessions, NEW i \in DOMAIN saves[s]
  PROVE  /\ saves[s][i] \in Save /\ Fits(saves[s][i], frames[s].edits)
         /\ frames[s].session # "new" /\ draft.edits \in Content
         /\ \A x \in Sessions : SessionFits(x)
<1>1. saves[s] \in Seq(Save) /\ draft.edits \in Content
  BY DEF Typed
<1>2. saves[s][i] \in Save /\ saves[s] # <<>>
  BY <1>1, LenProperties
<1>3. frames[s].session # "new"
  BY <1>2, Opened
<1>4. QED
  BY <1>1, <1>2, <1>3 DEF SInv, SessionFits

LEMMA RefusalOK ==
  ASSUME SInv, NEW s \in Sessions, NEW i \in DOMAIN saves[s], NEW phase \in {"conflict", "refused"},
         Refused(s, i, phase), UNCHANGED <<draft, rewrites, frames, panels>>
  PROVE  SInv'
<1>1. Typed
  BY DEF SInv
<1>2. frames[s].session # "new" /\ \A x \in Sessions : SessionFits(x)
  BY <1>1, Requested
<1>3. QED
  BY <1>1, <1>2, RefusedKeeps

LEMMA ReadDraftOK ==
  ASSUME SInv, NEW s \in Sessions, NEW i, ReadDraft(s, i)
  PROVE  SInv'
<1>1. Typed
  BY DEF SInv
<1>2. i \in DOMAIN saves[s] /\ UNCHANGED <<draft, rewrites, frames, panels>>
  BY DEF ReadDraft
<1>3. PICK save : save = [saves[s][i] EXCEPT !.seen = draft.edits, !.phase = "read"]
  OBVIOUS
<1>4. CASE Refused(s, i, "refused")
  BY <1>2, <1>4, RefusalOK
<1>5. CASE saves' = [saves EXCEPT ![s][i].seen = draft.edits, ![s][i].phase = "read"]
  <2>1. PICK old : old = saves[s][i]
    OBVIOUS
  <2>2. old \in Save /\ Fits(old, frames[s].edits) /\ draft.edits \in Content
    BY <1>1, <1>2, <2>1, Requested
  <2>3. save = [old EXCEPT !.seen = draft.edits, !.phase = "read"]
    BY <1>3, <2>1
  <2>4. save \in Save /\ Fits(save, frames[s].edits)
    BY <2>2, <2>3 DEF Save, Time, Fits
  <2>5. saves' = [saves EXCEPT ![s] = [saves[s] EXCEPT ![i] = save]]
    <3>1. saves \in [Sessions -> Seq(Save)]
      BY <1>1 DEF Typed
    <3>2. QED
      BY <1>2, <1>3, <1>5, <3>1
  <2>6. QED
    BY <1>1, <1>2, <2>4, <2>5, ReplacedOK
<1>6. QED
  BY <1>4, <1>5 DEF ReadDraft

LEMMA CheckStepLocksOK ==
  ASSUME SInv, NEW s \in Sessions, NEW i, CheckStepLocks(s, i)
  PROVE  SInv'
<1>1. Typed
  BY DEF SInv
<1>2. /\ i \in DOMAIN saves[s] /\ saves[s][i].phase = "read"
      /\ UNCHANGED <<draft, rewrites, frames, panels>>
  BY DEF CheckStepLocks
<1>3. PICK old, changed : old = saves[s][i] /\ changed = ChangedSteps(saves[s][i].seen, saves[s][i].edits)
  OBVIOUS
<1>4. CASE Refused(s, i, "refused")
  BY <1>2, <1>4, RefusalOK
<1>5. CASE saves' = [saves EXCEPT ![s][i].cleared = changed, ![s][i].phase = "checked"]
  <2>1. PICK save : save = [old EXCEPT !.cleared = changed, !.phase = "checked"]
    OBVIOUS
  <2>2. old \in Save /\ Fits(old, frames[s].edits) /\ old.phase = "read"
    BY <1>1, <1>2, <1>3, Requested
  <2>3. changed = ChangedSteps(old.seen, old.edits) /\ changed \subseteq Steps
    BY <1>3, <2>2 DEF ChangedSteps, Save, Content, Edit
  <2>4. save \in Save /\ save.cleared = changed /\ save.edits = old.edits
        /\ save.token = old.token /\ save.phase = "checked"
    BY <2>1, <2>2, <2>3 DEF Save, Time
  <2>5. Fits(save, frames[s].edits)
    BY <2>2, <2>3, <2>4 DEF Fits
  <2>6. saves' = [saves EXCEPT ![s] = [saves[s] EXCEPT ![i] = save]]
    <3>1. saves \in [Sessions -> Seq(Save)]
      BY <1>1 DEF Typed
    <3>2. QED
      BY <1>2, <1>3, <1>5, <2>1, <3>1
  <2>7. QED
    BY <1>1, <1>2, <2>4, <2>5, <2>6, ReplacedOK
<1>6. QED
  BY <1>3, <1>4, <1>5 DEF CheckStepLocks

LEMMA LoseRequestOK ==
  ASSUME SInv, NEW s \in Sessions, NEW i, LoseRequest(s, i)
  PROVE  SInv'
<1>1. /\ i \in DOMAIN saves[s] /\ Refused(s, i, "refused")
      /\ UNCHANGED <<draft, rewrites, frames, panels>>
  BY DEF LoseRequest
<1>2. QED
  BY <1>1, RefusalOK

-----------------------------------------------------------------------------
(* Writes of the draft *)

\* A new updatedAt makes everything known before it old.
LEMMA DraftMoves ==
  ASSUME SInv, Typed, Typed',
         draft'.updatedAt = draft.updatedAt + 1,
         \A x \in Sessions :
           /\ frames'[x].session = frames[x].session /\ frames'[x].token = frames[x].token
           /\ panels'[x] = panels[x]
           /\ saves[x] = <<>> => saves'[x] = <<>>
           /\ \A j \in DOMAIN saves'[x] :
                \/ \E k \in DOMAIN saves[x] : saves'[x][j].token = saves[x][k].token
                \/ /\ saves'[x][j].token = draft'.updatedAt
                   /\ saves'[x][j].phase = "stored"
                   /\ saves'[x][j].edits = draft'.edits
                   /\ saves'[x][j].edits \subseteq frames'[x].edits
  PROVE  SInv'
<1>1. draft.updatedAt \in Nat
  BY DEF Typed
<1>2. ASSUME NEW x \in Sessions PROVE SessionFits(x)'
  <2>1. SessionFits(x) /\ frames[x].token \in Nat
    BY <1>2 DEF SInv, Typed, Frame, Time
  <2>2. FrameFits(x)'
    BY <1>1, <2>1 DEF SessionFits, FrameFits
  <2>3. NewIsIdle(x)'
    BY <2>1 DEF SessionFits, NewIsIdle
  <2>4. ASSUME NEW j \in DOMAIN saves'[x] PROVE Fits(saves[x][j], frames[x].edits)'
    <3>1. CASE \E k \in DOMAIN saves[x] : saves'[x][j].token = saves[x][k].token
      <4>1. PICK k \in DOMAIN saves[x] : saves'[x][j].token = saves[x][k].token
        BY <3>1
      <4>2. saves[x][k].token <= draft.updatedAt /\ saves[x][k].token \in Nat
        BY <2>1, Requested DEF SessionFits, Fits, Save, Time
      <4>3. saves'[x][j].token <= draft'.updatedAt /\ saves'[x][j].token # draft'.updatedAt
        BY <1>1, <4>1, <4>2
      <4>4. QED
        BY <4>3 DEF Fits
    <3>2. CASE /\ saves'[x][j].token = draft'.updatedAt
               /\ saves'[x][j].phase = "stored"
               /\ saves'[x][j].edits = draft'.edits
               /\ saves'[x][j].edits \subseteq frames'[x].edits
      <4>1. saves'[x][j].token <= draft'.updatedAt
        BY <1>1, <3>2
      <4>2. QED
        BY <3>2, <4>1 DEF Fits
    <3>3. QED
      BY <2>4, <3>1, <3>2
  <2>5. QED
    BY <2>2, <2>3, <2>4 DEF SessionFits
<1>3. QED
  BY <1>2 DEF SInv

LEMMA WrittenType ==
  ASSUME Typed, NEW edits \in Content, NEW author \in Sessions \union {NoOne}
  PROVE  /\ Written(edits, author) \in
              [edits : Content, updatedAt : Nat, by : Sessions \union {NoOne}]
         /\ Written(edits, author).updatedAt = draft.updatedAt + 1
         /\ Written(edits, author).edits = edits
BY DEF Written, Typed

LEMMA RewriteOK ==
  ASSUME SInv, Rewrite
  PROVE  SInv'
<1>1. Typed
  BY DEF SInv
<1>2. PICK edits \in rewrites : draft' = Written(edits, NoOne) /\ rewrites' = rewrites \ {edits}
      /\ UNCHANGED <<frames, panels, saves>>
  BY DEF Rewrite
<1>3. edits \in Content
  BY <1>1 DEF Typed
<1>4. draft' \in [edits : Content, updatedAt : Nat, by : Sessions \union {NoOne}]
      /\ draft'.updatedAt = draft.updatedAt + 1
  BY <1>1, <1>2, <1>3, WrittenType
<1>5. Typed'
  BY <1>1, <1>2, <1>4 DEF Typed, PanelsOK
<1>6. QED
  BY <1>1, <1>2, <1>4, <1>5, DraftMoves

LEMMA SaveDocumentOK ==
  ASSUME SInv, NEW s \in Sessions, NEW i, SaveDocument(s, i)
  PROVE  SInv'
<1>1. Typed
  BY DEF SInv
<1>2. i \in DOMAIN saves[s] /\ UNCHANGED <<rewrites, frames, panels>>
  BY DEF SaveDocument
<1>3. CASE Refused(s, i, "conflict") /\ UNCHANGED draft
  BY <1>2, <1>3, RefusalOK
<1>4. CASE /\ SaveExpected(saves[s][i].token)
           /\ draft' = Written(saves[s][i].edits, s)
           /\ saves' = [saves EXCEPT ![s][i].phase = "stored", ![s][i].token = draft'.updatedAt]
  <2>1. PICK old : old = saves[s][i]
    OBVIOUS
  <2>2. old \in Save /\ Fits(old, frames[s].edits)
    BY <1>1, <1>2, <2>1, Requested
  <2>3. old.edits \subseteq frames[s].edits /\ old.edits \in Content
    BY <1>4, <2>1, <2>2 DEF Fits, SaveExpected, Save, Time
  <2>4. /\ draft' \in [edits : Content, updatedAt : Nat, by : Sessions \union {NoOne}]
        /\ draft'.updatedAt = draft.updatedAt + 1 /\ draft'.edits = old.edits
    <3>1. PICK content : content = old.edits
      OBVIOUS
    <3>2. draft' = Written(content, s) /\ content \in Content
      BY <1>4, <2>1, <2>3, <3>1
    <3>3. s \in Sessions \union {NoOne}
      OBVIOUS
    <3>4. QED
      BY <1>1, <3>1, <3>2, <3>3, WrittenType
  <2>5. PICK time \in Nat : time = draft'.updatedAt
    BY <2>4
  <2>6. PICK save : save = [old EXCEPT !.phase = "stored", !.token = time]
    OBVIOUS
  <2>7. save \in Save /\ save.token = time /\ save.phase = "stored" /\ save.edits = old.edits
    BY <2>2, <2>6 DEF Save, Time
  <2>8. saves \in [Sessions -> Seq(Save)]
    BY <1>1 DEF Typed
  <2>9. saves' = [saves EXCEPT ![s] = [saves[s] EXCEPT ![i] = save]]
    BY <1>2, <1>4, <2>1, <2>5, <2>6, <2>8
  <2> DEFINE next == [saves[s] EXCEPT ![i] = save]
  <2>10. saves[s] \in Seq(Save) /\ i \in 1..Len(saves[s])
    BY <1>2, <2>8, LenProperties
  <2>11. /\ next \in Seq(Save) /\ Len(next) = Len(saves[s])
         /\ \A j \in 1..Len(saves[s]) : next[j] = IF j = i THEN save ELSE saves[s][j]
    BY <2>7, <2>10, ExceptSeq
  <2>12. DOMAIN next = 1..Len(saves[s]) /\ DOMAIN saves[s] = 1..Len(saves[s])
    BY <2>10, <2>11, LenProperties
  <2> HIDE DEF next
  <2>13. /\ saves' \in [Sessions -> Seq(Save)] /\ saves'[s] = next
         /\ \A x \in Sessions \ {s} : saves'[x] = saves[x]
    BY <2>8, <2>9, <2>11 DEF next
  <2>14. Typed'
    BY <1>1, <1>2, <2>4, <2>13 DEF Typed, PanelsOK
  <2>15. saves[s] # <<>>
    BY <2>10
  <2>16. ASSUME NEW x \in Sessions
         PROVE  /\ saves[x] = <<>> => saves'[x] = <<>>
                /\ \A j \in DOMAIN saves'[x] :
                     \/ \E k \in DOMAIN saves[x] : saves'[x][j].token = saves[x][k].token
                     \/ /\ saves'[x][j].token = draft'.updatedAt
                        /\ saves'[x][j].phase = "stored"
                        /\ saves'[x][j].edits = draft'.edits
                        /\ saves'[x][j].edits \subseteq frames'[x].edits
    <3>1. CASE x # s
      BY <2>13, <3>1
    <3>2. CASE x = s
      BY <1>2, <2>3, <2>4, <2>5, <2>7, <2>11, <2>12, <2>13, <2>15, <3>2
    <3>3. QED
      BY <3>1, <3>2
  <2>17. QED
    BY <1>1, <1>2, <2>4, <2>14, <2>16, DraftMoves
<1>5. QED
  BY <1>3, <1>4 DEF SaveDocument

\* Steps that change nothing the invariant speaks of but a frame's Brand review.
LEMMA ReviewOK ==
  ASSUME SInv, NEW s \in Sessions, NEW g,
         frames' = [frames EXCEPT ![s] = g],
         g.session = frames[s].session, g.edits = frames[s].edits, g.token = frames[s].token,
         Typed, g \in Frame, UNCHANGED <<draft, rewrites, panels, saves>>
  PROVE  SInv'
<1>1. frames \in [Sessions -> Frame]
  BY DEF Typed
<1>2. /\ frames' \in [Sessions -> Frame] /\ frames'[s] = g
      /\ \A x \in Sessions \ {s} : frames'[x] = frames[x]
  BY <1>1
<1>3. Typed'
  BY <1>2 DEF Typed, PanelsOK
<1>4. ASSUME NEW x \in Sessions PROVE SessionFits(x)'
  <2>1. /\ frames'[x].session = frames[x].session /\ frames'[x].edits = frames[x].edits
        /\ frames'[x].token = frames[x].token
    BY <1>2
  <2>2. SessionFits(x)
    BY DEF SInv
  <2>3. QED
    BY <2>1, <2>2 DEF SessionFits, FrameFits, NewIsIdle, Fits
<1>5. QED
  BY <1>3, <1>4 DEF SInv

LEMMA CheckBrandOK ==
  ASSUME SInv, NEW s \in Sessions, CheckBrand(s)
  PROVE  SInv'
<1>1. Typed
  BY DEF SInv
<1>2. PICK f, g : f = frames[s] /\ g = [f EXCEPT !.reviewed = draft.updatedAt]
  OBVIOUS
<1>3. f \in Frame /\ draft.updatedAt \in Nat
  BY <1>1, <1>2 DEF Typed
<1>4. /\ g \in Frame /\ g.session = f.session /\ g.edits = f.edits /\ g.token = f.token
  BY <1>2, <1>3 DEF Frame, Time
<1>5. frames' = [frames EXCEPT ![s] = g] /\ UNCHANGED <<draft, rewrites, panels, saves>>
  BY <1>2 DEF CheckBrand
<1>6. QED
  BY <1>1, <1>2, <1>4, <1>5, ReviewOK

LEMMA SendAcknowledgementOK ==
  ASSUME SInv, NEW s \in Sessions, SendAcknowledgement(s)
  PROVE  SInv'
<1>1. Typed
  BY DEF SInv
<1>2. PICK f, g : f = frames[s] /\ g = [f EXCEPT !.acks = {[edits |-> f.edits, token |-> f.reviewed]}]
  OBVIOUS
<1>3. f \in Frame
  BY <1>1, <1>2 DEF Typed
<1>4. /\ g \in Frame /\ g.session = f.session /\ g.edits = f.edits /\ g.token = f.token
  BY <1>2, <1>3 DEF Frame, Time
<1>5. frames' = [frames EXCEPT ![s] = g] /\ UNCHANGED <<draft, rewrites, panels, saves>>
  BY <1>2 DEF SendAcknowledgement
<1>6. QED
  BY <1>1, <1>2, <1>4, <1>5, ReviewOK

LEMMA AcknowledgeDocumentThemeOK ==
  ASSUME SInv, NEW s \in Sessions, AcknowledgeDocumentTheme(s)
  PROVE  SInv'
<1>1. Typed
  BY DEF SInv
<1>2. PICK f : f = frames[s]
  OBVIOUS
<1>3. f \in Frame /\ frames \in [Sessions -> Frame] /\ draft.updatedAt \in Nat
  BY <1>1, <1>2 DEF Typed
<1>4. PICK ack \in f.acks :
        \/ /\ draft' = Written(ack.edits, s)
           /\ frames' = [frames EXCEPT ![s].edits = ack.edits, ![s].acks = {},
                                       ![s].reviewed = draft'.updatedAt]
        \/ frames' = [frames EXCEPT ![s].acks = {}] /\ UNCHANGED draft
  BY <1>2 DEF AcknowledgeDocumentTheme
<1>5. UNCHANGED <<rewrites, panels, saves>>
  BY DEF AcknowledgeDocumentTheme
<1>6. CASE frames' = [frames EXCEPT ![s].acks = {}] /\ UNCHANGED draft
  <2>1. PICK g : g = [f EXCEPT !.acks = {}]
    OBVIOUS
  <2>2. g \in Frame /\ g.session = f.session /\ g.edits = f.edits /\ g.token = f.token
    BY <1>3, <2>1 DEF Frame, Time
  <2>3. frames' = [frames EXCEPT ![s] = g]
    BY <1>2, <1>6, <2>1
  <2>4. UNCHANGED <<draft, rewrites, panels, saves>>
    BY <1>5, <1>6
  <2>5. QED
    BY <1>1, <1>2, <2>2, <2>3, <2>4, ReviewOK
<1>7. CASE /\ draft' = Written(ack.edits, s)
           /\ frames' = [frames EXCEPT ![s].edits = ack.edits, ![s].acks = {},
                                       ![s].reviewed = draft'.updatedAt]
  <2>1. PICK content : content = ack.edits
    OBVIOUS
  <2>2. content \in Content
    BY <1>3, <1>4, <2>1 DEF Frame, Time
  <2>3. draft' = Written(content, s) /\ s \in Sessions \union {NoOne}
    BY <1>7, <2>1
  <2>4. /\ draft' \in [edits : Content, updatedAt : Nat, by : Sessions \union {NoOne}]
        /\ draft'.updatedAt = draft.updatedAt + 1
    BY <1>1, <2>2, <2>3, WrittenType
  <2>5. PICK time \in Nat : time = draft'.updatedAt
    BY <2>4
  <2>6. PICK g : g = [f EXCEPT !.edits = content, !.acks = {}, !.reviewed = time]
    OBVIOUS
  <2>7. g \in Frame /\ g.session = f.session /\ g.token = f.token
    BY <1>3, <2>2, <2>6 DEF Frame, Time
  <2>8. frames' = [frames EXCEPT ![s] = g]
    BY <1>2, <1>3, <1>7, <2>1, <2>5, <2>6
  <2>9. /\ frames' \in [Sessions -> Frame] /\ frames'[s] = g
        /\ \A x \in Sessions \ {s} : frames'[x] = frames[x]
    BY <1>3, <2>7, <2>8
  <2>10. Typed'
    BY <1>1, <1>5, <2>4, <2>9 DEF Typed, PanelsOK
  <2>11. \A x \in Sessions : frames'[x].session = frames[x].session /\ frames'[x].token = frames[x].token
    BY <1>2, <2>7, <2>9
  <2>12. QED
    BY <1>1, <1>5, <2>4, <2>10, <2>11, DraftMoves
<1>8. QED
  BY <1>4, <1>6, <1>7

LEMMA ForRewriteOK ==
  ASSUME SInv, ReadForRewrite \/ ChangeForRewrite
  PROVE  SInv'
<1>1. Typed
  BY DEF SInv
<1>2. UNCHANGED <<draft, frames, panels, saves>>
      /\ \E edits \in SUBSET draft.edits : rewrites' = rewrites \union {edits}
  BY DEF ReadForRewrite, ChangeForRewrite
<1>3. \A edits \in SUBSET draft.edits : edits \in Content
  BY <1>1 DEF Typed, Content
<1>4. Typed'
  BY <1>1, <1>2, <1>3 DEF Typed, PanelsOK
<1>5. QED
  BY <1>2, <1>4 DEF SInv, SessionFits, FrameFits, NewIsIdle, Fits

LEMMA UnchangedOK ==
  ASSUME SInv, UNCHANGED <<draft, rewrites, frames, panels, saves>>
  PROVE  SInv'
<1>1. Typed
  BY DEF SInv
<1>2. Typed'
  BY <1>1 DEF Typed, PanelsOK
<1>3. QED
  BY <1>2 DEF SInv, SessionFits, FrameFits, NewIsIdle, Fits

-----------------------------------------------------------------------------
(* The panels' queues *)

Quiet(p) ==
  p.exit = "no" /\ p.chain = <<>> /\ p.pending = 0 /\ ~p.timer /\ ~p.discarding

\* A panel that shows that it saves has a timer, an exit, a discard, or its
\* newest generation at the end of its chain.
UnderWay(p) ==
  \/ p.pending # 0 /\ p.timer
  \/ p.exit # "no" \/ p.discarding
  \/ p.pending = 0 /\ p.chain # <<>> /\ p.chain[Len(p.chain)] = p.generation

Sound(p) ==
  /\ p \in Panel
  /\ p.timer => p.pending # 0
  /\ p.pending \in {0, p.generation}
  /\ \A j \in DOMAIN p.chain : p.chain[j] <= p.generation
  /\ p.exit # "no" => p.kept <= p.generation
  /\ p.label \in {"closed", "discarded"} => Quiet(p)
  /\ p.label \in {"saving", "retrying"} => UnderWay(p)

\* The panel's chain and exit match the requests that are awaited.
QueueFits(p, q) ==
  /\ Alone(q, "autosave") /\ Alone(q, "exit")
  /\ p.chain # <<>> <=> IsAsking(q, "autosave")
  /\ p.exit = "saving" <=> IsAsking(q, "exit")
  /\ p.exit \in {"flushing", "draining"} => p.waits \in 1..Len(p.chain)

\* The same before the panel goes on.
GoesOn(p, rest) ==
  /\ Alone(rest, "autosave") /\ Alone(rest, "exit")
  /\ IsAsking(rest, "autosave") => p.chain # <<>>
  /\ p.exit = "saving" <=> IsAsking(rest, "exit")
  /\ p.exit \in {"flushing", "draining"} => p.waits \in 0..Len(p.chain)

-----------------------------------------------------------------------------
(* What happens to a panel *)

LEMMA ChainAppended ==
  ASSUME NEW c \in Seq(1..MaxEdits), NEW n \in 1..MaxEdits
  PROVE  /\ Append(c, n) \in Seq(1..MaxEdits) /\ Append(c, n) # <<>>
         /\ Len(Append(c, n)) = Len(c) + 1 /\ Len(c) \in Nat
         /\ Append(c, n)[Len(Append(c, n))] = n
         /\ \A j \in DOMAIN Append(c, n) :
              \/ j \in DOMAIN c /\ Append(c, n)[j] = c[j]
              \/ Append(c, n)[j] = n
         /\ c # <<>> => Head(Append(c, n)) = Head(c)
         /\ c = <<>> => Head(Append(c, n)) = n
<1> DEFINE t == Append(c, n)
<1>1. Len(c) \in Nat /\ DOMAIN c = 1..Len(c) /\ (c # <<>> => Len(c) # 0)
  BY EmptySeq, LenProperties
<1>2. /\ t \in Seq(1..MaxEdits) /\ Len(t) = Len(c) + 1
      /\ \A j \in 1..Len(c) : t[j] = c[j]
      /\ t[Len(c) + 1] = n
  BY AppendProperties
<1>3. t # <<>> /\ DOMAIN t = 1..(Len(c) + 1) /\ Head(t) = t[1] /\ Head(c) = c[1]
  BY <1>1, <1>2
<1> HIDE DEF t
<1>4. \A j \in DOMAIN t : j \in DOMAIN c \/ j = Len(c) + 1
  BY <1>1, <1>3
<1>5. c # <<>> => 1 \in 1..Len(c)
  BY <1>1
<1>6. c = <<>> => Len(c) = 0
  BY EmptySeq
<1>7. QED
  BY <1>1, <1>2, <1>3, <1>4, <1>5, <1>6 DEF t

LEMMA NoLength ==
  ASSUME NEW S, NEW t \in Seq(S)
  PROVE  /\ Len(t) \in Nat /\ DOMAIN t = 1..Len(t)
         /\ t = <<>> <=> Len(t) = 0
BY EmptySeq, LenProperties

LEMMA ChainTail ==
  ASSUME NEW c \in Seq(1..MaxEdits), c # <<>>
  PROVE  /\ Tail(c) \in Seq(1..MaxEdits) /\ Len(Tail(c)) = Len(c) - 1 /\ Len(c) \in Nat \ {0}
         /\ Head(c) \in 1..MaxEdits /\ 1 \in DOMAIN c /\ Head(c) = c[1]
         /\ \A j \in DOMAIN Tail(c) : \E k \in DOMAIN c : Tail(c)[j] = c[k]
         /\ Tail(c) # <<>> => Tail(c)[Len(Tail(c))] = c[Len(c)]
         /\ Tail(c) = <<>> => c[Len(c)] = Head(c)
<1>1. Len(c) \in Nat \ {0} /\ DOMAIN c = 1..Len(c) /\ \A j \in 1..Len(c) : c[j] \in 1..MaxEdits
  BY EmptySeq, LenProperties
<1>2. /\ Tail(c) \in Seq(1..MaxEdits) /\ Len(Tail(c)) = Len(c) - 1
      /\ \A j \in 1..(Len(c) - 1) : Tail(c)[j] = c[j + 1]
  BY <1>1
<1>3. Head(c) = c[1]
  BY <1>1
<1>4. DOMAIN Tail(c) = 1..(Len(c) - 1) /\ \A j \in 1..(Len(c) - 1) : j + 1 \in 1..Len(c)
  BY <1>1, <1>2
<1>5. Tail(c) = <<>> <=> Len(c) = 1
  <2>1. Tail(c) = <<>> <=> Len(Tail(c)) = 0
    BY <1>2, NoLength
  <2>2. QED
    BY <1>1, <1>2, <2>1
<1>6. Len(c) # 1 => Len(c) - 1 \in 1..(Len(c) - 1) /\ (Len(c) - 1) + 1 = Len(c)
  BY <1>1
<1>7. QED
  BY <1>1, <1>2, <1>3, <1>4, <1>5, <1>6

LEMMA FlushedSound ==
  ASSUME NEW p, Sound(p)
  PROVE  LET f == Flushed(p)
         IN /\ f \in Panel /\ f.timer = FALSE /\ f.pending = 0
            /\ f.generation = p.generation /\ f.persisted = p.persisted /\ f.exit = p.exit
            /\ f.waits = p.waits /\ f.kept = p.kept /\ f.own = p.own
            /\ f.discarding = p.discarding
            /\ p.pending = 0 => f.chain = p.chain /\ f.label = p.label
            /\ p.pending # 0 => f.label = "saving" /\ f.chain[Len(f.chain)] = f.generation
                                /\ f.chain # <<>>
            /\ \A j \in DOMAIN f.chain : f.chain[j] <= p.generation
            /\ Len(f.chain) >= Len(p.chain) /\ Len(p.chain) \in Nat /\ Len(f.chain) \in Nat
            /\ p.chain # <<>> => f.chain # <<>> /\ Head(f.chain) = Head(p.chain)
<1>1. p \in Panel /\ p.chain \in Seq(1..MaxEdits) /\ p.generation \in 0..MaxEdits
  BY DEF Sound, Panel
<1>2. CASE p.pending = 0
  <2>1. Flushed(p) = [p EXCEPT !.timer = FALSE]
    BY <1>2 DEF Flushed
  <2>2. Len(p.chain) \in Nat
    BY <1>1, NoLength
  <2>3. /\ Flushed(p) \in Panel /\ Flushed(p).chain = p.chain /\ Flushed(p).label = p.label
        /\ Flushed(p).timer = FALSE /\ Flushed(p).pending = p.pending
        /\ Flushed(p).generation = p.generation /\ Flushed(p).persisted = p.persisted
        /\ Flushed(p).exit = p.exit /\ Flushed(p).waits = p.waits /\ Flushed(p).kept = p.kept
        /\ Flushed(p).own = p.own /\ Flushed(p).discarding = p.discarding
    BY <1>1, <2>1 DEF Panel
  <2>4. \A j \in DOMAIN p.chain : p.chain[j] <= p.generation
    BY DEF Sound
  <2>5. QED
    BY <1>1, <1>2, <2>2, <2>3, <2>4
<1>3. CASE p.pending # 0
  <2> DEFINE c == Append(p.chain, p.generation)
  <2>1. p.pending = p.generation /\ p.generation \in 1..MaxEdits
    BY <1>1, <1>3, BoundsAssumption DEF Sound
  <2>2. /\ c \in Seq(1..MaxEdits) /\ c # <<>> /\ Len(c) = Len(p.chain) + 1 /\ Len(p.chain) \in Nat
        /\ c[Len(c)] = p.generation
        /\ \A j \in DOMAIN c : (j \in DOMAIN p.chain /\ c[j] = p.chain[j]) \/ c[j] = p.generation
        /\ p.chain # <<>> => Head(c) = Head(p.chain)
    BY <1>1, <2>1, ChainAppended
  <2>3. \A j \in DOMAIN c : c[j] <= p.generation
    BY <2>1, <2>2, BoundsAssumption DEF Sound
  <2>4. Flushed(p) = [p EXCEPT !.timer = FALSE, !.pending = 0, !.label = "saving", !.chain = c]
    BY <1>3, <2>1 DEF Flushed
  <2> HIDE DEF c
  <2>5. 0 \in 0..MaxEdits /\ Len(c) >= Len(p.chain) /\ Len(c) \in Nat
    BY <2>2, BoundsAssumption
  <2>6. /\ Flushed(p) \in Panel /\ Flushed(p).chain = c /\ Flushed(p).label = "saving"
        /\ Flushed(p).timer = FALSE /\ Flushed(p).pending = 0
        /\ Flushed(p).generation = p.generation /\ Flushed(p).persisted = p.persisted
        /\ Flushed(p).exit = p.exit /\ Flushed(p).waits = p.waits /\ Flushed(p).kept = p.kept
        /\ Flushed(p).own = p.own /\ Flushed(p).discarding = p.discarding
    BY <1>1, <2>2, <2>4, <2>5 DEF Panel
  <2>7. QED
    BY <1>3, <2>2, <2>3, <2>5, <2>6
<1>4. QED
  BY <1>2, <1>3

Waited(p) == IF p.waits > 0 THEN p.waits - 1 ELSE 0

LEMMA PersistedSound ==
  ASSUME NEW p, Sound(p), p.chain # <<>>
  PROVE  LET f == Persisted(p)
         IN /\ Sound(f) /\ f.generation = p.generation /\ f.exit = p.exit /\ f.kept = p.kept
            /\ f.chain = Tail(p.chain) /\ f.waits = Waited(p)
            /\ f.persisted \in {p.persisted, Head(p.chain)}
            /\ f.label = p.label \/ (f.label = "saved" /\ f.persisted >= f.generation)
            /\ f.generation \in Nat /\ f.persisted \in Nat /\ f.discarding = p.discarding
<1> DEFINE c == p.chain
           f == Persisted(p)
           reached == IF Head(p.chain) > p.persisted THEN Head(p.chain) ELSE p.persisted
           label == IF p.pending = 0 /\ reached >= p.generation THEN "saved" ELSE p.label
<1>1. /\ p \in Panel /\ c \in Seq(1..MaxEdits) /\ p.generation \in 0..MaxEdits
      /\ p.persisted \in 0..MaxEdits /\ p.waits \in Nat
  BY DEF Sound, Panel
<1>2. /\ Tail(c) \in Seq(1..MaxEdits) /\ Len(Tail(c)) = Len(c) - 1 /\ Len(c) \in Nat \ {0}
      /\ Head(c) \in 1..MaxEdits /\ 1 \in DOMAIN c /\ Head(c) = c[1]
      /\ \A j \in DOMAIN Tail(c) : \E k \in DOMAIN c : Tail(c)[j] = c[k]
      /\ Tail(c) # <<>> => Tail(c)[Len(Tail(c))] = c[Len(c)]
      /\ Tail(c) = <<>> => c[Len(c)] = Head(c)
  BY <1>1, ChainTail
<1>3. reached \in 0..MaxEdits /\ reached >= Head(c) /\ reached \in {p.persisted, Head(c)}
  BY <1>1, <1>2, BoundsAssumption
<1>4. Waited(p) \in Nat
  BY <1>1 DEF Waited
<1>5. f = [p EXCEPT !.chain = Tail(c), !.retries = 0, !.persisted = reached, !.waits = Waited(p),
                    !.label = label]
  BY DEF Persisted, Waited
<1>6. label \in {"saved", "saving", "retrying", "failed", "closed", "discarded"}
  BY <1>1 DEF Panel
<1> HIDE DEF reached, label, f
<1>7. /\ f \in Panel /\ f.chain = Tail(c) /\ f.persisted = reached /\ f.waits = Waited(p)
      /\ f.label = label /\ f.generation = p.generation /\ f.exit = p.exit /\ f.kept = p.kept
      /\ f.pending = p.pending /\ f.timer = p.timer /\ f.discarding = p.discarding
  <2>1. 0 \in 0..MaxRetries
    BY BoundsAssumption
  <2>2. QED
    BY <1>1, <1>2, <1>3, <1>4, <1>5, <1>6, <2>1 DEF Panel
<1>8. label = p.label \/ (label = "saved" /\ reached >= p.generation)
  BY DEF label
<1>9. p.label \notin {"closed", "discarded"}
  BY DEF Sound, Quiet
<1>10. label \in {"saving", "retrying"} => UnderWay(f)
  <2>1. SUFFICES ASSUME label \in {"saving", "retrying"} PROVE UnderWay(f)
    OBVIOUS
  <2>2. p.label \in {"saving", "retrying"} /\ ~(p.pending = 0 /\ reached >= p.generation)
    BY <2>1 DEF label
  <2>3. UnderWay(p)
    BY <2>2 DEF Sound
  <2>4. CASE p.pending = 0 /\ p.chain # <<>> /\ p.chain[Len(p.chain)] = p.generation
    <3>1. Head(c) # p.generation
      BY <1>1, <1>2, <1>3, <2>2, <2>4
    <3>2. QED
      BY <1>2, <1>7, <2>4, <3>1 DEF UnderWay
  <2>5. QED
    BY <1>7, <2>3, <2>4 DEF UnderWay
<1>11. \A j \in DOMAIN f.chain : f.chain[j] <= f.generation
  BY <1>2, <1>7 DEF Sound
<1>12. Sound(f)
  <2>1. f.timer => f.pending # 0
    BY <1>7 DEF Sound
  <2>2. f.pending \in {0, f.generation}
    BY <1>7 DEF Sound
  <2>3. f.exit # "no" => f.kept <= f.generation
    BY <1>7 DEF Sound
  <2>4. f.label \notin {"closed", "discarded"}
    BY <1>7, <1>8, <1>9
  <2>5. QED
    BY <1>7, <1>10, <1>11, <2>1, <2>2, <2>3, <2>4 DEF Sound
<1>13. QED
  BY <1>1, <1>3, <1>7, <1>8, <1>12 DEF f

LEMMA FailedSound ==
  ASSUME NEW p, Sound(p), p.chain # <<>>
  PROVE  LET f == Failed(p)
         IN /\ Sound(f) /\ f.generation = p.generation /\ f.exit = p.exit /\ f.kept = p.kept
            /\ f.chain = Tail(p.chain) /\ f.waits = Waited(p) /\ f.persisted = p.persisted
            /\ f.label \in {"retrying", "failed"} /\ f.discarding = p.discarding
<1> DEFINE c == p.chain
           f == Failed(p)
           pending == IF p.pending = 0 /\ Head(p.chain) = p.generation
                      THEN p.generation ELSE p.pending
           retry == pending # 0 /\ p.retries < MaxRetries
           retries == IF retry THEN p.retries + 1 ELSE p.retries
           label == IF retry THEN "retrying" ELSE "failed"
           timer == p.timer \/ retry
<1>1. /\ p \in Panel /\ c \in Seq(1..MaxEdits) /\ p.generation \in 0..MaxEdits
      /\ p.waits \in Nat /\ p.retries \in 0..MaxRetries /\ p.timer \in BOOLEAN
      /\ p.pending \in {0, p.generation} /\ (p.timer => p.pending # 0)
  BY DEF Sound, Panel
<1>2. /\ Tail(c) \in Seq(1..MaxEdits)
      /\ \A j \in DOMAIN Tail(c) : \E k \in DOMAIN c : Tail(c)[j] = c[k]
  BY <1>1, ChainTail
<1>3. /\ pending \in {0, p.generation} /\ pending \in 0..MaxEdits /\ (timer => pending # 0)
      /\ timer \in BOOLEAN
  BY <1>1, BoundsAssumption
<1>4. Waited(p) \in Nat /\ retries \in 0..MaxRetries
  BY <1>1, BoundsAssumption DEF Waited
<1>5. f = [p EXCEPT !.chain = Tail(c), !.pending = pending, !.waits = Waited(p),
                    !.timer = timer, !.retries = retries, !.label = label]
  BY DEF Failed, Waited
<1>6. label \in {"retrying", "failed"} /\ (label = "retrying" => timer)
  OBVIOUS
<1> HIDE DEF pending, retry, retries, label, timer, f
<1>7. /\ f \in Panel /\ f.chain = Tail(c) /\ f.persisted = p.persisted /\ f.waits = Waited(p)
      /\ f.label = label /\ f.generation = p.generation /\ f.exit = p.exit /\ f.kept = p.kept
      /\ f.pending = pending /\ f.timer = timer /\ f.discarding = p.discarding
  BY <1>1, <1>2, <1>3, <1>4, <1>5, <1>6 DEF Panel
<1>8. \A j \in DOMAIN f.chain : f.chain[j] <= f.generation
  BY <1>2, <1>7 DEF Sound
<1>9. Sound(f)
  <2>1. f.exit # "no" => f.kept <= f.generation
    BY <1>7 DEF Sound
  <2>2. f.label \notin {"closed", "discarded"} /\ (f.label \in {"saving", "retrying"} => UnderWay(f))
    BY <1>3, <1>6, <1>7 DEF UnderWay
  <2>3. QED
    BY <1>3, <1>7, <1>8, <2>1, <2>2 DEF Sound
<1>10. QED
  BY <1>6, <1>7, <1>9 DEF f

LEMMA ExitFailedSound ==
  ASSUME NEW p, Sound(p)
  PROVE  LET f == ExitFailed(p)
         IN /\ Sound(f) /\ f.generation = p.generation /\ f.exit = "no" /\ f.kept = p.kept
            /\ f.chain = p.chain /\ f.persisted = p.persisted /\ f.label = "failed"
            /\ f.discarding = p.discarding
BY DEF ExitFailed, Sound, Panel

LEMMA ExitSavedSound ==
  ASSUME NEW p, Sound(p), p.exit = "saving"
  PROVE  LET f == ExitSaved(p)
         IN /\ Sound(f) /\ f.generation = p.generation /\ f.kept = p.kept
            /\ f.chain = p.chain /\ f.persisted = p.persisted
            /\ f.label \in {p.label, "failed"} /\ f.discarding = p.discarding
            /\ f.exit = IF p.discarding THEN "no" ELSE "closing"
<1>1. p \in Panel
  BY DEF Sound
<1>2. CASE p.discarding
  <2>1. ExitSaved(p) = ExitFailed(p)
    BY <1>2 DEF ExitSaved
  <2>2. QED
    BY <1>2, <2>1, ExitFailedSound
<1>3. CASE ~p.discarding
  <2>1. PICK f : f = [p EXCEPT !.exit = "closing"]
    OBVIOUS
  <2>2. /\ f \in Panel /\ f.exit = "closing" /\ f.generation = p.generation /\ f.kept = p.kept
        /\ f.chain = p.chain /\ f.waits = p.waits /\ f.persisted = p.persisted
        /\ f.label = p.label /\ f.pending = p.pending /\ f.timer = p.timer
        /\ f.discarding = p.discarding
    BY <1>1, <2>1 DEF Panel
  <2>3. Sound(f)
    BY <2>2 DEF Sound, UnderWay, Quiet
  <2>4. QED
    BY <1>3, <2>1, <2>2, <2>3 DEF ExitSaved
<1>4. QED
  BY <1>2, <1>3

LEMMA DestroyedSound ==
  ASSUME NEW p, Sound(p), NEW label \in {"closed", "discarded"}
  PROVE  LET f == Destroyed(p, label)
         IN /\ Sound(f) /\ f.generation = p.generation /\ f.exit = "no" /\ f.kept = p.kept
            /\ f.chain = <<>> /\ f.persisted = p.persisted /\ f.label = label
<1>1. <<>> \in Seq(1..MaxEdits) /\ DOMAIN <<>> = {}
  OBVIOUS
<1>2. 0 \in 0..MaxEdits /\ 0 \in 0..MaxRetries
  BY BoundsAssumption
<1>3. QED
  BY <1>1, <1>2 DEF Destroyed, Sound, Quiet, Panel

LEMMA AdvancedSound ==
  ASSUME NEW p, Sound(p), p.exit \in {"flushing", "draining"} => p.waits \in 0..Len(p.chain)
  PROVE  LET a == Advanced(p)
         IN /\ Sound(a) /\ a.generation = p.generation /\ a.persisted = p.persisted
            /\ a.label = p.label /\ a.kept = p.kept /\ a.chain = p.chain
            /\ a.exit \in {"flushing", "draining"} => a.waits \in 1..Len(a.chain)
            /\ a.exit = "closing" <=> p.exit = "closing"
            /\ a.exit = "no" <=> p.exit = "no"
            /\ p.exit = "saving" => a.exit = "saving"
<1>1. p \in Panel /\ p.chain \in Seq(1..MaxEdits) /\ p.waits \in Nat
      /\ Len(p.chain) \in Nat /\ (p.chain # <<>> => Len(p.chain) # 0)
  <2>1. p \in Panel /\ p.chain \in Seq(1..MaxEdits) /\ p.waits \in Nat
    BY DEF Sound, Panel
  <2>2. QED
    BY <2>1, EmptySeq, LenProperties
<1>2. p.label \in {"closed", "discarded"} => p.exit = "no"
  BY DEF Sound, Quiet
<1>3. CASE p.exit = "flushing" /\ p.waits = 0 /\ p.chain # <<>>
  <2>1. PICK n \in Nat : n = Len(p.chain) /\ n # 0
    BY <1>1, <1>3
  <2>0. Advanced(p) = [p EXCEPT !.exit = "draining", !.own = FALSE, !.waits = Len(p.chain)]
    BY <1>3 DEF Advanced
  <2>2. Advanced(p) = [p EXCEPT !.exit = "draining", !.own = FALSE, !.waits = n]
    BY <2>0, <2>1, Zenon
  <2>3. Advanced(p) \in Panel
    BY <1>1, <2>2 DEF Panel
  <2>4. n \in 1..Len(p.chain)
    BY <2>1
  <2> DEFINE a == Advanced(p)
  <2>5. /\ a.exit = "draining" /\ a.waits = n /\ a.generation = p.generation
        /\ a.pending = p.pending /\ a.timer = p.timer /\ a.chain = p.chain
        /\ a.persisted = p.persisted /\ a.label = p.label /\ a.kept = p.kept
    BY <1>1, <2>2 DEF Panel
  <2> HIDE DEF a
  <2>6. Sound(a)
    BY <1>1, <1>2, <1>3, <2>3, <2>5 DEF Sound, UnderWay, a
  <2>7. QED
    BY <1>3, <2>4, <2>5, <2>6 DEF a
<1>4. CASE /\ ~(p.exit = "flushing" /\ p.waits = 0 /\ p.chain # <<>>)
           /\ p.exit \in {"flushing", "draining"} /\ p.waits = 0
  <2>1. Advanced(p) = [p EXCEPT !.exit = "saving", !.own = FALSE]
    BY <1>4 DEF Advanced
  <2>2. Advanced(p) \in Panel
    BY <1>1, <2>1 DEF Panel
  <2>3. QED
    BY <1>1, <1>2, <1>4, <2>1, <2>2 DEF Sound, Panel, UnderWay
<1>5. CASE ~(p.exit \in {"flushing", "draining"} /\ p.waits = 0)
  <2>1. Advanced(p) = p
    BY <1>5 DEF Advanced
  <2>2. QED
    BY <1>1, <1>5, <2>1
<1>6. QED
  BY <1>3, <1>4, <1>5

-----------------------------------------------------------------------------
(* What an author was promised *)

\* The edits up to a generation.
HasAll(s, n, edits) == \A k \in 1..n : \E e \in edits : e.by = s /\ e.n = k

\* A stored request has brought them to the store; one that can still be
\* accepted has them.
Carries(s, save, n, store, now) ==
  /\ save.phase = "stored" => HasAll(s, n, store)
  /\ save.phase \in {"posted", "read", "checked"} /\ save.token = now =>
       HasAll(s, n, save.edits)

\* A request carries what the panel awaits it for.
Serves(s, p, save, store, now) ==
  /\ save.awaited = "autosave" => Carries(s, save, Head(p.chain), store, now)
  /\ save.awaited = "exit" => Carries(s, save, p.kept, store, now)

Promised(s, p, store) ==
  /\ HasAll(s, p.persisted, store)
  /\ p.label = "saved" => HasAll(s, p.generation, store)
  /\ p.exit = "closing" \/ p.label = "closed" => HasAll(s, p.kept, store)

\* The frame, or one of its requests, knows the newest updatedAt.
IsCurrent(token, q, now) == token = now \/ \E i \in DOMAIN q : q[i].token = now

Kept(s, p, f, q, store, now) ==
  /\ Promised(s, p, store)
  /\ \A i \in DOMAIN q : Serves(s, p, q[i], store, now)
  /\ IsCurrent(f.token, q, now) => HasAll(s, p.generation, f.edits)

Good(s) ==
  /\ Sound(panels[s])
  /\ QueueFits(panels[s], saves[s])
  /\ Kept(s, panels[s], frames[s], saves[s], stored, draft.updatedAt)

StaysGood(s) == Good(s)' /\ panels'[s].generation = panels[s].generation

LEMMA HasFewer ==
  ASSUME NEW s, NEW n \in Nat, NEW m \in Nat, n <= m, NEW edits, HasAll(s, m, edits)
  PROVE  HasAll(s, n, edits)
<1>1. \A k \in 1..n : k \in 1..m
  OBVIOUS
<1>2. QED
  BY <1>1 DEF HasAll

LEMMA HasMore ==
  ASSUME NEW s, NEW n, NEW edits, NEW more, edits \subseteq more, HasAll(s, n, edits)
  PROVE  HasAll(s, n, more)
BY DEF HasAll

\* A sound panel's newest request in the chain, and what an exit keeps, is not
\* newer than its generation.
LEMMA SoundBounds ==
  ASSUME NEW p, Sound(p)
  PROVE  /\ p.generation \in Nat /\ p.persisted \in Nat /\ p.kept \in Nat
         /\ p.chain # <<>> => Head(p.chain) \in Nat /\ Head(p.chain) <= p.generation
         /\ p.exit # "no" => p.kept <= p.generation
<1>1. p.chain \in Seq(1..MaxEdits) /\ p.generation \in Nat /\ p.persisted \in Nat /\ p.kept \in Nat
  BY BoundsAssumption DEF Sound, Panel
<1>2. ASSUME p.chain # <<>> PROVE Head(p.chain) \in Nat /\ Head(p.chain) <= p.generation
  <2>1. Head(p.chain) \in 1..MaxEdits /\ 1 \in DOMAIN p.chain /\ Head(p.chain) = p.chain[1]
    BY <1>1, <1>2, ChainTail
  <2>2. QED
    BY <2>1, BoundsAssumption DEF Sound
<1>3. QED
  BY <1>1, <1>2 DEF Sound

\* A panel that goes on, its frame knowing the updatedAt it sends.
LEMMA ContinueGood ==
  ASSUME Typed, NEW s \in Sessions, NEW p, NEW rest \in Seq(Save), NEW token \in Nat,
         Continue(s, p, rest, token), Sound(p), GoesOn(p, rest),
         Promised(s, p, stored),
         \A k \in DOMAIN rest : Serves(s, p, rest[k], stored, draft.updatedAt),
         IsCurrent(token, rest, draft.updatedAt) => HasAll(s, p.generation, frames[s].edits),
         draft' = draft, stored' = stored, FrameTells(s, token)
  PROVE  Good(s)' /\ panels'[s].generation = p.generation
<1> DEFINE a == Advanced(p)
           q == saves'[s]
           now == draft.updatedAt
<1>1. RequestsAdded(s, p, rest, token)
  BY Continued
<1>2. /\ Sound(a) /\ a.generation = p.generation /\ a.persisted = p.persisted
      /\ a.label = p.label /\ a.kept = p.kept /\ a.chain = p.chain
      /\ a.exit \in {"flushing", "draining"} => a.waits \in 1..Len(a.chain)
      /\ a.exit = "closing" <=> p.exit = "closing"
      /\ a.exit = "no" <=> p.exit = "no"
      /\ p.exit = "saving" => a.exit = "saving"
  BY AdvancedSound DEF GoesOn
<1>3. panels'[s] = a
  BY <1>1 DEF RequestsAdded, Typed, PanelsOK
<1>4. Asks(p, rest, "autosave") <=> (a.chain # <<>> /\ ~IsAsking(rest, "autosave"))
  BY DEF Asks
<1>5. Asks(p, rest, "exit") <=> (a.exit = "saving" /\ p.exit # "saving")
  BY DEF Asks
<1> HIDE DEF a
<1>6. QueueFits(a, q)
  <2>1. /\ IsAsking(q, "autosave") <=> (IsAsking(rest, "autosave") \/ Asks(p, rest, "autosave"))
        /\ Alone(rest, "autosave") /\ (Asks(p, rest, "autosave") => ~IsAsking(rest, "autosave"))
             => Alone(q, "autosave")
        /\ IsAsking(q, "exit") <=> (IsAsking(rest, "exit") \/ Asks(p, rest, "exit"))
        /\ Alone(rest, "exit") /\ (Asks(p, rest, "exit") => ~IsAsking(rest, "exit"))
             => Alone(q, "exit")
    BY <1>1 DEF RequestsAdded
  <2>2. /\ Alone(rest, "autosave") /\ Alone(rest, "exit")
        /\ IsAsking(rest, "autosave") => p.chain # <<>>
        /\ p.exit = "saving" <=> IsAsking(rest, "exit")
    BY DEF GoesOn
  <2>3. Alone(q, "autosave") /\ Alone(q, "exit")
    BY <1>4, <1>5, <2>1, <2>2
  <2>4. (a.chain # <<>> <=> IsAsking(q, "autosave")) /\ (a.exit = "saving" <=> IsAsking(q, "exit"))
    BY <1>2, <1>4, <1>5, <2>1, <2>2
  <2>5. QED
    BY <1>2, <2>3, <2>4 DEF QueueFits
<1>7. Promised(s, a, stored)
  BY <1>2 DEF Promised
<1>8. ASSUME NEW j \in DOMAIN q PROVE Serves(s, a, q[j], stored, now)
  <2>1. CASE \E k \in DOMAIN rest : q[j] = rest[k]
    BY <1>2, <2>1 DEF Serves
  <2>2. ASSUME NEW why \in {"autosave", "exit"}, q[j] = Request(s, why, token), Asks(p, rest, why)
        PROVE  Serves(s, a, q[j], stored, now)
    <3>1. /\ q[j].edits = frames[s].edits /\ q[j].token = token /\ q[j].awaited = why
          /\ q[j].phase = "posted"
      BY <2>2 DEF Request
    <3>2. token = now => HasAll(s, p.generation, frames[s].edits)
      BY DEF IsCurrent
    <3>3. CASE why = "autosave"
      <4>1. Head(a.chain) \in Nat /\ Head(a.chain) <= p.generation /\ p.generation \in Nat
        BY <1>2, <1>4, <2>2, <3>3, SoundBounds
      <4>2. token = now => HasAll(s, Head(a.chain), frames[s].edits)
        BY <3>2, <4>1, HasFewer
      <4>3. QED
        BY <3>1, <3>3, <4>2 DEF Serves, Carries
    <3>4. CASE why = "exit"
      <4>1. a.kept \in Nat /\ a.kept <= p.generation /\ p.generation \in Nat
        BY <1>2, <1>5, <2>2, <3>4, SoundBounds
      <4>2. token = now => HasAll(s, a.kept, frames[s].edits)
        BY <3>2, <4>1, HasFewer
      <4>3. QED
        BY <3>1, <3>4, <4>2 DEF Serves, Carries
    <3>5. QED
      BY <3>3, <3>4
  <2>3. QED
    BY <1>1, <1>8, <2>1, <2>2 DEF RequestsAdded
<1>9. frames'[s].token = token /\ frames'[s].edits = frames[s].edits
  BY DEF FrameTells, Typed, Frame
<1>10. IsCurrent(token, q, now) => HasAll(s, a.generation, frames[s].edits)
  <2>1. ASSUME NEW j \in DOMAIN q PROVE q[j].token = token \/ \E k \in DOMAIN rest : q[j] = rest[k]
    BY <1>1, <2>1 DEF RequestsAdded, Request
  <2>2. QED
    BY <1>2, <2>1 DEF IsCurrent
<1>11. Kept(s, a, frames'[s], q, stored, now)
  BY <1>7, <1>8, <1>9, <1>10 DEF Kept
<1>12. QED
  BY <1>2, <1>3, <1>6, <1>11 DEF Good

\* A session that a step of somebody else leaves alone.
LEMMA OtherGood ==
  ASSUME NEW x \in Sessions, Good(x),
         panels'[x] = panels[x], saves'[x] = saves[x], frames'[x].token = frames[x].token,
         stored \subseteq stored',
         IsCurrent(frames[x].token, saves[x], draft'.updatedAt) =>
           draft'.updatedAt = draft.updatedAt /\ frames'[x].edits = frames[x].edits
  PROVE  StaysGood(x)
<1>1. Promised(x, panels[x], stored')
  BY HasMore DEF Good, Kept, Promised
<1>2. ASSUME NEW i \in DOMAIN saves[x]
      PROVE  Serves(x, panels[x], saves[x][i], stored', draft'.updatedAt)
  <2>1. Serves(x, panels[x], saves[x][i], stored, draft.updatedAt)
    BY DEF Good, Kept
  <2>2. saves[x][i].token = draft'.updatedAt => draft'.updatedAt = draft.updatedAt
    BY DEF IsCurrent
  <2>3. QED
    BY <2>1, <2>2, HasMore DEF Serves, Carries
<1>3. IsCurrent(frames[x].token, saves[x], draft'.updatedAt) =>
        HasAll(x, panels[x].generation, frames'[x].edits)
  BY DEF Good, Kept
<1>4. Kept(x, panels[x], frames'[x], saves[x], stored', draft'.updatedAt)
  BY <1>1, <1>2, <1>3 DEF Kept
<1>5. QED
  BY <1>4 DEF Good, StaysGood

\* A request that moves on, or is refused, with nothing else changed.
LEMMA ReplacedGood ==
  ASSUME Typed, NEW s \in Sessions, Good(s), NEW i \in DOMAIN saves[s], NEW save,
         saves'[s] = [saves[s] EXCEPT ![i] = save],
         save.awaited = saves[s][i].awaited, save.token = saves[s][i].token,
         Serves(s, panels[s], save, stored, draft.updatedAt),
         UNCHANGED <<draft, stored, frames, panels>>
  PROVE  StaysGood(s)
<1> DEFINE q == saves[s]
           r == [q EXCEPT ![i] = save]
<1>1. DOMAIN r = DOMAIN q /\ r[i] = save /\ \A j \in DOMAIN q : j # i => r[j] = q[j]
  OBVIOUS
<1>2. q \in Seq(Save) /\ i \in DOMAIN q
  BY DEF Typed
<1>3. ASSUME NEW why \in {"autosave", "exit"}
      PROVE  Alone(q, why) => Alone(r, why) /\ (IsAsking(r, why) <=> IsAsking(q, why))
  BY <1>2, ReplacedAsks
<1> HIDE DEF r
<1>4. QueueFits(panels[s], r)
  BY <1>3 DEF Good, QueueFits
<1>5. \A j \in DOMAIN r : Serves(s, panels[s], r[j], stored, draft.updatedAt)
  BY <1>1 DEF Good, Kept
<1>6. IsCurrent(frames[s].token, r, draft.updatedAt) => IsCurrent(frames[s].token, q, draft.updatedAt)
  BY <1>1 DEF IsCurrent
<1>7. Kept(s, panels[s], frames[s], r, stored, draft.updatedAt)
  BY <1>5, <1>6 DEF Good, Kept
<1>8. saves'[s] = r
  BY DEF r
<1>9. QED
  BY <1>4, <1>7, <1>8 DEF Good, StaysGood

LEMMA RefusedGood ==
  ASSUME Typed, NEW s \in Sessions, Good(s), NEW i \in DOMAIN saves[s],
         NEW phase \in {"conflict", "refused"}, Refused(s, i, phase),
         UNCHANGED <<draft, stored, frames, panels>>
  PROVE  StaysGood(s)
<1> DEFINE q == saves[s]
<1>1. q \in Seq(Save) /\ i \in DOMAIN q /\ q[i] \in Save
  BY LenProperties DEF Typed
<1>2. CASE q[i].awaited = "nobody"
  <2> DEFINE r == RemoveAt(q, i)
  <2>1. saves'[s] = r
    BY <1>2 DEF Refused, Typed
  <2>2. ASSUME NEW why \in {"autosave", "exit"}
        PROVE  Alone(q, why) => Alone(r, why) /\ (IsAsking(r, why) <=> IsAsking(q, why))
    BY <1>1, <1>2, RemovedAsks
  <2>3. \A j \in DOMAIN r : \E k \in DOMAIN q : r[j] = q[k]
    BY <1>1, Removed
  <2> HIDE DEF r
  <2>4. QueueFits(panels[s], r)
    BY <2>2 DEF Good, QueueFits
  <2>5. Kept(s, panels[s], frames[s], r, stored, draft.updatedAt)
    BY <2>3 DEF Good, Kept, IsCurrent
  <2>6. QED
    BY <2>1, <2>4, <2>5 DEF Good, StaysGood
<1>3. CASE q[i].awaited # "nobody"
  <2>1. PICK old, save : old = q[i] /\ save = [old EXCEPT !.phase = phase]
    OBVIOUS
  <2>2. PICK r : r = [q EXCEPT ![i] = save]
    OBVIOUS
  <2>3. saves'[s] = [saves[s] EXCEPT ![i] = save]
    <3>1. saves' = [saves EXCEPT ![s] = [q EXCEPT ![i] = [q[i] EXCEPT !.phase = phase]]]
      BY <1>3 DEF Refused
    <3>2. saves' = [saves EXCEPT ![s] = r]
      BY <2>1, <2>2, <3>1
    <3>3. saves'[s] = r
      BY <3>2 DEF Typed
    <3>4. QED
      BY <2>2, <3>3
  <2>4. save.awaited = old.awaited /\ save.token = old.token /\ save.phase = phase
    BY <1>1, <2>1 DEF Save
  <2>5. Serves(s, panels[s], save, stored, draft.updatedAt)
    BY <2>4 DEF Serves, Carries
  <2>6. save.awaited = saves[s][i].awaited /\ save.token = saves[s][i].token
    BY <2>1, <2>4
  <2> HIDE DEF q
  <2>7. QED
    BY <2>3, <2>5, <2>6, ReplacedGood
<1>4. QED
  BY <1>2, <1>3

-----------------------------------------------------------------------------
(* Panels that go on *)

\* What a panel and its requests have to do with the panel before them.
LEMMA StillServes ==
  ASSUME NEW s, NEW p, NEW f, NEW save, NEW store, NEW now, Serves(s, p, save, store, now),
         save.awaited = "autosave" => Head(f.chain) = Head(p.chain),
         save.awaited = "exit" => f.kept = p.kept
  PROVE  Serves(s, f, save, store, now)
BY DEF Serves

\* The panel's queue is as it was, and the panel saves.
LEMMA UnansweredGood ==
  ASSUME Typed, NEW s \in Sessions, Good(s), NEW f, Sound(f), GoesOn(f, saves[s]),
         Continue(s, f, saves[s], frames[s].token),
         f.label = "saving", f.generation = panels[s].generation,
         f.persisted = panels[s].persisted,
         f.exit = "closing" => panels[s].exit = "closing",
         panels[s].exit # "no" => f.kept = panels[s].kept,
         panels[s].chain # <<>> => Head(f.chain) = Head(panels[s].chain),
         UNCHANGED <<draft, stored, frames>>
  PROVE  StaysGood(s)
<1> DEFINE p == panels[s]
           q == saves[s]
<1>1. q \in Seq(Save) /\ frames[s].token \in Nat
  BY DEF Typed, Frame, Time
<1>2. Promised(s, f, stored)
  BY DEF Good, Kept, Promised
<1>3. ASSUME NEW k \in DOMAIN q PROVE Serves(s, f, q[k], stored, draft.updatedAt)
  <2>1. Serves(s, p, q[k], stored, draft.updatedAt)
    BY DEF Good, Kept
  <2>2. q[k].awaited = "autosave" => Head(f.chain) = Head(p.chain)
    BY DEF Good, QueueFits, IsAsking
  <2>3. q[k].awaited = "exit" => f.kept = p.kept
    BY DEF Good, QueueFits, IsAsking
  <2>4. QED
    BY <2>1, <2>2, <2>3, StillServes
<1>4. IsCurrent(frames[s].token, q, draft.updatedAt) => HasAll(s, f.generation, frames[s].edits)
  BY DEF Good, Kept
<1>5. FrameTells(s, frames[s].token) /\ draft' = draft /\ stored' = stored
  BY DEF FrameTells, Typed, Frame
<1>6. QED
  BY <1>1, <1>2, <1>3, <1>4, <1>5, ContinueGood DEF StaysGood

LEMMA FlushAutoSaveGood ==
  ASSUME Typed, NEW s \in Sessions, Good(s), FlushAutoSave(s)
  PROVE  StaysGood(s)
<1>1. PICK p, f : p = panels[s] /\ f = Flushed(p)
  OBVIOUS
<1>2. Sound(p) /\ QueueFits(p, saves[s]) /\ p.pending # 0
  BY <1>1 DEF Good, FlushAutoSave, Sound
<1>3. /\ f \in Panel /\ f.timer = FALSE /\ f.pending = 0
      /\ f.generation = p.generation /\ f.persisted = p.persisted /\ f.exit = p.exit
      /\ f.waits = p.waits /\ f.kept = p.kept
      /\ f.label = "saving" /\ f.chain[Len(f.chain)] = f.generation /\ f.chain # <<>>
      /\ \A j \in DOMAIN f.chain : f.chain[j] <= p.generation
      /\ Len(f.chain) >= Len(p.chain) /\ Len(p.chain) \in Nat /\ Len(f.chain) \in Nat
      /\ p.chain # <<>> => Head(f.chain) = Head(p.chain)
  BY <1>1, <1>2, FlushedSound
<1>4. Sound(f)
  BY <1>2, <1>3 DEF Sound, UnderWay
<1>5. GoesOn(f, saves[s])
  BY <1>2, <1>3 DEF QueueFits, GoesOn
<1>6. Continue(s, f, saves[s], frames[s].token) /\ UNCHANGED <<draft, stored, frames>>
  BY <1>1 DEF FlushAutoSave
<1>7. QED
  BY <1>1, <1>3, <1>4, <1>5, <1>6, UnansweredGood

LEMMA SaveAndExitGood ==
  ASSUME Typed, NEW s \in Sessions, Good(s), SaveAndExit(s)
  PROVE  StaysGood(s)
<1>1. PICK p, f : p = panels[s] /\ f = Flushed(p)
  OBVIOUS
<1>2. Sound(p) /\ QueueFits(p, saves[s]) /\ p.exit = "no"
  BY <1>1 DEF Good, SaveAndExit
<1>3. /\ f \in Panel /\ f.timer = FALSE /\ f.pending = 0
      /\ f.generation = p.generation /\ f.persisted = p.persisted
      /\ \A j \in DOMAIN f.chain : f.chain[j] <= p.generation
      /\ Len(f.chain) \in Nat
      /\ p.chain # <<>> => f.chain # <<>> /\ Head(f.chain) = Head(p.chain)
  BY <1>1, <1>2, FlushedSound
<1>4. PICK n \in Nat : n = Len(f.chain)
  BY <1>3
<1>5. PICK own \in BOOLEAN : own = (p.pending # 0)
  OBVIOUS
<1>6. PICK g : g = [f EXCEPT !.label = "saving", !.exit = "flushing", !.own = own, !.waits = n,
                             !.kept = f.generation]
  OBVIOUS
<1>7. /\ g \in Panel /\ g.timer = FALSE /\ g.pending = 0 /\ g.chain = f.chain
      /\ g.generation = p.generation /\ g.persisted = p.persisted /\ g.exit = "flushing"
      /\ g.waits = n /\ g.kept = g.generation /\ g.label = "saving"
  BY <1>3, <1>6 DEF Panel
<1>8. Sound(g)
  <2>1. g.generation <= g.generation
    BY <1>7, BoundsAssumption DEF Panel
  <2>2. QED
    BY <1>3, <1>7, <2>1 DEF Sound, UnderWay
<1>9. GoesOn(g, saves[s])
  <2>1. n \in 0..Len(g.chain)
    BY <1>4, <1>7
  <2>2. /\ Alone(saves[s], "autosave") /\ Alone(saves[s], "exit")
        /\ p.chain # <<>> <=> IsAsking(saves[s], "autosave")
        /\ ~IsAsking(saves[s], "exit")
    BY <1>2 DEF QueueFits
  <2>3. QED
    BY <1>3, <1>7, <2>1, <2>2 DEF GoesOn
<1>10. Continue(s, g, saves[s], frames[s].token) /\ UNCHANGED <<draft, stored, frames>>
  <2>1. Continue(s, [f EXCEPT !.label = "saving", !.exit = "flushing", !.own = panels[s].pending # 0,
                              !.waits = Len(f.chain), !.kept = f.generation],
                 saves[s], frames[s].token)
    BY <1>1 DEF SaveAndExit
  <2>2. g = [f EXCEPT !.label = "saving", !.exit = "flushing", !.own = panels[s].pending # 0,
                      !.waits = Len(f.chain), !.kept = f.generation]
    BY <1>1, <1>4, <1>5, <1>6
  <2>3. QED
    BY <2>1, <2>2 DEF SaveAndExit
<1>11. QED
  BY <1>1, <1>2, <1>3, <1>7, <1>8, <1>9, <1>10, UnansweredGood

LEMMA ReceiveAnswerGood ==
  ASSUME Typed, NEW s \in Sessions, Good(s), NEW i, ReceiveAnswer(s, i)
  PROVE  StaysGood(s)
<1>1. PICK p, q, save : p = panels[s] /\ q = saves[s] /\ save = q[i]
  OBVIOUS
<1>2. PICK rest : rest = RemoveAt(q, i)
  OBVIOUS
<1>3. /\ i \in DOMAIN q /\ save.phase = "stored" /\ q \in Seq(Save)
      /\ Sound(p) /\ QueueFits(p, q) /\ Promised(s, p, stored)
      /\ \A k \in DOMAIN q : Serves(s, p, q[k], stored, draft.updatedAt)
      /\ IsCurrent(frames[s].token, q, draft.updatedAt) => HasAll(s, p.generation, frames[s].edits)
      /\ draft' = draft /\ stored' = stored /\ FrameTells(s, save.token)
  BY <1>1 DEF ReceiveAnswer, Good, Kept, Typed, FrameTells
<1>4. save \in Save /\ save.token \in Nat /\ save.awaited \in {"autosave", "exit", "nobody"}
  <2>1. save \in Save
    BY <1>1, <1>3, LenProperties
  <2>2. QED
    BY <2>1 DEF Save, Time
<1>5. /\ rest \in Seq(Save)
      /\ \A k \in DOMAIN rest : \E l \in DOMAIN q : rest[k] = q[l]
  BY <1>2, <1>3, Removed
<1>6. ASSUME NEW why \in {"autosave", "exit"}
      PROVE  Alone(rest, why) /\ (IsAsking(rest, why) <=> (IsAsking(q, why) /\ save.awaited # why))
  BY <1>1, <1>2, <1>3, <1>6, RemovedAsks DEF QueueFits
<1>7. IsCurrent(save.token, rest, draft.updatedAt) => HasAll(s, p.generation, frames[s].edits)
  BY <1>1, <1>3, <1>5 DEF IsCurrent
<1>8. IsAsking(q, "autosave") <=> p.chain # <<>>
  BY <1>3 DEF QueueFits
<1>9. ASSUME save.awaited \in {"autosave", "exit"} PROVE IsAsking(q, save.awaited)
  BY <1>1, <1>3 DEF IsAsking
<1>10. CASE save.awaited = "autosave"
  <2>1. PICK f : f = Persisted(p)
    OBVIOUS
  <2>2. p.chain # <<>>
    BY <1>8, <1>9, <1>10
  <2>3. /\ Sound(f) /\ f.generation = p.generation /\ f.exit = p.exit /\ f.kept = p.kept
        /\ f.chain = Tail(p.chain) /\ f.waits = Waited(p)
        /\ f.persisted \in {p.persisted, Head(p.chain)}
        /\ f.label = p.label \/ (f.label = "saved" /\ f.persisted >= f.generation)
        /\ f.generation \in Nat /\ f.persisted \in Nat
    BY <1>3, <2>1, <2>2, PersistedSound
  <2>4. GoesOn(f, rest)
    <3>1. ~IsAsking(rest, "autosave") /\ (IsAsking(rest, "exit") <=> p.exit = "saving")
      BY <1>3, <1>6, <1>10 DEF QueueFits
    <3>2. Len(Tail(p.chain)) = Len(p.chain) - 1 /\ Len(p.chain) \in Nat \ {0}
      BY <1>3, <2>2, ChainTail DEF Sound, Panel
    <3>3. p.exit \in {"flushing", "draining"} => Waited(p) \in 0..Len(Tail(p.chain))
      BY <1>3, <3>2 DEF QueueFits, Waited
    <3>4. QED
      BY <1>6, <2>3, <3>1, <3>3 DEF GoesOn
  <2>5. Promised(s, f, stored)
    <3>1. HasAll(s, Head(p.chain), stored)
      BY <1>1, <1>3, <1>10 DEF Serves, Carries
    <3>2. HasAll(s, f.persisted, stored)
      BY <1>3, <2>3, <3>1 DEF Promised
    <3>3. f.persisted >= f.generation => HasAll(s, f.generation, stored)
      BY <2>3, <3>2, HasFewer
    <3>4. QED
      BY <1>3, <2>3, <3>2, <3>3 DEF Promised
  <2>6. ASSUME NEW k \in DOMAIN rest PROVE Serves(s, f, rest[k], stored, draft.updatedAt)
    <3>1. PICK l \in DOMAIN q : rest[k] = q[l]
      BY <1>5
    <3>2. Serves(s, p, rest[k], stored, draft.updatedAt)
      BY <1>3, <3>1
    <3>3. rest[k].awaited # "autosave"
      BY <1>6, <1>10 DEF IsAsking
    <3>4. QED
      BY <2>3, <3>2, <3>3, StillServes
  <2>7. Continue(s, f, rest, save.token)
    BY <1>1, <1>2, <1>10, <2>1 DEF ReceiveAnswer
  <2>8. IsCurrent(save.token, rest, draft.updatedAt) => HasAll(s, f.generation, frames[s].edits)
    BY <1>7, <2>3
  <2>9. QED
    BY <1>1, <1>3, <1>4, <1>5, <2>3, <2>4, <2>5, <2>6, <2>7, <2>8, ContinueGood DEF StaysGood
<1>11. CASE save.awaited = "exit"
  <2>1. PICK f : f = ExitSaved(p)
    OBVIOUS
  <2>2. p.exit = "saving"
    BY <1>3, <1>9, <1>11 DEF QueueFits
  <2>3. /\ f.exit \in {"no", "closing"} /\ f.generation = p.generation /\ f.kept = p.kept
        /\ f.chain = p.chain /\ f.persisted = p.persisted
        /\ f.label \in {p.label, "failed"}
    BY <1>3, <2>1, <2>2, ExitSavedSound
  <2>4. Sound(f)
    BY <1>3, <2>1, <2>2, ExitSavedSound
  <2>5. GoesOn(f, rest)
    BY <1>6, <1>8, <1>11, <2>3 DEF GoesOn
  <2>6. HasAll(s, p.kept, stored)
    BY <1>1, <1>3, <1>11 DEF Serves, Carries
  <2>7. Promised(s, f, stored)
    BY <1>3, <2>3, <2>6 DEF Promised
  <2>8. \A k \in DOMAIN rest : Serves(s, f, rest[k], stored, draft.updatedAt)
    BY <1>3, <1>5, <2>3 DEF Serves
  <2>9. Continue(s, f, rest, save.token)
    BY <1>1, <1>2, <1>11, <2>1 DEF ReceiveAnswer
  <2>10. QED
    BY <1>1, <1>3, <1>4, <1>5, <1>7, <2>3, <2>4, <2>5, <2>7, <2>8, <2>9, ContinueGood DEF StaysGood
<1>12. CASE save.awaited = "nobody"
  <2>1. GoesOn(p, rest)
    <3>1. \A n \in 1..Len(p.chain) : n \in 0..Len(p.chain)
      OBVIOUS
    <3>2. QED
      BY <1>3, <1>6, <1>8, <1>12, <3>1 DEF GoesOn, QueueFits
  <2>2. \A k \in DOMAIN rest : Serves(s, p, rest[k], stored, draft.updatedAt)
    BY <1>3, <1>5
  <2>3. Continue(s, p, rest, save.token)
    BY <1>1, <1>2, <1>12 DEF ReceiveAnswer
  <2>4. QED
    BY <1>1, <1>3, <1>4, <1>5, <1>7, <2>1, <2>2, <2>3, ContinueGood DEF StaysGood
<1>13. QED
  BY <1>4, <1>10, <1>11, <1>12

\* A panel that gives a request up.
LEMMA AbandonedGood ==
  ASSUME Typed, NEW s \in Sessions, Good(s), NEW rest \in Seq(Save), NEW f, Sound(f),
         GoesOn(f, rest), Continue(s, f, rest, frames[s].token),
         UNCHANGED <<draft, stored, frames>>,
         f.label \in {"retrying", "failed"}, f.generation = panels[s].generation,
         f.persisted = panels[s].persisted, f.kept = panels[s].kept,
         f.exit = "closing" => panels[s].exit = "closing",
         IsAsking(rest, "autosave") => f.chain = panels[s].chain,
         \A k \in DOMAIN rest : \E l \in DOMAIN saves[s] :
           /\ rest[k].token = saves[s][l].token
           /\ rest[k] = saves[s][l] \/ rest[k].awaited = "nobody"
  PROVE  StaysGood(s)
<1> DEFINE p == panels[s]
           q == saves[s]
<1>1. frames[s].token \in Nat
  BY DEF Typed, Frame, Time
<1>2. Promised(s, f, stored)
  BY DEF Good, Kept, Promised
<1>3. ASSUME NEW k \in DOMAIN rest PROVE Serves(s, f, rest[k], stored, draft.updatedAt)
  <2>1. PICK l \in DOMAIN q : rest[k] = q[l] \/ rest[k].awaited = "nobody"
    OBVIOUS
  <2>2. CASE rest[k].awaited = "nobody"
    BY <2>2 DEF Serves
  <2>3. CASE rest[k] = q[l]
    <3>1. Serves(s, p, rest[k], stored, draft.updatedAt)
      BY <2>3 DEF Good, Kept
    <3>2. rest[k].awaited = "autosave" => Head(f.chain) = Head(p.chain)
      BY DEF IsAsking
    <3>3. QED
      BY <3>1, <3>2, StillServes
  <2>4. QED
    BY <2>1, <2>2, <2>3
<1>4. IsCurrent(frames[s].token, rest, draft.updatedAt) => HasAll(s, f.generation, frames[s].edits)
  BY DEF Good, Kept, IsCurrent
<1>5. FrameTells(s, frames[s].token) /\ draft' = draft /\ stored' = stored
  BY DEF FrameTells, Typed, Frame
<1>6. QED
  BY <1>1, <1>2, <1>3, <1>4, <1>5, ContinueGood DEF StaysGood

LEMMA FailedAttemptGoes ==
  ASSUME NEW p, NEW q, Sound(p), QueueFits(p, q), p.chain # <<>>,
         NEW rest, Alone(rest, "autosave"), Alone(rest, "exit"),
         ~IsAsking(rest, "autosave"), IsAsking(rest, "exit") <=> IsAsking(q, "exit")
  PROVE  LET f == FailedAttempt(p)
         IN /\ Sound(f) /\ GoesOn(f, rest) /\ f.label \in {"retrying", "failed"}
            /\ f.generation = p.generation /\ f.persisted = p.persisted /\ f.kept = p.kept
            /\ f.discarding = p.discarding
            /\ f.exit = "closing" => p.exit = "closing"
<1>1. PICK g, h : g = Failed(p) /\ h = ExitFailed(g)
  OBVIOUS
<1>2. /\ Sound(g) /\ g.generation = p.generation /\ g.exit = p.exit /\ g.kept = p.kept
      /\ g.chain = Tail(p.chain) /\ g.waits = Waited(p) /\ g.persisted = p.persisted
      /\ g.label \in {"retrying", "failed"} /\ g.discarding = p.discarding
  BY <1>1, FailedSound
<1>3. /\ Sound(h) /\ h.generation = g.generation /\ h.exit = "no" /\ h.kept = g.kept
      /\ h.chain = g.chain /\ h.persisted = g.persisted /\ h.label = "failed"
      /\ h.discarding = g.discarding
  BY <1>1, <1>2, ExitFailedSound
<1>4. IsAsking(rest, "exit") <=> p.exit = "saving"
  BY DEF QueueFits
<1>5. GoesOn(g, rest)
  <2>1. Len(Tail(p.chain)) = Len(p.chain) - 1 /\ Len(p.chain) \in Nat \ {0}
    BY ChainTail DEF Sound, Panel
  <2>2. p.exit \in {"flushing", "draining"} => Waited(p) \in 0..Len(Tail(p.chain))
    BY <2>1 DEF QueueFits, Waited
  <2>3. QED
    BY <1>2, <1>4, <2>2 DEF GoesOn
<1>6. CASE p.exit = "flushing" /\ p.own /\ p.waits = 1
  <2>1. FailedAttempt(p) = h
    BY <1>1, <1>6 DEF FailedAttempt
  <2>2. GoesOn(h, rest)
    BY <1>3, <1>4, <1>6 DEF GoesOn
  <2>3. QED
    BY <1>2, <1>3, <2>1, <2>2
<1>7. CASE ~(p.exit = "flushing" /\ p.own /\ p.waits = 1)
  <2>1. FailedAttempt(p) = g
    BY <1>1, <1>7 DEF FailedAttempt
  <2>2. QED
    BY <1>2, <1>5, <2>1
<1>8. QED
  BY <1>6, <1>7

LEMMA GiveUpGood ==
  ASSUME Typed, NEW s \in Sessions, Good(s), NEW i, GiveUp(s, i)
  PROVE  StaysGood(s)
<1>1. PICK p, q, save, unawaited :
        /\ p = panels[s] /\ q = saves[s] /\ save = q[i]
        /\ unawaited = [save EXCEPT !.awaited = "nobody"]
  OBVIOUS
<1>2. /\ i \in DOMAIN q /\ q \in Seq(Save) /\ save.awaited # "nobody"
      /\ Sound(p) /\ QueueFits(p, q) /\ UNCHANGED <<draft, stored, frames>>
  BY <1>1 DEF GiveUp, Good, Typed
<1>3. save \in Save
  BY <1>1, <1>2, LenProperties
<1>4. save.awaited \in {"autosave", "exit"}
  BY <1>2, <1>3 DEF Save
<1>5. unawaited \in Save /\ unawaited.awaited = "nobody" /\ unawaited.token = save.token
  BY <1>1, <1>3 DEF Save
<1>6. PICK f : f = IF save.awaited = "exit" THEN ExitFailed(p) ELSE FailedAttempt(p)
  OBVIOUS
<1>7. PICK rest : /\ rest = RemoveAt(q, i) \/ rest = [q EXCEPT ![i] = unawaited]
                  /\ Continue(s, f, rest, frames[s].token)
  <2>1. \/ Continue(s, f, RemoveAt(saves[s], i), frames[s].token)
        \/ Continue(s, f, [saves[s] EXCEPT ![i].awaited = "nobody"], frames[s].token)
    BY <1>1, <1>6 DEF GiveUp
  <2>2. [saves[s] EXCEPT ![i].awaited = "nobody"] = [q EXCEPT ![i] = unawaited]
    BY <1>1
  <2>3. QED
    BY <1>1, <2>1, <2>2
<1>8. /\ rest \in Seq(Save)
      /\ \A why \in {"autosave", "exit"} :
           Alone(rest, why) /\ (IsAsking(rest, why) <=> (IsAsking(q, why) /\ save.awaited # why))
      /\ \A k \in DOMAIN rest : \E l \in DOMAIN q :
           rest[k].token = q[l].token /\ (rest[k] = q[l] \/ rest[k].awaited = "nobody")
  <2>1. Alone(q, "autosave") /\ Alone(q, "exit")
    BY <1>2 DEF QueueFits
  <2>2. CASE rest = RemoveAt(q, i)
    <3>1. rest \in Seq(Save) /\ \A k \in DOMAIN rest : \E l \in DOMAIN q : rest[k] = q[l]
      BY <1>2, <2>2, Removed
    <3>2. ASSUME NEW why \in {"autosave", "exit"}
          PROVE  Alone(rest, why) /\ (IsAsking(rest, why) <=> (IsAsking(q, why) /\ save.awaited # why))
      BY <1>1, <1>2, <2>1, <2>2, RemovedAsks
    <3>3. QED
      BY <3>1, <3>2
  <2>3. CASE rest = [q EXCEPT ![i] = unawaited]
    <3>1. i \in 1..Len(q) /\ DOMAIN q = 1..Len(q)
      BY <1>2, LenProperties
    <3>2. /\ rest \in Seq(Save) /\ Len(rest) = Len(q)
          /\ \A j \in 1..Len(q) : rest[j] = IF j = i THEN unawaited ELSE q[j]
      BY <1>2, <1>5, <2>3, <3>1, ExceptSeq
    <3>3. DOMAIN rest = 1..Len(q)
      BY <3>2, LenProperties
    <3>4. ASSUME NEW why \in {"autosave", "exit"}
          PROVE  Alone(rest, why) /\ (IsAsking(rest, why) <=> (IsAsking(q, why) /\ save.awaited # why))
      <4>1. /\ Alone(rest, why)
            /\ IsAsking(rest, why) <=>
                 (IsAsking(q, why) /\ (q[i].awaited = why => unawaited.awaited = why))
        <5> DEFINE t == [q EXCEPT ![i] = unawaited]
        <5>1. Alone(q, why)
          BY <2>1
        <5>2. /\ Alone(t, why)
              /\ IsAsking(t, why) <=>
                   (IsAsking(q, why) /\ (q[i].awaited = why => unawaited.awaited = why))
          BY <1>2, <1>5, <5>1, ReplacedAsks
        <5>3. QED
          BY <2>3, <5>2
      <4>2. QED
        BY <1>1, <1>5, <4>1
    <3>5. \A k \in DOMAIN rest : \E l \in DOMAIN q :
            rest[k].token = q[l].token /\ (rest[k] = q[l] \/ rest[k].awaited = "nobody")
      BY <1>1, <1>5, <3>1, <3>2, <3>3
    <3>6. QED
      BY <3>2, <3>4, <3>5
  <2>4. QED
    BY <1>7, <2>2, <2>3
<1>9. IsAsking(q, save.awaited)
  BY <1>1, <1>2 DEF IsAsking
<1>10. /\ Sound(f) /\ GoesOn(f, rest) /\ f.label \in {"retrying", "failed"}
       /\ f.generation = p.generation /\ f.persisted = p.persisted /\ f.kept = p.kept
       /\ f.exit = "closing" => p.exit = "closing"
       /\ IsAsking(rest, "autosave") => f.chain = p.chain
  <2>1. CASE save.awaited = "exit"
    <3>1. /\ Sound(f) /\ f.generation = p.generation /\ f.exit = "no" /\ f.kept = p.kept
          /\ f.chain = p.chain /\ f.persisted = p.persisted /\ f.label = "failed"
      BY <1>2, <1>6, <2>1, ExitFailedSound
    <3>2. GoesOn(f, rest)
      BY <1>2, <1>8, <2>1, <3>1 DEF GoesOn, QueueFits
    <3>3. QED
      BY <3>1, <3>2
  <2>2. CASE save.awaited = "autosave"
    <3>1. p.chain # <<>>
      BY <1>2, <1>9, <2>2 DEF QueueFits
    <3>2. /\ Alone(rest, "autosave") /\ Alone(rest, "exit")
          /\ ~IsAsking(rest, "autosave") /\ (IsAsking(rest, "exit") <=> IsAsking(q, "exit"))
      BY <1>8, <2>2
    <3>3. f = FailedAttempt(p)
      BY <1>6, <2>2
    <3>4. QED
      BY <1>2, <3>1, <3>2, <3>3, FailedAttemptGoes
  <2>3. QED
    BY <1>4, <2>1, <2>2
<1>11. QED
  BY <1>1, <1>2, <1>7, <1>8, <1>10, AbandonedGood

\* Sessions that end.
LEMMA NobodyAsks ==
  ASSUME NEW q \in Seq(Save), NEW why \in {"autosave", "exit"}
  PROVE  LET r == Unawaited(q)
         IN /\ DOMAIN r = DOMAIN q
            /\ \A i \in DOMAIN q : r[i].awaited = "nobody" /\ r[i].token = q[i].token
            /\ Alone(r, why) /\ ~IsAsking(r, why)
<1>1. \A i \in DOMAIN q : q[i] \in Save
  BY LenProperties
<1>2. PICK r : r = Unawaited(q)
  OBVIOUS
<1>3. DOMAIN r = DOMAIN q
  BY <1>2 DEF Unawaited
<1>4. ASSUME NEW i \in DOMAIN q PROVE r[i].awaited = "nobody" /\ r[i].token = q[i].token
  <2>1. r[i] = [q[i] EXCEPT !.awaited = "nobody"]
    BY <1>2 DEF Unawaited
  <2>2. QED
    BY <1>1, <2>1 DEF Save
<1>5. Alone(r, why) /\ ~IsAsking(r, why)
  BY <1>3, <1>4 DEF Alone, IsAsking
<1>6. QED
  BY <1>2, <1>3, <1>4, <1>5

LEMMA EndsGood ==
  ASSUME Typed, NEW s \in Sessions, Good(s), CloseSession(s) \/ Discarded(s)
  PROVE  StaysGood(s)
<1>0. PICK label \in {"closed", "discarded"} :
        /\ panels' = [panels EXCEPT ![s] = Destroyed(panels[s], label)]
        /\ label = "closed" => panels[s].exit = "closing"
  BY DEF CloseSession, Discarded
<1>1. PICK p, q, f :
        /\ p = panels[s] /\ q = saves[s] /\ f = Destroyed(p, label)
        /\ panels' = [panels EXCEPT ![s] = f]
        /\ label = "closed" => p.exit = "closing"
  BY <1>0
<1>2. /\ saves' = [saves EXCEPT ![s] = Unawaited(q)]
      /\ frames' = [frames EXCEPT ![s].session = "revoked"]
      /\ UNCHANGED <<draft, stored>>
  BY <1>1 DEF CloseSession, Discarded
<1>3. PICK r : r = Unawaited(q)
  OBVIOUS
<1>4. panels'[s] = f /\ saves'[s] = r
  BY <1>1, <1>2, <1>3 DEF Typed, PanelsOK
<1>5. frames'[s].token = frames[s].token /\ frames'[s].edits = frames[s].edits
  BY <1>2 DEF Typed, Frame
<1>6. /\ Sound(f) /\ f.generation = p.generation /\ f.exit = "no" /\ f.kept = p.kept
      /\ f.chain = <<>> /\ f.persisted = p.persisted /\ f.label = label
  BY <1>1, DestroyedSound DEF Good
<1>7. /\ DOMAIN r = DOMAIN q
      /\ \A i \in DOMAIN q : r[i].awaited = "nobody" /\ r[i].token = q[i].token
      /\ \A why \in {"autosave", "exit"} : Alone(r, why) /\ ~IsAsking(r, why)
  <2>1. q \in Seq(Save)
    BY <1>1 DEF Typed
  <2>2. QED
    BY <1>3, <2>1, NobodyAsks
<1>8. QueueFits(f, r)
  BY <1>6, <1>7 DEF QueueFits
<1>9. Promised(s, f, stored)
  BY <1>1, <1>6 DEF Good, Kept, Promised
<1>10. \A i \in DOMAIN r : Serves(s, f, r[i], stored, draft.updatedAt)
  BY <1>7 DEF Serves
<1>11. IsCurrent(frames[s].token, r, draft.updatedAt) => HasAll(s, f.generation, frames[s].edits)
  BY <1>1, <1>6, <1>7 DEF Good, Kept, IsCurrent
<1>12. Kept(s, f, frames'[s], r, stored, draft.updatedAt)
  BY <1>5, <1>9, <1>10, <1>11 DEF Kept
<1>13. QED
  BY <1>1, <1>2, <1>4, <1>6, <1>8, <1>12 DEF Good, StaysGood

\* What a discard or a failed close leaves of a panel.
LEMMA LeftGood ==
  ASSUME Typed, NEW s \in Sessions, Good(s), NEW f, Sound(f),
         panels' = [panels EXCEPT ![s] = f],
         \E after : frames' = [frames EXCEPT ![s].session = after],
         UNCHANGED <<draft, stored, saves>>,
         f.generation = panels[s].generation, f.kept = panels[s].kept,
         f.chain = panels[s].chain, f.persisted = panels[s].persisted,
         f.label \in {"saving", "failed"}, QueueFits(f, saves[s]),
         f.exit = "closing" => panels[s].exit = "closing"
  PROVE  StaysGood(s)
<1>1. PICK p : p = panels[s]
  OBVIOUS
<1>2. /\ panels'[s] = f /\ frames'[s].token = frames[s].token
      /\ frames'[s].edits = frames[s].edits
  BY DEF Typed, PanelsOK, Frame
<1>3. Promised(s, f, stored)
  BY <1>1 DEF Good, Kept, Promised
<1>4. \A i \in DOMAIN saves[s] : Serves(s, f, saves[s][i], stored, draft.updatedAt)
  BY <1>1 DEF Good, Kept, Serves
<1>5. Kept(s, f, frames'[s], saves[s], stored, draft.updatedAt)
  BY <1>1, <1>2, <1>3, <1>4 DEF Good, Kept
<1>6. QED
  BY <1>1, <1>2, <1>5 DEF Good, StaysGood

LEMMA CloseFailsGood ==
  ASSUME Typed, NEW s \in Sessions, Good(s), CloseFails(s)
  PROVE  StaysGood(s)
<1>1. PICK p, f : p = panels[s] /\ f = ExitFailed(p)
  OBVIOUS
<1>2. /\ panels' = [panels EXCEPT ![s] = f] /\ p.exit = "closing"
      /\ \E after : frames' = [frames EXCEPT ![s].session = after]
      /\ UNCHANGED <<draft, stored, saves>>
  BY <1>1 DEF CloseFails
<1>3. /\ Sound(f) /\ f.generation = p.generation /\ f.exit = "no" /\ f.kept = p.kept
      /\ f.chain = p.chain /\ f.persisted = p.persisted /\ f.label = "failed"
  BY <1>1, ExitFailedSound DEF Good
<1>4. QueueFits(f, saves[s])
  BY <1>1, <1>2, <1>3 DEF Good, QueueFits
<1>5. QED
  BY <1>1, <1>2, <1>3, <1>4, LeftGood

LEMMA DiscardAndCloseGood ==
  ASSUME Typed, NEW s \in Sessions, Good(s), DiscardAndClose(s)
  PROVE  StaysGood(s)
<1>1. PICK p, asks, f :
        /\ p = panels[s] /\ asks = (p.exit # "closing")
        /\ f = [p EXCEPT !.pending = 0, !.timer = FALSE, !.discarding = asks,
                         !.label = IF asks THEN "saving" ELSE "failed"]
  OBVIOUS
<1>2. /\ panels' = [panels EXCEPT ![s] = f] /\ UNCHANGED <<draft, stored, frames, saves>>
      /\ p.label \notin {"closed", "discarded"}
  BY <1>1 DEF DiscardAndClose, IsOpen
<1>3. p \in Panel /\ Sound(p) /\ QueueFits(p, saves[s]) /\ asks \in BOOLEAN /\ 0 \in 0..MaxEdits
  BY <1>1, BoundsAssumption DEF Good, Sound
<1>4. /\ f \in Panel /\ f.generation = p.generation /\ f.exit = p.exit /\ f.kept = p.kept
      /\ f.waits = p.waits /\ f.chain = p.chain /\ f.persisted = p.persisted
      /\ f.pending = 0 /\ ~f.timer /\ f.discarding = asks
      /\ f.label = IF asks THEN "saving" ELSE "failed"
  BY <1>1, <1>3 DEF Panel
<1>5. Sound(f)
  BY <1>3, <1>4 DEF Sound, UnderWay
<1>6. QueueFits(f, saves[s])
  BY <1>3, <1>4 DEF QueueFits
<1>7. frames' = [frames EXCEPT ![s].session = frames[s].session]
  BY <1>2 DEF Typed, Frame
<1>8. QED
  BY <1>1, <1>2, <1>4, <1>5, <1>6, <1>7, LeftGood

LEMMA DiscardFailsGood ==
  ASSUME Typed, NEW s \in Sessions, Good(s), DiscardFails(s)
  PROVE  StaysGood(s)
<1>1. PICK p, f : p = panels[s] /\ f = [p EXCEPT !.discarding = FALSE, !.label = "failed"]
  OBVIOUS
<1>2. /\ panels' = [panels EXCEPT ![s] = f]
      /\ \E after : frames' = [frames EXCEPT ![s].session = after]
      /\ UNCHANGED <<draft, stored, saves>>
  BY <1>1 DEF DiscardFails
<1>3. p \in Panel /\ Sound(p) /\ QueueFits(p, saves[s])
  BY <1>1 DEF Good, Sound
<1>4. /\ f \in Panel /\ f.generation = p.generation /\ f.exit = p.exit /\ f.kept = p.kept
      /\ f.waits = p.waits /\ f.chain = p.chain /\ f.persisted = p.persisted
      /\ f.pending = p.pending /\ f.timer = p.timer /\ f.label = "failed"
  BY <1>1, <1>3 DEF Panel
<1>5. Sound(f)
  BY <1>3, <1>4 DEF Sound
<1>6. QueueFits(f, saves[s])
  BY <1>3, <1>4 DEF QueueFits
<1>7. QED
  BY <1>1, <1>2, <1>4, <1>5, <1>6, LeftGood

LEMMA OpenSessionGood ==
  ASSUME SInv, NEW s \in Sessions, Good(s), OpenSession(s)
  PROVE  StaysGood(s)
<1>1. panels[s] = NewPanel /\ saves[s] = <<>>
  BY DEF SInv, SessionFits, NewIsIdle, OpenSession
<1>2. HasAll(s, panels[s].generation, frames'[s].edits)
  BY <1>1 DEF NewPanel, HasAll
<1>3. UNCHANGED <<draft, stored, panels, saves>>
  BY DEF OpenSession
<1>4. Kept(s, panels[s], frames'[s], saves[s], stored, draft.updatedAt)
  BY <1>2 DEF Good, Kept
<1>5. QED
  BY <1>3, <1>4 DEF Good, StaysGood

LEMMA EditStepGood ==
  ASSUME Typed, NEW s \in Sessions, Good(s), NEW t \in Steps, EditStep(s, t),
         panels[s].generation + 1 \in 1..MaxEdits
  PROVE  Good(s)' /\ panels'[s].generation = panels[s].generation + 1
<1>1. PICK p, n, edit, f :
        /\ p = panels[s] /\ n = p.generation + 1 /\ edit = [by |-> s, step |-> t, n |-> n]
        /\ f = [p EXCEPT !.generation = n, !.pending = n, !.retries = 0, !.label = "saving",
                         !.timer = TRUE]
  OBVIOUS
<1>2. /\ Sound(p) /\ QueueFits(p, saves[s]) /\ n \in 1..MaxEdits
      /\ p.label \notin {"closed", "discarded"}
      /\ UNCHANGED <<draft, stored, saves>>
  BY <1>1 DEF Good, EditStep, IsOpen
<1>3. panels'[s] = f
  BY <1>1 DEF EditStep, Typed, PanelsOK
<1>4. frames'[s].token = frames[s].token /\ frames'[s].edits = frames[s].edits \union {edit}
  BY <1>1 DEF EditStep, Typed, Frame
<1>5. /\ f \in Panel /\ f.generation = n /\ f.pending = n /\ f.timer = TRUE /\ f.label = "saving"
      /\ f.chain = p.chain /\ f.exit = p.exit /\ f.kept = p.kept /\ f.waits = p.waits
      /\ f.persisted = p.persisted
  <2>1. p \in Panel /\ n \in 0..MaxEdits /\ 0 \in 0..MaxRetries
    BY <1>2, BoundsAssumption DEF Sound
  <2>2. f = [p EXCEPT !.generation = n, !.pending = n, !.retries = 0, !.label = "saving", !.timer = TRUE]
    BY <1>1
  <2>3. QED
    BY <2>1, <2>2 DEF Panel
<1>6. p.generation \in Nat /\ p.kept \in Nat /\ \A j \in DOMAIN p.chain : p.chain[j] \in Nat
  <2>1. p.generation \in Nat /\ p.kept \in Nat /\ p.chain \in Seq(1..MaxEdits)
    BY <1>2, BoundsAssumption DEF Sound, Panel
  <2>2. \A j \in DOMAIN p.chain : p.chain[j] \in 1..MaxEdits
    BY <2>1, LenProperties
  <2>3. QED
    BY <2>1, <2>2
<1>7. Sound(f)
  <2>1. \A j \in DOMAIN p.chain : p.chain[j] <= n
    BY <1>1, <1>2, <1>6 DEF Sound
  <2>2. f.exit # "no" => f.kept <= n
    BY <1>1, <1>2, <1>5, <1>6 DEF Sound
  <2>3. n # 0
    BY <1>2
  <2>4. QED
    BY <1>5, <2>1, <2>2, <2>3 DEF Sound, UnderWay
<1>8. QueueFits(f, saves[s])
  BY <1>2, <1>5 DEF QueueFits
<1>9. Promised(s, f, stored)
  BY <1>1, <1>2, <1>5 DEF Good, Kept, Promised
<1>10. \A i \in DOMAIN saves[s] : Serves(s, f, saves[s][i], stored, draft.updatedAt)
  BY <1>1, <1>5 DEF Good, Kept, Serves
<1>11. ASSUME IsCurrent(frames[s].token, saves[s], draft.updatedAt)
       PROVE  HasAll(s, n, frames[s].edits \union {edit})
  <2>1. HasAll(s, p.generation, frames[s].edits)
    BY <1>1, <1>11 DEF Good, Kept
  <2>2. \A k \in 1..n : k \in 1..p.generation \/ k = n
    BY <1>1, <1>6
  <2>3. edit.by = s /\ edit.n = n
    BY <1>1
  <2>4. QED
    BY <2>1, <2>2, <2>3 DEF HasAll
<1>12. Kept(s, f, frames'[s], saves[s], stored, draft.updatedAt)
  BY <1>4, <1>5, <1>9, <1>10, <1>11 DEF Kept
<1>13. QED
  BY <1>1, <1>2, <1>3, <1>5, <1>7, <1>8, <1>12 DEF Good

LEMMA ReadDraftGood ==
  ASSUME Typed, NEW s \in Sessions, Good(s), NEW i, ReadDraft(s, i)
  PROVE  StaysGood(s)
<1>1. i \in DOMAIN saves[s] /\ saves[s][i].phase = "posted" /\ UNCHANGED <<draft, stored, frames, panels>>
  BY DEF ReadDraft
<1>2. PICK old, save : old = saves[s][i] /\ save = [old EXCEPT !.seen = draft.edits, !.phase = "read"]
  OBVIOUS
<1>3. saves[s] \in Seq(Save)
  BY DEF Typed
<1>4. old \in Save
  BY <1>1, <1>2, <1>3, LenProperties
<1>5. CASE saves' = [saves EXCEPT ![s][i].seen = draft.edits, ![s][i].phase = "read"]
  <2>1. /\ save.awaited = old.awaited /\ save.token = old.token /\ save.edits = old.edits
        /\ save.phase = "read"
    BY <1>2, <1>4 DEF Save
  <2>2. Serves(s, panels[s], old, stored, draft.updatedAt) /\ old.phase = "posted"
    BY <1>1, <1>2 DEF Good, Kept
  <2>3. Serves(s, panels[s], save, stored, draft.updatedAt)
    BY <2>1, <2>2 DEF Serves, Carries
  <2>4. saves'[s] = [saves[s] EXCEPT ![i] = save]
    BY <1>1, <1>2, <1>5 DEF Typed
  <2>5. save.awaited = saves[s][i].awaited /\ save.token = saves[s][i].token
    BY <1>2, <2>1
  <2>6. QED
    BY <1>1, <2>3, <2>4, <2>5, ReplacedGood
<1>6. CASE Refused(s, i, "refused")
  BY <1>1, <1>6, RefusedGood
<1>7. QED
  BY <1>5, <1>6 DEF ReadDraft

LEMMA CheckStepLocksGood ==
  ASSUME Typed, NEW s \in Sessions, Good(s), NEW i, CheckStepLocks(s, i)
  PROVE  StaysGood(s)
<1>1. i \in DOMAIN saves[s] /\ saves[s][i].phase = "read" /\ UNCHANGED <<draft, stored, frames, panels>>
  BY DEF CheckStepLocks
<1>2. PICK changed : changed = ChangedSteps(saves[s][i].seen, saves[s][i].edits)
  OBVIOUS
<1>3. PICK old, save : old = saves[s][i] /\ save = [old EXCEPT !.cleared = changed, !.phase = "checked"]
  OBVIOUS
<1>4. saves[s] \in Seq(Save)
  BY DEF Typed
<1>5. old \in Save
  BY <1>1, <1>3, <1>4, LenProperties
<1>6. CASE saves' = [saves EXCEPT ![s][i].cleared = changed, ![s][i].phase = "checked"]
  <2>1. /\ save.awaited = old.awaited /\ save.token = old.token /\ save.edits = old.edits
        /\ save.phase = "checked"
    BY <1>3, <1>5 DEF Save
  <2>2. Serves(s, panels[s], old, stored, draft.updatedAt) /\ old.phase = "read"
    BY <1>1, <1>3 DEF Good, Kept
  <2>3. Serves(s, panels[s], save, stored, draft.updatedAt)
    BY <2>1, <2>2 DEF Serves, Carries
  <2>4. saves'[s] = [saves[s] EXCEPT ![i] = save]
    BY <1>1, <1>3, <1>6 DEF Typed
  <2>5. save.awaited = saves[s][i].awaited /\ save.token = saves[s][i].token
    BY <1>3, <2>1
  <2>6. QED
    BY <1>1, <2>3, <2>4, <2>5, ReplacedGood
<1>7. CASE Refused(s, i, "refused")
  BY <1>1, <1>7, RefusedGood
<1>8. QED
  BY <1>2, <1>6, <1>7 DEF CheckStepLocks

\* Whatever was known before a write is older than the write.
LEMMA OlderTokens ==
  ASSUME SInv, NEW x \in Sessions
  PROVE  ~IsCurrent(frames[x].token, saves[x], draft.updatedAt + 1)
<1>1. /\ draft.updatedAt \in Nat /\ frames[x].token \in Nat /\ frames[x].token <= draft.updatedAt
      /\ \A i \in DOMAIN saves[x] : saves[x][i].token \in Nat /\ saves[x][i].token <= draft.updatedAt
  <2>1. draft.updatedAt \in Nat /\ frames[x].token \in Nat /\ saves[x] \in Seq(Save)
    BY DEF SInv, Typed, Frame, Time
  <2>2. \A i \in DOMAIN saves[x] : saves[x][i] \in Save
    BY <2>1, LenProperties
  <2>3. \A i \in DOMAIN saves[x] : saves[x][i].token \in Nat
    BY <2>2 DEF Save, Time
  <2>4. QED
    BY <2>1, <2>3 DEF SInv, SessionFits, FrameFits, Fits
<1>2. QED
  BY <1>1 DEF IsCurrent

\* A session that did not write the draft itself.
LEMMA OvertakenGood ==
  ASSUME SInv, NEW x \in Sessions, Good(x),
         panels'[x] = panels[x], saves'[x] = saves[x], frames'[x].token = frames[x].token,
         stored \subseteq stored', draft'.updatedAt = draft.updatedAt + 1
  PROVE  StaysGood(x)
BY OlderTokens, OtherGood

LEMMA SaveDocumentGood ==
  ASSUME SInv, NEW s \in Sessions, Good(s), NEW i, SaveDocument(s, i)
  PROVE  StaysGood(s)
<1>1. /\ Typed /\ i \in DOMAIN saves[s] /\ saves[s][i].phase = "checked"
      /\ UNCHANGED <<frames, panels>>
  BY DEF SaveDocument, SInv
<1>2. CASE Refused(s, i, "conflict") /\ UNCHANGED <<draft, stored>>
  BY <1>1, <1>2, RefusedGood
<1>3. CASE /\ SaveExpected(saves[s][i].token)
           /\ draft' = Written(saves[s][i].edits, s)
           /\ stored' = stored \union saves[s][i].edits
           /\ saves' = [saves EXCEPT ![s][i].phase = "stored", ![s][i].token = draft'.updatedAt]
  <2>1. PICK p, q, old, time, save :
          /\ p = panels[s] /\ q = saves[s] /\ old = q[i] /\ time = draft'.updatedAt
          /\ save = [old EXCEPT !.phase = "stored", !.token = time]
    OBVIOUS
  <2>2. q \in Seq(Save) /\ saves \in [Sessions -> Seq(Save)]
    BY <1>1, <2>1 DEF Typed
  <2>3. old \in Save
    BY <1>1, <2>1, <2>2, LenProperties
  <2>4. /\ save.phase = "stored" /\ save.token = time /\ save.awaited = old.awaited
    BY <2>1, <2>3 DEF Save
  <2>5. time = draft.updatedAt + 1 /\ draft.updatedAt \in Nat
    BY <1>1, <1>3, <2>1 DEF Written, Typed
  <2>6. PICK r : r = [q EXCEPT ![i] = save]
    OBVIOUS
  <2>7. saves' = [saves EXCEPT ![s] = r]
    BY <1>1, <1>3, <2>1, <2>2, <2>6
  <2>8. saves'[s] = r /\ DOMAIN r = DOMAIN q /\ r[i] = save /\ \A j \in DOMAIN q : j # i => r[j] = q[j]
    BY <1>1, <2>1, <2>2, <2>6, <2>7
  <2>9. QueueFits(p, r)
    <3>1. ASSUME NEW why \in {"autosave", "exit"}
          PROVE  Alone(q, why) => Alone(r, why) /\ (IsAsking(r, why) <=> IsAsking(q, why))
      <4>1. save.awaited = q[i].awaited
        BY <2>1, <2>4
      <4> DEFINE t == [q EXCEPT ![i] = save]
      <4>2. ASSUME Alone(q, why) PROVE Alone(t, why) /\ (IsAsking(t, why) <=> IsAsking(q, why))
        <5>1. i \in DOMAIN q /\ q \in Seq(Save) /\ Alone(q, why)
          BY <1>1, <2>1, <2>2, <4>2
        <5>2. /\ Alone(t, why)
              /\ IsAsking(t, why) <=>
                   (IsAsking(q, why) /\ (q[i].awaited = why => save.awaited = why))
          BY <4>1, <5>1, ReplacedAsks
        <5> HIDE DEF t
        <5>3. QED
          BY <4>1, <5>2
      <4>3. QED
        BY <2>6, <4>2
    <3>2. QED
      BY <2>1, <3>1 DEF Good, QueueFits
  <2>10. old.token = draft.updatedAt
    BY <1>3, <2>1 DEF SaveExpected
  <2>11. ASSUME NEW j \in DOMAIN r PROVE Serves(s, p, r[j], stored', time)
    <3>1. Serves(s, p, q[j], stored, draft.updatedAt)
      BY <2>1, <2>8 DEF Good, Kept
    <3>2. CASE j = i
      <4>1. ASSUME NEW n, Carries(s, old, n, stored, draft.updatedAt)
            PROVE  Carries(s, save, n, stored', time)
        <5>1. HasAll(s, n, old.edits)
          BY <1>1, <2>1, <2>10, <4>1 DEF Carries
        <5>2. HasAll(s, n, stored')
          BY <1>3, <2>1, <5>1, HasMore
        <5>3. QED
          BY <2>4, <5>2 DEF Carries
      <4>2. QED
        BY <2>1, <2>4, <2>8, <3>1, <3>2, <4>1 DEF Serves
    <3>3. CASE j # i
      <4>1. r[j] = q[j] /\ stored \subseteq stored'
        BY <1>3, <2>8, <3>3
      <4>2. q[j].token # time
        BY <2>1, <2>5, <2>8, OlderTokens DEF IsCurrent
      <4>3. ASSUME NEW n, Carries(s, q[j], n, stored, draft.updatedAt)
            PROVE  Carries(s, q[j], n, stored', time)
        BY <4>1, <4>2, <4>3, HasMore DEF Carries
      <4>4. QED
        BY <3>1, <4>1, <4>3 DEF Serves
    <3>4. QED
      BY <3>2, <3>3
  <2>12. Promised(s, p, stored')
    <3>1. stored \subseteq stored' /\ Promised(s, p, stored)
      BY <1>3, <2>1 DEF Good, Kept
    <3>2. QED
      BY <3>1, HasMore DEF Promised
  <2>13. HasAll(s, p.generation, frames[s].edits)
    BY <1>1, <2>1, <2>10 DEF Good, Kept, IsCurrent
  <2>14. Kept(s, p, frames[s], r, stored', time)
    BY <2>11, <2>12, <2>13 DEF Kept
  <2>15. QED
    BY <1>1, <2>1, <2>8, <2>9, <2>14 DEF Good, StaysGood
<1>4. QED
  BY <1>2, <1>3 DEF SaveDocument

Writes ==
  \/ UNCHANGED <<draft, stored>>
  \/ draft'.updatedAt = draft.updatedAt + 1 /\ stored \subseteq stored'

LEMMA AcknowledgementGood ==
  ASSUME SInv, NEW s \in Sessions, Good(s), AcknowledgeDocumentTheme(s)
  PROVE  StaysGood(s)
<1>1. frames \in [Sessions -> Frame] /\ UNCHANGED <<panels, saves>>
  BY DEF SInv, Typed, AcknowledgeDocumentTheme
<1>2. CASE frames' = [frames EXCEPT ![s].acks = {}] /\ UNCHANGED <<draft, stored>>
  <2>1. frames'[s].token = frames[s].token /\ frames'[s].edits = frames[s].edits
    BY <1>1, <1>2 DEF Frame
  <2>2. QED
    BY <1>1, <1>2, <2>1, OtherGood
<1>3. ASSUME NEW ack, draft' = Written(ack.edits, s), stored' = stored \union ack.edits,
             frames' = [frames EXCEPT ![s].edits = ack.edits, ![s].acks = {},
                                      ![s].reviewed = draft'.updatedAt]
      PROVE  StaysGood(s)
  <2>1. frames'[s].token = frames[s].token
    BY <1>1, <1>3 DEF Frame
  <2>2. draft'.updatedAt = draft.updatedAt + 1 /\ stored \subseteq stored'
    BY <1>3 DEF Written
  <2>3. QED
    BY <1>1, <2>1, <2>2, OvertakenGood
<1>4. QED
  BY <1>2, <1>3 DEF AcknowledgeDocumentTheme

\* Brand checks, claims and the acknowledgement that is sent.
LEMMA ReviewGood ==
  ASSUME SInv, NEW s \in Sessions, Good(s),
         CheckBrand(s) \/ SendAcknowledgement(s) \/ \E t \in Steps : ClaimStepLock(s, t)
  PROVE  StaysGood(s)
<1>1. frames \in [Sessions -> Frame]
  BY DEF SInv, Typed
<1>2. frames'[s].token = frames[s].token /\ frames'[s].edits = frames[s].edits
  BY <1>1 DEF CheckBrand, SendAcknowledgement, ClaimStepLock, Frame
<1>3. UNCHANGED <<draft, stored, panels, saves>>
  BY DEF CheckBrand, SendAcknowledgement, ClaimStepLock
<1>4. QED
  BY <1>2, <1>3, OtherGood

\* A step of one session changes nothing of the others'.
LEMMA OnlyOne ==
  ASSUME SInv, NEW s \in Sessions, Author(s) \/ Network(s) \/ Route(s) \/ FlushAutoSave(s)
  PROVE  OthersKept(s) /\ Writes
<1>1. /\ frames \in [Sessions -> Frame] /\ saves \in [Sessions -> Seq(Save)]
      /\ PanelsOK
  BY DEF SInv, Typed
<1>2. ASSUME NEW p, NEW rest, NEW token, Continue(s, p, rest, token)
      PROVE  \A x \in Sessions \ {s} : saves'[x] = saves[x] /\ panels'[x] = panels[x]
  BY <1>1, <1>2 DEF Continue, PanelsOK
<1>3. CASE Author(s)
  <2>1. CASE SaveAndExit(s)
    <3>1. PICK p : Continue(s, p, saves[s], frames[s].token)
      BY <2>1 DEF SaveAndExit
    <3>2. UNCHANGED <<draft, stored, frames>>
      BY <2>1 DEF SaveAndExit
    <3>3. QED
      BY <1>2, <3>1, <3>2 DEF OthersKept, Writes
  <2>2. CASE OpenSession(s) \/ CheckBrand(s) \/ SendAcknowledgement(s)
    BY <1>1, <2>2 DEF OpenSession, CheckBrand, SendAcknowledgement, OthersKept, Writes
  <2>3. CASE DiscardAndClose(s)
    BY <1>1, <2>3 DEF DiscardAndClose, OthersKept, Writes, PanelsOK
  <2>4. ASSUME NEW t \in Steps, EditStep(s, t) \/ ClaimStepLock(s, t)
        PROVE  OthersKept(s) /\ Writes
    BY <1>1, <2>4 DEF EditStep, ClaimStepLock, OthersKept, Writes, PanelsOK
  <2>5. QED
    BY <1>3, <2>1, <2>2, <2>3, <2>4 DEF Author
<1>4. ASSUME NEW i, ReceiveAnswer(s, i) PROVE OthersKept(s) /\ Writes
  <2>1. PICK p : Continue(s, p, RemoveAt(saves[s], i), saves[s][i].token)
    BY <1>4 DEF ReceiveAnswer
  <2>2. UNCHANGED <<draft, stored>> /\ frames' = [frames EXCEPT ![s].token = saves[s][i].token]
    BY <1>4 DEF ReceiveAnswer
  <2>3. QED
    BY <1>1, <1>2, <2>1, <2>2 DEF OthersKept, Writes
<1>5. ASSUME NEW i, GiveUp(s, i) PROVE OthersKept(s) /\ Writes
  <2>1. PICK p, rest : Continue(s, p, rest, frames[s].token)
    BY <1>5 DEF GiveUp
  <2>2. UNCHANGED <<draft, stored, frames>>
    BY <1>5 DEF GiveUp
  <2>3. QED
    BY <1>2, <2>1, <2>2 DEF OthersKept, Writes
<1>6. CASE FlushAutoSave(s)
  <2>1. Continue(s, Flushed(panels[s]), saves[s], frames[s].token) /\ UNCHANGED <<draft, stored, frames>>
    BY <1>6 DEF FlushAutoSave
  <2>2. QED
    BY <1>2, <2>1 DEF OthersKept, Writes
<1>7. CASE CloseSession(s) \/ CloseFails(s) \/ Discarded(s) \/ DiscardFails(s)
  BY <1>1, <1>7 DEF CloseSession, CloseFails, Discarded, DiscardFails, OthersKept, Writes, PanelsOK
<1>8. CASE AcknowledgeDocumentTheme(s)
  BY <1>1, <1>8 DEF AcknowledgeDocumentTheme, Written, OthersKept, Writes
<1>9. ASSUME NEW i, LoseRequest(s, i) \/ ReadDraft(s, i) \/ CheckStepLocks(s, i)
      PROVE  OthersKept(s) /\ Writes
  BY <1>1, <1>9 DEF LoseRequest, ReadDraft, CheckStepLocks, Refused, OthersKept, Writes
<1>10. ASSUME NEW i, SaveDocument(s, i) PROVE OthersKept(s) /\ Writes
  BY <1>1, <1>10 DEF SaveDocument, Refused, Written, OthersKept, Writes
<1>11. QED
  BY <1>3, <1>4, <1>5, <1>6, <1>7, <1>8, <1>9, <1>10 DEF Network, Route

LEMMA OthersStay ==
  ASSUME SInv, NEW s \in Sessions, OthersKept(s), Writes, NEW x \in Sessions \ {s}, Good(x)
  PROVE  StaysGood(x)
<1>1. panels'[x] = panels[x] /\ saves'[x] = saves[x] /\ frames'[x] = frames[x]
  BY DEF OthersKept
<1>2. QED
  BY <1>1, OtherGood, OvertakenGood DEF Writes

\* A session's own step, unless it edits.
LEMMA OwnStep ==
  ASSUME SInv, NEW s \in Sessions, Good(s),
         Author(s) \/ Network(s) \/ Route(s) \/ FlushAutoSave(s),
         \A t \in Steps : ~EditStep(s, t)
  PROVE  StaysGood(s)
<1>1. Typed
  BY DEF SInv
<1>2. CASE Author(s)
  BY <1>1, <1>2, OpenSessionGood, SaveAndExitGood, DiscardAndCloseGood, ReviewGood DEF Author
<1>3. CASE Network(s)
  <2>1. ASSUME NEW i, LoseRequest(s, i) PROVE StaysGood(s)
    BY <1>1, <2>1, RefusedGood DEF LoseRequest
  <2>2. QED
    BY <1>1, <1>3, <2>1, ReceiveAnswerGood, GiveUpGood, EndsGood, CloseFailsGood,
       DiscardFailsGood, AcknowledgementGood DEF Network
<1>4. CASE Route(s)
  BY <1>1, <1>4, ReadDraftGood, CheckStepLocksGood, SaveDocumentGood DEF Route
<1>5. CASE FlushAutoSave(s)
  BY <1>1, <1>5, FlushAutoSaveGood
<1>6. QED
  BY <1>2, <1>3, <1>4, <1>5

LEMMA EditsCounted ==
  ASSUME counts \in Count, [Next]_vars
  PROVE  /\ counts' \in Count /\ counts.edits <= counts'.edits
         /\ counts.fault <= counts'.fault /\ counts.unchecked <= counts'.unchecked
<1> DEFINE Grown(c) == /\ c \in Count /\ counts.edits <= c.edits
                       /\ counts.fault <= c.fault /\ counts.unchecked <= c.unchecked
<1>1. /\ Grown(counts)
      /\ Grown([counts EXCEPT !.edits = @ + 1])
      /\ Grown([counts EXCEPT !.unchecked = @ + 1])
      /\ Grown([counts EXCEPT !.claim = @ + 1])
      /\ Grown([counts EXCEPT !.discard = @ + 1])
      /\ Grown([counts EXCEPT !.fault = @ + 1])
      /\ Grown([counts EXCEPT !.review = @ + 1])
      /\ Grown([counts EXCEPT !.rewrite = @ + 1])
  BY DEF Count
<1>2. ASSUME NEW kind \in Kinds, Disturb(kind) \/ Again(kind) PROVE Grown(counts')
  BY <1>1, <1>2 DEF Kinds, Disturb, Again
<1>20. counts' = counts => Grown(counts')
  BY <1>1 DEF Count
<1> HIDE DEF Grown
<1>3. ASSUME NEW s \in Sessions, Author(s) PROVE Grown(counts')
  <2>1. ASSUME NEW t \in Steps, EditStep(s, t) PROVE Grown(counts')
    BY <1>1, <2>1 DEF EditStep
  <2>2. ASSUME NEW t \in Steps, ClaimStepLock(s, t) PROVE Grown(counts')
    BY <1>2, <2>2 DEF ClaimStepLock, Kinds
  <2>3. CASE CheckBrand(s) \/ SendAcknowledgement(s)
    BY <1>2, <2>3 DEF CheckBrand, SendAcknowledgement, Kinds
  <2>4. CASE OpenSession(s) \/ SaveAndExit(s) \/ DiscardAndClose(s)
    BY <1>2, <1>20, <2>4 DEF OpenSession, SaveAndExit, DiscardAndClose, Kinds
  <2>5. QED
    BY <1>3, <2>1, <2>2, <2>3, <2>4 DEF Author
<1>4. ASSUME NEW s \in Sessions, Network(s) PROVE Grown(counts')
  <2>1. ASSUME NEW i, ReceiveAnswer(s, i) \/ GiveUp(s, i) \/ LoseRequest(s, i)
        PROVE  Grown(counts')
    BY <1>1, <1>2, <2>1 DEF ReceiveAnswer, GiveUp, LoseRequest, Fault, Kinds
  <2>2. CASE CloseSession(s) \/ CloseFails(s) \/ Discarded(s) \/ DiscardFails(s)
    BY <1>1, <1>2, <2>2 DEF CloseSession, CloseFails, Discarded, DiscardFails, Fault, Kinds
  <2>3. CASE AcknowledgeDocumentTheme(s)
    BY <1>1, <2>3 DEF AcknowledgeDocumentTheme
  <2>4. QED
    BY <1>4, <2>1, <2>2, <2>3 DEF Network
<1>5. ASSUME NEW s \in Sessions, Route(s) PROVE Grown(counts')
  BY <1>20, <1>5 DEF Route, ReadDraft, CheckStepLocks, SaveDocument
<1>6. ASSUME NEW s \in Sessions, FlushAutoSave(s) PROVE Grown(counts')
  BY <1>20, <1>6 DEF FlushAutoSave
<1>7. ASSUME NEW t \in Steps, FreeStepLock(t) PROVE Grown(counts')
  BY <1>20, <1>7 DEF FreeStepLock
<1>8. ASSUME ReadForRewrite \/ ChangeForRewrite PROVE Grown(counts')
  BY <1>2, <1>8 DEF ReadForRewrite, ChangeForRewrite, Kinds
<1>9. ASSUME Rewrite PROVE Grown(counts')
  BY <1>1, <1>9 DEF Rewrite
<1>10. ASSUME UNCHANGED vars PROVE Grown(counts')
  BY <1>20, <1>10 DEF vars
<1>11. Grown(counts')
  BY <1>3, <1>4, <1>5, <1>6, <1>7, <1>8, <1>9, <1>10 DEF Next
<1>12. QED
  BY <1>11 DEF Grown

-----------------------------------------------------------------------------
(* The whole invariant *)

AInv ==
  /\ SInv
  /\ counts \in Count
  /\ \A s \in Sessions : Good(s) /\ panels[s].generation <= counts.edits

LEMMA AInit == Init => AInv
<1>1. ASSUME Init, NEW s \in Sessions PROVE Good(s)
  <2>1. panels[s] = NewPanel /\ saves[s] = <<>> /\ draft.updatedAt = 1 /\ frames[s].token = 0
    BY <1>1 DEF Init
  <2>2. <<>> \in Seq(1..MaxEdits) /\ DOMAIN <<>> = {}
    OBVIOUS
  <2>3. NewPanel \in Panel
    BY <2>2, BoundsAssumption DEF NewPanel, Panel
  <2>4. Sound(NewPanel)
    BY <2>2, <2>3 DEF NewPanel, Sound
  <2>5. QueueFits(NewPanel, <<>>)
    BY <2>2 DEF NewPanel, QueueFits, Alone, IsAsking
  <2>6. Kept(s, NewPanel, frames[s], <<>>, stored, draft.updatedAt)
    BY <2>1, <2>2 DEF Kept, NewPanel, Promised, HasAll, IsCurrent
  <2>7. QED
    BY <2>1, <2>4, <2>5, <2>6 DEF Good
<1>2. ASSUME Init PROVE counts \in Count /\ \A s \in Sessions : panels[s].generation <= counts.edits
  BY <1>2 DEF Init, Count, NewPanel
<1>3. QED
  BY <1>1, <1>2, InitOK DEF AInv

\* The edit that a panel schedules fits the bound.
LEMMA EditFits ==
  ASSUME AInv, NEW s \in Sessions, NEW t \in Steps, EditStep(s, t)
  PROVE  panels[s].generation + 1 \in 1..MaxEdits
<1>1. panels[s].generation \in Nat
  BY SoundBounds DEF AInv, Good
<1>2. counts.edits \in Nat /\ counts.edits < MaxEdits /\ panels[s].generation <= counts.edits
  BY DEF AInv, Count, EditStep
<1>3. QED
  BY <1>1, <1>2, BoundsAssumption

LEMMA NextOK == AInv /\ [Next]_vars => SInv'
<1> SUFFICES ASSUME AInv, [Next]_vars PROVE SInv'
  OBVIOUS
<1>0. SInv
  BY DEF AInv
<1>1. ASSUME NEW s \in Sessions, Author(s) PROVE SInv'
  <2>1. ASSUME NEW t \in Steps, EditStep(s, t) PROVE SInv'
    BY <1>0, <2>1, EditFits, EditStepOK
  <2>2. ASSUME NEW t \in Steps, ClaimStepLock(s, t) PROVE SInv'
    BY <1>0, <2>2, UnchangedOK DEF ClaimStepLock
  <2>3. QED
    BY <1>0, <1>1, <2>1, <2>2, OpenSessionOK, SaveAndExitOK, CloseOK, CheckBrandOK,
       SendAcknowledgementOK DEF Author
<1>2. ASSUME NEW s \in Sessions, Network(s) PROVE SInv'
  BY <1>0, <1>2, ReceiveAnswerOK, GiveUpOK, LoseRequestOK, CloseOK, AcknowledgeDocumentThemeOK
     DEF Network
<1>3. ASSUME NEW s \in Sessions, Route(s) PROVE SInv'
  BY <1>0, <1>3, ReadDraftOK, CheckStepLocksOK, SaveDocumentOK DEF Route
<1>4. ASSUME NEW s \in Sessions, FlushAutoSave(s) PROVE SInv'
  BY <1>0, <1>4, FlushAutoSaveOK
<1>5. ASSUME NEW t \in Steps, FreeStepLock(t) PROVE SInv'
  BY <1>0, <1>5, UnchangedOK DEF FreeStepLock
<1>6. CASE UNCHANGED vars
  BY <1>0, <1>6, UnchangedOK DEF vars
<1>7. QED
  BY <1>0, <1>1, <1>2, <1>3, <1>4, <1>5, <1>6, ForRewriteOK, RewriteOK DEF Next

LEMMA NextGood == AInv /\ [Next]_vars => AInv'
<1> SUFFICES ASSUME AInv, [Next]_vars PROVE AInv'
  OBVIOUS
<1>1. SInv /\ \A x \in Sessions : Good(x)
  BY DEF AInv
<1>2. counts' \in Count /\ counts.edits <= counts'.edits /\ counts \in Count
  BY EditsCounted DEF AInv
<1>3. ASSUME NEW x \in Sessions, StaysGood(x)
      PROVE  Good(x)' /\ panels'[x].generation <= counts'.edits
  <2>1. panels[x].generation \in Nat /\ panels[x].generation <= counts.edits
    BY SoundBounds DEF AInv, Good
  <2>2. counts.edits \in Nat /\ counts'.edits \in Nat
    BY <1>2 DEF Count
  <2>3. QED
    BY <1>2, <1>3, <2>1, <2>2 DEF StaysGood
<1>4. ASSUME NEW s \in Sessions, Author(s) \/ Network(s) \/ Route(s) \/ FlushAutoSave(s),
             NEW x \in Sessions
      PROVE  Good(x)' /\ panels'[x].generation <= counts'.edits
  <2>1. OthersKept(s) /\ Writes
    BY <1>1, <1>4, OnlyOne
  <2>2. CASE x # s
    BY <1>1, <1>3, <2>1, <2>2, OthersStay
  <2>3. CASE x = s /\ \A t \in Steps : ~EditStep(s, t)
    BY <1>1, <1>3, <1>4, <2>3, OwnStep
  <2>4. ASSUME x = s, NEW t \in Steps, EditStep(s, t)
        PROVE  Good(x)' /\ panels'[x].generation <= counts'.edits
    <3>1. Good(s)' /\ panels'[s].generation = panels[s].generation + 1
      BY <1>1, <2>4, EditFits, EditStepGood DEF SInv
    <3>2. counts'.edits = counts.edits + 1
      BY <1>2, <2>4 DEF EditStep, Count
    <3>3. panels[s].generation \in Nat /\ counts.edits \in Nat /\ panels[s].generation <= counts.edits
      BY <1>2, SoundBounds DEF AInv, Good, Count
    <3>4. QED
      BY <2>4, <3>1, <3>2, <3>3
  <2>5. QED
    BY <2>2, <2>3, <2>4
<1>5. ASSUME UNCHANGED <<draft, stored, frames, panels, saves>>, NEW x \in Sessions PROVE StaysGood(x)
  BY <1>1, <1>5, OtherGood
<1>6. ASSUME Rewrite, NEW x \in Sessions PROVE StaysGood(x)
  BY <1>1, <1>6, OvertakenGood DEF Rewrite, Written
<1>7. ASSUME NEW x \in Sessions PROVE Good(x)' /\ panels'[x].generation <= counts'.edits
  <2>1. CASE \E t \in Steps : FreeStepLock(t)
    BY <1>3, <1>5, <2>1 DEF FreeStepLock
  <2>2. CASE ReadForRewrite \/ ChangeForRewrite
    BY <1>3, <1>5, <2>2 DEF ReadForRewrite, ChangeForRewrite
  <2>3. CASE UNCHANGED vars
    BY <1>3, <1>5, <2>3 DEF vars
  <2>4. CASE Rewrite
    BY <1>3, <1>6, <2>4
  <2>5. QED
    BY <1>4, <2>1, <2>2, <2>3, <2>4 DEF Next
<1>8. QED
  BY <1>2, <1>7, NextOK DEF AInv

LEMMA Invariance == Spec => []AInv
BY AInit, NextGood, PTL DEF Spec

\* The stored versions and the step locks, which no other part of the invariant
\* speaks of.
StoreTyped == stored \in Content /\ locks \in [Steps -> Sessions \union {NoOne}]

LEMMA StoreKept ==
  ASSUME Typed, StoreTyped, [Next]_vars
  PROVE  StoreTyped'
<1>1. ASSUME NEW s \in Sessions, NEW i, SaveDocument(s, i) PROVE StoreTyped'
  <2>1. saves[s] \in Seq(Save) /\ i \in DOMAIN saves[s]
    BY <1>1 DEF Typed, SaveDocument
  <2>2. saves[s][i] \in Save
    BY <2>1
  <2>3. saves[s][i].edits \in Content
    BY <2>2 DEF Save
  <2>4. locks' = locks /\ (stored' = stored \/ stored' = stored \union saves[s][i].edits)
    BY <1>1 DEF SaveDocument
  <2>5. QED
    BY <2>3, <2>4 DEF StoreTyped, Content
<1>2. ASSUME NEW s \in Sessions, AcknowledgeDocumentTheme(s) PROVE StoreTyped'
  <2>1. PICK ack \in frames[s].acks : stored' = stored \/ stored' = stored \union ack.edits
    BY <1>2 DEF AcknowledgeDocumentTheme
  <2>2. frames[s] \in Frame
    BY DEF Typed
  <2>3. ack \in [edits : Content, token : Time]
    BY <2>1, <2>2 DEF Frame
  <2>4. ack.edits \in Content
    BY <2>3
  <2>5. locks' = locks
    BY <1>2 DEF AcknowledgeDocumentTheme
  <2>6. QED
    BY <2>1, <2>4, <2>5 DEF StoreTyped, Content
<1>3. CASE Rewrite
  <2>1. PICK edits \in rewrites : stored' = stored \union edits /\ locks' = locks
    BY <1>3 DEF Rewrite
  <2>2. QED
    BY <2>1 DEF Typed, StoreTyped, Content
<1>4. ASSUME NEW t \in Steps, NEW s \in Sessions \union {NoOne}, stored' = stored,
             locks' = [locks EXCEPT ![t] = s]
      PROVE  StoreTyped'
  BY <1>4 DEF StoreTyped
<1>5. ASSUME UNCHANGED <<stored, locks>> PROVE StoreTyped'
  BY <1>5 DEF StoreTyped
<1>6. ASSUME NEW s \in Sessions, Author(s) PROVE StoreTyped'
  <2>1. ASSUME NEW t \in Steps, ClaimStepLock(s, t) PROVE StoreTyped'
    BY <1>4, <2>1 DEF ClaimStepLock
  <2>2. ASSUME NEW t \in Steps, EditStep(s, t) PROVE StoreTyped'
    BY <1>5, <2>2 DEF EditStep
  <2>3. CASE OpenSession(s) \/ SaveAndExit(s) \/ DiscardAndClose(s) \/ CheckBrand(s)
             \/ SendAcknowledgement(s)
    BY <1>5, <2>3 DEF OpenSession, SaveAndExit, DiscardAndClose, CheckBrand, SendAcknowledgement
  <2>4. QED
    BY <1>6, <2>1, <2>2, <2>3 DEF Author
<1>7. ASSUME NEW s \in Sessions, Network(s) PROVE StoreTyped'
  <2>1. ASSUME NEW i, ReceiveAnswer(s, i) \/ GiveUp(s, i) \/ LoseRequest(s, i) PROVE StoreTyped'
    BY <1>5, <2>1 DEF ReceiveAnswer, GiveUp, LoseRequest
  <2>2. CASE CloseSession(s) \/ CloseFails(s) \/ Discarded(s) \/ DiscardFails(s)
    BY <1>5, <2>2 DEF CloseSession, CloseFails, Discarded, DiscardFails
  <2>3. QED
    BY <1>2, <1>7, <2>1, <2>2 DEF Network
<1>8. ASSUME NEW s \in Sessions, Route(s) PROVE StoreTyped'
  BY <1>1, <1>5, <1>8 DEF Route, ReadDraft, CheckStepLocks
<1>9. ASSUME NEW s \in Sessions, FlushAutoSave(s) PROVE StoreTyped'
  BY <1>5, <1>9 DEF FlushAutoSave
<1>10. ASSUME NEW t \in Steps, FreeStepLock(t) PROVE StoreTyped'
  BY <1>4, <1>10 DEF FreeStepLock
<1>11. CASE ReadForRewrite \/ ChangeForRewrite \/ UNCHANGED vars
  BY <1>5, <1>11 DEF ReadForRewrite, ChangeForRewrite, vars
<1>12. QED
  BY <1>3, <1>6, <1>7, <1>8, <1>9, <1>10, <1>11 DEF Next

-----------------------------------------------------------------------------
(* Theorems *)

\* The draft, the frames, the panels with their queues and counters, and the
\* requests keep their types.
THEOREM AuthoringTypes == Spec => []AuthoringTypeOK
<1>1. Init => StoreTyped
  BY DEF Init, StoreTyped, Content
<1>2. AInv /\ StoreTyped /\ [Next]_vars => StoreTyped'
  BY StoreKept DEF AInv, SInv
<1>3. AInv /\ StoreTyped => AuthoringTypeOK
  <2> SUFFICES ASSUME AInv, StoreTyped PROVE AuthoringTypeOK
    OBVIOUS
  <2>1. Typed /\ counts \in Count /\ \A s \in Sessions : panels[s] \in Panel
    BY DEF AInv, SInv, Good, Sound
  <2>2. panels \in [Sessions -> Panel]
    BY <2>1 DEF Typed, PanelsOK
  <2>3. QED
    BY <2>1, <2>2 DEF Typed, StoreTyped, Time, AuthoringTypeOK
<1>4. QED
  BY <1>1, <1>2, <1>3, Invariance, PTL DEF Spec

\* The compare-and-swap of saveDocument, the frames' bookkeeping of updatedAt and
\* the panels' queues together never let a save take an edit out of the draft,
\* whoever else saves, retries, gives up or leaves.
THEOREM NoEditIsOverwritten == Spec => EditsSurviveSaves
<1>1. SInv /\ counts \in Count /\ [Next]_vars =>
        [counts'.unchecked = counts.unchecked => draft.edits \subseteq draft'.edits]_vars
  <2> SUFFICES ASSUME SInv, counts \in Count, Next, counts'.unchecked = counts.unchecked
               PROVE  draft.edits \subseteq draft'.edits
    BY DEF vars
  <2>1. counts' # [counts EXCEPT !.unchecked = @ + 1]
    BY DEF Count
  <2>2. Typed
    BY DEF SInv
  <2>3. ASSUME NEW s \in Sessions, NEW i, SaveDocument(s, i) PROVE draft.edits \subseteq draft'.edits
    <3>1. i \in DOMAIN saves[s]
      BY <2>3 DEF SaveDocument
    <3>2. Fits(saves[s][i], frames[s].edits)
      BY <2>2, <3>1, Requested
    <3>3. CASE UNCHANGED draft
      BY <3>3
    <3>4. CASE SaveExpected(saves[s][i].token) /\ draft' = Written(saves[s][i].edits, s)
      BY <3>2, <3>4 DEF Fits, SaveExpected, Written
    <3>5. QED
      BY <2>3, <3>3, <3>4 DEF SaveDocument
  <2>4. \/ UNCHANGED draft
        \/ \E s \in Sessions : AcknowledgeDocumentTheme(s) /\ ~UNCHANGED draft
        \/ \E s \in Sessions : \E i : SaveDocument(s, i)
        \/ Rewrite
    <3>1. ASSUME NEW s \in Sessions, Author(s) PROVE UNCHANGED draft
      BY <3>1 DEF Author, OpenSession, EditStep, ClaimStepLock, SaveAndExit, DiscardAndClose,
         CheckBrand, SendAcknowledgement
    <3>2. ASSUME NEW s \in Sessions, Network(s)
          PROVE  UNCHANGED draft \/ AcknowledgeDocumentTheme(s)
      BY <3>2 DEF Network, ReceiveAnswer, GiveUp, LoseRequest, CloseSession, CloseFails,
         Discarded, DiscardFails
    <3>3. ASSUME NEW s \in Sessions, Route(s)
          PROVE  UNCHANGED draft \/ \E i : SaveDocument(s, i)
      BY <3>3 DEF Route, ReadDraft, CheckStepLocks
    <3>4. ASSUME NEW s \in Sessions, FlushAutoSave(s) PROVE UNCHANGED draft
      BY <3>4 DEF FlushAutoSave
    <3>5. ASSUME NEW t \in Steps, FreeStepLock(t) PROVE UNCHANGED draft
      BY <3>5 DEF FreeStepLock
    <3>6. CASE ReadForRewrite \/ ChangeForRewrite
      BY <3>6 DEF ReadForRewrite, ChangeForRewrite
    <3>7. QED
      BY <3>1, <3>2, <3>3, <3>4, <3>5, <3>6 DEF Next
  <2>5. ASSUME NEW s \in Sessions, AcknowledgeDocumentTheme(s) PROVE UNCHANGED draft
    BY <2>1, <2>5 DEF AcknowledgeDocumentTheme
  <2>6. ~Rewrite
    BY <2>1 DEF Rewrite
  <2>7. QED
    BY <2>3, <2>4, <2>5, <2>6
<1>2. AInv => SInv /\ counts \in Count
  BY DEF AInv
<1>3. QED
  BY <1>1, <1>2, Invariance, PTL DEF Spec, EditsSurviveSaves

\* The steps findAuthoringStepLockConflict found free of other authors' locks
\* are still all the steps that the save changes, if saveDocument accepts it.
THEOREM LockChecksHold == Spec => []LockChecksStayValid
<1>1. SInv => LockChecksStayValid
  BY DEF SInv, SessionFits, Fits, LockChecksStayValid, SaveExpected
<1>2. AInv => SInv
  BY DEF AInv
<1>3. QED
  BY <1>1, <1>2, Invariance, PTL

\* "Draft saved" and a finished Save & exit tell the truth, whatever attempts
\* overlap, time out, are answered late or are overtaken by other authors.
THEOREM SavedMeansStored == Spec => []PromisesAreKept
<1>1. AInv => PromisesAreKept
  BY DEF AInv, Good, Kept, Promised, HasAll, PromisesAreKept, IsStored
<1>2. QED
  BY <1>1, Invariance, PTL

\* A panel that shows that it saves has something under way that moves it on.
THEOREM NoAutosaveIsStuck == Spec => []AutosavesAreUnderWay
<1>1. AInv => AutosavesAreUnderWay
  BY DEF AInv, Good, Sound, QueueFits, UnderWay, AutosavesAreUnderWay
<1>2. QED
  BY <1>1, Invariance, PTL

-----------------------------------------------------------------------------
(* Who is told of a conflict.  As long as nothing has failed and every write   *)
(* was compared with what its writer had seen, the author who wrote last leads *)
(* the draft: the next autosave carries the updatedAt of that write.           *)

\* No fault yet, and every write was compared with what its writer had seen.
Calm == counts.fault = 0 /\ counts.unchecked = 0

Gone(p) == p.label \in {"closed", "discarded"}

\* The answer to a request awaited for this reason carries the newest updatedAt.
Arrived(why, q, now) ==
  \E i \in DOMAIN q : q[i].awaited = why /\ q[i].phase = "stored" /\ q[i].token = now

\* The next request of the chain will carry the newest updatedAt, as does the one
\* that is out.
Fresh(token, q, now) ==
  /\ token = now \/ Arrived("autosave", q, now)
  /\ \A i \in DOMAIN q : q[i].awaited = "autosave" => q[i].token = now /\ q[i].phase # "conflict"

\* What the author who wrote the draft last knows: an autosave knows that write,
\* or the exit has made it.
Leads(exit, token, q, now) ==
  \/ Fresh(token, q, now)
  \/ exit = "closing"
  \/ exit = "saving" /\ Arrived("exit", q, now)

\* A session whose panel is open waits for all its requests, and leads when it
\* wrote last and is not discarding.
Calmly(s, p, token, q) ==
  \/ Gone(p)
  \/ /\ \A i \in DOMAIN q : q[i].awaited # "nobody"
     /\ draft.by = s /\ ~p.discarding => Leads(p.exit, token, q, draft.updatedAt)

Mine(s) == Calmly(s, panels[s], frames[s].token, saves[s])

CInv == Calm => \A s \in Sessions : Mine(s)

LEMMA FaultsAreNoticed ==
  ASSUME counts \in Count, Fault \/ Again("fault") \/ counts' = [counts EXCEPT !.unchecked = @ + 1]
  PROVE  ~Calm'
BY DEF Count, Fault, Disturb, Again, Calm

\* The requests that are left are still there when the panel has gone on.
LEMMA RestStays ==
  ASSUME Typed, NEW s \in Sessions, NEW p, NEW rest \in Seq(Save), NEW token,
         Continue(s, p, rest, token)
  PROVE  \A k \in DOMAIN rest : \E j \in DOMAIN saves'[s] : saves'[s][j] = rest[k]
<1>1. PICK a, b : a \in Seq({Request(s, "autosave", token)}) /\ b \in Seq({Request(s, "exit", token)})
                  /\ saves' = [saves EXCEPT ![s] = rest \o a \o b]
  <2> DEFINE x == Request(s, "autosave", token)
             y == Request(s, "exit", token)
  <2>1. <<x>> \in Seq({x}) /\ <<>> \in Seq({x}) /\ <<y>> \in Seq({y}) /\ <<>> \in Seq({y})
    OBVIOUS
  <2>2. QED
    BY <2>1 DEF Continue
<1>2. saves'[s] = rest \o a \o b
  BY <1>1 DEF Typed
<1>3. PICK S : rest \in Seq(S) /\ a \in Seq(S) /\ b \in Seq(S)
  <2> DEFINE S == Save \union {Request(s, "autosave", token)} \union {Request(s, "exit", token)}
  <2>1. Seq(Save) \subseteq Seq(S) /\ Seq({Request(s, "autosave", token)}) \subseteq Seq(S)
        /\ Seq({Request(s, "exit", token)}) \subseteq Seq(S)
    OBVIOUS
  <2>2. QED
    BY <1>1, <2>1
<1>4. /\ rest \o a \in Seq(S) /\ Len(rest \o a) = Len(rest) + Len(a)
      /\ \A k \in 1..Len(rest) : (rest \o a)[k] = rest[k]
  BY <1>3, ConcatProperties
<1>5. PICK t : t = rest \o a
  OBVIOUS
<1>6. /\ t \o b \in Seq(S) /\ Len(t \o b) = Len(t) + Len(b)
      /\ \A k \in 1..Len(t) : (t \o b)[k] = t[k]
  BY <1>3, <1>4, <1>5, ConcatProperties
<1>7. Len(rest) \in Nat /\ Len(a) \in Nat /\ Len(b) \in Nat /\ DOMAIN rest = 1..Len(rest)
  BY <1>3, LenProperties
<1>8. DOMAIN (t \o b) = 1..Len(t \o b)
  BY <1>6, LenProperties
<1>9. \A k \in 1..Len(rest) : k \in DOMAIN (t \o b) /\ (t \o b)[k] = rest[k]
  BY <1>4, <1>5, <1>6, <1>7, <1>8
<1>10. QED
  BY <1>2, <1>5, <1>7, <1>9

LEMMA RemovedKeeps ==
  ASSUME NEW S, NEW q \in Seq(S), NEW i \in DOMAIN q, NEW k \in DOMAIN q, k # i
  PROVE  \E j \in DOMAIN RemoveAt(q, i) : RemoveAt(q, i)[j] = q[k]
<1>1. /\ i \in 1..Len(q) /\ k \in 1..Len(q) /\ Len(q) \in Nat
      /\ DOMAIN RemoveAt(q, i) = 1..(Len(q) - 1)
      /\ \A j \in 1..(Len(q) - 1) :
           RemoveAt(q, i)[j] = q[IF j <= i - 1 THEN j ELSE j + 1]
  BY RemovedExactly
<1>2. CASE k < i
  <2>1. k \in 1..(Len(q) - 1) /\ k <= i - 1
    BY <1>1, <1>2
  <2>2. QED
    BY <1>1, <2>1
<1>3. CASE k > i
  <2>1. k - 1 \in 1..(Len(q) - 1) /\ ~(k - 1 <= i - 1) /\ (k - 1) + 1 = k
    BY <1>1, <1>3
  <2>2. RemoveAt(q, i)[k - 1] = q[k]
    BY <1>1, <2>1
  <2>3. QED
    BY <1>1, <2>1, <2>2
<1>4. QED
  BY <1>1, <1>2, <1>3

\* A panel that goes on asks with what its frame knows.
LEMMA ContinueMine ==
  ASSUME Typed, NEW s \in Sessions, NEW p, NEW rest \in Seq(Save), NEW token \in Nat,
         Continue(s, p, rest, token), frames'[s].token = token, draft' = draft,
         \A k \in DOMAIN rest : rest[k].awaited # "nobody",
         p \in Panel,
         draft.by = s /\ ~p.discarding => Leads(p.exit, token, rest, draft.updatedAt)
  PROVE  Mine(s)'
<1> DEFINE q == saves'[s]
           now == draft.updatedAt
<1>1. RequestsAdded(s, p, rest, token)
  BY Continued
<1>2. \A k \in DOMAIN rest : \E j \in DOMAIN q : q[j] = rest[k]
  BY RestStays
<1>3. \A j \in DOMAIN q :
        \/ \E k \in DOMAIN rest : q[j] = rest[k]
        \/ /\ q[j].token = token /\ q[j].phase = "posted"
           /\ q[j].awaited \in {"autosave", "exit"}
           /\ q[j].awaited = "autosave" => ~IsAsking(rest, "autosave")
  BY <1>1 DEF RequestsAdded, Request, Asks
<1>4. \A j \in DOMAIN q : q[j].awaited # "nobody"
  BY <1>3
<1>5. panels'[s] = Advanced(p)
  BY <1>1 DEF RequestsAdded, Typed, PanelsOK
<1>6. p.exit \in {"closing", "saving"} => Advanced(p).exit = p.exit
  BY DEF Advanced
<1>0. Advanced(p).discarding = p.discarding
  BY DEF Advanced, Panel
<1> HIDE DEF q
<1>7. \A why : Arrived(why, rest, now) => Arrived(why, q, now)
  BY <1>2 DEF Arrived
<1>8. ASSUME Fresh(token, rest, now) PROVE Fresh(token, q, now)
  <2>1. Arrived("autosave", rest, now) => IsAsking(rest, "autosave")
    BY DEF Arrived, IsAsking
  <2>2. \A j \in DOMAIN q : q[j].awaited = "autosave" => q[j].token = now /\ q[j].phase # "conflict"
    BY <1>3, <1>8, <2>1 DEF Fresh
  <2>3. QED
    BY <1>7, <1>8, <2>2 DEF Fresh
<1>9. draft.by = s /\ ~p.discarding => Leads(Advanced(p).exit, token, q, now)
  BY <1>6, <1>7, <1>8 DEF Leads
<1>10. QED
  BY <1>0, <1>4, <1>5, <1>9 DEF Mine, Calmly, q

\* Nothing awaits an answer once the panel is gone.
LEMMA GoneAwaits ==
  ASSUME NEW s \in Sessions, Good(s), Gone(panels[s])
  PROVE  /\ Quiet(panels[s])
         /\ \A i \in DOMAIN saves[s] : saves[s][i].awaited \notin {"autosave", "exit"}
BY DEF Good, Sound, Gone, QueueFits, Quiet, IsAsking

\* Steps that leave the requests, the frame's updatedAt and the exit alone.
LEMMA SameMine ==
  ASSUME NEW s \in Sessions, Mine(s),
         Gone(panels[s]) => Gone(panels'[s]), panels'[s].exit = panels[s].exit,
         panels[s].discarding => panels'[s].discarding,
         saves'[s] = saves[s], frames'[s].token = frames[s].token,
         draft'.by = s => draft' = draft
  PROVE  Mine(s)'
BY DEF Mine, Calmly

LEMMA OpenSessionMine ==
  ASSUME SInv, NEW s \in Sessions, OpenSession(s)
  PROVE  Mine(s)'
<1>1. saves'[s] = <<>> /\ panels' = panels /\ draft' = draft
  BY DEF SInv, SessionFits, NewIsIdle, OpenSession
<1>2. frames'[s].token = draft.updatedAt
  BY DEF SInv, Typed, Frame, OpenSession
<1>3. QED
  BY <1>1, <1>2 DEF Mine, Calmly, Leads, Fresh

LEMMA EditStepMine ==
  ASSUME Typed, NEW s \in Sessions, Good(s), Mine(s), NEW t \in Steps, EditStep(s, t)
  PROVE  Mine(s)'
<1>1. panels[s] \in Panel
  BY DEF Good, Sound
<1>2. ~Gone(panels[s]) /\ panels'[s].exit = panels[s].exit
      /\ panels'[s].discarding = panels[s].discarding
  BY <1>1 DEF EditStep, IsOpen, Gone, Panel, Typed, PanelsOK
<1>3. saves'[s] = saves[s] /\ frames'[s].token = frames[s].token /\ draft' = draft
  BY DEF EditStep, Typed, Frame
<1>4. QED
  BY <1>2, <1>3, SameMine

\* A timer that fires, and an author who leaves, while the frame leads.
LEMMA UnansweredMine ==
  ASSUME Typed, NEW s \in Sessions, Mine(s), ~Gone(panels[s]), NEW f \in Panel,
         Continue(s, f, saves[s], frames[s].token), f.discarding = panels[s].discarding,
         f.exit = panels[s].exit \/ panels[s].exit = "no",
         UNCHANGED <<draft, frames>>
  PROVE  Mine(s)'
<1>1. saves[s] \in Seq(Save) /\ frames[s].token \in Nat
  BY DEF Typed, Frame, Time
<1>2. draft.by = s /\ ~f.discarding => Leads(f.exit, frames[s].token, saves[s], draft.updatedAt)
  BY DEF Mine, Calmly, Leads
<1>3. QED
  BY <1>1, <1>2, ContinueMine DEF Mine, Calmly

LEMMA FlushAutoSaveMine ==
  ASSUME Typed, NEW s \in Sessions, Good(s), Mine(s), FlushAutoSave(s)
  PROVE  Mine(s)'
<1>1. ~Gone(panels[s])
  BY GoneAwaits DEF FlushAutoSave, Quiet
<1>2. /\ Flushed(panels[s]) \in Panel /\ Flushed(panels[s]).exit = panels[s].exit
      /\ Flushed(panels[s]).discarding = panels[s].discarding
  BY FlushedSound DEF Good
<1>3. QED
  BY <1>1, <1>2, UnansweredMine DEF FlushAutoSave

LEMMA SaveAndExitMine ==
  ASSUME Typed, NEW s \in Sessions, Good(s), Mine(s), SaveAndExit(s)
  PROVE  Mine(s)'
<1>1. ~Gone(panels[s]) /\ panels[s].exit = "no" /\ UNCHANGED <<draft, frames>>
  BY DEF SaveAndExit, IsOpen, Gone
<1>2. PICK p : p = Flushed(panels[s])
  OBVIOUS
<1>3. /\ p \in Panel /\ p.discarding = panels[s].discarding /\ Len(p.chain) \in Nat
      /\ p.generation \in 0..MaxEdits
  BY <1>2, FlushedSound DEF Good, Panel
<1>4. PICK own \in BOOLEAN, n \in Nat : own = (panels[s].pending # 0) /\ n = Len(p.chain)
  BY <1>3
<1>5. PICK f : f = [p EXCEPT !.label = "saving", !.exit = "flushing", !.own = own, !.waits = n,
                             !.kept = p.generation]
  OBVIOUS
<1>6. f \in Panel /\ f.discarding = panels[s].discarding
  BY <1>3, <1>5 DEF Panel
<1>7. Continue(s, [p EXCEPT !.label = "saving", !.exit = "flushing", !.own = panels[s].pending # 0,
                            !.waits = Len(p.chain), !.kept = p.generation],
               saves[s], frames[s].token)
  BY <1>2 DEF SaveAndExit
<1>8. f = [p EXCEPT !.label = "saving", !.exit = "flushing", !.own = panels[s].pending # 0,
                    !.waits = Len(p.chain), !.kept = p.generation]
  BY <1>4, <1>5
<1>9. QED
  BY <1>1, <1>6, <1>7, <1>8, UnansweredMine

LEMMA ReceiveAnswerMine ==
  ASSUME Typed, NEW s \in Sessions, Good(s), Mine(s), NEW i, ReceiveAnswer(s, i)
  PROVE  Mine(s)'
<1>1. PICK p, q, save, now, rest :
        /\ p = panels[s] /\ q = saves[s] /\ save = q[i] /\ now = draft.updatedAt
        /\ rest = RemoveAt(q, i)
  OBVIOUS
<1>2. /\ i \in DOMAIN q /\ save.phase = "stored" /\ q \in Seq(Save)
      /\ Sound(p) /\ QueueFits(p, q) /\ draft' = draft
      /\ frames'[s].token = save.token
  BY <1>1 DEF ReceiveAnswer, Good, Typed, Frame
<1>3. save \in Save /\ save.token \in Nat /\ save.awaited \in {"autosave", "exit", "nobody"}
  <2>1. save \in Save
    BY <1>1, <1>2, LenProperties
  <2>2. QED
    BY <2>1 DEF Save, Time
<1>4. /\ rest \in Seq(Save)
      /\ \A k \in DOMAIN rest : \E l \in DOMAIN q : rest[k] = q[l]
      /\ \A l \in DOMAIN q : l # i => \E k \in DOMAIN rest : rest[k] = q[l]
  BY <1>1, <1>2, Removed, RemovedKeeps
<1>5. CASE save.awaited = "nobody"
  <2>1. Gone(p)
    BY <1>1, <1>2, <1>5 DEF Mine, Calmly
  <2>2. Continue(s, p, rest, save.token)
    BY <1>1, <1>5 DEF ReceiveAnswer
  <2>3. Advanced(p) = p
    BY <1>1, <2>1, GoneAwaits DEF Quiet, Advanced
  <2>4. panels'[s] = p
    BY <2>2, <2>3 DEF Continue, Typed, PanelsOK
  <2>5. QED
    BY <2>1, <2>4 DEF Mine, Calmly
<1>6. ASSUME save.awaited # "nobody"
      PROVE  /\ ~Gone(p) /\ \A k \in DOMAIN rest : rest[k].awaited # "nobody"
             /\ draft.by = s /\ ~p.discarding => Leads(p.exit, frames[s].token, q, now)
  <2>1. ~Gone(p)
    BY <1>1, <1>2, <1>3, <1>6, GoneAwaits
  <2>2. QED
    BY <1>1, <1>4, <2>1 DEF Mine, Calmly
<1>7. CASE save.awaited = "autosave"
  <2>1. PICK f : f = Persisted(p)
    OBVIOUS
  <2>2. f.exit = p.exit /\ f.discarding = p.discarding /\ f \in Panel
    <3>1. p.chain # <<>>
      BY <1>1, <1>2, <1>7 DEF QueueFits, IsAsking
    <3>2. QED
      BY <1>2, <2>1, <3>1, PersistedSound DEF Sound
  <2>3. Continue(s, f, rest, save.token)
    BY <1>1, <1>7, <2>1 DEF ReceiveAnswer
  <2>4. ASSUME Fresh(frames[s].token, q, now) PROVE Fresh(save.token, rest, now)
    BY <1>1, <1>2, <1>4, <1>7, <2>4 DEF Fresh
  <2>5. ASSUME Arrived("exit", q, now) PROVE Arrived("exit", rest, now)
    <3>1. PICK l \in DOMAIN q : q[l].awaited = "exit" /\ q[l].phase = "stored" /\ q[l].token = now
      BY <2>5 DEF Arrived
    <3>2. PICK k \in DOMAIN rest : rest[k] = q[l]
      BY <1>1, <1>4, <1>7, <3>1
    <3>3. QED
      BY <3>1, <3>2 DEF Arrived
  <2>6. draft.by = s /\ ~f.discarding => Leads(f.exit, save.token, rest, now)
    BY <1>6, <1>7, <2>2, <2>4, <2>5 DEF Leads
  <2>7. QED
    BY <1>1, <1>2, <1>3, <1>4, <1>6, <1>7, <2>2, <2>3, <2>6, ContinueMine
<1>8. CASE save.awaited = "exit"
  <2>1. PICK f : f = ExitSaved(p)
    OBVIOUS
  <2>2. p.exit = "saving"
    BY <1>1, <1>2, <1>8 DEF QueueFits, IsAsking
  <2>3. f \in Panel /\ (~f.discarding => f.exit = "closing")
    BY <1>2, <2>1, <2>2, ExitSavedSound DEF Sound
  <2>4. Continue(s, f, rest, save.token)
    BY <1>1, <1>8, <2>1 DEF ReceiveAnswer
  <2>5. draft.by = s /\ ~f.discarding => Leads(f.exit, save.token, rest, now)
    BY <2>3 DEF Leads
  <2>6. QED
    BY <1>1, <1>2, <1>3, <1>4, <1>6, <1>8, <2>3, <2>4, <2>5, ContinueMine
<1>9. QED
  BY <1>3, <1>5, <1>7, <1>8

LEMMA GiveUpMine ==
  ASSUME Typed, counts \in Count, NEW s \in Sessions, Good(s), Mine(s), Calm',
         NEW i, GiveUp(s, i)
  PROVE  Mine(s)'
<1>1. PICK p, q, save, now, rest :
        /\ p = panels[s] /\ q = saves[s] /\ save = q[i] /\ now = draft.updatedAt
        /\ rest = RemoveAt(q, i)
  OBVIOUS
<1>2. PICK f : f = IF save.awaited = "exit" THEN ExitFailed(p) ELSE FailedAttempt(p)
  OBVIOUS
<1>3. save.phase \in {"conflict", "refused"} /\ Continue(s, f, rest, frames[s].token)
  BY <1>1, <1>2, FaultsAreNoticed DEF GiveUp
<1>4. /\ i \in DOMAIN q /\ save.awaited # "nobody" /\ q \in Seq(Save)
      /\ Sound(p) /\ QueueFits(p, q) /\ UNCHANGED <<draft, frames>>
      /\ frames[s].token \in Nat
  BY <1>1 DEF GiveUp, Good, Typed, Frame, Time
<1>5. save.awaited \in {"autosave", "exit"}
  <2>1. save \in Save
    BY <1>1, <1>4, LenProperties
  <2>2. QED
    BY <1>4, <2>1 DEF Save
<1>6. /\ rest \in Seq(Save)
      /\ \A k \in DOMAIN rest : \E l \in DOMAIN q : rest[k] = q[l]
      /\ \A l \in DOMAIN q : l # i => \E k \in DOMAIN rest : rest[k] = q[l]
  BY <1>1, <1>4, Removed, RemovedKeeps
<1>7. ~Gone(p)
  BY <1>1, <1>4, <1>5, GoneAwaits
<1>8. /\ \A k \in DOMAIN rest : rest[k].awaited # "nobody"
      /\ draft.by = s /\ ~p.discarding => Leads(p.exit, frames[s].token, q, now)
  BY <1>1, <1>6, <1>7 DEF Mine, Calmly
<1>9. ASSUME NEW why, Arrived(why, q, now) PROVE Arrived(why, rest, now)
  <2>1. PICK l \in DOMAIN q : q[l].awaited = why /\ q[l].phase = "stored" /\ q[l].token = now
    BY <1>9 DEF Arrived
  <2>2. PICK k \in DOMAIN rest : rest[k] = q[l]
    BY <1>1, <1>3, <1>6, <2>1
  <2>3. QED
    BY <2>1, <2>2 DEF Arrived
<1>10. Fresh(frames[s].token, q, now) => Fresh(frames[s].token, rest, now)
  BY <1>6, <1>9 DEF Fresh
<1>11. ASSUME p.exit = "closing" \/ (p.exit = "saving" /\ Arrived("exit", q, now))
       PROVE  f.exit = p.exit
  <2>1. CASE save.awaited = "exit"
    <3>1. p.exit = "saving" /\ Alone(q, "exit")
      BY <1>1, <1>4, <2>1 DEF QueueFits, IsAsking
    <3>2. PICK l \in DOMAIN q : q[l].awaited = "exit" /\ q[l].phase = "stored"
      BY <1>11, <3>1 DEF Arrived
    <3>3. l = i
      BY <1>1, <1>4, <2>1, <3>1, <3>2 DEF Alone
    <3>4. QED
      BY <1>1, <1>3, <3>2, <3>3
  <2>2. CASE save.awaited = "autosave"
    <3>1. p.chain # <<>>
      BY <1>1, <1>4, <2>2 DEF QueueFits, IsAsking
    <3>2. f = Failed(p)
      BY <1>2, <1>11, <2>2 DEF FailedAttempt
    <3>3. QED
      BY <1>4, <3>1, <3>2, FailedSound
  <2>3. QED
    BY <1>5, <2>1, <2>2
<1>12. f \in Panel /\ f.discarding = p.discarding
  <2>1. CASE save.awaited = "exit"
    BY <1>2, <1>4, <2>1, ExitFailedSound DEF Sound
  <2>2. CASE save.awaited = "autosave"
    <3>1. p.chain # <<>>
      BY <1>1, <1>4, <2>2 DEF QueueFits, IsAsking
    <3>2. Sound(Failed(p)) /\ Failed(p).discarding = p.discarding
      BY <1>4, <3>1, FailedSound
    <3>3. f = Failed(p) \/ f = ExitFailed(Failed(p))
      BY <1>2, <2>2 DEF FailedAttempt
    <3>4. QED
      BY <3>2, <3>3, ExitFailedSound DEF Sound
  <2>3. QED
    BY <1>5, <2>1, <2>2
<1>13. draft.by = s /\ ~f.discarding => Leads(f.exit, frames[s].token, rest, now)
  BY <1>8, <1>9, <1>10, <1>11, <1>12 DEF Leads
<1>14. QED
  BY <1>1, <1>3, <1>4, <1>6, <1>8, <1>12, <1>13, ContinueMine

LEMMA EndsMine ==
  ASSUME Typed, NEW s \in Sessions, CloseSession(s) \/ Discarded(s), Good(s)
  PROVE  Mine(s)'
<1>1. PICK label \in {"closed", "discarded"} :
        panels' = [panels EXCEPT ![s] = Destroyed(panels[s], label)]
  BY DEF CloseSession, Discarded
<1>2. panels'[s] = Destroyed(panels[s], label)
  BY <1>1 DEF Typed, PanelsOK
<1>3. Destroyed(panels[s], label).label = label
  BY <1>1, DestroyedSound DEF Good
<1>4. QED
  BY <1>2, <1>3 DEF Mine, Calmly, Gone

LEMMA DiscardAndCloseMine ==
  ASSUME Typed, NEW s \in Sessions, Good(s), Mine(s), DiscardAndClose(s)
  PROVE  Mine(s)'
<1>1. panels[s] \in Panel /\ ~Gone(panels[s]) /\ ~panels[s].discarding
  BY DEF Good, Sound, DiscardAndClose, IsOpen, Gone
<1>2. UNCHANGED <<draft, frames, saves>>
  BY DEF DiscardAndClose
<1>3. panels'[s].exit = panels[s].exit
  BY <1>1 DEF DiscardAndClose, Typed, PanelsOK, Panel
<1>4. QED
  BY <1>1, <1>2, <1>3, SameMine

\* A request that moves on, or shows that it was refused.
LEMMA ReplacedMine ==
  ASSUME Typed, NEW s \in Sessions, Mine(s), NEW i \in DOMAIN saves[s], NEW save,
         saves'[s] = [saves[s] EXCEPT ![i] = save],
         save.awaited = saves[s][i].awaited, save.token = saves[s][i].token,
         saves[s][i].phase # "stored",
         save.phase = "conflict" => saves[s][i].token # draft.updatedAt,
         UNCHANGED <<draft, frames, panels>>
  PROVE  Mine(s)'
<1>1. PICK q, r, now : q = saves[s] /\ r = saves'[s] /\ now = draft.updatedAt
  OBVIOUS
<1>2. DOMAIN r = DOMAIN q /\ r[i] = save /\ \A j \in DOMAIN q : j # i => r[j] = q[j]
  BY <1>1
<1>3. ASSUME NEW why, Arrived(why, q, now) PROVE Arrived(why, r, now)
  BY <1>1, <1>2, <1>3 DEF Arrived
<1>4. Fresh(frames[s].token, q, now) => Fresh(frames[s].token, r, now)
  BY <1>1, <1>2, <1>3 DEF Fresh
<1>5. Leads(panels[s].exit, frames[s].token, q, now) => Leads(panels[s].exit, frames[s].token, r, now)
  BY <1>3, <1>4 DEF Leads
<1>6. (\A j \in DOMAIN q : q[j].awaited # "nobody") => (\A j \in DOMAIN r : r[j].awaited # "nobody")
  BY <1>1, <1>2
<1>7. QED
  BY <1>1, <1>5, <1>6 DEF Mine, Calmly

LEMMA RefusedMine ==
  ASSUME Typed, NEW s \in Sessions, Mine(s), NEW i \in DOMAIN saves[s],
         NEW phase \in {"conflict", "refused"}, Refused(s, i, phase),
         saves[s][i].phase # "stored",
         phase = "conflict" => saves[s][i].token # draft.updatedAt,
         UNCHANGED <<draft, frames, panels>>
  PROVE  Mine(s)'
<1>1. CASE saves[s][i].awaited = "nobody"
  BY <1>1 DEF Mine, Calmly
<1>2. CASE saves[s][i].awaited # "nobody"
  <2>1. saves[s] \in Seq(Save) /\ saves \in [Sessions -> Seq(Save)]
    BY DEF Typed
  <2>2. PICK old, save : old = saves[s][i] /\ save = [old EXCEPT !.phase = phase]
    OBVIOUS
  <2>3. old \in Save
    BY <2>1, <2>2, LenProperties
  <2>4. save.awaited = old.awaited /\ save.token = old.token /\ save.phase = phase
    BY <2>2, <2>3 DEF Save
  <2>5. PICK r : r = [saves[s] EXCEPT ![i] = save]
    OBVIOUS
  <2>6. saves' = [saves EXCEPT ![s] = r]
    BY <1>2, <2>2, <2>5 DEF Refused
  <2>7. saves'[s] = [saves[s] EXCEPT ![i] = save]
    BY <2>1, <2>5, <2>6
  <2>8. save.awaited = saves[s][i].awaited /\ save.token = saves[s][i].token
    BY <2>2, <2>4
  <2>9. QED
    BY <2>4, <2>7, <2>8, ReplacedMine
<1>3. QED
  BY <1>1, <1>2

LEMMA ReadDraftMine ==
  ASSUME Typed, NEW s \in Sessions, Mine(s), NEW i, ReadDraft(s, i)
  PROVE  Mine(s)'
<1>1. i \in DOMAIN saves[s] /\ saves[s][i].phase = "posted" /\ UNCHANGED <<draft, frames, panels>>
  BY DEF ReadDraft
<1>2. PICK old, save : old = saves[s][i] /\ save = [old EXCEPT !.seen = draft.edits, !.phase = "read"]
  OBVIOUS
<1>3. old \in Save
  BY <1>1, <1>2, LenProperties DEF Typed
<1>4. CASE saves' = [saves EXCEPT ![s][i].seen = draft.edits, ![s][i].phase = "read"]
  <2>1. save.awaited = old.awaited /\ save.token = old.token /\ save.phase = "read"
    BY <1>2, <1>3 DEF Save
  <2>2. saves'[s] = [saves[s] EXCEPT ![i] = save]
    BY <1>1, <1>2, <1>4 DEF Typed
  <2>3. save.awaited = saves[s][i].awaited /\ save.token = saves[s][i].token
    BY <1>2, <2>1
  <2>4. QED
    BY <1>1, <2>1, <2>2, <2>3, ReplacedMine
<1>5. CASE Refused(s, i, "refused")
  BY <1>1, <1>5, RefusedMine
<1>6. QED
  BY <1>4, <1>5 DEF ReadDraft

LEMMA CheckStepLocksMine ==
  ASSUME Typed, NEW s \in Sessions, Mine(s), NEW i, CheckStepLocks(s, i)
  PROVE  Mine(s)'
<1>1. i \in DOMAIN saves[s] /\ saves[s][i].phase = "read" /\ UNCHANGED <<draft, frames, panels>>
  BY DEF CheckStepLocks
<1>2. CASE Refused(s, i, "refused")
  BY <1>1, <1>2, RefusedMine
<1>3. ASSUME NEW changed, saves' = [saves EXCEPT ![s][i].cleared = changed, ![s][i].phase = "checked"]
      PROVE  Mine(s)'
  <2>1. PICK old, save :
          old = saves[s][i] /\ save = [old EXCEPT !.cleared = changed, !.phase = "checked"]
    OBVIOUS
  <2>2. old \in Save
    BY <1>1, <2>1, LenProperties DEF Typed
  <2>3. save.awaited = old.awaited /\ save.token = old.token /\ save.phase = "checked"
    BY <2>1, <2>2 DEF Save
  <2>4. saves'[s] = [saves[s] EXCEPT ![i] = save]
    BY <1>1, <1>3, <2>1 DEF Typed
  <2>5. save.awaited = saves[s][i].awaited /\ save.token = saves[s][i].token
    BY <2>1, <2>3
  <2>6. QED
    BY <1>1, <2>3, <2>4, <2>5, ReplacedMine
<1>4. QED
  BY <1>2, <1>3 DEF CheckStepLocks

LEMMA SaveDocumentMine ==
  ASSUME Typed, NEW s \in Sessions, Good(s), Mine(s), NEW i, SaveDocument(s, i)
  PROVE  Mine(s)'
<1>1. i \in DOMAIN saves[s] /\ saves[s][i].phase = "checked" /\ UNCHANGED <<frames, panels>>
  BY DEF SaveDocument
<1>2. CASE ~SaveExpected(saves[s][i].token) /\ Refused(s, i, "conflict") /\ draft' = draft
  BY <1>1, <1>2, RefusedMine DEF SaveExpected
<1>3. CASE saves' = [saves EXCEPT ![s][i].phase = "stored", ![s][i].token = draft'.updatedAt]
  <2>1. PICK p, q, r, old, time, save :
          /\ p = panels[s] /\ q = saves[s] /\ r = saves'[s] /\ old = q[i] /\ time = draft'.updatedAt
          /\ save = [old EXCEPT !.phase = "stored", !.token = time]
    OBVIOUS
  <2>2. old \in Save
    BY <1>1, <2>1, LenProperties DEF Typed
  <2>3. save.phase = "stored" /\ save.token = time /\ save.awaited = old.awaited
        /\ save.awaited \in {"autosave", "exit", "nobody"}
    BY <2>1, <2>2 DEF Save
  <2>4. r = [q EXCEPT ![i] = save]
    BY <1>1, <1>3, <2>1 DEF Typed
  <2>5. /\ i \in DOMAIN q /\ DOMAIN r = DOMAIN q /\ r[i] = save
        /\ \A j \in DOMAIN q : j # i => r[j] = q[j]
    BY <1>1, <2>1, <2>4
  <2>6. CASE Gone(p)
    BY <1>1, <2>1, <2>6 DEF Mine, Calmly
  <2>7. CASE ~Gone(p)
    <3>1. \A j \in DOMAIN q : q[j].awaited # "nobody"
      BY <2>1, <2>7 DEF Mine, Calmly
    <3>0. r[i].awaited = q[i].awaited /\ r[i].phase = "stored" /\ r[i].token = time
      BY <2>1, <2>3, <2>5
    <3>2. \A j \in DOMAIN r : r[j].awaited # "nobody"
      BY <2>5, <3>0, <3>1
    <3>3. CASE save.awaited = "exit"
      <4>1. p.exit = "saving"
        BY <1>1, <2>1, <2>3, <3>3 DEF Good, QueueFits, IsAsking
      <4>2. Arrived("exit", r, time)
        BY <1>1, <2>1, <2>3, <2>5, <3>0, <3>3 DEF Arrived
      <4>3. QED
        BY <1>1, <2>1, <3>2, <4>1, <4>2 DEF Mine, Calmly, Leads
    <3>4. CASE save.awaited = "autosave"
      <4>1. Arrived("autosave", r, time)
        BY <1>1, <2>1, <2>3, <2>5, <3>0, <3>4 DEF Arrived
      <4>2. \A j \in DOMAIN r : r[j].awaited = "autosave" => j = i
        BY <1>1, <2>1, <2>3, <2>5, <3>4 DEF Good, QueueFits, Alone
      <4>3. Fresh(frames[s].token, r, time)
        BY <2>3, <2>5, <4>1, <4>2 DEF Fresh
      <4>4. QED
        BY <1>1, <2>1, <3>2, <4>3 DEF Mine, Calmly, Leads
    <3>5. QED
      BY <1>1, <2>1, <2>3, <3>1, <3>3, <3>4
  <2>8. QED
    BY <2>6, <2>7
<1>4. QED
  BY <1>2, <1>3 DEF SaveDocument

\* Only the session that makes a step can have written the draft in it.
LEMMA WrittenByItself ==
  ASSUME NEW s \in Sessions, Author(s) \/ Network(s) \/ Route(s) \/ FlushAutoSave(s)
  PROVE  draft' = draft \/ draft'.by = s
<1>1. CASE Author(s)
  BY <1>1 DEF Author, OpenSession, EditStep, ClaimStepLock, SaveAndExit, DiscardAndClose,
              CheckBrand, SendAcknowledgement
<1>2. CASE Network(s)
  <2>1. CASE AcknowledgeDocumentTheme(s)
    BY <2>1 DEF AcknowledgeDocumentTheme, Written
  <2>2. CASE CloseSession(s) \/ CloseFails(s) \/ Discarded(s) \/ DiscardFails(s)
    BY <2>2 DEF CloseSession, CloseFails, Discarded, DiscardFails
  <2>3. ASSUME NEW i, ReceiveAnswer(s, i) \/ GiveUp(s, i) \/ LoseRequest(s, i)
        PROVE  draft' = draft
    BY <2>3 DEF ReceiveAnswer, GiveUp, LoseRequest
  <2>4. QED
    BY <1>2, <2>1, <2>2, <2>3 DEF Network
<1>3. CASE Route(s)
  BY <1>3 DEF Route, ReadDraft, CheckStepLocks, SaveDocument, Written
<1>4. CASE FlushAutoSave(s)
  BY <1>4 DEF FlushAutoSave
<1>5. QED
  BY <1>1, <1>2, <1>3, <1>4

LEMMA OwnStepMine ==
  ASSUME AInv, NEW s \in Sessions, Mine(s), Calm',
         Author(s) \/ Network(s) \/ Route(s) \/ FlushAutoSave(s)
  PROVE  Mine(s)'
<1>1. SInv /\ Typed /\ Good(s) /\ counts \in Count
  BY DEF AInv, SInv
<1>2. frames \in [Sessions -> Frame]
  BY <1>1 DEF Typed
<1>3. CASE Author(s)
  <2>1. ASSUME \/ CheckBrand(s) \/ SendAcknowledgement(s)
               \/ \E t \in Steps : ClaimStepLock(s, t)
        PROVE  Mine(s)'
    <3>1. frames'[s].token = frames[s].token
      BY <1>2, <2>1 DEF CheckBrand, SendAcknowledgement, ClaimStepLock, Frame
    <3>2. UNCHANGED <<draft, panels, saves>>
      BY <2>1 DEF CheckBrand, SendAcknowledgement, ClaimStepLock
    <3>3. QED
      BY <3>1, <3>2, SameMine
  <2>2. QED
    BY <1>1, <1>3, <2>1, OpenSessionMine, EditStepMine, SaveAndExitMine,
       DiscardAndCloseMine DEF Author
<1>4. CASE Network(s)
  <2>1. ASSUME NEW i, LoseRequest(s, i) PROVE Mine(s)'
    BY <1>1, <2>1, FaultsAreNoticed DEF LoseRequest
  <2>2. CASE CloseFails(s) \/ DiscardFails(s)
    BY <1>1, <2>2, FaultsAreNoticed DEF CloseFails, DiscardFails
  <2>3. CASE AcknowledgeDocumentTheme(s)
    <3>1. CASE counts' = [counts EXCEPT !.unchecked = @ + 1]
      BY <1>1, <3>1, FaultsAreNoticed
    <3>2. CASE frames' = [frames EXCEPT ![s].acks = {}] /\ draft' = draft
      <4>1. frames'[s].token = frames[s].token
        BY <1>2, <3>2 DEF Frame
      <4>2. QED
        BY <2>3, <3>2, <4>1, SameMine DEF AcknowledgeDocumentTheme
    <3>3. QED
      BY <2>3, <3>1, <3>2 DEF AcknowledgeDocumentTheme
  <2>4. QED
    BY <1>1, <1>4, <2>1, <2>2, <2>3, ReceiveAnswerMine, GiveUpMine, EndsMine DEF Network
<1>5. CASE Route(s)
  BY <1>1, <1>5, ReadDraftMine, CheckStepLocksMine, SaveDocumentMine DEF Route
<1>6. CASE FlushAutoSave(s)
  BY <1>1, <1>6, FlushAutoSaveMine
<1>7. QED
  BY <1>3, <1>4, <1>5, <1>6

LEMMA CInit == Init => CInv
<1>1. ASSUME Init, NEW s \in Sessions PROVE Mine(s)
  BY <1>1, SessionsAssumption DEF Init, Mine, Calmly
<1>2. QED
  BY <1>1 DEF CInv

LEMMA NextCalm == AInv /\ CInv /\ [Next]_vars => CInv'
<1> SUFFICES ASSUME AInv, CInv, [Next]_vars, Calm', NEW x \in Sessions PROVE Mine(x)'
  BY DEF CInv
<1>1. counts \in Count /\ SInv
  BY DEF AInv
<1>2. Mine(x)
  <2>1. /\ counts' \in Count /\ counts.fault <= counts'.fault /\ counts.unchecked <= counts'.unchecked
    BY <1>1, EditsCounted
  <2>2. Calm
    BY <1>1, <2>1 DEF Count, Calm
  <2>3. QED
    BY <2>2 DEF CInv
<1>3. ASSUME NEW s \in Sessions, Author(s) \/ Network(s) \/ Route(s) \/ FlushAutoSave(s)
      PROVE  Mine(x)'
  <2>1. CASE x = s
    BY <1>2, <1>3, <2>1, OwnStepMine
  <2>2. CASE x # s
    <3>1. frames'[x] = frames[x] /\ saves'[x] = saves[x] /\ panels'[x] = panels[x]
      BY <1>1, <1>3, <2>2, OnlyOne DEF OthersKept
    <3>2. draft' = draft \/ draft'.by = s
      BY <1>3, WrittenByItself
    <3>3. QED
      BY <1>2, <2>2, <3>1, <3>2, SameMine
  <2>3. QED
    BY <2>1, <2>2
<1>4. CASE (\E t \in Steps : FreeStepLock(t)) \/ ReadForRewrite \/ ChangeForRewrite
          \/ UNCHANGED vars
  <2>1. UNCHANGED <<draft, frames, panels, saves>>
    BY <1>4 DEF FreeStepLock, ReadForRewrite, ChangeForRewrite, vars
  <2>2. QED
    BY <1>2, <2>1, SameMine
<1>5. CASE Rewrite
  BY <1>1, <1>5, FaultsAreNoticed DEF Rewrite
<1>6. QED
  BY <1>3, <1>4, <1>5 DEF Next

\* An author is told of a conflict only when somebody else wrote last, when the
\* requests of Save & exit and of an autosave overlap, while it discards, or after
\* a fault or an unchecked write: attempts that wait their turn in the chain never conflict
\* with each other.
THEOREM ConflictsAreExplained == Spec => []ConflictsHaveACause
<1>1. ASSUME AInv, CInv PROVE ConflictsHaveACause
  <2> SUFFICES ASSUME NEW s \in Sessions, NEW i \in DOMAIN saves[s],
                      saves[s][i].phase = "conflict", saves[s][i].awaited # "nobody",
                      draft.by = s, panels[s].exit \notin {"saving", "closing"},
                      ~panels[s].discarding,
                      ~(counts.fault > 0), ~(counts.unchecked > 0)
               PROVE  FALSE
    BY DEF ConflictsHaveACause
  <2>1. Calm
    BY <1>1 DEF AInv, Count, Calm
  <2>2. Mine(s) /\ Good(s) /\ Typed
    BY <1>1, <2>1 DEF AInv, SInv, CInv
  <2>3. saves[s][i].awaited \in {"autosave", "exit"}
    <3>1. saves[s][i] \in Save
      BY <2>2, LenProperties DEF Typed
    <3>2. QED
      BY <3>1 DEF Save
  <2>4. ~Gone(panels[s])
    BY <2>2, <2>3, GoneAwaits
  <2>5. Fresh(frames[s].token, saves[s], draft.updatedAt)
    BY <2>2, <2>4 DEF Mine, Calmly, Leads
  <2>6. saves[s][i].awaited # "autosave"
    BY <2>5 DEF Fresh
  <2>7. saves[s][i].awaited # "exit"
    BY <2>2 DEF Good, QueueFits, IsAsking
  <2>8. QED
    BY <2>3, <2>6, <2>7
<1>2. Spec => []CInv
  BY CInit, NextCalm, Invariance, PTL DEF Spec
<1>3. QED
  BY <1>1, <1>2, Invariance, PTL

=============================================================================
