----------------------- MODULE AgreementLifecycle_proofs -----------------------
(***************************************************************************)
(* What holds of the agreement lifecycle for any number of members,         *)
(* agreements, submissions and handlers. Inv is the inductive invariant. A  *)
(* step is seen from three sides: what it does to the register              *)
(* (RegisterStep), to the one handler that moves (HandStep) and to the      *)
(* submissions (SubmissionStep); the three together give Inv again. The     *)
(* last parts count the steps a handler can take, and carry the theorems to *)
(* the run that has documents and review beside the lifecycle.              *)
(***************************************************************************)
EXTENDS MCJobs, ApplicationReview_proofs, DocumentOcr_proofs

HIDE ReviewAssumption
HIDE OcrAssumption

USE NamesAssumption, AttemptsAssumption, SwitchAssumption

-----------------------------------------------------------------------------
(* The inductive invariant *)

Owned(s, a) == subs[s] # Absent /\ subs[s].agr = a

RowsSound ==
    \A a \in Agreements :
        /\ ~Made(a) => agr[a] = NoRow
        /\ Made(a) => agr[a].member \in Members
        /\ agr[a].ext # NoSubmission => Owned(agr[a].ext, a)

OneCurrent ==
    \A a, b \in Agreements :
        agr[a].current /\ agr[b].current /\ agr[a].member = agr[b].member => a = b

\* What a handler holds: an agreement that exists, its own submission, and,
\* when it is about to sign without staff, one the parent has signed.
Sound(w) ==
    w # Idle =>
        /\ Made(w.a)
        /\ w.ext # NoSubmission => Owned(w.ext, w.a)
        /\ w.op \in {"submit", "sync"} /\ w.pc # "queued" => w.ext # NoSubmission
        /\ w.op = "hook" \/ (w.op = "sync" /\ w.pc = "asked") =>
             w.ext # NoSubmission /\ subs[w.ext].signed

SubsSound ==
    /\ \A s \in Submissions : subs[s] # Absent /\ subs[s].state = "completed" => subs[s].signed
    /\ \A s \in hooks : subs[s] # Absent /\ subs[s].signed
    /\ \A s \in archives : subs[s] # Absent

Inv ==
    /\ TypeOK
    /\ RowsSound
    /\ OneCurrent
    /\ \A h \in Handlers : Sound(hand[h])
    /\ SubsSound

-----------------------------------------------------------------------------
(* What a step may do *)

\* For the register a row is whether it exists, its member and its mark.
SameFor(a) ==
    /\ agr'[a].state = "absent" <=> agr[a].state = "absent"
    /\ agr'[a].member = agr[a].member
    /\ agr'[a].current = agr[a].current

Retires(a) ==
    /\ Made(a) /\ agr'[a].state # "absent"
    /\ agr'[a].member = agr[a].member /\ agr'[a].current = FALSE
    /\ \A b \in Agreements \ {a} : SameFor(b)

IsFresh(b, m) == agr'[b].state # "absent" /\ agr'[b].member = m /\ agr'[b].current = TRUE

Installs(m, b) ==
    /\ ~Made(b) /\ CurrentOf(m) = {} /\ IsFresh(b, m)
    /\ \A c \in Agreements \ {b} : SameFor(c)

Replaces(a, b) ==
    /\ Made(a) /\ ~Made(b) /\ CurrentOf(agr[a].member) \subseteq {a}
    /\ agr'[a].state # "absent" /\ agr'[a].member = agr[a].member /\ agr'[a].current = FALSE
    /\ IsFresh(b, agr[a].member)
    /\ \A c \in Agreements \ {a, b} : SameFor(c)

RegisterStep ==
    \/ \A a \in Agreements : SameFor(a)
    \/ \E a \in Agreements : Retires(a)
    \/ \E m \in Members, b \in Agreements : Installs(m, b)
    \/ \E a, b \in Agreements : Replaces(a, b)

\* The rest of a row: a blank row stays blank, its submission is its own.
RowStep ==
    \A a \in Agreements :
        /\ agr'[a].state = "absent" => agr'[a] = agr[a]
        /\ agr'[a].ext \in {agr[a].ext, NoSubmission}
             \/ (subs'[agr'[a].ext] # Absent /\ subs'[agr'[a].ext].agr = a)

HandStep ==
    \A g \in Handlers : hand'[g] = hand[g] \/ Sound(hand[g])'

SubmissionStep ==
    /\ \A s \in Submissions : subs[s] # Absent =>
         /\ subs'[s] # Absent
         /\ subs'[s].agr = subs[s].agr
         /\ subs[s].signed => subs'[s].signed
    /\ SubsSound'

-----------------------------------------------------------------------------
(* The three sides together *)

LEMMA Together ==
    ASSUME Inv, TypeOK', RegisterStep, RowStep, HandStep, SubmissionStep
    PROVE  Inv'
<1>1. \A a \in Agreements : Made(a) => Made(a)'
  BY DEF RegisterStep, SameFor, Retires, Installs, Replaces, IsFresh, Made
<1>2. RowsSound'
  <2> SUFFICES ASSUME NEW a \in Agreements
               PROVE  /\ ~Made(a)' => agr'[a] = NoRow
                      /\ Made(a)' => agr'[a].member \in Members
                      /\ agr'[a].ext # NoSubmission =>
                           subs'[agr'[a].ext] # Absent /\ subs'[agr'[a].ext].agr = a
    BY DEF RowsSound, Owned, NoRow
  <2>1. ~Made(a)' => agr'[a] = NoRow
    BY <1>1 DEF RowStep, Made, Inv, RowsSound
  <2>2. Made(a)' => agr'[a].member \in Members
    BY DEF RegisterStep, SameFor, Retires, Installs, Replaces, IsFresh, Made, Inv, RowsSound
  <2>3. agr'[a].ext # NoSubmission =>
            subs'[agr'[a].ext] # Absent /\ subs'[agr'[a].ext].agr = a
    BY DEF RowStep, SubmissionStep, Inv, RowsSound, Owned, TypeOK, Row
  <2> QED BY <2>1, <2>2, <2>3
<1>3. OneCurrent'
  <2> SUFFICES ASSUME NEW a \in Agreements, NEW b \in Agreements,
                      agr'[a].current, agr'[b].current, agr'[a].member = agr'[b].member
               PROVE  a = b
    BY DEF OneCurrent
  <2>0. \A c \in Agreements : ~Made(c) => agr[c].current = FALSE
    BY DEF Inv, RowsSound, NoRow
  <2>1. CASE \A c \in Agreements : SameFor(c)
    BY <2>1 DEF SameFor, Inv, OneCurrent
  <2>2. ASSUME NEW c \in Agreements, Retires(c) PROVE a = b
    BY <2>2 DEF Retires, SameFor, Inv, OneCurrent
  <2>3. ASSUME NEW m \in Members, NEW c \in Agreements, Installs(m, c) PROVE a = b
    BY <2>3 DEF Installs, IsFresh, SameFor, CurrentOf, Inv, OneCurrent
  <2>4. ASSUME NEW c \in Agreements, NEW d \in Agreements, Replaces(c, d) PROVE a = b
    BY <2>4 DEF Replaces, IsFresh, SameFor, CurrentOf, Inv, OneCurrent
  <2> QED BY <2>1, <2>2, <2>3, <2>4 DEF RegisterStep
<1>4. \A h \in Handlers : Sound(hand[h])'
  <2> SUFFICES ASSUME NEW h \in Handlers, hand'[h] = hand[h] PROVE Sound(hand[h])'
    BY DEF HandStep
  <2>1. CASE hand[h] = Idle
    BY <2>1 DEF Sound
  <2>2. CASE hand[h] # Idle
    <3>1. hand[h] \in Busy /\ hand[h].a \in Agreements
          /\ hand[h].ext \in Submissions \cup {NoSubmission}
      BY <2>2 DEF Inv, TypeOK, Busy
    <3>2. Sound(hand[h])
      BY DEF Inv
    <3> QED BY <1>1, <2>2, <3>1, <3>2 DEF Sound, Owned, SubmissionStep
  <2> QED BY <2>1, <2>2
<1> QED BY <1>2, <1>3, <1>4 DEF Inv, SubmissionStep

-----------------------------------------------------------------------------
(* Helpers on rows, handlers and submissions *)

\* A handler at work holds an agreement that exists.
LEMMA HandBusy ==
    ASSUME Inv, NEW h \in Handlers, hand[h] # Idle
    PROVE  /\ hand[h] \in Busy
           /\ hand[h].a \in Agreements
           /\ Made(hand[h].a)
           /\ agr[hand[h].a] \in Row
           /\ agr[hand[h].a].member \in Members
           /\ Sound(hand[h])
BY DEF Inv, TypeOK, Busy, Sound, RowsSound

LEMMA BusyValues ==
    ASSUME NEW op \in Op, NEW a \in Agreements, TypeOK
    PROVE  /\ \A n \in 0 .. (MaxAttempts - 1) : Queued(op, a, n) \in Busy
           /\ Reading(op, a) \in Busy
           /\ 0 \in 0 .. (MaxAttempts - 1)
<1>1. \A n \in 0 .. (MaxAttempts - 1) : Queued(op, a, n) \in Busy
  BY DEF Queued, Busy
<1>2. agr[a].plan \in Plans \cup {NoPlan} /\ agr[a].ext \in Submissions \cup {NoSubmission}
  BY DEF TypeOK, Row
<1> QED BY <1>1, <1>2 DEF Reading, Busy

LEMMA RaisedValue ==
    ASSUME Inv, NEW h \in Handlers, hand[h] # Idle, hand[h].op \in {"submit", "sync"}
    PROVE  /\ Raised(h) \in Busy \cup {Idle}
           /\ Raised(h) # Idle => /\ Raised(h).a = hand[h].a /\ Raised(h).op = hand[h].op
                                  /\ Raised(h).pc = "queued" /\ Raised(h).ext = NoSubmission
<1>1. hand[h] \in Busy
  BY HandBusy
<1>2. CASE hand[h].attempts + 1 < MaxAttempts
  <2>1. hand[h].attempts + 1 \in 0 .. (MaxAttempts - 1)
    BY <1>1, <1>2 DEF Busy
  <2>2. hand[h].op \in Op /\ hand[h].a \in Agreements
    BY <1>1 DEF Busy
  <2>3. Raised(h) = Queued(hand[h].op, hand[h].a, hand[h].attempts + 1)
    BY <1>2 DEF Raised
  <2> QED BY <2>1, <2>2, <2>3, BusyValues DEF Queued, Inv
<1>3. CASE ~(hand[h].attempts + 1 < MaxAttempts)
  BY <1>3 DEF Raised
<1> QED BY <1>2, <1>3

\* One row is written, and neither appears, disappears nor becomes current.
LEMMA RowEdit ==
    ASSUME Inv, NEW a \in Agreements, Made(a), NEW r \in Row,
           r.state # "absent", r.member = agr[a].member, r.current \in {agr[a].current, FALSE},
           r.ext = agr[a].ext \/ (subs'[r.ext] # Absent /\ subs'[r.ext].agr = a),
           agr' = [agr EXCEPT ![a] = r]
    PROVE  agr' \in [Agreements -> Row] /\ RegisterStep /\ RowStep
<1>1. agr \in [Agreements -> Row]
  BY DEF Inv, TypeOK
<1>2. agr'[a] = r /\ \A b \in Agreements \ {a} : agr'[b] = agr[b]
  BY <1>1
<1>3. RegisterStep
  <2>1. \A b \in Agreements \ {a} : SameFor(b)
    BY <1>2 DEF SameFor
  <2>2. CASE r.current = agr[a].current
    BY <1>2, <2>1, <2>2 DEF RegisterStep, SameFor, Made
  <2>3. CASE r.current = FALSE
    BY <1>2, <2>1, <2>3 DEF RegisterStep, Retires, Made
  <2> QED BY <2>2, <2>3
<1>4. RowStep
  BY <1>2 DEF RowStep
<1> QED BY <1>1, <1>3, <1>4

\* A fresh row of a member who has no current agreement.
LEMMA RowInsert ==
    ASSUME Inv, NEW m \in Members, NEW b \in Agreements, NEW p \in Plans \cup {NoPlan},
           ~Made(b), CurrentOf(m) = {}, agr' = [agr EXCEPT ![b] = Fresh(m, p)]
    PROVE  agr' \in [Agreements -> Row] /\ RegisterStep /\ RowStep
<1>1. agr \in [Agreements -> Row]
  BY DEF Inv, TypeOK
<1>2. Fresh(m, p) \in Row /\ Fresh(m, p).state = "generated" /\ Fresh(m, p).member = m
      /\ Fresh(m, p).current = TRUE /\ Fresh(m, p).ext = NoSubmission
  BY DEF Fresh, NoRow, Row, State
<1>3. agr'[b] = Fresh(m, p) /\ \A c \in Agreements \ {b} : agr'[c] = agr[c]
  BY <1>1
<1>4. Installs(m, b)
  BY <1>2, <1>3 DEF Installs, IsFresh, SameFor
<1>5. RowStep
  BY <1>2, <1>3 DEF RowStep
<1> QED BY <1>1, <1>2, <1>4, <1>5 DEF RegisterStep

LEMMA RowsAlone ==
    ASSUME UNCHANGED agr
    PROVE  RegisterStep /\ RowStep
BY DEF RegisterStep, SameFor, RowStep

LEMMA SubsAlone ==
    ASSUME Inv, UNCHANGED <<subs, archives>>, hooks' \subseteq hooks
    PROVE  SubmissionStep
BY DEF Inv, SubmissionStep, SubsSound

LEMMA MadeStays ==
    ASSUME RegisterStep
    PROVE  \A a \in Agreements : Made(a) => Made(a)'
BY DEF RegisterStep, SameFor, Retires, Installs, Replaces, IsFresh, Made

\* A handler goes idle, queues its job, or moves on in the same operation with
\* what it holds.
LEMMA HandEnds ==
    ASSUME Inv, NEW h \in Handlers, hand' = [hand EXCEPT ![h] = Idle]
    PROVE  hand' \in [Handlers -> Busy \cup {Idle}] /\ HandStep
BY DEF Inv, TypeOK, HandStep, Sound

LEMMA HandQueues ==
    ASSUME Inv, RegisterStep, NEW h \in Handlers, NEW w \in Busy \cup {Idle},
           w # Idle => Made(w.a) /\ w.pc = "queued" /\ w.ext = NoSubmission /\ w.op \in {"submit", "sync"},
           hand' = [hand EXCEPT ![h] = w]
    PROVE  hand' \in [Handlers -> Busy \cup {Idle}] /\ HandStep
<1>1. hand \in [Handlers -> Busy \cup {Idle}]
  BY DEF Inv, TypeOK
<1>2. w # Idle => w.a \in Agreements
  BY DEF Busy
<1>3. Sound(hand[h])'
  BY <1>1, <1>2, MadeStays DEF Sound
<1>4. \A g \in Handlers \ {h} : hand'[g] = hand[g]
  BY <1>1
<1> QED BY <1>1, <1>3, <1>4 DEF HandStep

LEMMA HandMoves ==
    ASSUME Inv, RegisterStep, SubmissionStep, NEW h \in Handlers, hand[h] # Idle,
           NEW pc \in {"queued", "read", "asked", "saved"},
           hand[h].op \in {"submit", "sync"} => hand[h].ext # NoSubmission,
           hand[h].op = "sync" => pc # "asked" \/ subs'[hand[h].ext].signed,
           hand' = [hand EXCEPT ![h] = [@ EXCEPT !.pc = pc]]
    PROVE  hand' \in [Handlers -> Busy \cup {Idle}] /\ HandStep
<1>1. hand \in [Handlers -> Busy \cup {Idle}]
  BY DEF Inv, TypeOK
<1>2. hand[h] \in Busy /\ hand[h].a \in Agreements /\ Made(hand[h].a) /\ Sound(hand[h])
  BY HandBusy
<1>3. hand[h].ext \in Submissions \cup {NoSubmission}
  BY <1>2 DEF Busy
<1>4. [hand[h] EXCEPT !.pc = pc] \in Busy
  BY <1>2 DEF Busy
<1>5. /\ hand'[h].a = hand[h].a /\ hand'[h].ext = hand[h].ext /\ hand'[h].op = hand[h].op
      /\ hand'[h].pc = pc
  BY <1>1, <1>2 DEF Busy
<1>6. Sound(hand[h])'
  BY <1>2, <1>3, <1>5, MadeStays DEF Sound, Owned, SubmissionStep
<1>7. \A g \in Handlers \ {h} : hand'[g] = hand[g]
  BY <1>1
<1> QED BY <1>1, <1>4, <1>6, <1>7 DEF HandStep

-----------------------------------------------------------------------------
(* Every action, seen from the three sides *)

Sides == TypeOK' /\ RegisterStep /\ RowStep /\ HandStep /\ SubmissionStep

\* Staff requests touch only their handler, approving only the rows.
LEMMA RequestSides ==
    ASSUME Inv, NEW h \in Handlers, NEW a \in Agreements,
           Start(h, a) \/ Retry(h, a) \/ RequestSync(h, a)
    PROVE  Sides
<1>1. RegisterStep /\ RowStep /\ SubmissionStep
  BY RowsAlone, SubsAlone DEF Start, Retry, RequestSync
<1>2. hand' \in [Handlers -> Busy \cup {Idle}] /\ HandStep
  <2>1. CASE Start(h, a)
    <3>1. PICK op \in {"send", "sign", "void", "renew", "plan", "amend", "leave"} :
            hand' = [hand EXCEPT ![h] = Reading(op, a)]
      BY <2>1 DEF Start
    <3>2. Reading(op, a) \in Busy
      BY BusyValues DEF Op, Inv
    <3>3. /\ Reading(op, a).a = a /\ Reading(op, a).op = op
          /\ Reading(op, a).ext \in {agr[a].ext, NoSubmission}
      BY DEF Reading
    <3>4. hand \in [Handlers -> Busy \cup {Idle}]
      BY DEF Inv, TypeOK
    <3>5. hand'[h] = Reading(op, a) /\ \A g \in Handlers \ {h} : hand'[g] = hand[g]
      BY <3>1, <3>4
    <3>6. Made(a)' /\ agr' = agr /\ subs' = subs
      BY <2>1 DEF Start, Made
    <3>7. Sound(hand[h])'
      BY <3>3, <3>5, <3>6 DEF Sound, Owned, Inv, RowsSound
    <3> QED BY <3>1, <3>2, <3>4, <3>5, <3>7 DEF HandStep
  <2>2. ASSUME NEW op \in {"submit", "sync"}, Made(a), hand' = [hand EXCEPT ![h] = Queued(op, a, 0)]
        PROVE  hand' \in [Handlers -> Busy \cup {Idle}] /\ HandStep
    <3>1. Queued(op, a, 0) \in Busy
      BY BusyValues DEF Op, Inv
    <3>2. /\ Queued(op, a, 0).a = a /\ Queued(op, a, 0).op = op
          /\ Queued(op, a, 0).pc = "queued" /\ Queued(op, a, 0).ext = NoSubmission
      BY DEF Queued
    <3> QED BY <1>1, <2>2, <3>1, <3>2, HandQueues
  <2>3. CASE Retry(h, a)
    BY <2>2, <2>3 DEF Retry
  <2>4. CASE RequestSync(h, a)
    BY <2>2, <2>4 DEF RequestSync
  <2> QED BY <2>1, <2>3, <2>4
<1>3. TypeOK'
  BY <1>2 DEF Inv, TypeOK, Start, Retry, RequestSync
<1> QED BY <1>1, <1>2, <1>3 DEF Sides

LEMMA ApproveSides ==
    ASSUME Inv, NEW m \in Members, NEW a \in Agreements, Approve(m, a)
    PROVE  Sides
<1>1. CurrentOf(m) = {}
  BY DEF Approve, CurrentOf
<1>2. agr' \in [Agreements -> Row] /\ RegisterStep /\ RowStep
  BY <1>1, RowInsert DEF Approve
<1>3. SubmissionStep /\ HandStep
  BY SubsAlone DEF Approve, HandStep
<1> QED BY <1>2, <1>3 DEF Sides, Inv, TypeOK, Approve

\* Saves that move the handler on within its operation.
LEMMA SaveAndMoveSides ==
    ASSUME Inv, NEW h \in Handlers,
           SaveSent(h) \/ SaveSigned(h) \/ SaveVoid(h) \/ RetireVoid(h)
    PROVE  Sides
<1> DEFINE a == hand[h].a
<1>1. /\ hand[h] # Idle /\ a \in Agreements /\ Made(a) /\ agr[a] \in Row /\ Sound(hand[h])
      /\ hand[h].op \in {"send", "sign", "hook", "sync", "void", "renew"}
      /\ hand[h].op = "sync" => hand[h].pc = "asked"
  BY HandBusy DEF SaveSent, SaveSigned, SaveVoid, RetireVoid, At
<1>2. SubmissionStep
  BY SubsAlone DEF SaveSent, SaveSigned, SaveVoid, RetireVoid
<1>3. agr' \in [Agreements -> Row] /\ RegisterStep /\ RowStep
  <2>1. ASSUME NEW st \in State \ {"absent"}, agr' = [agr EXCEPT ![a].state = st]
        PROVE  agr' \in [Agreements -> Row] /\ RegisterStep /\ RowStep
    <3>1. [agr[a] EXCEPT !.state = st] \in Row
      BY <1>1 DEF Row
    <3>2. /\ [agr[a] EXCEPT !.state = st].state = st
          /\ [agr[a] EXCEPT !.state = st].member = agr[a].member
          /\ [agr[a] EXCEPT !.state = st].current = agr[a].current
          /\ [agr[a] EXCEPT !.state = st].ext = agr[a].ext
      BY <1>1 DEF Row
    <3> HIDE DEF a
    <3> QED BY <1>1, <2>1, <3>1, <3>2, RowEdit
  <2>2. CASE RetireVoid(h)
    <3>1. [agr[a] EXCEPT !.current = FALSE] \in Row
      BY <1>1 DEF Row
    <3>2. /\ [agr[a] EXCEPT !.current = FALSE].state = agr[a].state
          /\ [agr[a] EXCEPT !.current = FALSE].member = agr[a].member
          /\ [agr[a] EXCEPT !.current = FALSE].current = FALSE
          /\ [agr[a] EXCEPT !.current = FALSE].ext = agr[a].ext
      BY <1>1 DEF Row
    <3>3. agr' = [agr EXCEPT ![a] = [agr[a] EXCEPT !.current = FALSE]]
      BY <2>2 DEF RetireVoid
    <3> HIDE DEF a
    <3> QED BY <1>1, <3>1, <3>2, <3>3, RowEdit DEF Made
  <2> QED BY <2>1, <2>2 DEF SaveSent, SaveSigned, SaveVoid, State
<1>4. hand' \in [Handlers -> Busy \cup {Idle}] /\ HandStep
  <2>1. hand' = [hand EXCEPT ![h] = [@ EXCEPT !.pc = "saved"]]
    BY DEF SaveSent, SaveSigned, SaveVoid, RetireVoid
  <2>2. hand[h].op = "sync" => hand[h].ext # NoSubmission
    BY <1>1 DEF Sound
  <2> QED BY <1>1, <1>2, <1>3, <2>1, <2>2, HandMoves
<1>5. TypeOK'
  BY <1>3, <1>4 DEF Inv, TypeOK, SaveSent, SaveSigned, SaveVoid, RetireVoid
<1> QED BY <1>2, <1>3, <1>4, <1>5 DEF Sides

\* Last steps of requests and webhooks.
LEMMA EndSides ==
    ASSUME Inv, NEW h \in Handlers,
           DraftBilling(h) \/ QueueArchive(h) \/ SavePlan(h) \/ Discontinue(h)
    PROVE  Sides
<1> DEFINE a == hand[h].a
<1>1. /\ hand[h] # Idle /\ hand[h] \in Busy /\ a \in Agreements /\ Made(a) /\ agr[a] \in Row
      /\ agr[a].member \in Members /\ Sound(hand[h])
  BY HandBusy DEF DraftBilling, QueueArchive, SavePlan, Discontinue, At
<1>2. hand' \in [Handlers -> Busy \cup {Idle}] /\ HandStep
  BY HandEnds DEF DraftBilling, QueueArchive, SavePlan, Discontinue
<1>3. agr' \in [Agreements -> Row] /\ RegisterStep /\ RowStep
  <2>1. CASE DraftBilling(h) \/ QueueArchive(h)
    BY <2>1, RowsAlone DEF DraftBilling, QueueArchive, Inv, TypeOK
  <2>2. CASE SavePlan(h)
    <3>1. PICK p \in Plans : agr' = [agr EXCEPT ![a] = [agr[a] EXCEPT !.plan = p]]
      BY <2>2 DEF SavePlan
    <3>2. [agr[a] EXCEPT !.plan = p] \in Row
      BY <1>1 DEF Row
    <3>3. /\ [agr[a] EXCEPT !.plan = p].state = agr[a].state
          /\ [agr[a] EXCEPT !.plan = p].member = agr[a].member
          /\ [agr[a] EXCEPT !.plan = p].current = agr[a].current
          /\ [agr[a] EXCEPT !.plan = p].ext = agr[a].ext
      BY <1>1 DEF Row
    <3> HIDE DEF a
    <3> QED BY <1>1, <3>1, <3>2, <3>3, RowEdit DEF Made
  <2>3. CASE Discontinue(h)
    <3>1. agr' = [agr EXCEPT ![a] = [agr[a] EXCEPT !.state = "discontinued"]]
      BY <2>3 DEF Discontinue
    <3>2. [agr[a] EXCEPT !.state = "discontinued"] \in Row
      BY <1>1 DEF Row, State
    <3>3. /\ [agr[a] EXCEPT !.state = "discontinued"].state = "discontinued"
          /\ [agr[a] EXCEPT !.state = "discontinued"].member = agr[a].member
          /\ [agr[a] EXCEPT !.state = "discontinued"].current = agr[a].current
          /\ [agr[a] EXCEPT !.state = "discontinued"].ext = agr[a].ext
      BY <1>1 DEF Row
    <3> HIDE DEF a
    <3> QED BY <1>1, <3>1, <3>2, <3>3, RowEdit
  <2> QED BY <2>1, <2>2, <2>3
<1>4. SubmissionStep /\ archives' \in SUBSET Submissions
  <2>1. CASE QueueArchive(h)
    <3>1. hand[h].ext # NoSubmission => hand[h].ext \in Submissions /\ subs[hand[h].ext] # Absent
      BY <1>1 DEF Sound, Owned, Busy
    <3> QED BY <2>1, <3>1 DEF QueueArchive, SubmissionStep, SubsSound, Inv, TypeOK
  <2>2. CASE DraftBilling(h) \/ SavePlan(h) \/ Discontinue(h)
    BY <2>2, SubsAlone DEF DraftBilling, Acknowledged, SavePlan, Discontinue, Inv, TypeOK
  <2> QED BY <2>1, <2>2
<1>5. draft' \in [Members -> Plans \cup {NoPlan}] /\ left' \in SUBSET Members
      /\ hooks' \in SUBSET Submissions /\ subs' = subs
  <2>1. CASE DraftBilling(h)
    BY <1>1, <2>1 DEF DraftBilling, Acknowledged, Inv, TypeOK, Busy
  <2>2. CASE QueueArchive(h) \/ SavePlan(h) \/ Discontinue(h)
    BY <1>1, <2>2 DEF QueueArchive, SavePlan, Discontinue, Inv, TypeOK
  <2> QED BY <2>1, <2>2
<1> QED BY <1>2, <1>3, <1>4, <1>5 DEF Sides, Inv, TypeOK

\* The actions that make a row: renewing, and amending, which retires the old.
LEMMA RenewSides ==
    ASSUME Inv, NEW h \in Handlers, MakeFresh(h) \/ Supersede(h)
    PROVE  Sides
<1> DEFINE a == hand[h].a
           m == agr[a].member
<1>1. /\ hand[h] # Idle /\ hand[h] \in Busy /\ a \in Agreements /\ Made(a) /\ agr[a] \in Row
      /\ m \in Members
  BY HandBusy DEF MakeFresh, Supersede, At
<1>2. hand' \in [Handlers -> Busy \cup {Idle}] /\ HandStep /\ SubmissionStep
  BY HandEnds, SubsAlone DEF MakeFresh, Supersede
<1>3. agr' \in [Agreements -> Row] /\ RegisterStep /\ RowStep
  <2>1. CASE UNCHANGED agr
    BY <2>1, RowsAlone DEF Inv, TypeOK
  <2>2. CASE MakeFresh(h) /\ CurrentOf(m) = {}
    BY <1>1, <2>2, RowInsert DEF MakeFresh
  <2>3. CASE Supersede(h) /\ CurrentOf(m) \subseteq {a}
    <3>1. PICK b \in Agreements :
            /\ ~Made(b)
            /\ agr' = [[agr EXCEPT ![a].state = "superseded", ![a].current = FALSE]
                         EXCEPT ![b] = Fresh(m, hand[h].plan)]
      BY <2>3 DEF Supersede
    <3>2. a # b /\ hand[h].plan \in Plans \cup {NoPlan}
      BY <1>1, <3>1 DEF Busy
    <3>3. /\ Fresh(m, hand[h].plan) \in Row
          /\ Fresh(m, hand[h].plan).state = "generated" /\ Fresh(m, hand[h].plan).member = m
          /\ Fresh(m, hand[h].plan).current = TRUE /\ Fresh(m, hand[h].plan).ext = NoSubmission
      BY <1>1, <3>2 DEF Fresh, NoRow, Row, State
    <3>4. agr \in [Agreements -> Row]
      BY DEF Inv, TypeOK
    <3>5. /\ agr'[b] = Fresh(m, hand[h].plan)
          /\ agr'[a] = [agr[a] EXCEPT !.state = "superseded", !.current = FALSE]
          /\ \A c \in Agreements \ {a, b} : agr'[c] = agr[c]
      BY <1>1, <3>1, <3>2, <3>4
    <3>6. /\ agr'[a] \in Row /\ agr'[a].state = "superseded" /\ agr'[a].member = m
          /\ agr'[a].current = FALSE /\ agr'[a].ext = agr[a].ext
      BY <1>1, <3>5 DEF Row, State
    <3>7. agr' \in [Agreements -> Row]
      BY <1>1, <3>1, <3>3, <3>4, <3>5, <3>6
    <3>8. Replaces(a, b)
      BY <1>1, <2>3, <3>1, <3>3, <3>5, <3>6 DEF Replaces, IsFresh, SameFor
    <3>9. RowStep
      BY <3>3, <3>5, <3>6 DEF RowStep
    <3> QED BY <1>1, <3>7, <3>8, <3>9 DEF RegisterStep
  <2> QED BY <2>1, <2>2, <2>3 DEF MakeFresh, Supersede
<1> QED BY <1>2, <1>3 DEF Sides, Inv, TypeOK, MakeFresh, Supersede

-----------------------------------------------------------------------------
(* The jobs, the webhook and DocuSeal *)

LEMMA SubmitGrows ==
    ASSUME Inv, NEW a \in Agreements, NEW s \in Submissions, Submit(a, s),
           UNCHANGED <<hooks, archives>>
    PROVE  /\ SubmissionStep
           /\ subs' \in [Submissions -> Submission \cup {Absent}]
           /\ subs'[s] # Absent /\ subs'[s].agr = a
<1> DEFINE new == [agr |-> a, state |-> "pending", signed |-> FALSE]
<1>1. new \in Submission /\ new.agr = a /\ new.state = "pending" /\ new.signed = FALSE
  BY DEF Submission
<1>2. new # Absent
  <2>1. Absent.state = "absent"
    BY DEF Absent
  <2> HIDE DEF new
  <2> QED BY <1>1, <2>1
<1>3. subs \in [Submissions -> Submission \cup {Absent}] /\ subs' = [subs EXCEPT ![s] = new]
      /\ subs[s] = Absent
  BY DEF Inv, TypeOK, Submit
<1> HIDE DEF new
<1>4. subs'[s] = new /\ \A t \in Submissions \ {s} : subs'[t] = subs[t]
  BY <1>3
<1>5. SubmissionStep
  BY <1>1, <1>2, <1>3, <1>4 DEF SubmissionStep, SubsSound, Inv, TypeOK
<1> QED BY <1>1, <1>2, <1>3, <1>4, <1>5

LEMMA SubmitJobSides ==
    ASSUME Inv, NEW h \in Handlers, PostSubmission(h) \/ PostFails(h) \/ SaveSubmission(h)
    PROVE  Sides
<1> DEFINE a == hand[h].a
<1>1. /\ hand[h] # Idle /\ hand[h] \in Busy /\ a \in Agreements /\ Made(a) /\ agr[a] \in Row
      /\ Sound(hand[h]) /\ hand[h].op = "submit"
  BY HandBusy DEF PostSubmission, PostFails, SaveSubmission, At
<1>2. hand \in [Handlers -> Busy \cup {Idle}]
  BY DEF Inv, TypeOK
<1>3. CASE PostSubmission(h)
  <2>1. PICK s \in Submissions :
          Submit(a, s) /\ hand' = [hand EXCEPT ![h] = [hand[h] EXCEPT !.pc = "asked", !.ext = s]]
    BY <1>3 DEF PostSubmission
  <2>2. /\ SubmissionStep /\ subs' \in [Submissions -> Submission \cup {Absent}]
        /\ subs'[s] # Absent /\ subs'[s].agr = a
    BY <1>1, <1>3, <2>1, SubmitGrows DEF PostSubmission
  <2>3. RegisterStep /\ RowStep
    BY <1>3, RowsAlone DEF PostSubmission
  <2>4. /\ [hand[h] EXCEPT !.pc = "asked", !.ext = s] \in Busy
        /\ [hand[h] EXCEPT !.pc = "asked", !.ext = s].a = a
        /\ [hand[h] EXCEPT !.pc = "asked", !.ext = s].op = "submit"
        /\ [hand[h] EXCEPT !.pc = "asked", !.ext = s].ext = s
    BY <1>1 DEF Busy
  <2>5. /\ hand'[h] = [hand[h] EXCEPT !.pc = "asked", !.ext = s]
        /\ \A g \in Handlers \ {h} : hand'[g] = hand[g]
    BY <1>2, <2>1
  <2>6. Sound(hand[h])'
    BY <1>1, <2>2, <2>3, <2>4, <2>5, MadeStays DEF Sound, Owned
  <2>7. hand' \in [Handlers -> Busy \cup {Idle}] /\ HandStep
    BY <1>2, <2>1, <2>4, <2>5, <2>6 DEF HandStep
  <2> QED BY <1>3, <2>2, <2>3, <2>7 DEF Sides, Inv, TypeOK, PostSubmission
<1>4. CASE PostFails(h)
  <2>1. SubmissionStep /\ subs' \in [Submissions -> Submission \cup {Absent}]
    <3>1. CASE UNCHANGED subs
      BY <1>4, <3>1, SubsAlone DEF PostFails, Inv, TypeOK
    <3>2. ASSUME NEW s \in Submissions, Submit(a, s)
          PROVE  SubmissionStep /\ subs' \in [Submissions -> Submission \cup {Absent}]
      BY <1>1, <1>4, <3>2, SubmitGrows DEF PostFails
    <3> QED BY <1>4, <3>1, <3>2 DEF PostFails
  <2>2. agr' \in [Agreements -> Row] /\ RegisterStep /\ RowStep
    <3>1. agr' = [agr EXCEPT ![a] = [agr[a] EXCEPT !.failed = TRUE]]
      BY <1>4 DEF PostFails
    <3>2. [agr[a] EXCEPT !.failed = TRUE] \in Row
      BY <1>1 DEF Row
    <3>3. /\ [agr[a] EXCEPT !.failed = TRUE].state = agr[a].state
          /\ [agr[a] EXCEPT !.failed = TRUE].member = agr[a].member
          /\ [agr[a] EXCEPT !.failed = TRUE].current = agr[a].current
          /\ [agr[a] EXCEPT !.failed = TRUE].ext = agr[a].ext
      BY <1>1 DEF Row
    <3> HIDE DEF a
    <3> QED BY <1>1, <3>1, <3>2, <3>3, RowEdit DEF Made
  <2>3. /\ Raised(h) \in Busy \cup {Idle}
        /\ Raised(h) # Idle => /\ Made(Raised(h).a) /\ Raised(h).pc = "queued"
                               /\ Raised(h).ext = NoSubmission /\ Raised(h).op \in {"submit", "sync"}
    BY <1>1, RaisedValue
  <2>4. hand' \in [Handlers -> Busy \cup {Idle}] /\ HandStep
    BY <1>4, <2>2, <2>3, HandEnds, HandQueues DEF PostFails
  <2> QED BY <1>4, <2>1, <2>2, <2>4 DEF Sides, Inv, TypeOK, PostFails
<1>5. CASE SaveSubmission(h)
  <2>1. hand[h].ext \in Submissions /\ subs[hand[h].ext] # Absent /\ subs[hand[h].ext].agr = a
    BY <1>1, <1>5 DEF SaveSubmission, At, Sound, Owned, Busy
  <2>2. SubmissionStep
    BY <1>5, SubsAlone DEF SaveSubmission
  <2>3. agr' \in [Agreements -> Row] /\ RegisterStep /\ RowStep
    <3> DEFINE r == [agr[a] EXCEPT !.ext = hand[h].ext, !.failed = FALSE]
    <3>1. agr' = [agr EXCEPT ![a] = r]
      BY <1>5 DEF SaveSubmission
    <3>2. r \in Row
      BY <1>1, <2>1 DEF Row
    <3>3. /\ r.state = agr[a].state /\ r.member = agr[a].member /\ r.current = agr[a].current
          /\ r.ext = hand[h].ext
      BY <1>1 DEF Row
    <3>4. subs'[r.ext] # Absent /\ subs'[r.ext].agr = a
      BY <1>5, <2>1, <3>3 DEF SaveSubmission
    <3> HIDE DEF a, r
    <3> QED BY <1>1, <3>1, <3>2, <3>3, <3>4, RowEdit DEF Made
  <2>4. hand' \in [Handlers -> Busy \cup {Idle}] /\ HandStep
    BY <1>5, HandEnds DEF SaveSubmission
  <2> QED BY <1>5, <2>2, <2>3, <2>4 DEF Sides, Inv, TypeOK, SaveSubmission
<1> QED BY <1>3, <1>4, <1>5

LEMMA SyncJobSides ==
    ASSUME Inv, NEW h \in Handlers, ReadForSync(h) \/ AskSubmission(h) \/ AskFails(h)
    PROVE  Sides
<1> DEFINE a == hand[h].a
<1>1. /\ hand[h] # Idle /\ hand[h] \in Busy /\ a \in Agreements /\ Made(a) /\ agr[a] \in Row
      /\ Sound(hand[h]) /\ hand[h].op = "sync"
  BY HandBusy DEF ReadForSync, AskSubmission, AskFails, At
<1>2. hand \in [Handlers -> Busy \cup {Idle}]
  BY DEF Inv, TypeOK
<1>3. SubmissionStep
  BY SubsAlone DEF ReadForSync, AskSubmission, AskFails
<1>4. agr' \in [Agreements -> Row] /\ RegisterStep /\ RowStep
  <2>1. CASE ReadForSync(h)
    BY <2>1, RowsAlone DEF ReadForSync, Inv, TypeOK
  <2>2. ASSUME NEW f \in BOOLEAN, agr' = [agr EXCEPT ![a].failed = f]
        PROVE  agr' \in [Agreements -> Row] /\ RegisterStep /\ RowStep
    <3>1. [agr[a] EXCEPT !.failed = f] \in Row
      BY <1>1 DEF Row
    <3>2. /\ [agr[a] EXCEPT !.failed = f].state = agr[a].state
          /\ [agr[a] EXCEPT !.failed = f].member = agr[a].member
          /\ [agr[a] EXCEPT !.failed = f].current = agr[a].current
          /\ [agr[a] EXCEPT !.failed = f].ext = agr[a].ext
      BY <1>1 DEF Row
    <3> HIDE DEF a
    <3> QED BY <1>1, <2>2, <3>1, <3>2, RowEdit DEF Made
  <2> QED BY <2>1, <2>2 DEF AskSubmission, AskFails
<1>5. /\ Raised(h) \in Busy \cup {Idle}
      /\ Raised(h) # Idle => /\ Made(Raised(h).a) /\ Raised(h).pc = "queued"
                             /\ Raised(h).ext = NoSubmission /\ Raised(h).op \in {"submit", "sync"}
  BY <1>1, RaisedValue
<1>6. hand' \in [Handlers -> Busy \cup {Idle}] /\ HandStep
  <2>1. CASE hand' = [hand EXCEPT ![h] = Idle]
    BY <2>1, HandEnds
  <2>2. CASE hand' = [hand EXCEPT ![h] = Raised(h)]
    BY <1>4, <1>5, <2>2, HandQueues
  <2>3. CASE ReadForSync(h) /\ agr[a].ext # NoSubmission
    <3> DEFINE w == [hand[h] EXCEPT !.pc = "read", !.plan = agr[a].plan, !.ext = agr[a].ext]
    <3>1. hand' = [hand EXCEPT ![h] = w]
      BY <2>3 DEF ReadForSync
    <3>2. w \in Busy
      BY <1>1 DEF Busy, Row
    <3>3. w.a = a /\ w.op = "sync" /\ w.ext = agr[a].ext /\ w.pc = "read"
      BY <1>1 DEF Busy
    <3> HIDE DEF w
    <3>4. hand'[h] = w /\ \A g \in Handlers \ {h} : hand'[g] = hand[g]
      BY <1>2, <3>1
    <3>5. Owned(agr[a].ext, a) /\ subs' = subs /\ agr' = agr
      BY <1>1, <2>3 DEF Inv, RowsSound, ReadForSync
    <3>6. Sound(hand[h])'
      BY <1>1, <2>3, <3>3, <3>4, <3>5 DEF Sound, Owned, Made
    <3> QED BY <1>2, <3>1, <3>2, <3>4, <3>6 DEF HandStep
  <2>4. CASE AskSubmission(h) /\ hand' = [hand EXCEPT ![h] = [@ EXCEPT !.pc = "asked"]]
    <3>1. hand[h].ext \in Submissions /\ Owned(hand[h].ext, a)
      BY <1>1, <2>4 DEF AskSubmission, At, Sound, Busy
    <3>2. subs[hand[h].ext].state = "completed"
      <4>1. hand'[h] = [hand[h] EXCEPT !.pc = "asked"]
        BY <1>2, <2>4
      <4>2. [hand[h] EXCEPT !.pc = "asked"].pc = "asked"
        BY <1>1 DEF Busy
      <4>3. hand'[h] # Idle
        <5>1. [hand[h] EXCEPT !.pc = "asked"] \in Busy
          BY <1>1 DEF Busy
        <5>2. [hand[h] EXCEPT !.pc = "asked"].op = "sync"
          BY <1>1 DEF Busy
        <5>3. Idle.op = "idle"
          BY DEF Idle
        <5> QED BY <4>1, <5>2, <5>3
      <4>4. Raised(h) # Idle => Raised(h).pc = "queued"
        BY <1>5
      <4> QED BY <1>2, <2>4, <4>1, <4>2, <4>3, <4>4 DEF AskSubmission
    <3>3. subs'[hand[h].ext].signed
      BY <2>4, <3>1, <3>2 DEF AskSubmission, Owned, Inv, SubsSound
    <3>4. hand[h].ext # NoSubmission
      BY <3>1
    <3> QED BY <1>1, <1>3, <1>4, <2>4, <3>3, <3>4, HandMoves
  <2> QED BY <2>1, <2>2, <2>3, <2>4 DEF ReadForSync, AskSubmission, AskFails
<1> QED BY <1>3, <1>4, <1>6 DEF Sides, Inv, TypeOK, ReadForSync, AskSubmission, AskFails

LEMMA QueueSides ==
    ASSUME Inv, NEW h \in Handlers, QueueSubmission(h)
    PROVE  Sides
<1>1. /\ hand[h] # Idle /\ hand[h].a \in Agreements /\ Made(hand[h].a)
  BY HandBusy DEF QueueSubmission, At
<1>2. RegisterStep /\ RowStep /\ SubmissionStep
  BY RowsAlone, SubsAlone DEF QueueSubmission
<1>3. /\ Queued("submit", hand[h].a, 0) \in Busy
      /\ Queued("submit", hand[h].a, 0).a = hand[h].a
      /\ Queued("submit", hand[h].a, 0).pc = "queued"
      /\ Queued("submit", hand[h].a, 0).op = "submit"
      /\ Queued("submit", hand[h].a, 0).ext = NoSubmission
  BY <1>1, BusyValues DEF Op, Inv, Queued
<1>4. hand' \in [Handlers -> Busy \cup {Idle}] /\ HandStep
  BY <1>1, <1>2, <1>3, HandQueues DEF QueueSubmission
<1> QED BY <1>2, <1>4 DEF Sides, Inv, TypeOK, QueueSubmission

LEMMA BreakOffSides ==
    ASSUME Inv, NEW h \in Handlers, BreakOff(h)
    PROVE  Sides
<1>1. hand[h] # Idle /\ hand[h] \in Busy /\ hand[h].a \in Agreements /\ Made(hand[h].a)
  BY HandBusy DEF BreakOff
<1>2. RegisterStep /\ RowStep /\ SubmissionStep
  BY RowsAlone, SubsAlone DEF BreakOff
<1>3. hand' \in [Handlers -> Busy \cup {Idle}] /\ HandStep
  <2>1. CASE hand[h].op \notin {"submit", "sync"}
    BY <2>1, HandEnds DEF BreakOff
  <2>2. CASE hand[h].op \in {"submit", "sync"}
    <3> DEFINE q == Queued(hand[h].op, hand[h].a, hand[h].attempts)
    <3>1. /\ q \in Busy /\ q.a = hand[h].a /\ q.op = hand[h].op /\ q.pc = "queued"
          /\ q.ext = NoSubmission
      BY <1>1 DEF Busy, Queued
    <3>2. /\ Raised(h) \in Busy \cup {Idle}
          /\ Raised(h) # Idle => /\ Made(Raised(h).a) /\ Raised(h).pc = "queued"
                                 /\ Raised(h).ext = NoSubmission /\ Raised(h).op \in {"submit", "sync"}
      BY <1>1, <2>2, RaisedValue
    <3>3. hand' = [hand EXCEPT ![h] = Raised(h)] \/ hand' = [hand EXCEPT ![h] = q]
      BY <2>2 DEF BreakOff
    <3> HIDE DEF q
    <3> QED BY <1>1, <1>2, <2>2, <3>1, <3>2, <3>3, HandQueues
  <2> QED BY <2>1, <2>2
<1> QED BY <1>2, <1>3 DEF Sides, Inv, TypeOK, BreakOff

LEMMA WebhookSides ==
    ASSUME Inv, NEW h \in Handlers, NEW s \in Submissions, Webhook(h, s)
    PROVE  Sides
<1>1. RegisterStep /\ RowStep /\ SubmissionStep
  BY RowsAlone, SubsAlone DEF Webhook
<1>2. hand \in [Handlers -> Busy \cup {Idle}]
  BY DEF Inv, TypeOK
<1>3. hand' \in [Handlers -> Busy \cup {Idle}] /\ HandStep
  <2>1. CASE UNCHANGED hand
    BY <1>2, <2>1 DEF HandStep
  <2>2. ASSUME NEW a \in SignableBy(s), hand' = [hand EXCEPT ![h] = Reading("hook", a)]
        PROVE  hand' \in [Handlers -> Busy \cup {Idle}] /\ HandStep
    <3>1. a \in Agreements /\ agr[a].ext = s /\ Made(a) /\ s # NoSubmission
      BY DEF SignableBy, Signable, Made
    <3>2. /\ Reading("hook", a) \in Busy /\ Reading("hook", a).a = a
          /\ Reading("hook", a).op = "hook" /\ Reading("hook", a).ext = s
      BY <3>1, BusyValues DEF Op, Inv, Reading
    <3>3. Owned(s, a) /\ subs[s].signed
      BY <3>1 DEF Webhook, Inv, RowsSound, SubsSound
    <3>4. hand'[h] = Reading("hook", a) /\ \A g \in Handlers \ {h} : hand'[g] = hand[g]
      BY <1>2, <2>2
    <3>5. agr' = agr /\ subs' = subs
      BY DEF Webhook
    <3>6. Sound(hand[h])'
      BY <3>1, <3>2, <3>3, <3>4, <3>5 DEF Sound, Owned, Made
    <3> QED BY <1>2, <2>2, <3>2, <3>4, <3>6 DEF HandStep
  <2> QED BY <2>1, <2>2 DEF Webhook
<1> QED BY <1>1, <1>3 DEF Sides, Inv, TypeOK, Webhook

LEMMA DocuSealSides ==
    ASSUME Inv, NEW s \in Submissions, ParentSigns(s) \/ ArchiveSubmission(s)
    PROVE  Sides
<1>1. RegisterStep /\ RowStep /\ HandStep
  BY RowsAlone DEF ParentSigns, ArchiveSubmission, HandStep
<1>2. subs \in [Submissions -> Submission \cup {Absent}]
  BY DEF Inv, TypeOK
<1>3. subs[s] # Absent /\ subs[s] \in Submission
  BY <1>2 DEF ParentSigns, ArchiveSubmission, Inv, SubsSound
<1>4. Absent.state = "absent"
  BY DEF Absent
<1>5. subs' \in [Submissions -> Submission \cup {Absent}] /\ SubmissionStep
  <2>1. CASE ParentSigns(s)
    <3> DEFINE x == [subs[s] EXCEPT !.state = "completed", !.signed = TRUE]
    <3>1. x \in Submission /\ x.state = "completed" /\ x.signed = TRUE /\ x.agr = subs[s].agr
      BY <1>3 DEF Submission
    <3>2. subs' = [subs EXCEPT ![s] = x]
      BY <2>1 DEF ParentSigns
    <3> HIDE DEF x
    <3>3. x # Absent
      BY <1>4, <3>1
    <3>4. subs'[s] = x /\ \A t \in Submissions \ {s} : subs'[t] = subs[t]
      BY <1>2, <3>2
    <3>5. SubsSound'
      BY <2>1, <3>1, <3>3, <3>4 DEF SubsSound, Inv, TypeOK, ParentSigns
    <3> QED BY <1>2, <3>1, <3>2, <3>3, <3>4, <3>5 DEF SubmissionStep
  <2>2. CASE ArchiveSubmission(s) /\ subs' = subs
    BY <1>2, <2>2 DEF ArchiveSubmission, SubmissionStep, SubsSound, Inv
  <2>3. CASE ArchiveSubmission(s) /\ subs' = [subs EXCEPT ![s].state = "archived"]
    <3> DEFINE x == [subs[s] EXCEPT !.state = "archived"]
    <3>1. /\ x \in Submission /\ x.state = "archived" /\ x.signed = subs[s].signed
          /\ x.agr = subs[s].agr
      BY <1>3 DEF Submission
    <3>2. subs' = [subs EXCEPT ![s] = x]
      BY <2>3
    <3> HIDE DEF x
    <3>3. x # Absent
      BY <1>4, <3>1
    <3>4. subs'[s] = x /\ \A t \in Submissions \ {s} : subs'[t] = subs[t]
      BY <1>2, <3>2
    <3>5. SubsSound'
      BY <2>3, <3>1, <3>3, <3>4 DEF SubsSound, Inv, TypeOK, ArchiveSubmission
    <3> QED BY <1>2, <3>1, <3>2, <3>3, <3>4, <3>5 DEF SubmissionStep
  <2> QED BY <2>1, <2>2, <2>3 DEF ArchiveSubmission
<1> QED BY <1>1, <1>5 DEF Sides, Inv, TypeOK, ParentSigns, ArchiveSubmission

-----------------------------------------------------------------------------
(* The invariant *)

LEMMA NextSides == Inv /\ Next => Sides
BY RequestSides, ApproveSides, SaveAndMoveSides, EndSides, RenewSides, SubmitJobSides,
   SyncJobSides, QueueSides, BreakOffSides, WebhookSides, DocuSealSides
   DEF Next, Step

LEMMA StutterSides == Inv /\ UNCHANGED vars => Sides
<1> SUFFICES ASSUME Inv, UNCHANGED vars PROVE Sides
  OBVIOUS
<1>1. RegisterStep /\ RowStep /\ SubmissionStep /\ HandStep
  BY RowsAlone, SubsAlone DEF vars, HandStep
<1> QED BY <1>1 DEF Sides, Inv, TypeOK, vars

LEMMA InitInv == Init => Inv
<1> SUFFICES ASSUME Init PROVE Inv
  OBVIOUS
<1>1. TypeOK
  BY DEF Init, TypeOK, NoRow, Row, State
<1>2. RowsSound /\ OneCurrent
  BY DEF Init, RowsSound, OneCurrent, Made, NoRow
<1>3. SubsSound /\ \A h \in Handlers : Sound(hand[h])
  BY DEF Init, SubsSound, Sound
<1> QED BY <1>1, <1>2, <1>3 DEF Inv

\* Every reachable state is well typed and every row, handler and submission
\* belongs together as Inv says.
THEOREM LifecycleSound == Spec => []Inv
<1>1. Inv /\ [Next]_vars => Inv'
  BY NextSides, StutterSides, Together DEF Sides
<1> QED BY <1>1, InitInv, PTL DEF Spec

\* Every reachable state is well typed, for any number of members, agreements,
\* submissions, handlers and attempts.
THEOREM TypeCorrect == Spec => []TypeOK
<1>1. Inv => TypeOK
  BY DEF Inv
<1> QED BY <1>1, LifecycleSound, PTL

-----------------------------------------------------------------------------
(* Only the parent or staff sign *)

-----------------------------------------------------------------------------
(* Only the parent or staff sign *)

LEMMA OthersDoNotSign ==
    ASSUME Inv, Next, NEW a \in Agreements,
           agr[a].state # "signed", agr'[a].state = "signed"
    PROVE  \E h \in Handlers : SaveSigned(h) /\ hand[h].a = a
<1>1. agr \in [Agreements -> Row]
  BY DEF Inv, TypeOK
<1>2. \A m, p : Fresh(m, p).state = "generated"
  BY DEF Fresh, NoRow
<1>3. agr' # agr
  OBVIOUS
<1>4. ASSUME NEW m \in Members, NEW b \in Agreements, Approve(m, b) PROVE FALSE
  <2>1. PICK p \in Plans \cup {NoPlan} : agr' = [agr EXCEPT ![b] = Fresh(m, p)]
    BY <1>4 DEF Approve
  <2> QED BY <1>1, <1>2, <2>1
<1>5. ASSUME NEW h \in Handlers, Step(h), ~SaveSigned(h) PROVE FALSE
  <2>1. hand[h].a \in Agreements /\ agr[hand[h].a] \in Row
    BY <1>5, HandBusy DEF Step, SaveSent, QueueSubmission, DraftBilling, SaveVoid, QueueArchive,
       RetireVoid, MakeFresh, SavePlan, Supersede, Discontinue, PostSubmission, PostFails,
       SaveSubmission, ReadForSync, AskSubmission, AskFails, At
  <2>2. CASE SaveSent(h) \/ SaveVoid(h) \/ Discontinue(h)
    BY <1>1, <2>1, <2>2 DEF SaveSent, SaveVoid, Discontinue, Row
  <2>3. CASE PostFails(h) \/ AskSubmission(h) \/ AskFails(h)
    <3>1. \E f \in BOOLEAN : agr' = [agr EXCEPT ![hand[h].a].failed = f]
      BY <2>3 DEF PostFails, AskSubmission, AskFails
    <3> QED BY <1>1, <2>1, <3>1 DEF Row
  <2>8. CASE RetireVoid(h)
    BY <1>1, <2>1, <2>8 DEF RetireVoid, Row
  <2>9. CASE SavePlan(h)
    <3>1. PICK p \in Plans : agr' = [agr EXCEPT ![hand[h].a].plan = p]
      BY <2>9 DEF SavePlan
    <3> QED BY <1>1, <2>1, <3>1 DEF Row
  <2>4. CASE SaveSubmission(h)
    BY <1>1, <2>1, <2>4 DEF SaveSubmission, Row
  <2>5. CASE MakeFresh(h)
    BY <1>1, <1>2, <2>5 DEF MakeFresh
  <2>6. CASE Supersede(h)
    <3>1. PICK b \in Agreements :
            agr' = [[agr EXCEPT ![hand[h].a].state = "superseded", ![hand[h].a].current = FALSE]
                      EXCEPT ![b] = Fresh(agr[hand[h].a].member, hand[h].plan)]
      BY <1>3, <2>6 DEF Supersede
    <3>2. agr'[a] = Fresh(agr[hand[h].a].member, hand[h].plan) \/ agr'[a] = agr[a]
          \/ agr'[a] = [agr[a] EXCEPT !.state = "superseded", !.current = FALSE]
      BY <1>1, <2>1, <3>1
    <3> QED BY <1>1, <1>2, <3>2 DEF Row
  <2>7. CASE QueueSubmission(h) \/ DraftBilling(h) \/ QueueArchive(h) \/ PostSubmission(h)
             \/ ReadForSync(h)
    BY <1>3, <2>7 DEF QueueSubmission, DraftBilling, QueueArchive, PostSubmission, ReadForSync
  <2> QED BY <1>5, <2>2, <2>3, <2>4, <2>5, <2>6, <2>7, <2>8, <2>9 DEF Step
<1>6. PICK h \in Handlers : SaveSigned(h)
  BY <1>3, <1>4, <1>5 DEF Next, Start, Retry, RequestSync, BreakOff, Webhook, ParentSigns,
     ArchiveSubmission
<1>7. hand[h].a = a
  BY <1>1, <1>6 DEF SaveSigned
<1> QED BY <1>6, <1>7

LEMMA SignerMay ==
    ASSUME Inv, NEW h \in Handlers, SaveSigned(h)
    PROVE  \/ At(h, {"sign"}, "read")
           \/ \E s \in Submissions : subs[s] # Absent /\ subs[s].agr = hand[h].a /\ subs[s].signed
<1>1. hand[h] # Idle
  BY DEF SaveSigned, At
<1>2. hand[h] \in Busy /\ Sound(hand[h])
  BY <1>1, HandBusy
<1>3. hand[h].op = "hook" \/ (hand[h].op = "sync" /\ hand[h].pc = "asked")
      \/ At(h, {"sign"}, "read")
  BY <1>1 DEF SaveSigned, At
<1>4. hand[h].ext \in Submissions \cup {NoSubmission}
  BY <1>2 DEF Busy
<1> QED BY <1>1, <1>2, <1>3, <1>4 DEF Sound, Owned

\* However many submissions were made for an agreement, archived or repeated,
\* only staff or a signature of the parent on one of its own makes it signed.
THEOREM OnlyParentOrStaffSign == Spec => SignedByParentOrStaff
<1>1. ASSUME Inv, [Next]_vars
      PROVE  [\A a \in Agreements : agr[a].state # "signed" /\ agr'[a].state = "signed" =>
                \/ \E h \in Handlers : At(h, {"sign"}, "read") /\ hand[h].a = a
                \/ \E s \in Submissions : subs[s] # Absent /\ subs[s].agr = a /\ subs[s].signed]_vars
  <2>1. CASE Next
    BY <1>1, <2>1, OthersDoNotSign, SignerMay
  <2>2. CASE UNCHANGED vars
    BY <2>2
  <2> QED BY <1>1, <2>1, <2>2
<1> QED BY <1>1, LifecycleSound, PTL DEF Spec, SignedByParentOrStaff

-----------------------------------------------------------------------------
(* The register *)

Current == [m \in Members |-> CurrentOf(m)]
Retired == {a \in Agreements : Made(a) /\ ~agr[a].current}

LEMMA BlankIsUnused ==
    ASSUME Inv, NEW b \in Agreements, ~Made(b)
    PROVE  b \notin Retired /\ \A m : b \notin CurrentOf(m)
BY DEF Inv, RowsSound, NoRow, Retired, CurrentOf

LEMMA SameStutters ==
    ASSUME Inv, \A a \in Agreements : SameFor(a)
    PROVE  Current' = Current /\ Retired' = Retired
<1>1. \A m \in Members : CurrentOf(m)' = CurrentOf(m)
  BY DEF CurrentOf, SameFor
<1>2. Retired' = Retired
  BY DEF Retired, SameFor, Made
<1> QED BY <1>1, <1>2 DEF Current

LEMMA InstallsInstalls ==
    ASSUME Inv, NEW m \in Members, NEW b \in Agreements, Installs(m, b)
    PROVE  Register!Install(m, b)
<1>1. CurrentOf(m) = {} /\ ~Made(b)
  BY DEF Installs
<1>2. b \notin Retired /\ \A n : b \notin CurrentOf(n)
  BY <1>1, BlankIsUnused
<1>3. CurrentOf(m)' = {b}
  BY <1>1 DEF Installs, IsFresh, SameFor, CurrentOf
<1>4. \A n \in Members \ {m} : CurrentOf(n)' = CurrentOf(n)
  BY <1>1, <1>2 DEF Installs, IsFresh, SameFor, CurrentOf
<1>5. Retired' = Retired
  BY <1>1 DEF Installs, IsFresh, SameFor, Retired, Made
<1>6. Current' = [Current EXCEPT ![m] = {b}]
  BY <1>3, <1>4 DEF Current
<1>7. Register!Unused(b)
  BY <1>2 DEF Register!Unused, Retired
<1> QED BY <1>1, <1>5, <1>6, <1>7 DEF Register!Install, Current, Retired

LEMMA RetiresRetires ==
    ASSUME Inv, NEW a \in Agreements, Retires(a)
    PROVE  (\E m \in Members : Register!Retire(m)) \/ (Current' = Current /\ Retired' = Retired)
<1>1. PICK m \in Members : m = agr[a].member
  BY DEF Inv, RowsSound, Retires
<1>2. CASE ~agr[a].current
  <2>1. agr[a].current = FALSE
    BY <1>2 DEF Inv, TypeOK, Row
  <2>2. \A b \in Agreements : SameFor(b)
    BY <2>1 DEF Retires, SameFor, Made
  <2> QED BY <2>2, SameStutters
<1>3. CASE agr[a].current
  <2>1. CurrentOf(m) = {a}
    BY <1>1, <1>3 DEF Inv, OneCurrent, CurrentOf
  <2>2. CurrentOf(m)' = {}
    BY <1>1, <2>1 DEF Retires, SameFor, CurrentOf
  <2>3. \A n \in Members \ {m} : CurrentOf(n)' = CurrentOf(n)
    BY <1>1 DEF Retires, SameFor, CurrentOf
  <2>4. Retired' = Retired \cup {a}
    BY <1>3 DEF Retires, SameFor, Retired, Made
  <2>5. Current' = [Current EXCEPT ![m] = {}] /\ Current[m] = {a}
    BY <1>1, <2>1, <2>2, <2>3 DEF Current
  <2>6. Register!Retire(m)
    BY <1>1, <2>4, <2>5 DEF Register!Retire, Current, Retired
  <2> QED BY <1>1, <2>6
<1> QED BY <1>2, <1>3

LEMMA ReplacesReplaces ==
    ASSUME Inv, NEW a \in Agreements, NEW b \in Agreements, Replaces(a, b)
    PROVE  \E m \in Members : Register!Install(m, b) \/ Register!Replace(m, b)
<1>0. PICK m \in Members : m = agr[a].member
  BY DEF Inv, RowsSound, Replaces
<1>1. m = agr[a].member /\ CurrentOf(m) \subseteq {a} /\ Made(a) /\ ~Made(b) /\ a # b
  BY <1>0 DEF Replaces
<1>2. b \notin Retired /\ \A n : b \notin CurrentOf(n)
  BY <1>1, BlankIsUnused
<1>3. CurrentOf(m)' = {b}
  BY <1>1 DEF Replaces, IsFresh, SameFor, CurrentOf
<1>4. \A n \in Members \ {m} : CurrentOf(n)' = CurrentOf(n)
  BY <1>1, <1>2 DEF Replaces, IsFresh, SameFor, CurrentOf
<1>5. Current' = [Current EXCEPT ![m] = {b}] /\ Current[m] = CurrentOf(m)
  BY <1>1, <1>3, <1>4 DEF Current
<1>6. Register!Unused(b)
  BY <1>2 DEF Register!Unused, Retired
<1>7. CASE agr[a].current
  <2>1. CurrentOf(m) = {a}
    BY <1>1, <1>7 DEF CurrentOf
  <2>2. Retired' = Retired \cup {a}
    BY <1>1, <1>7 DEF Replaces, IsFresh, SameFor, Retired, Made
  <2>3. Register!Replace(m, b)
    BY <1>1, <1>5, <1>6, <2>1, <2>2 DEF Register!Replace, Current, Retired
  <2> QED BY <1>1, <2>3
<1>8. CASE ~agr[a].current
  <2>1. CurrentOf(m) = {}
    BY <1>1, <1>8 DEF CurrentOf
  <2>2. Retired' = Retired
    BY <1>1, <1>8 DEF Replaces, IsFresh, SameFor, Retired, Made
  <2>3. Register!Install(m, b)
    BY <1>1, <1>5, <1>6, <2>1, <2>2 DEF Register!Install, Current, Retired
  <2> QED BY <1>1, <2>3
<1> QED BY <1>7, <1>8

LEMMA StepImplements == Inv /\ [Next]_vars => [Register!Next]_(Register!vars)
<1> SUFFICES ASSUME Inv, [Next]_vars PROVE [Register!Next]_(Register!vars)
  OBVIOUS
<1>1. RegisterStep
  BY NextSides, StutterSides DEF Sides
<1>2. (Current' = Current /\ Retired' = Retired) => UNCHANGED Register!vars
  BY DEF Current, Retired, Register!vars
<1>3. CASE \A a \in Agreements : SameFor(a)
  BY <1>2, <1>3, SameStutters
<1>4. ASSUME NEW a \in Agreements, Retires(a) PROVE [Register!Next]_(Register!vars)
  BY <1>2, <1>4, RetiresRetires DEF Register!Next
<1>5. ASSUME NEW m \in Members, NEW b \in Agreements, Installs(m, b)
      PROVE  [Register!Next]_(Register!vars)
  BY <1>5, InstallsInstalls DEF Register!Next
<1>6. ASSUME NEW a \in Agreements, NEW b \in Agreements, Replaces(a, b)
      PROVE  [Register!Next]_(Register!vars)
  BY <1>6, ReplacesReplaces DEF Register!Next
<1> QED BY <1>1, <1>3, <1>4, <1>5, <1>6 DEF RegisterStep

\* Whatever requests, webhooks and jobs do with the copies they hold, a member
\* has one current agreement at most and a retired one never comes back.
THEOREM LifecycleImplementsRegister == Spec => ImplementsRegister
<1>1. Init => Register!Init
  <2> SUFFICES ASSUME Init PROVE Register!Init
    OBVIOUS
  <2>1. \A m \in Members : CurrentOf(m) = {}
    BY DEF Init, CurrentOf, NoRow
  <2>2. {a \in Agreements : Made(a) /\ ~agr[a].current} = {}
    BY DEF Init, Made, NoRow
  <2> QED BY <2>1, <2>2 DEF Register!Init
<1>2. Inv /\ [Next]_vars => [Register!Next]_(Register!vars)
  BY StepImplements
<1> QED BY <1>1, <1>2, LifecycleSound, PTL DEF Spec, ImplementsRegister, Register!Spec

-----------------------------------------------------------------------------
(* Signing creates the draft, unless the signer breaks off *)

\* Who is about to sign, or has signed and is about to draft, holds a plan.
PlanHeld(w) ==
    w # Idle /\ (w.op \in {"sign", "hook"} \/ (w.op = "sync" /\ w.pc \in {"asked", "saved"}))
        => w.plan # NoPlan

PlansHeld == \A h \in Handlers : PlanHeld(hand[h])

LEMMA QueuedHoldsNone ==
    ASSUME NEW op \in {"submit", "sync"}, NEW a, NEW n
    PROVE  PlanHeld(Queued(op, a, n))
BY DEF PlanHeld, Queued

LEMMA RaisedHoldsNone ==
    ASSUME Inv, NEW h \in Handlers, hand[h] # Idle, hand[h].op \in {"submit", "sync"}
    PROVE  PlanHeld(Raised(h))
BY RaisedValue DEF PlanHeld

LEMMA PlansStayHeld ==
    ASSUME Inv, PlansHeld, [Next]_vars
    PROVE  PlansHeld'
<1>1. hand \in [Handlers -> Busy \cup {Idle}]
  BY DEF Inv, TypeOK
<1>2. ASSUME NEW h \in Handlers, NEW w, PlanHeld(w), hand' = [hand EXCEPT ![h] = w]
      PROVE  PlansHeld'
  BY <1>1, <1>2 DEF PlansHeld, PlanHeld
<1>3. CASE UNCHANGED hand
  BY <1>3 DEF PlansHeld, PlanHeld
<1>4. ASSUME NEW h \in Handlers, NEW a \in Agreements, Start(h, a) PROVE PlansHeld'
  <2>1. PICK op \in {"send", "sign", "void", "renew", "plan", "amend", "leave"} :
          Allowed(op, agr[a]) /\ hand' = [hand EXCEPT ![h] = Reading(op, a)]
    BY <1>4 DEF Start
  <2>2. PlanHeld(Reading(op, a))
    BY <2>1 DEF PlanHeld, Reading, Allowed
  <2> QED BY <1>2, <2>1, <2>2
<1>5. ASSUME NEW h \in Handlers, NEW a \in Agreements, Retry(h, a) \/ RequestSync(h, a)
      PROVE  PlansHeld'
  BY <1>2, <1>5, QueuedHoldsNone DEF Retry, RequestSync
<1>6. ASSUME NEW h \in Handlers, NEW s \in Submissions, Webhook(h, s) PROVE PlansHeld'
  <2>1. ASSUME NEW a \in SignableBy(s), hand' = [hand EXCEPT ![h] = Reading("hook", a)]
        PROVE  PlansHeld'
    <3>1. PlanHeld(Reading("hook", a))
      BY DEF SignableBy, PlanHeld, Reading
    <3> QED BY <1>2, <2>1, <3>1
  <2> QED BY <1>3, <1>6, <2>1 DEF Webhook
<1>7. ASSUME NEW h \in Handlers, Step(h) \/ BreakOff(h) PROVE PlansHeld'
  <2>1. hand[h] # Idle
    BY <1>7 DEF Step, BreakOff, SaveSent, QueueSubmission, SaveSigned, DraftBilling, SaveVoid,
       QueueArchive, RetireVoid, MakeFresh, SavePlan, Supersede, Discontinue, PostSubmission,
       PostFails, SaveSubmission, ReadForSync, AskSubmission, AskFails, At
  <2>2. hand[h] \in Busy /\ PlanHeld(hand[h]) /\ PlanHeld(Idle)
    BY <2>1, HandBusy DEF PlansHeld, PlanHeld
  <2>3. CASE hand' = [hand EXCEPT ![h] = Idle]
    BY <1>2, <2>2, <2>3
  <2>4. CASE hand[h].op \in {"submit", "sync"} /\ hand' = [hand EXCEPT ![h] = Raised(h)]
    BY <1>2, <2>1, <2>4, RaisedHoldsNone
  <2>5. CASE hand[h].op \in {"submit", "sync"}
             /\ hand' = [hand EXCEPT ![h] = Queued(hand[h].op, hand[h].a, hand[h].attempts)]
    BY <1>2, <2>5, QueuedHoldsNone
  <2>6. CASE hand' = [hand EXCEPT ![h] = Queued("submit", hand[h].a, 0)]
    BY <1>2, <2>6, QueuedHoldsNone
  <2>7. CASE SaveSent(h) \/ SaveSigned(h) \/ SaveVoid(h) \/ RetireVoid(h)
    <3>1. hand' = [hand EXCEPT ![h] = [hand[h] EXCEPT !.pc = "saved"]]
      BY <2>7 DEF SaveSent, SaveSigned, SaveVoid, RetireVoid
    <3>2. hand[h].op = "sync" => hand[h].pc = "asked"
      BY <2>7 DEF SaveSent, SaveSigned, SaveVoid, RetireVoid, At
    <3>3. /\ [hand[h] EXCEPT !.pc = "saved"].op = hand[h].op
          /\ [hand[h] EXCEPT !.pc = "saved"].plan = hand[h].plan
      BY <2>2 DEF Busy
    <3>4. PlanHeld([hand[h] EXCEPT !.pc = "saved"])
      BY <2>1, <2>2, <3>2, <3>3 DEF PlanHeld
    <3> QED BY <1>2, <3>1, <3>4
  <2>8. CASE PostSubmission(h)
    <3>1. PICK s \in Submissions :
            hand' = [hand EXCEPT ![h] = [hand[h] EXCEPT !.pc = "asked", !.ext = s]]
      BY <2>8 DEF PostSubmission
    <3>2. [hand[h] EXCEPT !.pc = "asked", !.ext = s].op = "submit"
      BY <2>2, <2>8 DEF PostSubmission, At, Busy
    <3>3. PlanHeld([hand[h] EXCEPT !.pc = "asked", !.ext = s])
      BY <3>2 DEF PlanHeld
    <3> QED BY <1>2, <3>1, <3>3
  <2>9. CASE ReadForSync(h) /\ agr[hand[h].a].ext # NoSubmission
    <3> DEFINE w == [hand[h] EXCEPT !.pc = "read", !.plan = agr[hand[h].a].plan,
                                    !.ext = agr[hand[h].a].ext]
    <3>1. hand' = [hand EXCEPT ![h] = w]
      BY <2>9 DEF ReadForSync
    <3>2. w.pc = "read" /\ w.op = "sync"
      BY <2>2, <2>9 DEF ReadForSync, At, Busy
    <3>3. PlanHeld(w)
      <4> HIDE DEF w
      <4> QED BY <3>2 DEF PlanHeld
    <3> HIDE DEF w
    <3> QED BY <1>2, <3>1, <3>3
  <2>10. CASE AskSubmission(h) /\ hand[h].plan # NoPlan
              /\ hand' = [hand EXCEPT ![h] = [hand[h] EXCEPT !.pc = "asked"]]
    <3>1. [hand[h] EXCEPT !.pc = "asked"].plan = hand[h].plan
      BY <2>2 DEF Busy
    <3>2. PlanHeld([hand[h] EXCEPT !.pc = "asked"])
      BY <2>10, <3>1 DEF PlanHeld
    <3> QED BY <1>2, <2>10, <3>2
  <2>11. CASE AskSubmission(h)
    <3>1. hand[h].op \in {"submit", "sync"}
      BY <2>11 DEF AskSubmission, At
    <3> QED BY <2>3, <2>4, <2>10, <2>11, <3>1 DEF AskSubmission
  <2>12. CASE DraftBilling(h) \/ QueueArchive(h) \/ MakeFresh(h) \/ SavePlan(h) \/ Supersede(h)
              \/ Discontinue(h) \/ SaveSubmission(h)
    BY <2>3, <2>12 DEF DraftBilling, QueueArchive, MakeFresh, SavePlan, Supersede, Discontinue,
       SaveSubmission
  <2>13. CASE PostFails(h) \/ AskFails(h)
    BY <2>3, <2>4, <2>13 DEF PostFails, AskFails, At
  <2>14. CASE ReadForSync(h)
    BY <2>3, <2>9, <2>14 DEF ReadForSync
  <2>15. CASE BreakOff(h)
    BY <2>3, <2>4, <2>5, <2>15 DEF BreakOff
  <2>16. CASE QueueSubmission(h)
    BY <2>6, <2>16 DEF QueueSubmission
  <2> QED BY <1>7, <2>7, <2>8, <2>11, <2>12, <2>13, <2>14, <2>15, <2>16 DEF Step
<1>8. CASE UNCHANGED vars
  BY <1>3, <1>8 DEF vars
<1> QED BY <1>3, <1>4, <1>5, <1>6, <1>7, <1>8 DEF Next, Approve, ParentSigns, ArchiveSubmission

\* Between its save and the draft a signer is not disturbed.
LEMMA SignerGoesOn ==
    ASSUME Inv, Next, NEW h \in Handlers, ~BreakOff(h), At(h, {"sign", "hook", "sync"}, "saved")
    PROVE  hand'[h] = hand[h] \/ DraftBilling(h)
<1>1. hand \in [Handlers -> Busy \cup {Idle}]
  BY DEF Inv, TypeOK
<1>2. /\ hand[h] # Idle /\ hand[h].pc = "saved" /\ hand[h].op \in {"sign", "hook", "sync"}
  BY DEF At
<1>3. ASSUME NEW g \in Handlers, Step(g) PROVE hand'[h] = hand[h] \/ DraftBilling(h)
  <2>1. CASE g # h
    BY <1>1, <1>3, <2>1 DEF Step, SaveSent, QueueSubmission, SaveSigned, DraftBilling, SaveVoid,
       QueueArchive, RetireVoid, MakeFresh, SavePlan, Supersede, Discontinue, PostSubmission,
       PostFails, SaveSubmission, ReadForSync, AskSubmission, AskFails
  <2>2. CASE g = h
    BY <1>2, <1>3, <2>2 DEF Step, SaveSent, QueueSubmission, SaveSigned, SaveVoid, At,
       QueueArchive, RetireVoid, MakeFresh, SavePlan, Supersede, Discontinue, PostSubmission,
       PostFails, SaveSubmission, ReadForSync, AskSubmission, AskFails
  <2> QED BY <2>1, <2>2
<1>4. ASSUME NEW g \in Handlers, NEW a \in Agreements, Start(g, a) \/ Retry(g, a) \/ RequestSync(g, a)
      PROVE  hand'[h] = hand[h]
  BY <1>1, <1>2, <1>4 DEF Start, Retry, RequestSync
<1>5. ASSUME NEW g \in Handlers, NEW s \in Submissions, Webhook(g, s) PROVE hand'[h] = hand[h]
  BY <1>1, <1>2, <1>5 DEF Webhook
<1>6. ASSUME NEW g \in Handlers, BreakOff(g) PROVE hand'[h] = hand[h]
  <2>1. g # h
    BY <1>6
  <2> QED BY <1>1, <1>6, <2>1 DEF BreakOff
<1> QED BY <1>3, <1>4, <1>5, <1>6 DEF Next, Approve, ParentSigns, ArchiveSubmission

\* A draft that exists keeps its plan through every step of a state that Inv holds of.
LEMMA DraftsSame ==
    ASSUME Inv, Next, NEW m \in Members, draft[m] # NoPlan
    PROVE  draft'[m] = draft[m]
<1>1. draft \in [Members -> Plans \cup {NoPlan}]
  BY DEF Inv, TypeOK
<1>2. ASSUME NEW h \in Handlers, DraftBilling(h) PROVE draft'[m] = draft[m]
  BY <1>1, <1>2 DEF DraftBilling
<1>3. CASE UNCHANGED draft
  BY <1>3
<1>4. ASSUME NEW h \in Handlers, Step(h) PROVE draft'[m] = draft[m]
  BY <1>2, <1>3, <1>4 DEF Step, SaveSent, QueueSubmission, SaveSigned, SaveVoid,
     QueueArchive, RetireVoid, MakeFresh, SavePlan, Supersede, Discontinue, PostSubmission,
     PostFails, SaveSubmission, ReadForSync, AskSubmission, AskFails
<1> QED BY <1>3, <1>4 DEF Next, Approve, Start, Retry, RequestSync, BreakOff, Webhook,
           ParentSigns, ArchiveSubmission

LEMMA BilledStays ==
    ASSUME Inv, PlansHeld, Next, NEW a \in Agreements, Billed(a),
           \A h \in Handlers : Drafting(h, a) => ~BreakOff(h)
    PROVE  Billed(a)'
<1> SUFFICES ASSUME agr'[a].state = "signed"
             PROVE  draft'[agr'[a].member] # NoPlan \/ \E h \in Handlers : Drafting(h, a)'
  BY DEF Billed
<1>1. CASE agr[a].state # "signed"
  <2>1. PICK h \in Handlers : SaveSigned(h) /\ hand[h].a = a
    BY <1>1, OthersDoNotSign
  <2>2. hand[h] \in Busy /\ hand[h].op \in {"sign", "hook", "sync"} /\ hand[h] # Idle
    BY <2>1, HandBusy DEF SaveSigned, At
  <2>3. hand'[h] = [hand[h] EXCEPT !.pc = "saved"]
    BY <2>1 DEF SaveSigned, Inv, TypeOK
  <2>4. hand'[h].pc = "saved" /\ hand'[h].op = hand[h].op /\ hand'[h].a = a
    BY <2>1, <2>2, <2>3 DEF Busy
  <2>5. hand'[h] # Idle
    <3>1. Idle.op = "idle"
      BY DEF Idle
    <3> QED BY <2>2, <2>4, <3>1
  <2> QED BY <2>2, <2>4, <2>5 DEF Drafting, At
<1>2. CASE agr[a].state = "signed"
  <2>1. PICK m \in Members : m = agr[a].member
    BY <1>2 DEF Inv, RowsSound, Made
  <2>2. agr'[a].member = m
    BY <1>2, <2>1, NextSides DEF Sides, RegisterStep, SameFor, Retires, Installs, Replaces, Made
  <2>3. CASE draft[m] # NoPlan
    BY <2>2, <2>3, DraftsSame
  <2>4. ASSUME NEW h \in Handlers, Drafting(h, a)
        PROVE  draft'[agr'[a].member] # NoPlan \/ Drafting(h, a)'
    <3>1. CASE hand'[h] = hand[h]
      BY <2>4, <3>1 DEF Drafting, At
    <3>2. CASE DraftBilling(h)
      <4>1. hand[h].plan # NoPlan
        BY <2>4 DEF PlansHeld, PlanHeld, Drafting, At
      <4>2. draft'[m] = IF draft[m] = NoPlan THEN hand[h].plan ELSE draft[m]
        BY <2>1, <2>4, <3>2 DEF DraftBilling, Drafting, Inv, TypeOK
      <4> QED BY <2>2, <4>1, <4>2
    <3> QED BY <2>4, <3>1, <3>2, SignerGoesOn DEF Drafting
  <2> QED BY <1>2, <2>1, <2>3, <2>4 DEF Billed
<1> QED BY <1>1, <1>2

\* However many handlers sign, void and renew the agreement, with or without
\* handlers breaking off: a signed agreement loses its way to a billing draft
\* only by the breaking off of the handler that signed it.
THEOREM SigningCreatesDraft == Spec => UnbilledOnlyByBreakOff
<1>1. Init => PlansHeld
  BY DEF Init, PlansHeld, PlanHeld
<1>2. Inv /\ PlansHeld /\ [Next]_vars => PlansHeld'
  BY PlansStayHeld
<1>3. Inv /\ PlansHeld /\ [Next]_vars =>
        [\A a \in Agreements : Billed(a) /\ ~Billed(a)' =>
           \E h \in Handlers : Drafting(h, a) /\ BreakOff(h)]_vars
  BY BilledStays
<1> QED BY <1>1, <1>2, <1>3, LifecycleSound, PTL DEF Spec, UnbilledOnlyByBreakOff

-----------------------------------------------------------------------------
(* Stale decisions *)

Outcome(op) ==
    CASE op = "send" -> "sent"
      [] op \in {"sign", "hook", "sync"} -> "signed"
      [] op = "void" -> "void"
      [] op = "amend" -> "superseded"
      [] op = "leave" -> "discontinued"
      [] OTHER -> "absent"

LEMMA StepIsBusy ==
    ASSUME NEW h \in Handlers, Step(h)
    PROVE  hand[h] # Idle
<1>1. CASE SaveSent(h) \/ QueueSubmission(h) \/ SaveSigned(h) \/ DraftBilling(h) \/ SaveVoid(h)
           \/ QueueArchive(h) \/ RetireVoid(h) \/ MakeFresh(h) \/ SavePlan(h)
  BY <1>1 DEF SaveSent, QueueSubmission, SaveSigned, DraftBilling, SaveVoid, QueueArchive,
     RetireVoid, MakeFresh, SavePlan, At
<1>2. CASE Supersede(h) \/ Discontinue(h) \/ PostSubmission(h) \/ PostFails(h)
           \/ SaveSubmission(h) \/ ReadForSync(h) \/ AskSubmission(h) \/ AskFails(h)
  BY <1>2 DEF Supersede, Discontinue, PostSubmission, PostFails, SaveSubmission, ReadForSync,
     AskSubmission, AskFails, At
<1> QED BY <1>1, <1>2 DEF Step

\* An agreement that exists changes its state by a decision, and its plan by
\* one to change the plan.
LEMMA DecidedKinds ==
    ASSUME Inv, Next, NEW a \in Agreements, Made(a)
    PROVE  /\ agr'[a].state # agr[a].state =>
                \E h \in Handlers : Decides(h, a) /\ hand[h].op # "plan"
                                     /\ agr'[a].state = Outcome(hand[h].op)
           /\ agr'[a].plan # agr[a].plan =>
                \E h \in Handlers : Decides(h, a) /\ hand[h].op = "plan"
<1> DEFINE Kinds ==
             /\ agr'[a].state # agr[a].state =>
                  \E h \in Handlers : Decides(h, a) /\ hand[h].op # "plan"
                                       /\ agr'[a].state = Outcome(hand[h].op)
             /\ agr'[a].plan # agr[a].plan =>
                  \E h \in Handlers : Decides(h, a) /\ hand[h].op = "plan"
<1>0. agr \in [Agreements -> Row] /\ hand \in [Handlers -> Busy \cup {Idle}]
  BY DEF Inv, TypeOK
<1>1. CASE UNCHANGED agr
  BY <1>1
<1>2. ASSUME NEW h \in Handlers, Step(h) PROVE Kinds
  <2>1. hand[h] # Idle
    BY <1>2, StepIsBusy
  <2>2. hand[h] \in Busy /\ hand[h].a \in Agreements /\ agr[hand[h].a] \in Row
    BY <2>1, HandBusy
  <2>3. CASE SaveSent(h) \/ SaveSigned(h) \/ SaveVoid(h)
    <3>1. hand'[h] = [hand[h] EXCEPT !.pc = "saved"]
      BY <1>0, <2>3 DEF SaveSent, SaveSigned, SaveVoid
    <3>2. hand'[h].pc = "saved"
      BY <2>2, <3>1 DEF Busy
    <3>3. Deciding(h) /\ ~Deciding(h)' /\ hand[h].op # "plan"
      BY <2>3, <3>2 DEF SaveSent, SaveSigned, SaveVoid, Deciding, At
    <3>4. agr' = [agr EXCEPT ![hand[h].a].state = Outcome(hand[h].op)]
      BY <2>3 DEF SaveSent, SaveSigned, SaveVoid, At, Outcome
    <3>5. /\ agr'[a].plan = agr[a].plan
          /\ agr'[a].state # agr[a].state => a = hand[h].a /\ agr'[a].state = Outcome(hand[h].op)
      BY <1>0, <2>2, <3>4 DEF Row
    <3> QED BY <3>3, <3>5 DEF Decides
  <2>4. CASE SavePlan(h) \/ Supersede(h) \/ Discontinue(h)
    <3>1. hand'[h] = Idle
      BY <1>0, <2>4 DEF SavePlan, Supersede, Discontinue
    <3>2. Deciding(h) /\ ~Deciding(h)'
      BY <2>4, <3>1 DEF SavePlan, Supersede, Discontinue, Deciding, At
    <3>3. CASE SavePlan(h)
      <4>1. PICK p \in Plans : agr' = [agr EXCEPT ![hand[h].a].plan = p]
        BY <3>3 DEF SavePlan
      <4>2. agr'[a].state = agr[a].state /\ (agr'[a].plan # agr[a].plan => a = hand[h].a)
        BY <1>0, <2>2, <4>1 DEF Row
      <4> QED BY <3>2, <3>3, <4>2 DEF Decides, SavePlan, At
    <3>4. CASE Supersede(h) /\ ~ UNCHANGED agr
      <4>1. PICK b \in Agreements :
              /\ ~Made(b)
              /\ agr' = [[agr EXCEPT ![hand[h].a].state = "superseded", ![hand[h].a].current = FALSE]
                           EXCEPT ![b] = Fresh(agr[hand[h].a].member, hand[h].plan)]
        BY <3>4 DEF Supersede
      <4>2. a # b
        BY <4>1
      <4>3. /\ agr'[a].plan = agr[a].plan
            /\ agr'[a].state # agr[a].state => a = hand[h].a /\ agr'[a].state = "superseded"
        BY <1>0, <2>2, <4>1, <4>2 DEF Row
      <4>4. hand[h].op = "amend"
        BY <3>4 DEF Supersede, At
      <4> QED BY <3>2, <4>3, <4>4 DEF Decides, Outcome
    <3>5. CASE Discontinue(h)
      <4>1. /\ agr'[a].plan = agr[a].plan
            /\ agr'[a].state # agr[a].state => a = hand[h].a /\ agr'[a].state = "discontinued"
        BY <1>0, <2>2, <3>5 DEF Discontinue, Row
      <4>2. hand[h].op = "leave"
        BY <3>5 DEF Discontinue, At
      <4> QED BY <3>2, <4>1, <4>2 DEF Decides, Outcome
    <3> QED BY <1>1, <2>4, <3>3, <3>4, <3>5
  <2>5. CASE RetireVoid(h) \/ SaveSubmission(h)
    <3>1. agr'[a].plan = agr[a].plan /\ agr'[a].state = agr[a].state
      BY <1>0, <2>2, <2>5 DEF RetireVoid, SaveSubmission, Row
    <3> QED BY <3>1
  <2>6. CASE PostFails(h) \/ AskSubmission(h) \/ AskFails(h)
    <3>1. PICK f \in BOOLEAN : agr' = [agr EXCEPT ![hand[h].a].failed = f]
      BY <2>6 DEF PostFails, AskSubmission, AskFails
    <3>2. agr'[a].plan = agr[a].plan /\ agr'[a].state = agr[a].state
      BY <1>0, <2>2, <3>1 DEF Row
    <3> QED BY <3>2
  <2>7. CASE MakeFresh(h) /\ ~ UNCHANGED agr
    <3>1. PICK b \in Agreements, p \in Plans \cup {NoPlan} :
            ~Made(b) /\ agr' = [agr EXCEPT ![b] = Fresh(agr[hand[h].a].member, p)]
      BY <2>7 DEF MakeFresh
    <3>2. agr'[a] = agr[a]
      BY <1>0, <3>1
    <3> QED BY <3>2
  <2> QED BY <1>1, <1>2, <2>3, <2>4, <2>5, <2>6, <2>7 DEF Step, QueueSubmission, DraftBilling,
        QueueArchive, PostSubmission, ReadForSync
<1>3. ASSUME NEW m \in Members, NEW b \in Agreements, Approve(m, b) PROVE Kinds
  <2>1. ~Made(b) /\ \E p \in Plans \cup {NoPlan} : agr' = [agr EXCEPT ![b] = Fresh(m, p)]
    BY <1>3 DEF Approve
  <2>2. agr'[a] = agr[a]
    BY <1>0, <2>1
  <2> QED BY <2>2
<1> QED BY <1>1, <1>2, <1>3 DEF Next, Start, Retry, RequestSync, BreakOff, Webhook, ParentSigns,
        ArchiveSubmission

\* Who decides after a step either decided before it, or decides on the row as
\* it is.
LEMMA NewDecisions ==
    ASSUME Inv, Next, NEW h \in Handlers, Deciding(h)'
    PROVE  \/ hand'[h] = hand[h]
           \/ /\ Holds(hand'[h].op, agr[hand'[h].a])
              /\ \A a \in Agreements : agr'[a].state = agr[a].state
<1>0. agr \in [Agreements -> Row] /\ hand \in [Handlers -> Busy \cup {Idle}]
  BY DEF Inv, TypeOK
<1>1. ASSUME NEW g \in Handlers, NEW w, hand' = [hand EXCEPT ![g] = w], hand'[h] # hand[h]
      PROVE  g = h /\ hand'[h] = w
  BY <1>0, <1>1
<1>2. CASE UNCHANGED hand
  BY <1>2
<1> SUFFICES ASSUME hand'[h] # hand[h]
             PROVE  /\ Holds(hand'[h].op, agr[hand'[h].a])
                    /\ \A a \in Agreements : agr'[a].state = agr[a].state
  OBVIOUS
<1>3. ASSUME NEW g \in Handlers, NEW a \in Agreements, Start(g, a)
      PROVE  Holds(hand'[h].op, agr[hand'[h].a]) /\ UNCHANGED agr
  <2>1. PICK op \in {"send", "sign", "void", "renew", "plan", "amend", "leave"} :
          Allowed(op, agr[a]) /\ hand' = [hand EXCEPT ![g] = Reading(op, a)]
    BY <1>3 DEF Start
  <2>2. hand'[h] = Reading(op, a)
    BY <1>1, <2>1
  <2>3. hand'[h].op = op /\ hand'[h].a = a
    BY <2>2 DEF Reading
  <2>4. Holds(op, agr[a])
    BY <2>1 DEF Allowed, Holds
  <2> QED BY <1>3, <2>3, <2>4 DEF Start
<1>4. ASSUME NEW g \in Handlers, NEW s \in Submissions, Webhook(g, s)
      PROVE  Holds(hand'[h].op, agr[hand'[h].a]) /\ UNCHANGED agr
  <2>1. PICK a \in SignableBy(s) : hand' = [hand EXCEPT ![g] = Reading("hook", a)]
    BY <1>2, <1>4 DEF Webhook
  <2>2. hand'[h] = Reading("hook", a)
    BY <1>1, <2>1
  <2>3. hand'[h].op = "hook" /\ hand'[h].a = a /\ Signable(agr[a])
    BY <2>2 DEF Reading, SignableBy
  <2> QED BY <1>4, <2>3 DEF Holds, Webhook
<1>5. ASSUME NEW g \in Handlers, AskSubmission(g)
      PROVE  /\ Holds(hand'[h].op, agr[hand'[h].a])
             /\ \A a \in Agreements : agr'[a].state = agr[a].state
  <2>1. hand[g] # Idle /\ hand[g] \in Busy /\ hand[g].op = "sync" /\ g = h
    BY <1>1, <1>5, HandBusy DEF AskSubmission, At
  <2>2. hand'[h] \in {Idle, Raised(h), [hand[h] EXCEPT !.pc = "asked"]}
    BY <1>0, <1>5, <2>1 DEF AskSubmission
  <2>3. hand'[h] # Idle /\ hand'[h].pc # "queued"
    BY DEF Deciding, At
  <2>4. Raised(h) = Idle \/ Raised(h).pc = "queued"
    BY DEF Raised, Queued
  <2>5. hand'[h] = [hand[h] EXCEPT !.pc = "asked"]
    BY <2>2, <2>3, <2>4
  <2>6. Signable(agr[hand[h].a])
    BY <1>0, <1>5, <2>1, <2>3, <2>4 DEF AskSubmission
  <2>7. hand'[h].op = "sync" /\ hand'[h].a = hand[h].a
    BY <2>1, <2>5 DEF Busy
  <2>8. \A a \in Agreements : agr'[a].state = agr[a].state
    BY <1>0, <1>5 DEF AskSubmission, Row
  <2> QED BY <2>6, <2>7, <2>8 DEF Holds
<1>6. ASSUME NEW g \in Handlers, Step(g) \/ BreakOff(g), ~AskSubmission(g) PROVE FALSE
  <2>1. hand[g] # Idle /\ (~BreakOff(g) => Step(g))
    BY <1>6 DEF Step, SaveSent, QueueSubmission, SaveSigned, DraftBilling, SaveVoid, QueueArchive,
       RetireVoid, MakeFresh, SavePlan, Supersede, Discontinue, PostSubmission, PostFails,
       SaveSubmission, ReadForSync, AskFails, BreakOff, At
  <2>2. hand[g] \in Busy /\ hand'[h] # Idle /\ hand'[h].pc # "queued"
    BY <2>1, HandBusy DEF Deciding, At
  <2>3. \A op, b, n : Queued(op, b, n).pc = "queued"
    BY DEF Queued
  <2>4. Raised(g) = Idle \/ Raised(g).pc = "queued"
    BY <2>3 DEF Raised
  <2>5. CASE \E w : (w = Idle \/ w.pc = "queued") /\ hand' = [hand EXCEPT ![g] = w]
    BY <1>1, <2>2, <2>5
  <2>6. CASE hand' = [hand EXCEPT ![g].pc = "saved"]
    <3>1. hand'[h] = [hand[g] EXCEPT !.pc = "saved"]
      BY <1>1, <2>6
    <3>2. hand'[h].pc = "saved"
      BY <2>2, <3>1 DEF Busy
    <3> QED BY <3>2 DEF Deciding, At
  <2>7. CASE PostSubmission(g)
    <3>1. PICK s \in Submissions : hand' = [hand EXCEPT ![g].pc = "asked", ![g].ext = s]
      BY <2>7 DEF PostSubmission
    <3>2. g = h /\ hand'[g].op = hand[g].op
      BY <1>0, <1>1, <2>2, <3>1 DEF Busy
    <3>3. hand'[h].op = "submit"
      BY <2>7, <3>2 DEF PostSubmission, At
    <3> QED BY <3>3 DEF Deciding, At
  <2>8. CASE ReadForSync(g)
    <3>1. hand'[h] = [hand[g] EXCEPT !.pc = "read", !.plan = agr[hand[g].a].plan,
                                     !.ext = agr[hand[g].a].ext]
      BY <1>0, <1>1, <2>2, <2>8 DEF ReadForSync
    <3>2. hand'[h].op = "sync" /\ hand'[h].pc = "read"
      BY <2>2, <2>8, <3>1 DEF ReadForSync, At, Busy
    <3> QED BY <3>2 DEF Deciding, At
  <2>9. CASE BreakOff(g)
    <3>1. PICK w : /\ w \in {Idle, Raised(g), Queued(hand[g].op, hand[g].a, hand[g].attempts)}
                   /\ hand' = [hand EXCEPT ![g] = w]
      BY <2>9 DEF BreakOff
    <3>2. w = Idle \/ w.pc = "queued"
      BY <2>3, <2>4, <3>1
    <3> QED BY <2>5, <3>1, <3>2
  <2>10. CASE SaveSent(g) \/ SaveSigned(g) \/ SaveVoid(g) \/ RetireVoid(g)
    BY <2>6, <2>10 DEF SaveSent, SaveSigned, SaveVoid, RetireVoid
  <2>11. CASE QueueSubmission(g) \/ DraftBilling(g) \/ QueueArchive(g) \/ MakeFresh(g)
              \/ SavePlan(g) \/ Supersede(g) \/ Discontinue(g) \/ SaveSubmission(g)
    BY <2>3, <2>5, <2>11 DEF QueueSubmission, DraftBilling, QueueArchive, MakeFresh, SavePlan,
       Supersede, Discontinue, SaveSubmission
  <2>12. CASE PostFails(g) \/ AskFails(g)
    BY <2>4, <2>5, <2>12 DEF PostFails, AskFails
  <2> QED BY <1>6, <2>1, <2>7, <2>8, <2>9, <2>10, <2>11, <2>12 DEF Step
<1>7. ASSUME NEW g \in Handlers, NEW a \in Agreements, Retry(g, a) \/ RequestSync(g, a) PROVE FALSE
  <2>1. PICK op \in {"submit", "sync"} : hand' = [hand EXCEPT ![g] = Queued(op, a, 0)]
    BY <1>7 DEF Retry, RequestSync
  <2>2. hand'[h] = Queued(op, a, 0)
    BY <1>1, <2>1
  <2> QED BY <2>2 DEF Queued, Deciding, At
<1> QED BY <1>2, <1>3, <1>4, <1>5, <1>6, <1>7 DEF Next, Approve, ParentSigns, ArchiveSubmission

\* A decision that stands is made stale by another one on the same agreement.
LEMMA SpoiltByAnother ==
    ASSUME Inv, Next, NEW h \in Handlers, Deciding(h), hand'[h] = hand[h], Stands(h), ~Stands(h)'
    PROVE  \E g \in Handlers \ {h} : Decides(g, hand[h].a)
<1>1. hand[h] # Idle
  BY DEF Deciding, At
<1>2. PICK b \in Agreements : b = hand[h].a /\ Made(b)
  BY <1>1, HandBusy DEF Busy
<1>3. agr'[b].state # agr[b].state
  BY <1>2 DEF Stands, Holds, Signable
<1>4. PICK g \in Handlers : Decides(g, b)
  BY <1>2, <1>3, DecidedKinds
<1>5. Deciding(h)'
  BY DEF Deciding, At
<1>6. g # h
  BY <1>4, <1>5 DEF Decides
<1> QED BY <1>2, <1>4, <1>6

\* A decision that stands follows the arrows and leaves a signed plan alone.
LEMMA StandingFollows ==
    ASSUME Inv, Next, NEW a \in Agreements, OffArrows(a) \/ SignedPlanChanges(a)
    PROVE  \E h \in Handlers : Decides(h, a) /\ ~Stands(h)
<1>1. CASE OffArrows(a)
  <2>1. PICK h \in Handlers : Decides(h, a) /\ hand[h].op # "plan"
                              /\ agr'[a].state = Outcome(hand[h].op)
    BY <1>1, DecidedKinds DEF OffArrows
  <2> SUFFICES ASSUME Holds(hand[h].op, agr[a]) PROVE FALSE
    BY <2>1 DEF Decides, Stands
  <2>2. hand[h].op \in {"send", "sign", "hook", "sync", "void", "amend", "leave"}
    BY <2>1 DEF Decides, Deciding, At
  <2>3. agr[a].state \in State \ {"absent"}
    BY <1>1 DEF Inv, TypeOK, Row, OffArrows, Made
  <2>4. <<agr[a].state, agr'[a].state>> \notin Arrows
    BY <1>1 DEF OffArrows
  <2>5. CASE hand[h].op = "send"
    BY <2>1, <2>4, <2>5 DEF Holds, Outcome, Arrows
  <2>6. CASE hand[h].op \in {"sign", "hook", "sync"}
    BY <2>1, <2>4, <2>6 DEF Holds, Outcome, Arrows, Signable
  <2>7. CASE hand[h].op = "void"
    BY <2>1, <2>3, <2>4, <2>7 DEF Holds, Outcome, Arrows
  <2>8. CASE hand[h].op = "amend" \/ hand[h].op = "leave"
    BY <2>1, <2>4, <2>8 DEF Holds, Outcome, Arrows
  <2> QED BY <2>2, <2>5, <2>6, <2>7, <2>8
<1>2. CASE SignedPlanChanges(a)
  <2>1. PICK h \in Handlers : Decides(h, a) /\ hand[h].op = "plan"
    BY <1>2, DecidedKinds DEF SignedPlanChanges, Made
  <2>2. ~Holds(hand[h].op, agr[a])
    BY <1>2, <2>1 DEF SignedPlanChanges, Holds
  <2> QED BY <2>1, <2>2 DEF Decides, Stands
<1> QED BY <1>1, <1>2

\* What AgreementLifecycleStaleCopy shows once is the only way it happens: an
\* agreement leaves the arrows of the services, or changes the plan it was
\* signed with, by a decision another handler's decision has made stale, and
\* by nothing else that runs or breaks off.
THEOREM OnlyStaleDecisionsStray == Spec => OnlyStaleStrays
<1>1. ASSUME Inv, Next, NEW h \in Handlers, Deciding(h)', hand'[h] # hand[h] PROVE Stands(h)'
  <2>1. /\ Holds(hand'[h].op, agr[hand'[h].a])
        /\ \A a \in Agreements : agr'[a].state = agr[a].state
    BY <1>1, NewDecisions
  <2>2. hand'[h].a \in Agreements
    <3>1. TypeOK'
      BY <1>1, NextSides DEF Sides
    <3>2. hand'[h] \in Busy
      BY <1>1, <3>1 DEF TypeOK, Deciding, At
    <3> QED BY <3>2 DEF Busy
  <2> QED BY <2>1, <2>2 DEF Stands, Holds, Signable
<1>2. Inv /\ [Next]_vars =>
        [/\ \A h \in Handlers : Deciding(h)' /\ hand'[h] # hand[h] => Stands(h)'
         /\ \A h \in Handlers : Deciding(h) /\ hand'[h] = hand[h] /\ Stands(h) /\ ~Stands(h)' =>
              \E g \in Handlers \ {h} : Decides(g, hand[h].a)
         /\ \A a \in Agreements : OffArrows(a) \/ SignedPlanChanges(a) =>
              \E h \in Handlers : Decides(h, a) /\ ~Stands(h)]_vars
  BY <1>1, SpoiltByAnother, StandingFollows
<1> QED BY <1>2, LifecycleSound, PTL DEF Spec, OnlyStaleStrays

-----------------------------------------------------------------------------
(* A member's current agreement *)

\* A renewal that has retired the old agreement is not disturbed before it makes
\* the new one.
LEMMA RenewalGoesOn ==
    ASSUME Inv, Next, NEW h \in Handlers, ~BreakOff(h), At(h, {"renew"}, "saved")
    PROVE  hand'[h] = hand[h] \/ MakeFresh(h)
<1>1. hand \in [Handlers -> Busy \cup {Idle}]
  BY DEF Inv, TypeOK
<1>2. hand[h] # Idle /\ hand[h].pc = "saved" /\ hand[h].op = "renew"
  BY DEF At
<1>3. ASSUME NEW g \in Handlers, Step(g) PROVE hand'[h] = hand[h] \/ MakeFresh(h)
  <2>1. CASE g # h
    <3>1. CASE SaveSent(g) \/ QueueSubmission(g) \/ SaveSigned(g) \/ DraftBilling(g) \/ SaveVoid(g)
               \/ QueueArchive(g) \/ RetireVoid(g) \/ MakeFresh(g) \/ SavePlan(g)
      BY <1>1, <2>1, <3>1 DEF SaveSent, QueueSubmission, SaveSigned, DraftBilling, SaveVoid,
         QueueArchive, RetireVoid, MakeFresh, SavePlan
    <3>2. CASE Supersede(g) \/ Discontinue(g) \/ PostSubmission(g) \/ PostFails(g)
               \/ SaveSubmission(g) \/ ReadForSync(g) \/ AskSubmission(g) \/ AskFails(g)
      BY <1>1, <2>1, <3>2 DEF Supersede, Discontinue, PostSubmission, PostFails, SaveSubmission,
         ReadForSync, AskSubmission, AskFails
    <3> QED BY <1>3, <3>1, <3>2 DEF Step
  <2>2. CASE g = h
    <3>1. ~(SaveSent(h) \/ QueueSubmission(h) \/ SaveSigned(h) \/ DraftBilling(h) \/ SaveVoid(h)
            \/ QueueArchive(h) \/ RetireVoid(h) \/ SavePlan(h))
      BY <1>2 DEF SaveSent, QueueSubmission, SaveSigned, DraftBilling, SaveVoid, QueueArchive,
         RetireVoid, SavePlan, At
    <3>2. ~(Supersede(h) \/ Discontinue(h) \/ PostSubmission(h) \/ PostFails(h)
            \/ SaveSubmission(h) \/ ReadForSync(h) \/ AskSubmission(h) \/ AskFails(h))
      BY <1>2 DEF Supersede, Discontinue, PostSubmission, PostFails, SaveSubmission, ReadForSync,
         AskSubmission, AskFails, At
    <3> QED BY <1>3, <2>2, <3>1, <3>2 DEF Step
  <2> QED BY <2>1, <2>2
<1>4. ASSUME NEW g \in Handlers, NEW a \in Agreements, Start(g, a) \/ Retry(g, a) \/ RequestSync(g, a)
      PROVE  hand'[h] = hand[h]
  BY <1>1, <1>2, <1>4 DEF Start, Retry, RequestSync
<1>5. ASSUME NEW g \in Handlers, NEW s \in Submissions, Webhook(g, s) PROVE hand'[h] = hand[h]
  <2>1. g # h
    BY <1>2, <1>5 DEF Webhook
  <2>2. hand' = hand \/ \E w : hand' = [hand EXCEPT ![g] = w]
    BY <1>5 DEF Webhook
  <2> QED BY <1>1, <2>1, <2>2
<1>6. ASSUME NEW g \in Handlers, BreakOff(g) PROVE hand'[h] = hand[h]
  <2>1. g # h
    BY <1>6
  <2> QED BY <1>1, <1>6, <2>1 DEF BreakOff
<1>7. ASSUME NEW s \in Submissions, ParentSigns(s) \/ ArchiveSubmission(s) PROVE hand'[h] = hand[h]
  BY <1>7 DEF ParentSigns, ArchiveSubmission
<1>8. ASSUME NEW m \in Members, NEW a \in Agreements, Approve(m, a) PROVE hand'[h] = hand[h]
  BY <1>8 DEF Approve
<1> QED BY <1>3, <1>4, <1>5, <1>6, <1>7, <1>8 DEF Next

\* An agreement stops being current by a renewal that retires it, or with a new
\* current one of the same member in its place.
LEMMA CurrentKinds ==
    ASSUME Inv, Next, NEW a \in Agreements, agr[a].current, ~agr'[a].current
    PROVE  \/ \E h \in Handlers : RetireVoid(h) /\ hand[h].a = a
           \/ \E b \in Agreements : agr'[b].current /\ agr'[b].member = agr[a].member
<1>0. agr \in [Agreements -> Row]
  BY DEF Inv, TypeOK
<1>1. ~ UNCHANGED agr
  OBVIOUS
<1>2. ASSUME NEW h \in Handlers, Step(h) PROVE RetireVoid(h) \/ Supersede(h)
  <2>1. hand[h].a \in Agreements /\ agr[hand[h].a] \in Row
    BY <1>2, StepIsBusy, HandBusy
  <2>2. ~(SaveSent(h) \/ SaveSigned(h) \/ SaveVoid(h) \/ Discontinue(h) \/ SaveSubmission(h))
    BY <1>0, <2>1 DEF SaveSent, SaveSigned, SaveVoid, Discontinue, SaveSubmission, Row
  <2>3. ~SavePlan(h)
    <3>1. ASSUME NEW p \in Plans PROVE agr' # [agr EXCEPT ![hand[h].a].plan = p]
      BY <1>0, <2>1 DEF Row
    <3> QED BY <3>1 DEF SavePlan
  <2>4. ~(PostFails(h) \/ AskSubmission(h) \/ AskFails(h))
    <3>1. ASSUME NEW f \in BOOLEAN PROVE agr' # [agr EXCEPT ![hand[h].a].failed = f]
      BY <1>0, <2>1 DEF Row
    <3> QED BY <3>1 DEF PostFails, AskSubmission, AskFails
  <2>5. ~MakeFresh(h)
    <3>1. ASSUME NEW b \in Agreements, NEW r, r.current = TRUE PROVE agr' # [agr EXCEPT ![b] = r]
      BY <1>0, <3>1
    <3>2. \A m, p : Fresh(m, p).current = TRUE
      BY DEF Fresh, NoRow
    <3> QED BY <1>1, <3>1, <3>2 DEF MakeFresh
  <2> QED BY <1>1, <1>2, <2>2, <2>3, <2>4, <2>5 DEF Step, QueueSubmission, DraftBilling,
        QueueArchive, PostSubmission, ReadForSync
<1>3. ASSUME NEW h \in Handlers, RetireVoid(h) PROVE hand[h].a = a
  BY <1>0, <1>3 DEF RetireVoid
<1>4. ASSUME NEW h \in Handlers, Supersede(h)
      PROVE  \E b \in Agreements : agr'[b].current /\ agr'[b].member = agr[a].member
  <2>1. PICK b \in Agreements :
          /\ ~Made(b)
          /\ agr' = [[agr EXCEPT ![hand[h].a].state = "superseded", ![hand[h].a].current = FALSE]
                       EXCEPT ![b] = Fresh(agr[hand[h].a].member, hand[h].plan)]
    BY <1>1, <1>4 DEF Supersede
  <2>2. \A m, p : Fresh(m, p).current = TRUE /\ Fresh(m, p).member = m
    BY DEF Fresh, NoRow
  <2>3. agr'[b] = Fresh(agr[hand[h].a].member, hand[h].plan)
    BY <1>0, <2>1
  <2>4. a # b
    BY <2>2, <2>3
  <2>5. a = hand[h].a
    BY <1>0, <2>1, <2>4
  <2> QED BY <2>2, <2>3, <2>5
<1>5. ASSUME NEW m \in Members, NEW b \in Agreements, Approve(m, b) PROVE FALSE
  <2>1. PICK p \in Plans \cup {NoPlan} : agr' = [agr EXCEPT ![b] = Fresh(m, p)]
    BY <1>5 DEF Approve
  <2>2. Fresh(m, p).current = TRUE
    BY DEF Fresh, NoRow
  <2> QED BY <1>0, <2>1, <2>2
<1> QED BY <1>1, <1>2, <1>3, <1>4, <1>5 DEF Next, Start, Retry, RequestSync, BreakOff, Webhook,
        ParentSigns, ArchiveSubmission

\* No row disappears.
LEMMA RowsStay ==
    ASSUME Inv, Next, NEW a \in Agreements, Made(a)
    PROVE  Made(a)'
BY NextSides DEF Sides, RegisterStep, SameFor, Retires, Installs, Replaces, IsFresh, Made

\* A row keeps its member, and a row that appears is current.
LEMMA MembersKept ==
    ASSUME Inv, Next, NEW a \in Agreements, Made(a)'
    PROVE  /\ Made(a) => agr'[a].member = agr[a].member
           /\ ~Made(a) => agr'[a].current
BY NextSides DEF Sides, RegisterStep, SameFor, Retires, Installs, Replaces, IsFresh, Made

\* A renewal that goes on to make its agreement leaves the member with a current
\* one: the new one, or the one that stood in its way.
LEMMA FreshIsCurrent ==
    ASSUME Inv, NEW h \in Handlers, MakeFresh(h)
    PROVE  \E b \in Agreements : agr'[b].current /\ agr'[b].member = agr[hand[h].a].member
<1> DEFINE m == agr[hand[h].a].member
<1>0. agr \in [Agreements -> Row]
  BY DEF Inv, TypeOK
<1>1. CASE CurrentOf(m) = {}
  <2>1. PICK b \in Agreements, p \in Plans \cup {NoPlan} : agr' = [agr EXCEPT ![b] = Fresh(m, p)]
    BY <1>1 DEF MakeFresh
  <2>2. Fresh(m, p).current = TRUE /\ Fresh(m, p).member = m
    BY DEF Fresh, NoRow
  <2> QED BY <1>0, <2>1, <2>2
<1>2. CASE CurrentOf(m) # {}
  BY <1>2 DEF MakeFresh, CurrentOf
<1> QED BY <1>1, <1>2

LEMMA ReachableStays ==
    ASSUME Inv, Next, NEW m \in Members, Reachable(m),
           \A h \in Handlers : Renewing(h, m) => ~BreakOff(h)
    PROVE  Reachable(m)'
<1> SUFFICES ASSUME NEW a \in Agreements, Made(a)', agr'[a].member = m
             PROVE  CurrentOf(m)' # {} \/ \E h \in Handlers : Renewing(h, m)'
  BY DEF Reachable
<1>1. CASE ~Made(a)
  BY <1>1, MembersKept DEF CurrentOf
<1>2. CASE Made(a)
  <2>1. agr[a].member = m
    BY <1>2, MembersKept
  <2>2. ASSUME NEW h \in Handlers, Renewing(h, m)
        PROVE  CurrentOf(m)' # {} \/ Renewing(h, m)'
    <3>1. CASE MakeFresh(h)
      BY <2>2, <3>1, FreshIsCurrent DEF CurrentOf, Renewing
    <3>2. CASE hand'[h] = hand[h]
      <4>1. hand[h] # Idle
        BY <2>2 DEF Renewing, At
      <4>2. PICK c \in Agreements : c = hand[h].a /\ Made(c)
        BY <4>1, HandBusy
      <4>3. Made(c)'
        BY <4>2, RowsStay
      <4>4. agr'[c].member = agr[c].member
        BY <4>2, <4>3, MembersKept
      <4> QED BY <2>2, <3>2, <4>2, <4>4 DEF Renewing, At
    <3> QED BY <2>2, <3>1, <3>2, RenewalGoesOn DEF Renewing
  <2>3. ASSUME NEW b \in CurrentOf(m)
        PROVE  CurrentOf(m)' # {} \/ \E h \in Handlers : Renewing(h, m)'
    <3>1. b \in Agreements /\ agr[b].current /\ agr[b].member = m
      BY DEF CurrentOf
    <3>2. Made(b) /\ Made(b)'
      <4>1. Made(b)
        BY <3>1 DEF Inv, RowsSound, NoRow
      <4> QED BY <3>1, <4>1, RowsStay
    <3>3. agr'[b].member = m
      BY <3>1, <3>2, MembersKept
    <3>4. CASE agr'[b].current
      BY <3>1, <3>3, <3>4 DEF CurrentOf
    <3>5. ASSUME NEW c \in Agreements, agr'[c].current, agr'[c].member = agr[b].member
          PROVE  CurrentOf(m)' # {}
      BY <3>1, <3>5 DEF CurrentOf
    <3>6. ASSUME NEW h \in Handlers, RetireVoid(h), hand[h].a = b
          PROVE  Renewing(h, m)'
      <4>1. hand[h] # Idle /\ hand[h] \in Busy /\ hand[h].op = "renew"
        BY <3>6, HandBusy DEF RetireVoid, At
      <4>2. hand'[h] = [hand[h] EXCEPT !.pc = "saved"]
        BY <3>6 DEF RetireVoid, Inv, TypeOK
      <4>3. hand'[h].op = "renew" /\ hand'[h].pc = "saved" /\ hand'[h].a = b
        BY <3>6, <4>1, <4>2 DEF Busy
      <4>4. hand'[h] # Idle
        BY <4>3 DEF Idle
      <4> QED BY <3>3, <4>3, <4>4 DEF Renewing, At
    <3> QED BY <3>1, <3>4, <3>5, <3>6, CurrentKinds
  <2> QED BY <1>2, <2>1, <2>2, <2>3 DEF Reachable
<1> QED BY <1>1, <1>2

\* A member who has an agreement loses the current one by nothing but a renewal
\* that breaks off between its two commits, whatever stale copies are amended,
\* renewed or voided meanwhile.
THEOREM MemberStaysReachable == Spec => UnreachableOnlyByBreakOff
<1>1. Inv /\ [Next]_vars =>
        [\A m \in Members : Reachable(m) /\ ~Reachable(m)' =>
           \E h \in Handlers : Renewing(h, m) /\ BreakOff(h)]_vars
  BY ReachableStays
<1> QED BY <1>1, LifecycleSound, PTL DEF Spec, UnreachableOnlyByBreakOff

-----------------------------------------------------------------------------
(* How many steps a handler can take *)

\* The most a delivery takes: DocuSeal asked, its answer saved, the draft made.
HandStage(w) ==
    IF w.pc = "queued" THEN 4
    ELSE IF w.pc = "read" THEN 3
    ELSE IF w.pc = "asked" THEN 2
    ELSE 1

\* A request that sends the agreement has its submission job still to come, a
\* job the deliveries it has left.
HandRank(w) ==
    IF w = Idle THEN 0
    ELSE IF w.op = "send" THEN 4 * MaxAttempts + HandStage(w)
    ELSE IF w.op \in {"submit", "sync"} THEN 4 * (MaxAttempts - 1 - w.attempts) + HandStage(w)
    ELSE HandStage(w)

HandsInBudget == \A h \in Handlers : HandRank(hand[h]) \in 0 .. (4 * MaxAttempts + 4)

LEMMA HandRankType ==
    \A w \in Busy \cup {Idle} : /\ HandRank(w) \in 0 .. (4 * MaxAttempts + 4)
                                /\ w # Idle => HandRank(w) > 0
<1> TAKE w \in Busy \cup {Idle}
<1>1. CASE w = Idle
  BY <1>1 DEF HandRank
<1>2. CASE w # Idle
  <2>1. PICK a \in 0 .. (MaxAttempts - 1) : a = w.attempts
    BY <1>2 DEF Busy
  <2>2. PICK s \in 1 .. 4 : s = HandStage(w)
    BY DEF HandStage
  <2>3. \/ HandRank(w) = 4 * MaxAttempts + s
        \/ HandRank(w) = 4 * (MaxAttempts - 1 - a) + s
        \/ HandRank(w) = s
    BY <1>2, <2>1, <2>2 DEF HandRank
  <2> QED BY <1>2, <2>1, <2>2, <2>3
<1> QED BY <1>1, <1>2

\* A step that ends its handler, or raises in a job.
LEMMA EndLowersRank ==
    ASSUME Inv, NEW h \in Handlers, hand[h] # Idle,
           \/ hand'[h] = Idle
           \/ hand'[h] = Raised(h) /\ hand[h].op \in {"submit", "sync"}
    PROVE  HandRank(hand'[h]) < HandRank(hand[h])
<1>1. PICK w \in Busy : w = hand[h] /\ w # Idle
  BY HandBusy
<1>2. PICK a \in 0 .. (MaxAttempts - 1) : a = w.attempts
  BY DEF Busy
<1>3. PICK s \in 1 .. 4 : s = HandStage(w)
  BY DEF HandStage
<1>4. CASE hand'[h] = Idle
  <2>1. HandRank(w) \in Nat /\ HandRank(w) > 0
    BY <1>1, HandRankType
  <2>2. HandRank(hand'[h]) = 0
    BY <1>4 DEF HandRank
  <2> QED BY <1>1, <2>1, <2>2
<1>5. CASE hand'[h] # Idle
  <2>1. hand'[h] = Queued(w.op, w.a, a + 1) /\ w.op \in {"submit", "sync"}
    BY <1>1, <1>2, <1>5 DEF Raised
  <2>2. PICK v : v = hand'[h]
    OBVIOUS
  <2>3. v.op = w.op /\ v.pc = "queued" /\ v.attempts = a + 1
    BY <2>1, <2>2 DEF Queued
  <2>4. HandStage(v) = 4
    BY <2>3 DEF HandStage
  <2>5. HandRank(v) = 4 * (MaxAttempts - 1 - (a + 1)) + 4
    BY <1>5, <2>1, <2>2, <2>3, <2>4 DEF HandRank
  <2>6. HandRank(w) = 4 * (MaxAttempts - 1 - a) + s
    BY <1>1, <1>2, <1>3, <2>1 DEF HandRank
  <2> QED BY <1>1, <1>2, <1>3, <2>2, <2>5, <2>6
<1> QED BY <1>4, <1>5

\* A step that goes on in the same delivery.
LEMMA StageLowersRank ==
    ASSUME Inv, NEW h \in Handlers, hand[h] # Idle, hand'[h] # Idle,
           hand'[h].op = hand[h].op, hand'[h].attempts = hand[h].attempts,
           HandStage(hand'[h]) < HandStage(hand[h])
    PROVE  HandRank(hand'[h]) < HandRank(hand[h])
<1>1. PICK w \in Busy : w = hand[h] /\ w # Idle
  BY HandBusy
<1>2. PICK a \in 0 .. (MaxAttempts - 1) : a = w.attempts
  BY DEF Busy
<1>3. PICK s \in 1 .. 4 : s = HandStage(w)
  BY DEF HandStage
<1>4. PICK v : v = hand'[h] /\ v # Idle /\ v.op = w.op /\ v.attempts = a
  BY <1>1, <1>2
<1>5. PICK t \in 1 .. 4 : t = HandStage(v)
  BY DEF HandStage
<1>6. t < s
  BY <1>1, <1>3, <1>4, <1>5
<1>7. CASE w.op = "send"
  <2>1. HandRank(w) = 4 * MaxAttempts + s /\ HandRank(v) = 4 * MaxAttempts + t
    BY <1>1, <1>3, <1>4, <1>5, <1>7 DEF HandRank
  <2> QED BY <1>1, <1>4, <1>6, <2>1
<1>8. CASE w.op \in {"submit", "sync"}
  <2>1. /\ HandRank(w) = 4 * (MaxAttempts - 1 - a) + s
        /\ HandRank(v) = 4 * (MaxAttempts - 1 - a) + t
    BY <1>1, <1>2, <1>3, <1>4, <1>5, <1>8 DEF HandRank
  <2> QED BY <1>1, <1>2, <1>4, <1>6, <2>1
<1>9. CASE w.op \notin {"send", "submit", "sync"}
  <2>1. HandRank(w) = s /\ HandRank(v) = t
    BY <1>1, <1>3, <1>4, <1>5, <1>9 DEF HandRank
  <2> QED BY <1>1, <1>4, <1>6, <2>1
<1> QED BY <1>7, <1>8, <1>9

LEMMA StepLowersRank ==
    ASSUME Inv, NEW h \in Handlers, Step(h)
    PROVE  hand[h] # Idle /\ HandRank(hand'[h]) < HandRank(hand[h])
<1>0. hand[h] # Idle
  BY StepIsBusy
<1>1. hand[h] \in Busy /\ hand \in [Handlers -> Busy \cup {Idle}]
  BY <1>0, HandBusy DEF Inv, TypeOK
<1>2. CASE \/ DraftBilling(h) \/ QueueArchive(h) \/ MakeFresh(h) \/ SavePlan(h) \/ Supersede(h)
           \/ Discontinue(h) \/ SaveSubmission(h)
  <2>1. hand'[h] = Idle
    BY <1>1, <1>2 DEF DraftBilling, QueueArchive, MakeFresh, SavePlan, Supersede, Discontinue,
       SaveSubmission
  <2> QED BY <1>0, <2>1, EndLowersRank
<1>3. CASE PostFails(h) \/ AskFails(h)
  <2>1. /\ hand'[h] = Idle \/ hand'[h] = Raised(h)
        /\ hand[h].op \in {"submit", "sync"}
    BY <1>1, <1>3 DEF PostFails, AskFails, At
  <2> QED BY <1>0, <2>1, EndLowersRank
<1>4. ASSUME NEW pc \in {"read", "asked", "saved"},
             hand'[h] = [hand[h] EXCEPT !.pc = pc],
             \/ hand[h].pc = "read" /\ pc \in {"asked", "saved"}
             \/ hand[h].pc = "asked" /\ pc = "saved"
             \/ hand[h].pc = "queued" /\ pc = "asked"
      PROVE  HandRank(hand'[h]) < HandRank(hand[h])
  <2>1. /\ hand'[h].op = hand[h].op /\ hand'[h].attempts = hand[h].attempts
        /\ hand'[h].pc = pc /\ hand'[h].op \in Op
    BY <1>1, <1>4 DEF Busy
  <2>2. hand'[h] # Idle
    BY <2>1 DEF Idle, Op
  <2>3. HandStage(hand'[h]) < HandStage(hand[h])
    BY <1>4, <2>1 DEF HandStage
  <2> QED BY <1>0, <2>1, <2>2, <2>3, StageLowersRank
<1>5. CASE SaveSent(h) \/ SaveVoid(h) \/ RetireVoid(h) \/ SaveSigned(h)
  <2>1. /\ hand'[h] = [hand[h] EXCEPT !.pc = "saved"]
        /\ hand[h].pc \in {"read", "asked"}
    BY <1>1, <1>5 DEF SaveSent, SaveVoid, RetireVoid, SaveSigned, At
  <2> QED BY <1>0, <1>4, <2>1
<1>6. CASE PostSubmission(h)
  <2>1. PICK s \in Submissions : hand' = [hand EXCEPT ![h].pc = "asked", ![h].ext = s]
    BY <1>6 DEF PostSubmission
  <2>2. hand'[h] = [hand[h] EXCEPT !.pc = "asked", !.ext = s] /\ hand[h].pc = "queued"
    BY <1>1, <1>6, <2>1 DEF PostSubmission, At
  <2>3. /\ hand'[h].op = hand[h].op /\ hand'[h].attempts = hand[h].attempts
        /\ hand'[h].pc = "asked" /\ hand'[h].op \in Op
    BY <1>1, <2>2 DEF Busy
  <2>4. hand'[h] # Idle
    BY <2>3 DEF Idle, Op
  <2>5. HandStage(hand'[h]) < HandStage(hand[h])
    BY <2>2, <2>3 DEF HandStage
  <2> QED BY <1>0, <2>3, <2>4, <2>5, StageLowersRank
<1>7. CASE ReadForSync(h)
  <2>1. CASE agr[hand[h].a].ext = NoSubmission
    <3>1. hand'[h] = Idle
      BY <1>1, <1>7, <2>1 DEF ReadForSync
    <3> QED BY <1>0, <3>1, EndLowersRank
  <2>2. CASE agr[hand[h].a].ext # NoSubmission
    <3>1. /\ hand'[h] = [hand[h] EXCEPT !.pc = "read", !.plan = agr[hand[h].a].plan,
                                        !.ext = agr[hand[h].a].ext]
          /\ hand[h].pc = "queued"
      BY <1>1, <1>7, <2>2 DEF ReadForSync, At
    <3>2. /\ hand'[h].op = hand[h].op /\ hand'[h].attempts = hand[h].attempts
          /\ hand'[h].pc = "read" /\ hand'[h].op \in Op
      BY <1>1, <3>1 DEF Busy
    <3>3. hand'[h] # Idle
      BY <3>2 DEF Idle, Op
    <3>4. HandStage(hand'[h]) < HandStage(hand[h])
      BY <3>1, <3>2 DEF HandStage
    <3> QED BY <1>0, <3>2, <3>3, <3>4, StageLowersRank
  <2> QED BY <2>1, <2>2
<1>8. CASE AskSubmission(h)
  <2>1. /\ \/ hand'[h] = Idle \/ hand'[h] = Raised(h)
           \/ hand'[h] = [hand[h] EXCEPT !.pc = "asked"]
        /\ hand[h].op \in {"submit", "sync"} /\ hand[h].pc = "read"
    BY <1>1, <1>8 DEF AskSubmission, At
  <2> QED BY <1>0, <1>4, <2>1, EndLowersRank
<1>9. CASE QueueSubmission(h)
  <2>1. hand'[h] = Queued("submit", hand[h].a, 0) /\ hand[h].op = "send"
    BY <1>1, <1>9 DEF QueueSubmission, At
  <2>2. PICK v : v = hand'[h]
    OBVIOUS
  <2>3. v.op = "submit" /\ v.pc = "queued" /\ v.attempts = 0
    BY <2>1, <2>2 DEF Queued
  <2>4. v # Idle
    BY <2>3 DEF Idle
  <2>5. HandStage(v) = 4
    BY <2>3 DEF HandStage
  <2>6. HandRank(v) = 4 * (MaxAttempts - 1 - 0) + 4
    BY <2>3, <2>4, <2>5 DEF HandRank
  <2>7. PICK s \in 1 .. 4 : s = HandStage(hand[h])
    BY DEF HandStage
  <2>8. HandRank(hand[h]) = 4 * MaxAttempts + s
    BY <1>0, <2>1, <2>7 DEF HandRank
  <2> QED BY <1>0, <2>2, <2>6, <2>7, <2>8
<1>10. HandRank(hand'[h]) < HandRank(hand[h])
  BY <1>2, <1>3, <1>5, <1>6, <1>7, <1>8, <1>9 DEF Step
<1> QED BY <1>0, <1>10

\* A handler's work shrinks with every step it takes, and nothing but its own
\* steps and its breaking off touches a busy handler.
HandWorkFalls ==
    [][\A h \in Handlers :
         /\ Step(h) => HandRank(hand'[h]) < HandRank(hand[h])
         /\ \/ hand'[h] = hand[h]
            \/ hand[h] = Idle
            \/ Step(h)
            \/ BreakOff(h)]_vars

\* Why a sent agreement gets an outcome (SentReachesDocuSeal): no request, job or
\* webhook runs for ever, whatever DocuSeal answers and whoever else writes the
\* row; a request and the job it queues take at most 4 * MaxAttempts + 4 steps.
THEOREM HandlersTerminate == Spec => []HandsInBudget /\ HandWorkFalls
<1>1. Inv => HandsInBudget
  BY HandRankType DEF Inv, TypeOK, HandsInBudget
<1>2. Inv /\ [Next]_vars =>
        [\A h \in Handlers :
           /\ Step(h) => HandRank(hand'[h]) < HandRank(hand[h])
           /\ \/ hand'[h] = hand[h]
              \/ hand[h] = Idle
              \/ Step(h)
              \/ BreakOff(h)]_vars
  <2>0. ASSUME Inv, NEW h \in Handlers, Step(h)
        PROVE  HandRank(hand'[h]) < HandRank(hand[h])
    BY <2>0, StepLowersRank
  <2> SUFFICES ASSUME Inv, Next, NEW h \in Handlers, hand'[h] # hand[h], hand[h] # Idle
               PROVE  Step(h) \/ BreakOff(h)
    BY <2>0
  <2>1. ASSUME NEW g \in Handlers, g # h, NEW w, hand' = [hand EXCEPT ![g] = w]
        PROVE  FALSE
    BY <2>1 DEF Inv, TypeOK
  <2>2. ASSUME NEW g \in Handlers, NEW a \in Agreements,
               Start(g, a) \/ Retry(g, a) \/ RequestSync(g, a)
        PROVE  FALSE
    <3>1. \E w : hand' = [hand EXCEPT ![g] = w] /\ hand[g] = Idle
      BY <2>2 DEF Start, Retry, RequestSync
    <3> QED BY <2>1, <3>1
  <2>3. ASSUME NEW g \in Handlers, NEW s \in Submissions, Webhook(g, s) PROVE FALSE
    <3>1. hand' = hand \/ \E w : hand' = [hand EXCEPT ![g] = w] /\ hand[g] = Idle
      BY <2>3 DEF Webhook
    <3> QED BY <2>1, <3>1
  <2>4. ASSUME NEW g \in Handlers, Step(g) \/ BreakOff(g) PROVE g = h
    <3>1. CASE BreakOff(g)
      BY <2>1, <3>1 DEF BreakOff
    <3>2. CASE \/ SaveSent(g) \/ QueueSubmission(g) \/ SaveSigned(g) \/ DraftBilling(g)
               \/ SaveVoid(g) \/ QueueArchive(g) \/ RetireVoid(g) \/ MakeFresh(g)
      <4>1. \E w : hand' = [hand EXCEPT ![g] = w]
        BY <3>2 DEF SaveSent, QueueSubmission, SaveSigned, DraftBilling, SaveVoid, QueueArchive,
           RetireVoid, MakeFresh
      <4> QED BY <2>1, <4>1
    <3>3. CASE \/ SavePlan(g) \/ Supersede(g) \/ Discontinue(g) \/ PostSubmission(g)
               \/ PostFails(g) \/ SaveSubmission(g) \/ ReadForSync(g) \/ AskFails(g)
               \/ AskSubmission(g)
      <4>1. hand' = hand \/ \E w : hand' = [hand EXCEPT ![g] = w]
        BY <3>3 DEF SavePlan, Supersede, Discontinue, PostSubmission, PostFails, SaveSubmission,
           ReadForSync, AskSubmission, AskFails
      <4> QED BY <2>1, <4>1
    <3> QED BY <2>4, <3>1, <3>2, <3>3 DEF Step
  <2>5. \/ UNCHANGED hand
        \/ \E g \in Handlers, a \in Agreements : Start(g, a) \/ Retry(g, a) \/ RequestSync(g, a)
        \/ \E g \in Handlers, s \in Submissions : Webhook(g, s)
        \/ \E g \in Handlers : Step(g) \/ BreakOff(g)
    BY DEF Next, Approve, ParentSigns, ArchiveSubmission
  <2> QED BY <2>2, <2>3, <2>4, <2>5
<1> QED BY <1>1, <1>2, LifecycleSound, PTL DEF Spec, HandWorkFalls

-----------------------------------------------------------------------------
(* Beside the documents and the review *)

\* A step of MCJobs is one of the module in focus and leaves the others as they
\* are, so each behaves as its own specification says, the fairness of workers
\* and digest included, and what is proved of it holds of what the run explores.
THEOREM JobsRunParts == JobsSpec => FairSpec /\ OcrSpec /\ ReviewSpec
<1>1. JobsInit => Init /\ OcrInit /\ ReviewInit
  BY DEF JobsInit
<1>2. [JobsNext]_jobsVars => [Next]_vars
  BY DEF JobsNext, jobsVars
<1>3. [JobsNext]_jobsVars => [OcrNext]_ocrVars
  BY DEF JobsNext, jobsVars
<1>4. [JobsNext]_jobsVars => [ReviewNext]_reviewVars
  BY DEF JobsNext, jobsVars
<1> QED BY <1>1, <1>2, <1>3, <1>4, PTL DEF JobsSpec, FairSpec, Spec, OcrSpec, ReviewSpec

\* Every row and job keeps its type, whatever a worker writes late.
THEOREM JobsTypeCorrect == JobsSpec => []JobsTypeOK
<1>1. FairSpec => Spec
  BY PTL DEF FairSpec
<1> QED BY <1>1, JobsRunParts, TypeCorrect, OcrTypeCorrect, ReviewTypeCorrect, PTL DEF JobsTypeOK
=============================================================================
