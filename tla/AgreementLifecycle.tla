-------------------------- MODULE AgreementLifecycle --------------------------
(***************************************************************************)
(* A member's agreement: sending, signing on paper or through DocuSeal,     *)
(* voiding, regenerating, amending and ending it.                           *)
(*                                                                         *)
(* Every operation reads the agreement once, checks its guards on that copy *)
(* and saves the columns it names in update_fields; nothing locks the row.  *)
(* A handler is a web request, a webhook delivery or a queued job. A request *)
(* that ends by queueing a job leaves its handler to that job.              *)
(***************************************************************************)
EXTENDS Integers, FiniteSets

CONSTANTS
    Members,
    Agreements,   \* agreement rows that may be created
    Submissions,  \* ids DocuSeal may hand out
    NoSubmission, \* a blank external_id
    Plans,        \* billing plans, all of one season
    NoPlan,
    Handlers,
    NoMember,     \* the owner of a row not created yet
    MaxAttempts,  \* max_attempts of the cluster
    MayFail       \* whether handlers may break off between two saves

ASSUME NamesAssumption ==
    NoSubmission \notin Submissions /\ NoPlan \notin Plans /\ NoMember \notin Members
ASSUME AttemptsAssumption == MaxAttempts \in Nat \ {0}
ASSUME SwitchAssumption == MayFail \in BOOLEAN

VARIABLES
    agr,      \* Agreement rows
    draft,    \* the plan on the season's BillingRecord of each member
    subs,     \* the submissions held by DocuSeal
    hooks,    \* completed submissions whose webhook is not acknowledged
    archives, \* queued archive_agreement_submission jobs
    left,     \* members discontinued
    hand      \* what each handler is doing

vars == <<agr, draft, subs, hooks, archives, left, hand>>

-----------------------------------------------------------------------------
(* Types *)

\* plan: billing_plan with its first_billing_month; failed: external_state is
\* "failed", the one value a guard tells from the others.
State == {"absent", "generated", "sent", "signed", "void", "superseded", "discontinued"}

Row == [state : State, member : Members \cup {NoMember}, current : BOOLEAN,
        plan : Plans \cup {NoPlan}, ext : Submissions \cup {NoSubmission},
        failed : BOOLEAN]

\* signed: the parent has signed it, whatever became of it later.
Submission == [agr : Agreements, state : {"pending", "completed", "archived"}, signed : BOOLEAN]

Absent == [state |-> "absent"]

Op == {"send", "sign", "void", "renew", "plan", "amend", "leave", "hook", "submit", "sync"}

\* plan and ext are what the handler still uses of the row it read; the guards
\* were decided on that reading. For a submission job ext is DocuSeal's answer.
Busy == [op : Op, pc : {"queued", "read", "asked", "saved"}, a : Agreements,
         plan : Plans \cup {NoPlan}, ext : Submissions \cup {NoSubmission},
         attempts : 0 .. (MaxAttempts - 1)]

Idle == [op |-> "idle"]

TypeOK ==
    /\ agr \in [Agreements -> Row]
    /\ draft \in [Members -> Plans \cup {NoPlan}]
    /\ subs \in [Submissions -> Submission \cup {Absent}]
    /\ hooks \in SUBSET Submissions
    /\ archives \in SUBSET Submissions
    /\ left \in SUBSET Members
    /\ hand \in [Handlers -> Busy \cup {Idle}]

-----------------------------------------------------------------------------
(* Initial states *)

NoRow == [state |-> "absent", member |-> NoMember, current |-> FALSE, plan |-> NoPlan,
          ext |-> NoSubmission, failed |-> FALSE]

Init ==
    /\ agr = [a \in Agreements |-> NoRow]
    /\ draft = [m \in Members |-> NoPlan]
    /\ subs = [s \in Submissions |-> Absent]
    /\ hooks = {}
    /\ archives = {}
    /\ left = {}
    /\ hand = [h \in Handlers |-> Idle]

-----------------------------------------------------------------------------
(* Rows and handlers *)

Made(a) == agr[a].state # "absent"

Fresh(m, p) == [NoRow EXCEPT !.state = "generated", !.member = m, !.current = TRUE, !.plan = p]

\* one_current_agreement_per_member, as an INSERT for member m meets it.
CurrentOf(m) == {a \in Agreements : agr[a].current /\ agr[a].member = m}

At(h, ops, pc) == hand[h] # Idle /\ hand[h].op \in ops /\ hand[h].pc = pc

Reading(op, a) ==
    [op |-> op, pc |-> "read", a |-> a, attempts |-> 0,
     plan |-> IF op \in {"sign", "hook", "plan", "amend"} THEN agr[a].plan ELSE NoPlan,
     ext |-> IF op \in {"void", "hook"} THEN agr[a].ext ELSE NoSubmission]

Queued(op, a, n) == [op |-> op, pc |-> "queued", a |-> a, attempts |-> n,
                     plan |-> NoPlan, ext |-> NoSubmission]

\* Variant: one delivery too many.
RaisedOnceMore(h) ==
    IF hand[h].attempts < MaxAttempts
    THEN Queued(hand[h].op, hand[h].a, hand[h].attempts + 1)
    ELSE Idle

\* A job that raises counts an attempt and is delivered again, or dropped.
Raised(h) ==
    IF hand[h].attempts + 1 < MaxAttempts
    THEN Queued(hand[h].op, hand[h].a, hand[h].attempts + 1)
    ELSE Idle

Signable(row) == row.state \in {"generated", "sent"}

-----------------------------------------------------------------------------
(* Staff requests: get_current_agreement, and the guards of the operation on *)
(* the copy it returned.                                                    *)

Allowed(op, row) ==
    CASE op = "send"  -> row.state = "generated"
      [] op = "sign"  -> Signable(row) /\ row.plan # NoPlan
      [] op = "void"  -> row.state # "void"
      [] op = "renew" -> row.state = "void"
      [] op = "plan"  -> row.state \notin {"signed", "superseded", "discontinued"}
      [] op \in {"amend", "leave"} -> row.state = "signed"

\* The family hub offers the operations on every agreement of the member, the
\* application's page on the current one; regenerating looks the current one up.
Start(h, a) ==
    /\ hand[h] = Idle
    /\ Made(a)
    /\ \E op \in {"send", "sign", "void", "renew", "plan", "amend", "leave"} :
         /\ Allowed(op, agr[a])
         /\ op = "renew" => agr[a].current
         /\ hand' = [hand EXCEPT ![h] = Reading(op, a)]
    /\ UNCHANGED <<agr, draft, subs, hooks, archives, left>>

\* retry_docuseal and sync_docuseal only queue a job.
Retry(h, a) ==
    /\ hand[h] = Idle
    /\ Made(a)
    /\ agr[a].failed
    /\ hand' = [hand EXCEPT ![h] = Queued("submit", a, 0)]
    /\ UNCHANGED <<agr, draft, subs, hooks, archives, left>>

RequestSync(h, a) ==
    /\ hand[h] = Idle
    /\ Made(a)
    /\ hand' = [hand EXCEPT ![h] = Queued("sync", a, 0)]
    /\ UNCHANGED <<agr, draft, subs, hooks, archives, left>>

\* approve_application creates the member with its first agreement; the
\* default plan is left out when the season has no billable month left.
Approve(m, a) ==
    /\ \A b \in Agreements : agr[b].member # m
    /\ ~Made(a)
    /\ \E p \in Plans \cup {NoPlan} : agr' = [agr EXCEPT ![a] = Fresh(m, p)]
    /\ UNCHANGED <<draft, subs, hooks, archives, left, hand>>

-----------------------------------------------------------------------------
(* mark_agreement_sent *)

SaveSent(h) ==
    /\ At(h, {"send"}, "read")
    /\ agr' = [agr EXCEPT ![hand[h].a].state = "sent"]
    /\ hand' = [hand EXCEPT ![h].pc = "saved"]
    /\ UNCHANGED <<draft, subs, hooks, archives, left>>

\* After the e-mail, which raises when it cannot be delivered.
QueueSubmission(h) ==
    /\ At(h, {"send"}, "saved")
    /\ hand' = [hand EXCEPT ![h] = Queued("submit", hand[h].a, 0)]
    /\ UNCHANGED <<agr, draft, subs, hooks, archives, left>>

-----------------------------------------------------------------------------
(* mark_agreement_signed, called by staff, by the webhook and by the sync job *)

\* Variant: the signal is sent by the webhook and the staff pages only.
SaveSignedQuietly(h) ==
    /\ At(h, {"sign", "hook"}, "read") \/ At(h, {"sync"}, "asked")
    /\ agr' = [agr EXCEPT ![hand[h].a].state = "signed"]
    /\ hand' = [hand EXCEPT ![h] = IF @.op = "sync" THEN Idle ELSE [@ EXCEPT !.pc = "saved"]]
    /\ UNCHANGED <<draft, subs, hooks, archives, left>>

SaveSigned(h) ==
    /\ At(h, {"sign", "hook"}, "read") \/ At(h, {"sync"}, "asked")
    /\ agr' = [agr EXCEPT ![hand[h].a].state = "signed"]
    /\ hand' = [hand EXCEPT ![h].pc = "saved"]
    /\ UNCHANGED <<draft, subs, hooks, archives, left>>

\* The webhook is acknowledged when its handler returns.
Acknowledged(h) == IF hand[h].op = "hook" THEN hooks \ {hand[h].ext} ELSE hooks

\* on_agreement_signed: under the guardian's row lock, a season's record that
\* exists is kept, whoever created it.
DraftBilling(h) ==
    LET m == agr[hand[h].a].member IN
    /\ At(h, {"sign", "hook", "sync"}, "saved")
    /\ draft' = [draft EXCEPT ![m] = IF @ = NoPlan THEN hand[h].plan ELSE @]
    /\ hooks' = Acknowledged(h)
    /\ hand' = [hand EXCEPT ![h] = Idle]
    /\ UNCHANGED <<agr, subs, archives, left>>

-----------------------------------------------------------------------------
(* void_agreement *)

SaveVoid(h) ==
    /\ At(h, {"void"}, "read")
    /\ agr' = [agr EXCEPT ![hand[h].a].state = "void"]
    /\ hand' = [hand EXCEPT ![h].pc = "saved"]
    /\ UNCHANGED <<draft, subs, hooks, archives, left>>

\* After the e-mail, the submission known when the request began.
QueueArchive(h) ==
    /\ At(h, {"void"}, "saved")
    /\ archives' = archives \cup ({hand[h].ext} \ {NoSubmission})
    /\ hand' = [hand EXCEPT ![h] = Idle]
    /\ UNCHANGED <<agr, draft, subs, hooks, left>>

-----------------------------------------------------------------------------
(* regenerate_agreement through create_agreement_for_member *)

RetireVoid(h) ==
    /\ At(h, {"renew"}, "read")
    /\ agr' = [agr EXCEPT ![hand[h].a].current = FALSE]
    /\ hand' = [hand EXCEPT ![h].pc = "saved"]
    /\ UNCHANGED <<draft, subs, hooks, archives, left>>

\* The unique index refuses a second current agreement: IntegrityError.
MakeFresh(h) ==
    LET m == agr[hand[h].a].member IN
    /\ At(h, {"renew"}, "saved")
    /\ IF CurrentOf(m) = {}
       THEN \E b \in Agreements, p \in Plans \cup {NoPlan} :
              ~Made(b) /\ agr' = [agr EXCEPT ![b] = Fresh(m, p)]
       ELSE UNCHANGED agr
    /\ hand' = [hand EXCEPT ![h] = Idle]
    /\ UNCHANGED <<draft, subs, hooks, archives, left>>

-----------------------------------------------------------------------------
(* set_billing_setup, start_material_amendment, discontinue_agreement *)

\* Variant: without update_fields, save() writes every column of the copy.
SavePlanFully(h) ==
    /\ At(h, {"plan"}, "read")
    /\ \E p \in Plans \ {hand[h].plan} :
         agr' = [agr EXCEPT ![hand[h].a].plan = p, ![hand[h].a].current = TRUE]
    /\ hand' = [hand EXCEPT ![h] = Idle]
    /\ UNCHANGED <<draft, subs, hooks, archives, left>>

SavePlan(h) ==
    /\ At(h, {"plan"}, "read")
    /\ \E p \in Plans \ {hand[h].plan} : agr' = [agr EXCEPT ![hand[h].a].plan = p]
    /\ hand' = [hand EXCEPT ![h] = Idle]
    /\ UNCHANGED <<draft, subs, hooks, archives, left>>

\* One transaction, rolled back when the member has another current agreement.
Supersede(h) ==
    LET a == hand[h].a
        m == agr[a].member
        retired == [agr EXCEPT ![a].state = "superseded", ![a].current = FALSE] IN
    /\ At(h, {"amend"}, "read")
    /\ IF CurrentOf(m) \subseteq {a}
       THEN \E b \in Agreements :
              ~Made(b) /\ agr' = [retired EXCEPT ![b] = Fresh(m, hand[h].plan)]
       ELSE UNCHANGED agr
    /\ hand' = [hand EXCEPT ![h] = Idle]
    /\ UNCHANGED <<draft, subs, hooks, archives, left>>

Discontinue(h) ==
    /\ At(h, {"leave"}, "read")
    /\ agr' = [agr EXCEPT ![hand[h].a].state = "discontinued"]
    /\ left' = left \cup {agr[hand[h].a].member}
    /\ hand' = [hand EXCEPT ![h] = Idle]
    /\ UNCHANGED <<draft, subs, hooks, archives>>

-----------------------------------------------------------------------------
(* create_agreement_submission: no guard on the agreement's state, nor on the *)
(* submission it may already have.                                          *)

Submit(a, s) ==
    /\ subs[s] = Absent
    /\ subs' = [subs EXCEPT ![s] = [agr |-> a, state |-> "pending", signed |-> FALSE]]

PostSubmission(h) ==
    /\ At(h, {"submit"}, "queued")
    /\ \E s \in Submissions :
         /\ Submit(hand[h].a, s)
         /\ hand' = [hand EXCEPT ![h].pc = "asked", ![h].ext = s]
    /\ UNCHANGED <<agr, draft, hooks, archives, left>>

\* Variant: a failure is only logged.
PostFailsQuietly(h) ==
    /\ At(h, {"submit"}, "queued")
    /\ hand' \in {[hand EXCEPT ![h] = Idle], [hand EXCEPT ![h] = Raised(h)]}
    /\ UNCHANGED <<agr, subs, draft, hooks, archives, left>>

\* Refused, timed out or not understood: DocuSeal may have made it. Only a
\* transient error raises.
PostFails(h) ==
    /\ At(h, {"submit"}, "queued")
    /\ UNCHANGED subs \/ \E s \in Submissions : Submit(hand[h].a, s)
    /\ hand' \in {[hand EXCEPT ![h] = Idle], [hand EXCEPT ![h] = Raised(h)]}
    /\ agr' = [agr EXCEPT ![hand[h].a].failed = TRUE]
    /\ UNCHANGED <<draft, hooks, archives, left>>

SaveSubmission(h) ==
    /\ At(h, {"submit"}, "asked")
    /\ agr' = [agr EXCEPT ![hand[h].a].ext = hand[h].ext, ![hand[h].a].failed = FALSE]
    /\ hand' = [hand EXCEPT ![h] = Idle]
    /\ UNCHANGED <<draft, subs, hooks, archives, left>>

-----------------------------------------------------------------------------
(* sync_agreement_submission *)

ReadForSync(h) ==
    /\ At(h, {"sync"}, "queued")
    /\ hand' = [hand EXCEPT ![h] =
                  IF agr[hand[h].a].ext = NoSubmission THEN Idle
                  ELSE [@ EXCEPT !.pc = "read", !.plan = agr[hand[h].a].plan,
                                     !.ext = agr[hand[h].a].ext]]
    /\ UNCHANGED <<agr, draft, subs, hooks, archives, left>>

\* Variant: whatever is not pending any more counts as completed.
AskSubmissionLoosely(h) ==
    LET a == hand[h].a
        completed == subs[hand[h].ext].state # "pending" IN
    /\ At(h, {"sync"}, "read")
    /\ agr' = [agr EXCEPT ![a].failed = FALSE]
    /\ hand' = [hand EXCEPT ![h] =
                  IF ~completed \/ ~Signable(agr[a]) THEN Idle
                  ELSE IF @.plan = NoPlan THEN Raised(h)
                  ELSE [@ EXCEPT !.pc = "asked"]]
    /\ UNCHANGED <<draft, subs, hooks, archives, left>>

\* DocuSeal's answer is saved and the state, not the plan, is read again; what is not
\* completed or not signable ends the job, a missing plan raises.
AskSubmission(h) ==
    LET a == hand[h].a
        completed == subs[hand[h].ext].state = "completed" IN
    /\ At(h, {"sync"}, "read")
    /\ agr' = [agr EXCEPT ![a].failed = FALSE]
    /\ hand' = [hand EXCEPT ![h] =
                  IF ~completed \/ ~Signable(agr[a]) THEN Idle
                  ELSE IF @.plan = NoPlan THEN Raised(h)
                  ELSE [@ EXCEPT !.pc = "asked"]]
    /\ UNCHANGED <<draft, subs, hooks, archives, left>>

AskFails(h) ==
    /\ At(h, {"sync"}, "read")
    /\ agr' = [agr EXCEPT ![hand[h].a].failed = TRUE]
    /\ hand' \in {[hand EXCEPT ![h] = Idle], [hand EXCEPT ![h] = Raised(h)]}
    /\ UNCHANGED <<draft, subs, hooks, archives, left>>

-----------------------------------------------------------------------------
(* DocuSeal: the parent signs, the webhook, the archive job *)

ParentSigns(s) ==
    /\ subs[s] # Absent
    /\ subs[s].state = "pending"
    /\ subs' = [subs EXCEPT ![s].state = "completed", ![s].signed = TRUE]
    /\ hooks' = hooks \cup {s}
    /\ UNCHANGED <<agr, draft, archives, left, hand>>

\* docuseal_webhook: an agreement it can sign is signed, everything else,
\* an unknown submission included, is acknowledged and forgotten.
SignableBy(s) ==
    {a \in Agreements : agr[a].ext = s /\ Signable(agr[a]) /\ agr[a].plan # NoPlan}

Webhook(h, s) ==
    /\ hand[h] = Idle
    /\ s \in hooks
    /\ IF SignableBy(s) = {}
       THEN hooks' = hooks \ {s} /\ UNCHANGED hand
       ELSE /\ \E a \in SignableBy(s) : hand' = [hand EXCEPT ![h] = Reading("hook", a)]
            /\ UNCHANGED hooks
    /\ UNCHANGED <<agr, draft, subs, archives, left>>

\* archive_agreement_submission swallows every error.
ArchiveSubmission(s) ==
    /\ s \in archives
    /\ archives' = archives \ {s}
    /\ subs' \in {subs, [subs EXCEPT ![s].state = "archived"]}
    /\ UNCHANGED <<agr, draft, hooks, left, hand>>

-----------------------------------------------------------------------------
(* A handler breaks off: its process dies, the e-mail or the database raises. *)
(* A request leaves what it saved, DocuSeal delivers its webhook again, a job *)
(* is delivered again: a raise counts an attempt, a killed worker does not.   *)

BreakOff(h) ==
    /\ MayFail
    /\ hand[h] # Idle
    /\ hand[h].pc # "queued"
    /\ \E after \in IF hand[h].op \in {"submit", "sync"}
                    THEN {Raised(h), Queued(hand[h].op, hand[h].a, hand[h].attempts)}
                    ELSE {Idle} :
         hand' = [hand EXCEPT ![h] = after]
    /\ UNCHANGED <<agr, draft, subs, hooks, archives, left>>

-----------------------------------------------------------------------------
Step(h) ==
    \/ SaveSent(h) \/ QueueSubmission(h)
    \/ SaveSigned(h) \/ DraftBilling(h)
    \/ SaveVoid(h) \/ QueueArchive(h)
    \/ RetireVoid(h) \/ MakeFresh(h)
    \/ SavePlan(h) \/ Supersede(h) \/ Discontinue(h)
    \/ PostSubmission(h) \/ PostFails(h) \/ SaveSubmission(h)
    \/ ReadForSync(h) \/ AskSubmission(h) \/ AskFails(h)

Next ==
    \/ \E m \in Members, a \in Agreements : Approve(m, a)
    \/ \E h \in Handlers, a \in Agreements : Start(h, a) \/ Retry(h, a) \/ RequestSync(h, a)
    \/ \E h \in Handlers : Step(h) \/ BreakOff(h)
    \/ \E h \in Handlers, s \in Submissions : Webhook(h, s)
    \/ \E s \in Submissions : ParentSigns(s) \/ ArchiveSubmission(s)

Spec == Init /\ [][Next]_vars

FairSpec == Spec /\ \A h \in Handlers : WF_vars(Step(h))

-----------------------------------------------------------------------------
(* Action properties *)

\* A signed agreement has its season's billing draft, or a handler on its way
\* to create it, whichever of the three signed it first.
Drafting(h, a) == At(h, {"sign", "hook", "sync"}, "saved") /\ hand[h].a = a

Billed(a) ==
    agr[a].state = "signed" =>
        draft[agr[a].member] # NoPlan \/ \E h \in Handlers : Drafting(h, a)

\* The only way to a signed agreement without a draft is that the very handler
\* which signed it breaks off between its save and the signal, in the e-mail:
\* no other signer, job, void or stale save leaves it without.
UnbilledOnlyByBreakOff ==
    [][\A a \in Agreements : Billed(a) /\ ~Billed(a)' =>
         \E h \in Handlers : Drafting(h, a) /\ BreakOff(h)]_vars

\* A member who has an agreement has a current one, or a request is just
\* replacing it: staff reach the agreement through no other way.
Renewing(h, m) == At(h, {"renew"}, "saved") /\ agr[hand[h].a].member = m

Reachable(m) ==
    (\E a \in Agreements : Made(a) /\ agr[a].member = m) =>
        CurrentOf(m) # {} \/ \E h \in Handlers : Renewing(h, m)

\* The only way to a member without a current agreement is that a renewal
\* breaks off between its two commits.
UnreachableOnlyByBreakOff ==
    [][\A m \in Members : Reachable(m) /\ ~Reachable(m)' =>
         \E h \in Handlers : Renewing(h, m) /\ BreakOff(h)]_vars

\* An agreement becomes signed because staff say so or because the parent
\* signed a submission made for this agreement, not one that merely ended.
SignedByParentOrStaff ==
    [][\A a \in Agreements : agr[a].state # "signed" /\ agr'[a].state = "signed" =>
         \/ \E h \in Handlers : At(h, {"sign"}, "read") /\ hand[h].a = a
         \/ \E s \in Submissions : subs[s] # Absent /\ subs[s].agr = a /\ subs[s].signed]_vars

\* An agreement changes its state only along the arrows the services name:
\* whatever was decided on a copy still holds of the row when it is saved.
Arrows ==
    ({"generated"} \X {"sent"})
    \cup ({"generated", "sent"} \X {"signed"})
    \cup ({"signed"} \X {"superseded", "discontinued"})
    \cup ((State \ {"absent", "void"}) \X {"void"})

FollowsArrows ==
    [][\A a \in Agreements : Made(a) /\ agr'[a].state # agr[a].state =>
         <<agr[a].state, agr'[a].state>> \in Arrows]_vars

\* The plan of an agreement that was signed does not change any more.
SignedPlanKept ==
    [][\A a \in Agreements : agr[a].state \in {"signed", "superseded", "discontinued"} =>
         agr'[a].plan = agr[a].plan]_vars

\* A handler has decided to write the state or the plan and has not done it yet.
Deciding(h) ==
    \/ At(h, {"send", "sign", "hook", "void", "plan", "amend", "leave"}, "read")
    \/ At(h, {"sync"}, "asked")

\* What the guard of op asked of the copy.
Holds(op, row) ==
    /\ op = "send" => row.state = "generated"
    /\ op \in {"sign", "hook", "sync"} => Signable(row)
    /\ op = "void" => row.state # "void"
    /\ op = "plan" => row.state \notin {"signed", "superseded", "discontinued"}
    /\ op \in {"amend", "leave"} => row.state = "signed"

Stands(h) == Holds(hand[h].op, agr[hand[h].a])

\* The handler writes what it decided on agreement a.
Decides(h, a) == Deciding(h) /\ hand[h].a = a /\ ~Deciding(h)'

OffArrows(a) ==
    Made(a) /\ agr'[a].state # agr[a].state /\ <<agr[a].state, agr'[a].state>> \notin Arrows

SignedPlanChanges(a) ==
    agr[a].state \in {"signed", "superseded", "discontinued"} /\ agr'[a].plan # agr[a].plan

\* Overlapping decisions are the only way off the arrows, and to another plan
\* on a signed agreement: every decision is taken on the row as it is, only
\* another handler's decision on that agreement makes it stale, and only a
\* stale one strays.
OnlyStaleStrays ==
    [][/\ \A h \in Handlers : Deciding(h)' /\ hand'[h] # hand[h] => Stands(h)'
       /\ \A h \in Handlers : Deciding(h) /\ hand'[h] = hand[h] /\ Stands(h) /\ ~Stands(h)' =>
            \E g \in Handlers \ {h} : Decides(g, hand[h].a)
       /\ \A a \in Agreements : OffArrows(a) \/ SignedPlanChanges(a) =>
            \E h \in Handlers : Decides(h, a) /\ ~Stands(h)]_vars

\* A request that voids an agreement leaves no open submission of it without
\* an archive job.
VoidQueuesArchive ==
    [][\A h \in Handlers : At(h, {"void"}, "saved") /\ hand'[h] = Idle =>
         \A s \in Submissions :
           subs[s] # Absent /\ subs[s].agr = hand[h].a /\ subs[s].state = "pending" =>
             s \in archives']_vars

-----------------------------------------------------------------------------
(* Liveness *)

\* A sent agreement gets its submission, or is marked failed, which offers the
\* retry, unless it is signed or voided first.
SentReachesDocuSeal ==
    \A a \in Agreements : agr[a].state = "sent" ~>
        agr[a].state # "sent" \/ agr[a].ext # NoSubmission \/ agr[a].failed

-----------------------------------------------------------------------------
(* The lifecycle implements the register *)

Register == INSTANCE AgreementRegister WITH
    current <- [m \in Members |-> CurrentOf(m)],
    retired <- {a \in Agreements : Made(a) /\ ~agr[a].current}

\* A member has one current agreement at most, and no save of a stale copy
\* brings a retired one back.
ImplementsRegister == Register!Spec
=============================================================================
