------------------------------ MODULE VerifyPage ------------------------------
(***************************************************************************)
(* The script of the verification page (static/js/verify_code.js): six       *)
(* digits start a read-only check, a valid verdict submits the form once,   *)
(* and clicks, edits, stale verdicts and network failures come in between.  *)
(***************************************************************************)
EXTENDS Naturals

CONSTANTS
    SixDigits,    \* inputs of six digits
    Partial,      \* an input of fewer
    Good          \* the ones the server has issued

ASSUME VerifyPageAssumption == Partial \notin SixDigits /\ Good \subseteq SixDigits

VARIABLES
    input,        \* what the field holds
    checking,     \* the digits of the outstanding check, Partial if none
    lastChecked,  \* lastCheckedCode, Partial if null
    submitting,   \* a native submission has begun
    locked,       \* button disabled, field read-only
    posted        \* native POSTs begun: number, digits, and whether by a verdict

verifyVars == <<input, checking, lastChecked, submitting, locked, posted>>

-----------------------------------------------------------------------------

Inputs == SixDigits \cup {Partial}

InFlight == checking # Partial

VerifyPageTypeOK ==
    /\ input \in Inputs
    /\ checking \in Inputs
    /\ lastChecked \in Inputs
    /\ submitting \in BOOLEAN
    /\ locked \in BOOLEAN
    /\ posted \in [times : 0 .. 2, digits : Inputs, verdict : SUBSET SixDigits]

VerifyPageInit ==
    /\ input = Partial
    /\ checking = Partial
    /\ lastChecked = Partial
    /\ submitting = FALSE
    /\ locked = FALSE
    /\ posted = [times |-> 0, digits |-> Partial, verdict |-> {}]

\* onInput runs a check of six digits unless it would overlap or repeat one.
Checks(digits, last) == digits # Partial /\ ~submitting /\ digits # last

\* The field changes: by hand while it is not read-only, or filled in.
Edit(digits) ==
    /\ input' = digits
    /\ IF Checks(digits, lastChecked) /\ ~InFlight
       THEN checking' = digits /\ lastChecked' = digits /\ locked' = TRUE
       ELSE UNCHANGED <<checking, lastChecked, locked>>
    /\ UNCHANGED <<submitting, posted>>

Posting(digits, verdict) ==
    posted' = [times |-> posted.times + 1, digits |-> digits, verdict |-> verdict]

\* Variant: a verdict is taken for whatever the field holds now.
StaleNever == FALSE

\* discardIfStale.
Stale == checking # input

\* Variant: a stale verdict is dropped, and nothing unlocks the page.
DiscardStaleLocked ==
    /\ InFlight
    /\ Stale
    /\ checking' = Partial
    /\ lastChecked' = Partial
    /\ UNCHANGED <<input, submitting, locked, posted>>

\* A stale verdict only lets the digits now in the field earn their own.
DiscardStale ==
    /\ InFlight
    /\ Stale
    /\ IF Checks(input, Partial)
       THEN checking' = input /\ lastChecked' = input /\ UNCHANGED locked
       ELSE checking' = Partial /\ lastChecked' = Partial /\ locked' = submitting
    /\ UNCHANGED <<input, submitting, posted>>

\* The form is submitted as it stands, armed by the verdict.
ValidVerdict ==
    /\ InFlight
    /\ ~Stale
    /\ checking \in Good
    /\ submitting' = TRUE
    /\ locked' = TRUE
    /\ Posting(input, {checking})
    /\ checking' = Partial
    /\ UNCHANGED <<input, lastChecked>>

\* Invalid, expired meanwhile, or no answer at all.
NoVerdict ==
    /\ InFlight
    /\ ~Stale
    /\ checking' = Partial
    /\ lastChecked' = Partial
    /\ locked' = FALSE
    /\ UNCHANGED <<input, submitting, posted>>

\* The button or Enter; the listener prevents a second submission.
SubmitByHand ==
    /\ ~submitting
    /\ ~InFlight
    /\ submitting' = TRUE
    /\ locked' = TRUE
    /\ Posting(input, {})
    /\ UNCHANGED <<input, checking, lastChecked>>

VerifyPageNext ==
    \/ \E digits \in Inputs : Edit(digits)
    \/ DiscardStale
    \/ ValidVerdict
    \/ NoVerdict
    \/ SubmitByHand

VerifyPageSpec == VerifyPageInit /\ [][VerifyPageNext]_verifyVars

-----------------------------------------------------------------------------
(* Properties *)

\* One native POST, however check, clicks and edits race, and one the script
\* makes carries the digits the verdict was about (verify_code.js:9-20).
OnePost ==
    /\ posted.times <= 1
    /\ posted.verdict \subseteq {posted.digits}

\* The page never stays locked with nothing under way, nor open during a check
\* or a submission (verify_code.js:11-14).
LockedWhileBusy == locked <=> (InFlight \/ submitting)
=============================================================================
