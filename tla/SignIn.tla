-------------------------------- MODULE SignIn --------------------------------
(***************************************************************************)
(* How a parent proves an e-mail address: one-time codes bound to the       *)
(* session that asked for them, magic links, and the legacy drafts that      *)
(* verification attaches (accounts/services.py, accounts/views.py,          *)
(* registrations/views.py).                                                *)
(*                                                                         *)
(* A request loads its session when it starts and saves it when it ends.    *)
(* verify_one_time_code is one transaction under the code's row lock;       *)
(* consume_magic_link is a series of commits. Rate limits are refusals that  *)
(* may come at any time.                                                    *)
(***************************************************************************)
EXTENDS Naturals, FiniteSets

CONSTANTS
    Emails,
    NoEmail,
    Keys,        \* session keys
    NoKey,       \* of a code issued before codes were bound to sessions
    Codes,       \* ids of EmailVerificationCode rows
    Links,       \* ids of MagicLinkToken rows
    Posts        \* requests that may be under way

ASSUME SignInAssumption ==
    /\ NoEmail \notin Emails
    /\ NoKey \notin Keys
    /\ Codes \cap Links = {}
    /\ Codes # {}

VARIABLES
    accounts,   \* e-mails that have a ParentAccount
    inactive,   \* those staff have deactivated
    claims,     \* e-mails with drafts no account owns
    sessions,   \* the session store
    codes,      \* EmailVerificationCode rows
    links,      \* MagicLinkToken rows
    posts,      \* the requests
    spent       \* history: sessions a code has signed in

signInVars == <<accounts, inactive, claims, sessions, codes, links, posts, spent>>

-----------------------------------------------------------------------------
(* Types *)

Session == [open : BOOLEAN, pending : Emails \cup {NoEmail}, account : Emails \cup {NoEmail}]

Code == [made : BOOLEAN, email : Emails \cup {NoEmail}, origin : Keys \cup {NoKey},
         used : BOOLEAN, expired : BOOLEAN]

\* owned: the row names its account, not just the claimed e-mail.
Link == [made : BOOLEAN, email : Emails \cup {NoEmail}, owned : BOOLEAN, sent : BOOLEAN,
         used : BOOLEAN, expired : BOOLEAN]

PostPc == {"idle", "issuing", "mailing", "verifying", "refused", "asking", "claiming",
           "owning", "link_issued", "consuming", "adopting", "taking", "attaching", "login"}

\* seen is the session as loaded, ref the code or link the request is about.
Post == [at : PostPc, key : Keys \cup {NoKey}, email : Emails \cup {NoEmail},
         ref : Codes \cup Links, seen : Session]

SignInTypeOK ==
    /\ accounts \in SUBSET Emails
    /\ inactive \in SUBSET accounts
    /\ claims \in SUBSET Emails
    /\ sessions \in [Keys -> Session]
    /\ codes \in [Codes -> Code]
    /\ links \in [Links -> Link]
    /\ posts \in [Posts -> Post]
    /\ spent \in [Codes -> SUBSET Keys]

OpenSession == [open |-> TRUE, pending |-> NoEmail, account |-> NoEmail]
ClosedSession == [OpenSession EXCEPT !.open = FALSE]
NoCode == [made |-> FALSE, email |-> NoEmail, origin |-> NoKey, used |-> FALSE, expired |-> FALSE]
NoLink == [made |-> FALSE, email |-> NoEmail, owned |-> FALSE, sent |-> FALSE, used |-> FALSE,
           expired |-> FALSE]
IdlePost == [at |-> "idle", key |-> NoKey, email |-> NoEmail, ref |-> CHOOSE c \in Codes : TRUE,
             seen |-> OpenSession]

\* Codes from before the binding may still be about, with the sessions that
\* wait for them.
Legacy == {[NoCode EXCEPT !.made = TRUE, !.email = e] : e \in Emails}

Waiting == {[OpenSession EXCEPT !.pending = codes[c].email] : c \in Codes}

SignInInit ==
    /\ accounts \in SUBSET Emails
    /\ inactive = {}
    /\ claims \in SUBSET Emails
    /\ codes \in [Codes -> {NoCode} \cup Legacy]
    /\ sessions \in [Keys -> {OpenSession} \cup Waiting]
    /\ links = [l \in Links |-> NoLink]
    /\ posts = [p \in Posts |-> IdlePost]
    /\ spent = [c \in Codes |-> {}]

-----------------------------------------------------------------------------
(* Requests *)

Begin(p, pc, k, e, ref) ==
    /\ posts[p].at = "idle"
    /\ sessions[k].open
    /\ posts' = [posts EXCEPT ![p] = [at |-> pc, key |-> k, email |-> e, ref |-> ref,
                                      seen |-> sessions[k]]]

Goto(p, pc) == posts' = [posts EXCEPT ![p].at = pc]

End(p) == posts' = [posts EXCEPT ![p] = IdlePost]

\* The session is saved whole, as loaded and changed; one flushed meanwhile is
\* an error.
SaveSession(p, changed) ==
    sessions' = IF sessions[posts[p].key].open
                THEN [sessions EXCEPT ![posts[p].key] = changed]
                ELSE sessions

-----------------------------------------------------------------------------
(* start_registration *)

StartRegistration(p, k, e) ==
    /\ Begin(p, "issuing", k, e, IdlePost.ref)
    /\ UNCHANGED <<accounts, inactive, claims, sessions, codes, links, spent>>

\* issue_one_time_code binds the code to the session that asks.
IssueCode(p) ==
    /\ posts[p].at = "issuing"
    /\ \E c \in Codes :
          /\ ~codes[c].made
          /\ codes' = [codes EXCEPT ![c] = [NoCode EXCEPT
                !.made = TRUE, !.email = posts[p].email, !.origin = posts[p].key]]
    /\ Goto(p, "mailing")
    /\ UNCHANGED <<accounts, inactive, claims, sessions, links, spent>>

\* Once the code is mailed, the session waits for it.
MailCode(p) ==
    /\ posts[p].at = "mailing"
    /\ SaveSession(p, [posts[p].seen EXCEPT !.pending = posts[p].email])
    /\ End(p)
    /\ UNCHANGED <<accounts, inactive, claims, codes, links, spent>>

-----------------------------------------------------------------------------
(* verify_one_time_code *)

\* A POST with a code the parent was sent; without a pending e-mail it changes
\* nothing, and a session that is signed in is sent on to the portal.
OpenVerify(p, k, c) ==
    /\ sessions[k].pending # NoEmail
    /\ codes[c].made
    /\ Begin(p, "verifying", k, sessions[k].pending, c)
    /\ UNCHANGED <<accounts, inactive, claims, sessions, codes, links, spent>>

\* _code_session_scope.
InScope(c, k) == codes[c].origin \in {k, NoKey}

Matches(p) == codes[posts[p].ref].email = posts[p].email /\ InScope(posts[p].ref, posts[p].key)

Live(p) == Matches(p) /\ ~codes[posts[p].ref].expired

\* The first use: the code, the account and the drafts in one transaction.
FirstUse(p) ==
    /\ posts[p].at = "verifying"
    /\ Live(p)
    /\ ~codes[posts[p].ref].used
    /\ codes' = [codes EXCEPT ![posts[p].ref].used = TRUE]
    /\ accounts' = accounts \cup {posts[p].email}
    /\ claims' = claims \ {posts[p].email}
    /\ spent' = [spent EXCEPT ![posts[p].ref] = @ \cup {posts[p].key}]
    /\ Goto(p, "login")
    /\ UNCHANGED <<inactive, sessions, links>>

\* Variants: whoever sends a used code is let in, or nobody is.
ReplayableByAll(p) == TRUE
ReplayableByNone(p) == FALSE

\* The session that asked may send its code again.
Replayable(p) == codes[posts[p].ref].origin = posts[p].key

Replay(p) ==
    /\ posts[p].at = "verifying"
    /\ Live(p)
    /\ codes[posts[p].ref].used
    /\ Replayable(p)
    /\ accounts' = accounts \cup {posts[p].email}
    /\ spent' = [spent EXCEPT ![posts[p].ref] = @ \cup {posts[p].key}]
    /\ Goto(p, "login")
    /\ UNCHANGED <<inactive, claims, sessions, codes, links>>

\* ValueError: no such code here, expired, or used up.
RefuseCode(p) ==
    /\ posts[p].at = "verifying"
    /\ ~Live(p) \/ (codes[posts[p].ref].used /\ ~Replayable(p))
    /\ Goto(p, "refused")
    /\ UNCHANGED <<accounts, inactive, claims, sessions, codes, links, spent>>

LogIn(p) ==
    /\ posts[p].at = "login"
    /\ SaveSession(p, [posts[p].seen EXCEPT !.account = posts[p].email, !.pending = NoEmail])
    /\ End(p)
    /\ UNCHANGED <<accounts, inactive, claims, codes, links, spent>>

-----------------------------------------------------------------------------
(* Magic links *)

\* request_magic_link, which needs no session, looks the account up;
AskLink(p, e) ==
    /\ posts[p].at = "idle"
    /\ posts' = [posts EXCEPT ![p] = [IdlePost EXCEPT
          !.at = IF e \in accounts THEN "asking" ELSE "claiming", !.email = e]]
    /\ UNCHANGED <<accounts, inactive, claims, sessions, codes, links, spent>>

\* one that has a live link not yet sent gets no other;
NoLiveLink(p) ==
    /\ posts[p].at = "asking"
    /\ ~\E l \in Links : links[l].made /\ links[l].owned /\ links[l].email = posts[p].email
                        /\ ~links[l].sent /\ ~links[l].used /\ ~links[l].expired
    /\ Goto(p, "owning")
    /\ UNCHANGED <<accounts, inactive, claims, sessions, codes, links, spent>>

\* then the link is made, for the account found or for the e-mail.
IssueLink(p) ==
    /\ posts[p].at \in {"owning", "claiming"}
    /\ \E l \in Links :
          /\ ~links[l].made
          /\ links' = [links EXCEPT ![l] = [NoLink EXCEPT
                !.made = TRUE, !.email = posts[p].email, !.owned = (posts[p].at = "owning")]]
          /\ posts' = [posts EXCEPT ![p].at = "link_issued", ![p].ref = l]
    /\ UNCHANGED <<accounts, inactive, claims, sessions, codes, spent>>

\* send_magic_link, unless the rate limit refuses (PostEnds).
SendLink(p) ==
    /\ posts[p].at = "link_issued"
    /\ links' = [links EXCEPT ![posts[p].ref].sent = TRUE]
    /\ End(p)
    /\ UNCHANGED <<accounts, inactive, claims, sessions, codes, spent>>

\* verify_magic_link: the link is read, with its account or without;
OpenLink(p, k, l) ==
    /\ links[l].sent
    /\ ~links[l].used
    /\ ~links[l].expired
    /\ links[l].owned => links[l].email \notin inactive
    /\ Begin(p, IF links[l].owned THEN "consuming" ELSE "adopting", k, links[l].email, l)
    /\ UNCHANGED <<accounts, inactive, claims, sessions, codes, links, spent>>

\* an account it lacked is made,
EnsureAccount(p) ==
    /\ posts[p].at = "adopting"
    /\ accounts' = accounts \cup {posts[p].email}
    /\ Goto(p, "taking")
    /\ UNCHANGED <<inactive, claims, sessions, codes, links, spent>>

\* the link marked used, for that account if it had none,
UseLink(p) ==
    /\ posts[p].at \in {"consuming", "taking"}
    /\ links' = [links EXCEPT ![posts[p].ref].used = TRUE,
                             ![posts[p].ref].owned = @ \/ posts[p].at = "taking"]
    /\ Goto(p, IF posts[p].at = "consuming" THEN "login" ELSE "attaching")
    /\ UNCHANGED <<accounts, inactive, claims, sessions, codes, spent>>

\* then the drafts attached.
AttachClaims(p) ==
    /\ posts[p].at = "attaching"
    /\ claims' = claims \ {posts[p].email}
    /\ Goto(p, "login")
    /\ UNCHANGED <<accounts, inactive, sessions, codes, links, spent>>

-----------------------------------------------------------------------------
(* The rest *)

\* logout_view flushes the session; its key does not come back.
Logout(k) ==
    /\ sessions[k].open
    /\ sessions' = [sessions EXCEPT ![k] = ClosedSession]
    /\ UNCHANGED <<accounts, inactive, claims, codes, links, posts, spent>>

\* GuardianAdmin.save_model.
SetActive(e) ==
    /\ e \in accounts
    /\ inactive' = IF e \in inactive THEN inactive \ {e} ELSE inactive \cup {e}
    /\ UNCHANGED <<accounts, claims, sessions, codes, links, posts, spent>>

Expire ==
    /\ \/ \E c \in Codes : codes[c].made /\ codes' = [codes EXCEPT ![c].expired = TRUE] /\ UNCHANGED links
       \/ \E l \in Links : links[l].made /\ links' = [links EXCEPT ![l].expired = TRUE] /\ UNCHANGED codes
    /\ UNCHANGED <<accounts, inactive, claims, sessions, posts, spent>>

\* A rate limit, a mail that is not accepted, an error page shown, a process
\* that dies: nothing more is committed.
PostEnds(p) ==
    /\ posts[p].at # "idle"
    /\ End(p)
    /\ UNCHANGED <<accounts, inactive, claims, sessions, codes, links, spent>>

-----------------------------------------------------------------------------

SignInNext ==
    \/ \E p \in Posts :
          \/ \E k \in Keys, e \in Emails : StartRegistration(p, k, e)
          \/ \E e \in Emails : AskLink(p, e)
          \/ IssueCode(p)
          \/ MailCode(p)
          \/ \E k \in Keys, c \in Codes : OpenVerify(p, k, c)
          \/ FirstUse(p)
          \/ Replay(p)
          \/ RefuseCode(p)
          \/ LogIn(p)
          \/ NoLiveLink(p)
          \/ IssueLink(p)
          \/ SendLink(p)
          \/ \E k \in Keys, l \in Links : OpenLink(p, k, l)
          \/ EnsureAccount(p)
          \/ UseLink(p)
          \/ AttachClaims(p)
          \/ PostEnds(p)
    \/ \E k \in Keys : Logout(k)
    \/ \E e \in Emails : SetActive(e)
    \/ Expire

SignInSpec == SignInInit /\ [][SignInNext]_signInVars

-----------------------------------------------------------------------------
(* Properties *)

\* However submits of one session race, the code it was sent is never called
\* invalid before it expires (accounts/services.py:317-324).
DuplicateAccepted ==
    \A p \in Posts :
        (/\ posts[p].at = "refused"
         /\ codes[posts[p].ref].origin = posts[p].key
         /\ codes[posts[p].ref].email = posts[p].email)
            => codes[posts[p].ref].expired

\* A code signs in the session that asked for it and no other, a code of old
\* one session once (accounts/services.py:294-300, :323-324).
CodeKeepsSession ==
    \A c \in Codes :
        IF codes[c].origin = NoKey THEN Cardinality(spent[c]) <= 1
        ELSE spent[c] \subseteq {codes[c].origin}
=============================================================================
