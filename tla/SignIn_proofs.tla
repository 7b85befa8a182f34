---------------------------- MODULE SignIn_proofs ----------------------------
(***************************************************************************)
(* A one-time code keeps to the session that asked for it, and is never     *)
(* refused to that session before it expires: proofs for any number of       *)
(* e-mails, sessions, codes, links and requests. The page it is typed into  *)
(* begins one POST at most. The last part is about the run that has sign-in *)
(* beside the review and the documents.                                     *)
(***************************************************************************)
EXTENDS MCIntake, ApplicationReview_proofs, DocumentOcr_proofs, FiniteSetTheorems

HIDE ReviewAssumption
HIDE OcrAssumption

USE SignInAssumption

-----------------------------------------------------------------------------
(* The inductive invariant *)

\* What asks for a link needs no session.
Keyless == {"idle", "asking", "claiming", "owning", "link_issued"}

\* A request knows its e-mail and its session; the code it verifies, or the link
\* it sends, is there; and if its own code was refused it, the code had expired.
PostOK(r) ==
    /\ r \in Post
    /\ r.at # "idle" => r.email \in Emails
    /\ r.at \notin Keyless => r.key \in Keys
    /\ r.at \in {"verifying", "refused"} => r.ref \in Codes /\ codes[r.ref].made
    /\ r.at = "link_issued" => r.ref \in Links /\ links[r.ref].made
    /\ (r.at = "refused" /\ codes[r.ref].origin = r.key /\ codes[r.ref].email = r.email)
            => codes[r.ref].expired

PostsOK == posts \in [Posts -> Post] /\ \A p \in Posts : PostOK(posts[p])

CodesOK ==
    /\ codes \in [Codes -> Code]
    /\ spent \in [Codes -> SUBSET Keys]
    /\ \A c \in Codes : (codes[c].used => codes[c].made) /\ (~codes[c].used => spent[c] = {})
    /\ CodeKeepsSession

LinksOK ==
    /\ links \in [Links -> Link]
    /\ \A l \in Links : (links[l].sent => links[l].made)
                     /\ (links[l].made => links[l].email \in Emails)

PeopleOK ==
    /\ accounts \in SUBSET Emails
    /\ inactive \in SUBSET accounts
    /\ claims \in SUBSET Emails
    /\ sessions \in [Keys -> Session]

SignInInv == PeopleOK /\ CodesOK /\ LinksOK /\ PostsOK

LEMMA SignInTypes == SignInInv => SignInTypeOK
BY DEF SignInInv, PeopleOK, CodesOK, LinksOK, PostsOK, SignInTypeOK

LEMMA OpenIsSession == OpenSession \in Session /\ ClosedSession \in Session
BY DEF OpenSession, ClosedSession, Session

LEMMA IdleOK == PostOK(IdlePost) /\ IdlePost.at = "idle" /\ IdlePost.ref \in Codes
<1>1. (CHOOSE c \in Codes : TRUE) \in Codes
    OBVIOUS
<1>2. QED
    BY <1>1, OpenIsSession DEF IdlePost, PostOK, Post, PostPc, Keyless

LEMMA SignInInvInit == SignInInit => SignInInv
<1> SUFFICES ASSUME SignInInit
             PROVE  SignInInv
    OBVIOUS
<1>1. NoCode \in Code /\ Legacy \subseteq Code
    BY DEF NoCode, Legacy, Code
<1>2. codes \in [Codes -> Code] /\ \A c \in Codes : ~codes[c].used /\ spent[c] = {}
    <2>1. \A x \in {NoCode} \cup Legacy : ~x.used
        <3>1. ~NoCode.used
            BY DEF NoCode
        <3>2. ASSUME NEW x \in Legacy
              PROVE  ~x.used
            <4>1. PICK e \in Emails : x = [NoCode EXCEPT !.made = TRUE, !.email = e]
                BY DEF Legacy
            <4>2. QED
                BY <4>1 DEF NoCode
        <3>3. QED
            BY <3>1, <3>2
    <2>2. codes \in [Codes -> {NoCode} \cup Legacy] /\ spent = [c \in Codes |-> {}]
        BY DEF SignInInit
    <2>3. QED
        BY <2>1, <2>2, <1>1
<1>3. Cardinality({}) = 0
    BY FS_EmptySet
<1>4. CodesOK
    BY <1>2, <1>3 DEF SignInInit, CodesOK, CodeKeepsSession
<1>5. LinksOK
    BY DEF SignInInit, LinksOK, NoLink, Link
<1>6. Waiting \subseteq Session
    BY <1>2 DEF Waiting, OpenSession, Session, Code
<1>7. PeopleOK
    BY <1>6, OpenIsSession DEF SignInInit, PeopleOK
<1>8. PostsOK
    BY IdleOK DEF SignInInit, PostsOK, PostOK
<1>9. QED
    BY <1>4, <1>5, <1>7, <1>8 DEF SignInInv

-----------------------------------------------------------------------------
(* What becomes of the rows a request refers to *)

\* Codes and links are never unmade or rebound, and expire for good.
Grows ==
    /\ \A c \in Codes : codes[c].made =>
          /\ codes'[c].made
          /\ codes'[c].origin = codes[c].origin
          /\ codes'[c].email = codes[c].email
          /\ codes[c].expired => codes'[c].expired
    /\ \A l \in Links : links[l].made => links'[l].made

LEMMA PostPart ==
    ASSUME PostsOK, Grows, NEW p \in Posts, NEW r, PostOK(r)',
           posts' = [posts EXCEPT ![p] = r]
    PROVE  PostsOK'
BY DEF PostsOK, PostOK, Grows

\* The request ends: whatever it did, the others are told of it by Grows only.
LEMMA EndPart ==
    ASSUME SignInInv, Grows, NEW p \in Posts, End(p)
    PROVE  PostsOK'
<1>1. PostOK(IdlePost)'
    <2>1. PostOK(IdlePost) /\ IdlePost.at = "idle"
        BY IdleOK
    <2>2. QED
        BY <2>1 DEF PostOK
<1>2. posts' = [posts EXCEPT ![p] = IdlePost] /\ PostsOK
    BY DEF End, SignInInv
<1>3. IdlePost \in Post
    BY IdleOK DEF PostOK
<1>4. QED
    BY <1>1, <1>2, <1>3, PostPart

\* The request goes on, to a step that asks nothing of its reference.
LEMMA GotoPart ==
    ASSUME SignInInv, Grows, NEW p \in Posts, posts[p].at # "idle",
           NEW pc \in {"mailing", "owning", "taking", "attaching", "login"}, Goto(p, pc),
           posts[p].at \in Keyless => pc = "owning"
    PROVE  PostsOK'
<1>1. PostsOK /\ PostOK(posts[p])
    BY DEF SignInInv, PostsOK
<1>. PICK r : r = [posts[p] EXCEPT !.at = pc]
    OBVIOUS
<1>2. r \in Post /\ r.at = pc /\ r.email \in Emails /\ (pc # "owning" => r.key \in Keys)
    BY <1>1 DEF PostOK, Post, PostPc
<1>3. posts' = [posts EXCEPT ![p] = r]
    BY <1>1 DEF Goto, PostsOK
<1>4. PostOK(r)'
    BY <1>2 DEF PostOK, Keyless
<1>5. QED
    BY <1>1, <1>3, <1>4, PostPart

\* A request begins, on a code or link that is there if it is to use one.
LEMMA BeginPart ==
    ASSUME SignInInv, Grows, NEW p \in Posts, NEW k \in Keys, NEW e \in Emails,
           NEW ref \in Codes \cup Links, NEW pc \in PostPc \ {"refused"},
           Begin(p, pc, k, e, ref),
           pc # "link_issued",
           pc = "verifying" => ref \in Codes /\ codes'[ref].made
    PROVE  PostsOK'
<1>. PICK r : r = [at |-> pc, key |-> k, email |-> e, ref |-> ref, seen |-> sessions[k]]
    OBVIOUS
<1>1. PostsOK /\ sessions[k] \in Session
    BY DEF SignInInv, PeopleOK
<1>2. r \in Post /\ r.at = pc /\ r.key = k /\ r.email = e /\ r.ref = ref
    BY <1>1 DEF Post
<1>3. posts' = [posts EXCEPT ![p] = r]
    BY DEF Begin
<1>4. PostOK(r)'
    BY <1>2 DEF PostOK
<1>5. QED
    BY <1>1, <1>3, <1>4, PostPart

\* A session is saved as loaded, but for an e-mail.
LEMMA SavedSession ==
    ASSUME PeopleOK, NEW p \in Posts, NEW changed \in Session, SaveSession(p, changed)
    PROVE  sessions' \in [Keys -> Session]
BY DEF SaveSession, PeopleOK

-----------------------------------------------------------------------------
(* Every step keeps the invariant *)

LEMMA CodesKept ==
    ASSUME SignInInv, UNCHANGED <<codes, spent>>
    PROVE  CodesOK'
BY DEF SignInInv, CodesOK, CodeKeepsSession

LEMMA LinksKept ==
    ASSUME SignInInv, UNCHANGED links
    PROVE  LinksOK'
BY DEF SignInInv, LinksOK

LEMMA PeopleKept ==
    ASSUME SignInInv, UNCHANGED <<accounts, inactive, claims, sessions>>
    PROVE  PeopleOK'
BY DEF SignInInv, PeopleOK

LEMMA Stable == UNCHANGED <<codes, links>> => Grows
BY DEF Grows

\* A code that verifies a request of its own session, or a legacy code used for
\* the first time, has signed in that session alone.
LEMMA SpentPart ==
    ASSUME SignInInv, NEW p \in Posts, posts[p].at = "verifying", Live(p),
           \/ ~codes[posts[p].ref].used
           \/ Replayable(p),
           codes' = [codes EXCEPT ![posts[p].ref].used = TRUE],
           spent' = [spent EXCEPT ![posts[p].ref] = @ \cup {posts[p].key}]
    PROVE  CodesOK' /\ (UNCHANGED links => Grows)
<1> DEFINE c == posts[p].ref
           k == posts[p].key
<1>1. c \in Codes /\ k \in Keys /\ codes[c].made /\ codes[c].origin \in {k, NoKey}
    BY DEF SignInInv, PostsOK, PostOK, Live, Matches, InScope, Keyless
<1>2. CodesOK
    BY DEF SignInInv
<1>3. ~codes[c].used \/ codes[c].origin = k
    BY DEF Replayable
<1> HIDE DEF c, k
<1>4. /\ codes' = [codes EXCEPT ![c].used = TRUE]
      /\ spent' = [spent EXCEPT ![c] = @ \cup {k}]
    BY DEF c, k
<1>5. codes' \in [Codes -> Code] /\ spent' \in [Codes -> SUBSET Keys]
    <2>1. [codes[c] EXCEPT !.used = TRUE] \in Code
        BY <1>1, <1>2 DEF CodesOK, Code
    <2>2. spent[c] \cup {k} \in SUBSET Keys
        BY <1>1, <1>2 DEF CodesOK
    <2>3. codes' \in [Codes -> Code]
        BY <2>1, <1>2, <1>4 DEF CodesOK
    <2>4. spent' \in [Codes -> SUBSET Keys]
        BY <2>2, <1>2, <1>4 DEF CodesOK
    <2>5. QED
        BY <2>3, <2>4
<1>6. \A d \in Codes : codes'[d].origin = codes[d].origin
    BY <1>1, <1>2, <1>4 DEF CodesOK, Code
<1>7. \A d \in Codes : (codes'[d].used => codes'[d].made) /\ (~codes'[d].used => spent'[d] = {})
    BY <1>1, <1>2, <1>4 DEF CodesOK, Code
<1>8. CodeKeepsSession'
    <2>1. SUFFICES ASSUME NEW d \in Codes
                   PROVE  IF codes'[d].origin = NoKey THEN Cardinality(spent'[d]) <= 1
                          ELSE spent'[d] \subseteq {codes'[d].origin}
        BY DEF CodeKeepsSession
    <2>2. CASE d # c
        BY <2>2, <1>2, <1>4, <1>6 DEF CodesOK, CodeKeepsSession
    <2>3. CASE d = c /\ codes[c].origin = NoKey
        <3>1. spent'[c] = {k}
            BY <2>3, <1>1, <1>2, <1>3, <1>4 DEF CodesOK
        <3>2. Cardinality({k}) = 1
            BY FS_Singleton
        <3>3. Cardinality(spent'[c]) = 1
            BY <3>1, <3>2, Zenon
        <3>4. Cardinality(spent'[c]) <= 1
            BY <3>3
        <3>5. codes'[c].origin = NoKey
            BY <2>3, <1>6
        <3>6. d = c
            BY <2>3
        <3>7. QED
            BY <3>4, <3>5, <3>6
    <2>4. CASE d = c /\ codes[c].origin = k /\ k # NoKey
        <3>1. spent[c] \subseteq {k}
            BY <2>4, <1>2 DEF CodesOK, CodeKeepsSession
        <3>2. spent'[c] \subseteq {k}
            BY <3>1, <1>1, <1>2, <1>4 DEF CodesOK
        <3>3. QED
            BY <3>2, <2>4, <1>6
    <2>5. QED
        BY <2>2, <2>3, <2>4, <1>1
<1>9. UNCHANGED links => Grows
    BY <1>1, <1>2, <1>4 DEF Grows, CodesOK, Code
<1>10. QED
    BY <1>5, <1>7, <1>8, <1>9 DEF CodesOK

LEMMA StepKeepsInv == SignInInv /\ [SignInNext]_signInVars => SignInInv'
<1> SUFFICES ASSUME SignInInv, [SignInNext]_signInVars
             PROVE  SignInInv'
    OBVIOUS
<1> USE DEF SignInInv
<1>. PostsOK /\ CodesOK /\ LinksOK /\ PeopleOK
    OBVIOUS
<1>1. ASSUME NEW p \in Posts, NEW k \in Keys, NEW e \in Emails, StartRegistration(p, k, e)
      PROVE  SignInInv'
    <2>1. Grows
        BY <1>1, Stable DEF StartRegistration
    <2>2. IdlePost.ref \in Codes \cup Links
        BY IdleOK
    <2>3. PostsOK'
        BY <1>1, <2>1, <2>2, BeginPart DEF StartRegistration, PostPc
    <2>4. QED
        BY <1>1, <2>3, CodesKept, LinksKept, PeopleKept DEF StartRegistration
<1>2. ASSUME NEW p \in Posts, IssueLink(p)
      PROVE  SignInInv'
    <2>. PICK l \in Links :
            /\ ~links[l].made
            /\ links' = [links EXCEPT ![l] = [NoLink EXCEPT
                  !.made = TRUE, !.email = posts[p].email, !.owned = (posts[p].at = "owning")]]
            /\ posts' = [posts EXCEPT ![p].at = "link_issued", ![p].ref = l]
        BY <1>2 DEF IssueLink
    <2>. PICK owned \in BOOLEAN : owned = (posts[p].at = "owning")
        OBVIOUS
    <2>. PICK row : row = [NoLink EXCEPT !.made = TRUE, !.email = posts[p].email, !.owned = owned]
        OBVIOUS
    <2>. PICK r : r = [posts[p] EXCEPT !.at = "link_issued", !.ref = l]
        OBVIOUS
    <2>1. posts[p] \in Post /\ posts[p].email \in Emails
        BY <1>2 DEF IssueLink, PostsOK, PostOK
    <2>2. row \in Link /\ row.made /\ row.email = posts[p].email
        BY <2>1 DEF NoLink, Link
    <2>3. links' = [links EXCEPT ![l] = row]
        BY Zenon
    <2>4. LinksOK'
        BY <2>1, <2>2, <2>3 DEF LinksOK
    <2>5. Grows
        BY <1>2, <2>2, <2>3 DEF IssueLink, Grows, LinksOK
    <2>6. links'[l].made
        BY <2>2, <2>3 DEF LinksOK
    <2>7. r \in Post /\ r.at = "link_issued" /\ r.ref = l /\ r.email \in Emails
        BY <2>1 DEF Post, PostPc
    <2>8. PostOK(r)'
        BY <2>6, <2>7 DEF PostOK, Keyless
    <2>9. posts' = [posts EXCEPT ![p] = r]
        BY <2>1 DEF PostsOK
    <2>10. PostsOK'
        BY <2>5, <2>8, <2>9, PostPart
    <2>11. QED
        BY <1>2, <2>4, <2>10, CodesKept, PeopleKept DEF IssueLink
<1>3. ASSUME NEW p \in Posts, IssueCode(p)
      PROVE  SignInInv'
    <2>. PICK c \in Codes :
            /\ ~codes[c].made
            /\ codes' = [codes EXCEPT ![c] = [NoCode EXCEPT
                  !.made = TRUE, !.email = posts[p].email, !.origin = posts[p].key]]
        BY <1>3 DEF IssueCode
    <2>. PICK row : row = [NoCode EXCEPT !.made = TRUE, !.email = posts[p].email,
                                         !.origin = posts[p].key]
        OBVIOUS
    <2>1. posts[p].key \in Keys /\ posts[p].email \in Emails
        BY <1>3 DEF IssueCode, PostsOK, PostOK, Keyless
    <2>2. row \in Code /\ row.made /\ ~row.used /\ row.origin = posts[p].key
        BY <2>1 DEF NoCode, Code
    <2>3. codes' = [codes EXCEPT ![c] = row] /\ UNCHANGED <<spent, links>>
        BY <1>3 DEF IssueCode
    <2>4. codes' \in [Codes -> Code] /\ spent[c] = {}
        BY <2>2, <2>3 DEF CodesOK
    <2>5. \A d \in Codes : (codes'[d].used => codes'[d].made) /\ (~codes'[d].used => spent'[d] = {})
        BY <2>2, <2>3, <2>4 DEF CodesOK
    <2>6. CodeKeepsSession'
        <3>1. SUFFICES ASSUME NEW d \in Codes
                       PROVE  IF codes'[d].origin = NoKey THEN Cardinality(spent'[d]) <= 1
                              ELSE spent'[d] \subseteq {codes'[d].origin}
            BY DEF CodeKeepsSession
        <3>2. CASE d # c
            BY <3>2, <2>3 DEF CodesOK, CodeKeepsSession
        <3>3. CASE d = c
            BY <3>3, <2>1, <2>2, <2>3, <2>4 DEF CodesOK
        <3>4. QED
            BY <3>2, <3>3
    <2>7. CodesOK'
        BY <2>3, <2>4, <2>5, <2>6 DEF CodesOK
    <2>8. Grows
        BY <2>2, <2>3 DEF Grows, CodesOK
    <2>9. PostsOK'
        BY <1>3, <2>8, GotoPart DEF IssueCode, Keyless
    <2>10. QED
        BY <1>3, <2>7, <2>9, LinksKept, PeopleKept DEF IssueCode
<1>4. ASSUME NEW p \in Posts, MailCode(p)
      PROVE  SignInInv'
    <2>. PICK s : s = [posts[p].seen EXCEPT !.pending = posts[p].email]
        OBVIOUS
    <2>1. s \in Session
        BY DEF PostsOK, PostOK, Post, Session
    <2>2. PeopleOK'
        BY <1>4, <2>1, SavedSession DEF MailCode, PeopleOK
    <2>3. PostsOK'
        BY <1>4, Stable, EndPart DEF MailCode
    <2>4. QED
        BY <1>4, <2>2, <2>3, CodesKept, LinksKept DEF MailCode
<1>5. ASSUME NEW p \in Posts, NEW k \in Keys, NEW c \in Codes, OpenVerify(p, k, c)
      PROVE  SignInInv'
    <2>1. sessions[k].pending \in Emails /\ codes'[c].made /\ Grows
        BY <1>5, Stable DEF OpenVerify, PeopleOK, Session
    <2>2. PostsOK'
        BY <1>5, <2>1, BeginPart DEF OpenVerify, PostPc
    <2>3. QED
        BY <1>5, <2>2, CodesKept, LinksKept, PeopleKept DEF OpenVerify
<1>6. ASSUME NEW p \in Posts, FirstUse(p)
      PROVE  SignInInv'
    <2>1. posts[p].email \in Emails
        BY <1>6 DEF FirstUse, PostsOK, PostOK
    <2>2. CodesOK' /\ Grows
        BY <1>6, SpentPart DEF FirstUse
    <2>3. PostsOK'
        BY <1>6, <2>2, GotoPart DEF FirstUse, Keyless
    <2>4. PeopleOK'
        BY <1>6, <2>1 DEF FirstUse, PeopleOK
    <2>5. QED
        BY <1>6, <2>2, <2>3, <2>4, LinksKept DEF FirstUse
<1>7. ASSUME NEW p \in Posts, Replay(p)
      PROVE  SignInInv'
    <2>1. posts[p].email \in Emails /\ posts[p].ref \in Codes
        BY <1>7 DEF Replay, PostsOK, PostOK
    <2>2. codes' = [codes EXCEPT ![posts[p].ref].used = TRUE]
        <3>. PICK row \in Code : row = codes[posts[p].ref]
            BY <2>1 DEF CodesOK
        <3>1. row.used = TRUE
            BY <1>7 DEF Replay, Code
        <3>2. [row EXCEPT !.used = TRUE] = row
            BY <3>1 DEF Code
        <3>3. [codes EXCEPT ![posts[p].ref] = [row EXCEPT !.used = TRUE]] = codes
            BY <2>1, <3>2 DEF CodesOK
        <3>4. QED
            BY <1>7, <3>3 DEF Replay
    <2>3. CodesOK' /\ Grows
        BY <1>7, <2>2, SpentPart DEF Replay
    <2>4. PostsOK'
        BY <1>7, <2>3, GotoPart DEF Replay, Keyless
    <2>5. PeopleOK'
        BY <1>7, <2>1 DEF Replay, PeopleOK
    <2>6. QED
        BY <1>7, <2>3, <2>4, <2>5, LinksKept DEF Replay
<1>8. ASSUME NEW p \in Posts, RefuseCode(p)
      PROVE  SignInInv'
    <2>. PICK r : r = [posts[p] EXCEPT !.at = "refused"]
        OBVIOUS
    <2>1. PostOK(posts[p])
        BY DEF PostsOK
    <2>2. r \in Post /\ r.at = "refused" /\ r.key = posts[p].key /\ r.email = posts[p].email
            /\ r.ref = posts[p].ref
        BY <2>1 DEF PostOK, Post, PostPc
    <2>3. r.ref \in Codes /\ codes[r.ref].made /\ r.key \in Keys /\ r.email \in Emails
        BY <1>8, <2>1, <2>2 DEF RefuseCode, PostOK, Keyless
    <2>4. (codes[r.ref].origin = r.key /\ codes[r.ref].email = r.email) => codes[r.ref].expired
        BY <1>8, <2>2 DEF RefuseCode, Live, Matches, InScope, Replayable
    <2>5. PostOK(r)'
        BY <1>8, <2>2, <2>3, <2>4 DEF RefuseCode, PostOK
    <2>6. posts' = [posts EXCEPT ![p] = r]
        BY <1>8 DEF RefuseCode, Goto, PostsOK
    <2>7. PostsOK'
        BY <1>8, <2>5, <2>6, Stable, PostPart DEF RefuseCode
    <2>8. QED
        BY <1>8, <2>7, CodesKept, LinksKept, PeopleKept DEF RefuseCode
<1>9. ASSUME NEW p \in Posts, LogIn(p)
      PROVE  SignInInv'
    <2>. PICK s : s = [posts[p].seen EXCEPT !.account = posts[p].email, !.pending = NoEmail]
        OBVIOUS
    <2>1. s \in Session
        BY DEF PostsOK, PostOK, Post, Session
    <2>2. PeopleOK'
        BY <1>9, <2>1, SavedSession DEF LogIn, PeopleOK
    <2>3. PostsOK'
        BY <1>9, Stable, EndPart DEF LogIn
    <2>4. QED
        BY <1>9, <2>2, <2>3, CodesKept, LinksKept DEF LogIn
<1>10. ASSUME NEW p \in Posts, SendLink(p)
      PROVE  SignInInv'
    <2>1. posts[p].ref \in Links /\ links[posts[p].ref].made
        BY <1>10 DEF SendLink, PostsOK, PostOK
    <2>2. links' \in [Links -> Link]
        BY <1>10, <2>1 DEF SendLink, LinksOK, Link
    <2>3. \A l \in Links : links'[l].made = links[l].made /\ links'[l].email = links[l].email
                           /\ (links'[l].sent => links'[l].made)
        BY <1>10, <2>1 DEF SendLink, LinksOK, Link
    <2>4. LinksOK'
        BY <2>2, <2>3 DEF LinksOK
    <2>5. Grows
        BY <1>10, <2>3 DEF SendLink, Grows
    <2>6. PostsOK'
        BY <1>10, <2>5, EndPart DEF SendLink
    <2>7. QED
        BY <1>10, <2>4, <2>6, CodesKept, PeopleKept DEF SendLink
<1>11. ASSUME NEW p \in Posts, NEW k \in Keys, NEW l \in Links, OpenLink(p, k, l)
      PROVE  SignInInv'
    <2>1. links[l].email \in Emails /\ Grows
        BY <1>11, Stable DEF OpenLink, LinksOK
    <2>. PICK pc : pc = IF links[l].owned THEN "consuming" ELSE "adopting"
        OBVIOUS
    <2>2. PostsOK'
        BY <1>11, <2>1, BeginPart DEF OpenLink, PostPc
    <2>3. QED
        BY <1>11, <2>2, CodesKept, LinksKept, PeopleKept DEF OpenLink
<1>12. ASSUME NEW p \in Posts, UseLink(p)
      PROVE  SignInInv'
    <2>1. posts[p].email \in Emails /\ posts[p].at # "idle"
        BY <1>12 DEF UseLink, PostsOK, PostOK
    <2>. PICK taking \in BOOLEAN : taking = (posts[p].at = "taking")
        OBVIOUS
    <2>. PICK m : m = [links EXCEPT ![posts[p].ref].used = TRUE,
                                    ![posts[p].ref].owned = @ \/ taking]
        OBVIOUS
    <2>2. m \in [Links -> Link]
        <3>1. links \in [Links -> Link]
            BY DEF LinksOK
        <3>2. ASSUME NEW l \in Links
              PROVE  [links[l] EXCEPT !.used = TRUE, !.owned = @ \/ taking] \in Link
            BY <3>1 DEF Link
        <3>3. m = [l \in Links |-> IF l = posts[p].ref
                                 THEN [links[l] EXCEPT !.used = TRUE, !.owned = @ \/ taking]
                                 ELSE links[l]]
            BY <3>1 DEF Link
        <3>4. ASSUME NEW l \in Links PROVE m[l] \in Link
            BY ONLY <3>1, <3>2, <3>3
        <3> QED
            BY ONLY <3>3, <3>4
    <2>3. \A l \in Links : m[l].made = links[l].made /\ m[l].email = links[l].email
                           /\ m[l].sent = links[l].sent
        <3>1. links \in [Links -> Link]
            BY DEF LinksOK
        <3> QED
            BY ONLY <3>1, m = [links EXCEPT ![posts[p].ref].used = TRUE,
                                            ![posts[p].ref].owned = @ \/ taking] DEF Link
    <2>4. links' = m
        BY <1>12 DEF UseLink
    <2>5. LinksOK'
        BY <2>2, <2>3, <2>4 DEF LinksOK
    <2>6. Grows
        BY <1>12, <2>3, <2>4 DEF UseLink, Grows
    <2>7. PostsOK'
        BY <1>12, <2>1, <2>6, GotoPart DEF UseLink, Keyless
    <2>8. QED
        BY <1>12, <2>5, <2>7, CodesKept, PeopleKept DEF UseLink
<1>13. ASSUME NEW p \in Posts, AttachClaims(p)
      PROVE  SignInInv'
    <2>1. PostsOK'
        BY <1>13, Stable, GotoPart DEF AttachClaims, Keyless
    <2>2. PeopleOK'
        BY <1>13 DEF AttachClaims, PeopleOK
    <2>3. QED
        BY <1>13, <2>1, <2>2, CodesKept, LinksKept DEF AttachClaims
<1>14. ASSUME NEW p \in Posts, PostEnds(p)
      PROVE  SignInInv'
    <2>1. PostsOK'
        BY <1>14, Stable, EndPart DEF PostEnds
    <2>2. QED
        BY <1>14, <2>1, CodesKept, LinksKept, PeopleKept DEF PostEnds
<1>15. ASSUME NEW k \in Keys, Logout(k)
      PROVE  SignInInv'
    <2>1. PeopleOK'
        BY <1>15, OpenIsSession DEF Logout, PeopleOK
    <2>2. PostsOK'
        BY <1>15 DEF Logout, PostsOK, PostOK
    <2>3. QED
        BY <1>15, <2>1, <2>2, CodesKept, LinksKept DEF Logout
<1>16. ASSUME NEW e \in Emails, SetActive(e)
      PROVE  SignInInv'
    <2>1. PeopleOK'
        BY <1>16 DEF SetActive, PeopleOK
    <2>2. PostsOK'
        BY <1>16 DEF SetActive, PostsOK, PostOK
    <2>3. QED
        BY <1>16, <2>1, <2>2, CodesKept, LinksKept DEF SetActive
<1>17. ASSUME Expire
      PROVE  SignInInv'
    <2>1. PeopleOK'
        BY <1>17, PeopleKept DEF Expire
    <2>2. CASE \E c \in Codes : codes[c].made /\ codes' = [codes EXCEPT ![c].expired = TRUE]
                                 /\ UNCHANGED links
        <3>. PICK c \in Codes : codes[c].made /\ codes' = [codes EXCEPT ![c].expired = TRUE]
                                /\ UNCHANGED links
            BY <2>2
        <3>. [codes[c] EXCEPT !.expired = TRUE] \in Code
            BY DEF CodesOK, Code
        <3>1. codes' \in [Codes -> Code] /\ UNCHANGED <<spent, posts>>
            BY <1>17 DEF Expire, CodesOK
        <3>2. \A d \in Codes :
                 /\ codes'[d].made = codes[d].made
                 /\ codes'[d].used = codes[d].used
                 /\ codes'[d].origin = codes[d].origin
                 /\ codes'[d].email = codes[d].email
                 /\ codes[d].expired => codes'[d].expired
            BY DEF CodesOK, Code
        <3>3. CodesOK'
            BY <3>1, <3>2 DEF CodesOK, CodeKeepsSession
        <3>4. PostsOK'
            BY <3>1, <3>2 DEF PostsOK, PostOK
        <3>5. QED
            BY <2>1, <3>3, <3>4, LinksKept
    <2>3. CASE \E l \in Links : links[l].made /\ links' = [links EXCEPT ![l].expired = TRUE]
                                 /\ UNCHANGED codes
        <3>. PICK l \in Links : links[l].made /\ links' = [links EXCEPT ![l].expired = TRUE]
                                /\ UNCHANGED codes
            BY <2>3
        <3>1. links' \in [Links -> Link] /\ UNCHANGED <<spent, posts>>
            <4>1. links \in [Links -> Link]
                BY DEF LinksOK
            <4>2. [links[l] EXCEPT !.expired = TRUE] \in Link
                BY <4>1 DEF Link
            <4>3. links' = [links EXCEPT ![l].expired = TRUE]
                OBVIOUS
            <4> QED
                BY <1>17, <4>1, <4>2, <4>3 DEF Expire
        <3>2. \A m \in Links : links'[m].made = links[m].made /\ links'[m].email = links[m].email
                               /\ links'[m].sent = links[m].sent
            <4>1. links \in [Links -> Link]
                BY DEF LinksOK
            <4> QED
                BY ONLY <4>1, links' = [links EXCEPT ![l].expired = TRUE] DEF Link
        <3>3. LinksOK'
            BY <3>1, <3>2 DEF LinksOK
        <3>4. PostsOK'
            BY <3>1, <3>2 DEF PostsOK, PostOK
        <3>5. QED
            BY <2>1, <3>1, <3>3, <3>4, CodesKept
    <2>4. QED
        BY <1>17, <2>2, <2>3 DEF Expire
<1>18. ASSUME NEW p \in Posts, NEW e \in Emails, AskLink(p, e)
      PROVE  SignInInv'
    <2>. PICK pc \in {"asking", "claiming"} : pc = IF e \in accounts THEN "asking" ELSE "claiming"
        OBVIOUS
    <2>. PICK r : r = [IdlePost EXCEPT !.at = pc, !.email = e]
        OBVIOUS
    <2>1. IdlePost \in Post
        BY IdleOK DEF PostOK
    <2>2. r \in Post /\ r.at = pc /\ r.email = e
        BY <2>1 DEF Post, PostPc
    <2>3. PostOK(r)'
        BY <2>2 DEF PostOK, Keyless
    <2>4. posts' = [posts EXCEPT ![p] = r]
        BY <1>18 DEF AskLink
    <2>5. PostsOK'
        BY <1>18, <2>3, <2>4, Stable, PostPart DEF AskLink
    <2>6. QED
        BY <1>18, <2>5, CodesKept, LinksKept, PeopleKept DEF AskLink
<1>19. ASSUME NEW p \in Posts, NoLiveLink(p)
      PROVE  SignInInv'
    <2>1. PostsOK'
        BY <1>19, Stable, GotoPart DEF NoLiveLink, Keyless
    <2>2. QED
        BY <1>19, <2>1, CodesKept, LinksKept, PeopleKept DEF NoLiveLink
<1>20. ASSUME NEW p \in Posts, EnsureAccount(p)
      PROVE  SignInInv'
    <2>1. posts[p].email \in Emails
        BY <1>20 DEF EnsureAccount, PostsOK, PostOK
    <2>2. PostsOK'
        BY <1>20, Stable, GotoPart DEF EnsureAccount, Keyless
    <2>3. PeopleOK'
        BY <1>20, <2>1 DEF EnsureAccount, PeopleOK
    <2>4. QED
        BY <1>20, <2>2, <2>3, CodesKept, LinksKept DEF EnsureAccount
<1>21. CASE UNCHANGED signInVars
    <2>1. PostsOK'
        BY <1>21 DEF signInVars, PostsOK, PostOK
    <2>2. QED
        BY <1>21, <2>1, CodesKept, LinksKept, PeopleKept DEF signInVars
<1>22. QED
    BY <1>1, <1>2, <1>3, <1>4, <1>5, <1>6, <1>7, <1>8, <1>9, <1>10, <1>11, <1>12, <1>13,
       <1>14, <1>15, <1>16, <1>17, <1>18, <1>19, <1>20, <1>21 DEF SignInNext

LEMMA SignInAlwaysInv == SignInSpec => []SignInInv
BY SignInInvInit, StepKeepsInv, PTL DEF SignInSpec

-----------------------------------------------------------------------------

\* Every variable keeps its type.
THEOREM SignInTypeCorrect == SignInSpec => []SignInTypeOK
BY SignInAlwaysInv, SignInTypes, PTL

\* A code signs in the session that asked for it and no other
\* (accounts/services.py:292-300, :325-326).
THEOREM CodeStaysWithSession == SignInSpec => []CodeKeepsSession
<1>1. SignInInv => CodeKeepsSession
    BY DEF SignInInv, CodesOK
<1>2. QED
    BY <1>1, SignInAlwaysInv, PTL

\* A parent's own code is refused only once it has expired
\* (accounts/services.py:318-324).
THEOREM OwnCodeAccepted == SignInSpec => []DuplicateAccepted
<1>1. SignInInv => DuplicateAccepted
    BY DEF SignInInv, PostsOK, PostOK, DuplicateAccepted
<1>2. QED
    BY <1>1, SignInAlwaysInv, PTL

-----------------------------------------------------------------------------
(* The verification page *)

\* A check that is under way locks the page, and so does a submission; what was
\* posted is posted by the one submission.
PageInv ==
    /\ VerifyPageTypeOK
    /\ posted.times = IF submitting THEN 1 ELSE 0
    /\ posted.verdict \subseteq {posted.digits}
    /\ locked <=> (InFlight \/ submitting)
    /\ ~(InFlight /\ submitting)

LEMMA PageInvInit == VerifyPageInit => PageInv
<1> SUFFICES ASSUME VerifyPageInit
             PROVE  PageInv
    OBVIOUS
<1> USE DEF VerifyPageInit, Inputs, InFlight
<1>1. posted \in [times : 0 .. 2, digits : Inputs, verdict : SUBSET SixDigits]
    OBVIOUS
<1>2. VerifyPageTypeOK
    BY <1>1 DEF VerifyPageTypeOK
<1>3. QED
    BY <1>2 DEF PageInv

LEMMA PageInvStep == PageInv /\ [VerifyPageNext]_verifyVars => PageInv'
<1> SUFFICES ASSUME PageInv, [VerifyPageNext]_verifyVars
             PROVE  PageInv'
    OBVIOUS
<1> USE VerifyPageAssumption DEF PageInv, VerifyPageTypeOK, InFlight, Inputs
<1>1. CASE \E digits \in Inputs : Edit(digits)
    <2>1. PICK digits \in Inputs : Edit(digits)
        BY <1>1
    <2>2. CASE Checks(digits, lastChecked) /\ ~InFlight
        BY <2>1, <2>2 DEF Edit, Checks
    <2>3. CASE ~(Checks(digits, lastChecked) /\ ~InFlight)
        BY <2>1, <2>3 DEF Edit
    <2>4. QED
        BY <2>2, <2>3
<1>2. CASE DiscardStale
    <2>1. CASE Checks(input, Partial)
        BY <1>2, <2>1 DEF DiscardStale, Stale, Checks
    <2>2. CASE ~Checks(input, Partial)
        BY <1>2, <2>2 DEF DiscardStale, Stale
    <2>3. QED
        BY <2>1, <2>2
<1>3. CASE ValidVerdict
    BY <1>3 DEF ValidVerdict, Stale, Posting
<1>4. CASE NoVerdict
    BY <1>4 DEF NoVerdict, Stale
<1>5. CASE SubmitByHand
    BY <1>5 DEF SubmitByHand, Posting
<1>6. CASE UNCHANGED verifyVars
    BY <1>6 DEF verifyVars
<1>7. QED
    BY <1>1, <1>2, <1>3, <1>4, <1>5, <1>6 DEF VerifyPageNext

LEMMA PageInvAlways == VerifyPageSpec => []PageInv
BY PageInvInit, PageInvStep, PTL DEF VerifyPageSpec

\* The page's variables keep their types.
THEOREM VerifyPageTypeCorrect == VerifyPageSpec => []VerifyPageTypeOK
<1>1. PageInv => VerifyPageTypeOK
    BY DEF PageInv
<1>2. QED
    BY <1>1, PageInvAlways, PTL

\* One native POST at most, and a scripted one carries the digits its verdict
\* was about (verify_code.js:8-22).
THEOREM PostsOnce == VerifyPageSpec => []OnePost
<1>1. PageInv => OnePost
    BY DEF PageInv, OnePost
<1>2. QED
    BY <1>1, PageInvAlways, PTL

\* The page is locked exactly while a check or the submission is under way
\* (verify_code.js:11-16).
THEOREM LockedOnlyWhileBusy == VerifyPageSpec => []LockedWhileBusy
<1>1. PageInv => LockedWhileBusy
    BY DEF PageInv, LockedWhileBusy
<1>2. QED
    BY <1>1, PageInvAlways, PTL

-----------------------------------------------------------------------------
(* The four of them side by side *)

\* A step of MCIntake is one of the module in focus and leaves the others as
\* they are, so each behaves as its own specification says, fairness apart, and
\* the invariants proved of it hold of what the run explores.
THEOREM IntakeRunsParts ==
    IntakeSpec => /\ SignInSpec /\ VerifyPageSpec
                  /\ ReviewInit /\ [][ReviewNext]_reviewVars
                  /\ OcrInit /\ [][OcrNext]_ocrVars
<1>1. IntakeInit => SignInInit /\ VerifyPageInit /\ ReviewInit /\ OcrInit
    BY DEF IntakeInit
<1>2. [IntakeNext]_intakeVars => [SignInNext]_signInVars
    BY DEF IntakeNext, intakeVars
<1>3. [IntakeNext]_intakeVars => [VerifyPageNext]_verifyVars
    BY DEF IntakeNext, intakeVars
<1>4. [IntakeNext]_intakeVars => [ReviewNext]_reviewVars
    BY DEF IntakeNext, intakeVars
<1>5. [IntakeNext]_intakeVars => [OcrNext]_ocrVars
    BY DEF IntakeNext, intakeVars
<1>6. QED
    BY <1>1, <1>2, <1>3, <1>4, <1>5, PTL DEF IntakeSpec, SignInSpec, VerifyPageSpec

\* Every component's rows and requests keep their types, whatever their
\* interleaving writes.
THEOREM IntakeTypeCorrect == IntakeSpec => []IntakeTypeOK
<1>1. ReviewInit /\ [][ReviewNext]_reviewVars => []ReviewInv
    <2>1. ReviewInv /\ [ReviewNext]_reviewVars => ReviewInv'
        BY ReviewStep
    <2>2. QED
        BY <2>1, ReviewInvInit, PTL
<1>2. OcrInit /\ [][OcrNext]_ocrVars => []OcrInv
    BY OcrInvInit, StepKeepsOcrInv, PTL
<1>3. ReviewInv => ReviewTypeOK
    BY DEF ReviewInv
<1>4. QED
    BY <1>1, <1>2, <1>3, OcrInvType, IntakeRunsParts, SignInTypeCorrect, VerifyPageTypeCorrect,
       PTL DEF IntakeTypeOK
=============================================================================
