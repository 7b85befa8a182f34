--------------------------- MODULE SignedArtifact ---------------------------
(***************************************************************************)
(* The signed copy of one agreement: upload_signed_artifact stores the file *)
(* and the row in one transaction and deletes the file it replaced once the *)
(* transaction has committed. Unlike a permit's, the file's name comes from *)
(* the uploaded file: storage hands out the wanted name if it is free and   *)
(* another one if it is not, so a deleted file's name is used again.        *)
(***************************************************************************)
EXTENDS Naturals

CONSTANTS
    ArtifactRequests,  \* upload requests that may be under way
    ArtifactNames,     \* names in the day's directory
    WantedName,        \* the name of the file staff upload
    NoName             \* a blank file column

ASSUME NamesAssumption == WantedName \in ArtifactNames /\ NoName \notin ArtifactNames

VARIABLES
    artifact,   \* Agreement.signed_artifact
    vault,      \* files present in private storage
    sending,    \* the requests
    overlapped  \* history: one was read while another was under way

artifactVars == <<artifact, vault, sending, overlapped>>

Names == ArtifactNames \cup {NoName}

\* old is the name on the agreement as the request read it.
Sending == [at : {"idle", "read", "written", "failing", "committed"}, old : Names, new : Names]

ArtifactTypeOK ==
    /\ artifact \in Names
    /\ vault \in SUBSET ArtifactNames
    /\ sending \in [ArtifactRequests -> Sending]
    /\ overlapped \in BOOLEAN

NotSending == [at |-> "idle", old |-> NoName, new |-> NoName]

ArtifactInit ==
    /\ artifact = NoName
    /\ vault = {}
    /\ sending = [q \in ArtifactRequests |-> NotSending]
    /\ overlapped = FALSE

-----------------------------------------------------------------------------

Done(q) == sending' = [sending EXCEPT ![q] = NotSending]

\* signed_artifact_upload_view reads the agreement; a refused file ends here.
ReadAgreement(q) ==
    /\ sending[q].at = "idle"
    /\ sending' = [sending EXCEPT ![q].at = "read", ![q].old = artifact]
    /\ overlapped' = (overlapped \/ \E r \in ArtifactRequests : sending[r].at # "idle")
    /\ UNCHANGED <<artifact, vault>>

\* Storage's get_available_name.
Available(f) ==
    /\ f \notin vault
    /\ WantedName \notin vault => f = WantedName

WriteArtifact(q) ==
    /\ sending[q].at = "read"
    /\ \E f \in ArtifactNames :
          /\ Available(f)
          /\ vault' = vault \cup {f}
          /\ sending' = [sending EXCEPT ![q].at = "written", ![q].new = f]
    /\ UNCHANGED <<artifact, overlapped>>

\* The row and its audit event commit.
CommitArtifact(q) ==
    /\ sending[q].at = "written"
    /\ artifact' = sending[q].new
    /\ sending' = [sending EXCEPT ![q].at = "committed"]
    /\ UNCHANGED <<vault, overlapped>>

\* The save raises: rolled back.
RollBack(q) ==
    /\ sending[q].at = "written"
    /\ sending' = [sending EXCEPT ![q].at = "failing"]
    /\ UNCHANGED <<artifact, vault, overlapped>>

\* Variant: the agreement's old file goes with the failed one.
RemoveBoth(q) ==
    /\ sending[q].at = "failing"
    /\ vault' \in {vault, vault \ {sending[q].new, sending[q].old}}
    /\ Done(q)
    /\ UNCHANGED <<artifact, overlapped>>

\* The new file is removed, best effort.
RemoveNew(q) ==
    /\ sending[q].at = "failing"
    /\ vault' \in {vault, vault \ {sending[q].new}}
    /\ Done(q)
    /\ UNCHANGED <<artifact, overlapped>>

\* on_commit: delete the file the request replaced, by its name as read.
DeleteOld(q) ==
    /\ sending[q].at = "committed"
    /\ vault' = vault \ {sending[q].old}
    /\ Done(q)
    /\ UNCHANGED <<artifact, overlapped>>

SendingDies(q) ==
    /\ sending[q].at # "idle"
    /\ Done(q)
    /\ UNCHANGED <<artifact, vault, overlapped>>

ArtifactStep(q) ==
    \/ ReadAgreement(q)
    \/ WriteArtifact(q)
    \/ CommitArtifact(q)
    \/ RollBack(q)
    \/ RemoveNew(q)
    \/ DeleteOld(q)
    \/ SendingDies(q)

ArtifactNext == \E q \in ArtifactRequests : ArtifactStep(q)

ArtifactSpec == ArtifactInit /\ [][ArtifactNext]_artifactVars

-----------------------------------------------------------------------------
(* Properties *)

\* As long as uploads follow each other, the agreement never names a deleted
\* file, although a name freed by one upload is handed out to the next and any
\* of them may break off (agreements/models.py:85-87). Uploads that overlap can:
\* the one that ends last deletes by name what the other has stored anew.
ArtifactStored == (~overlapped /\ artifact # NoName) => artifact \in vault
=============================================================================
