----------------------------- MODULE BlobStore -----------------------------
(***************************************************************************)
(* How Control stores the bytes of one record (an input, a context, a      *)
(* model output) exactly once: a stage row with an id derived from the     *)
(* record, a staged file, a hard link at the content address, a committed  *)
(* row.  Database and file system fail separately, so every step of        *)
(* commitControlBlob can be the last, and the caller starts over.          *)
(*   inputgateway/postgres.go   commitControlBlob and its transactions     *)
(*   blob/local.go              the files                                  *)
(*   migrations 0002, 0013      begin_stage, record_stage_facts,           *)
(*                              resume_agent_control_stage, commit_stage   *)
(* A digest stands for the bytes it is the digest of.  No program of the   *)
(* repository calls the garbage collector's functions; they are left out.  *)
(***************************************************************************)
EXTENDS Naturals, FiniteSets

CONSTANTS Records,     \* records to store; a record's stage id is the record
          Digests,     \* contents
          Requests,    \* <<record, digest>> pairs callers ask to store
          BlobWriters, \* concurrent callers of commitControlBlob
          BlobReaders,
          BlobFaults   \* bound on failed calls and crashes

ASSUME BlobConstants ==
  /\ BlobFaults \in Nat /\ Requests \subseteq Records \X Digests
  /\ "none" \notin Digests /\ "partial" \notin Digests

VARIABLES stageRow,     \* blob.blob_stage and, once committed, blob.blob_object
          contentRow,   \* blob.blob_content
          stageFile,    \* staging/<stage>.blob: none, partial or the digest of its bytes
          contentFile,  \* sha256/<digest>.blob
          writer, reader, blobFaults

blobVars == <<stageRow, contentRow, stageFile, contentFile, writer, reader, blobFaults>>

NoStage == [state |-> "none", expected |-> "none", expired |-> FALSE, commits |-> 0]
Unused == [pc |-> "unused", record |-> "none", digest |-> "none"]

BlobInit ==
  /\ stageRow = [r \in Records |-> NoStage]
  /\ contentRow = [d \in Digests |-> "none"]
  /\ stageFile = [r \in Records |-> "none"]
  /\ contentFile = [d \in Digests |-> "none"]
  /\ writer = [w \in BlobWriters |-> Unused]
  /\ reader = [n \in BlobReaders |-> "none"]
  /\ blobFaults = 0

Go(w, pc) == writer' = [writer EXCEPT ![w] = IF pc = "unused" THEN Unused ELSE [@ EXCEPT !.pc = pc]]

---------------------------------------------------------------------------
(* The calls that store a record *)

Commits(w, r, d) ==
  /\ writer[w] = Unused /\ <<r, d>> \in Requests
  /\ writer' = [writer EXCEPT ![w] = [pc |-> "begin", record |-> r, digest |-> d]]
  /\ UNCHANGED <<stageRow, contentRow, stageFile, contentFile, reader, blobFaults>>

\* The caller of a call that failed makes it again, with the same bytes.
TriesAgain(w) ==
  /\ writer[w].pc = "again"
  /\ Go(w, "begin")
  /\ UNCHANGED <<stageRow, contentRow, stageFile, contentFile, reader, blobFaults>>

\* beginStage: the first call fixes the expected digest and the expiry of a
\* stage; a call with another digest is refused.
BeginStage(w) ==
  LET r == writer[w].record
      row == stageRow[r]
  IN /\ writer[w].pc = "begin"
     /\ stageRow' = IF row.state = "none"
                    THEN [stageRow EXCEPT ![r].state = "open", ![r].expected = writer[w].digest]
                    ELSE stageRow
     /\ Go(w, IF row.expected \in {"none", writer[w].digest} THEN "resume" ELSE "unused")
     /\ UNCHANGED <<contentRow, stageFile, contentFile, reader, blobFaults>>

\* resumeStage: a committed stage is the answer.
ResumeStage(w) ==
  /\ writer[w].pc = "resume"
  /\ Go(w, IF stageRow[writer[w].record].state = "committed" THEN "unused" ELSE "stage")
  /\ UNCHANGED <<stageRow, contentRow, stageFile, contentFile, reader, blobFaults>>

\* Mutant: a file that exists is taken for the right one.
VerifiesPresence(file, digest) == file # "none"

\* verifyOpenFile: the size and the digest of what is in the file.
Verifies(file, digest) == file = digest

\* Mutant: a file left by an earlier call is an error.
StageExclusively(w) ==
  LET r == writer[w].record
  IN /\ writer[w].pc = "stage"
     /\ IF stageFile[r] = "none" /\ ~stageRow[r].expired
        THEN Go(w, "write") /\ stageFile' = [stageFile EXCEPT ![r] = "partial"]
        ELSE Go(w, "again") /\ UNCHANGED stageFile
     /\ UNCHANGED <<stageRow, contentRow, contentFile, reader, blobFaults>>

\* LocalStore.Stage up to the creation of the file (O_EXCL).  A file that is
\* there is taken when it has the expected bytes; an expired grant is refused.
StageCreates(w) ==
  LET r == writer[w].record
  IN /\ writer[w].pc = "stage"
     /\ IF stageRow[r].expired THEN Go(w, "unused") /\ UNCHANGED stageFile
        ELSE IF stageFile[r] = "none"
        THEN Go(w, "write") /\ stageFile' = [stageFile EXCEPT ![r] = "partial"]
        ELSE /\ Go(w, IF Verifies(stageFile[r], writer[w].digest) THEN "facts" ELSE "again")
             /\ UNCHANGED stageFile
     /\ UNCHANGED <<stageRow, contentRow, contentFile, reader, blobFaults>>

\* The bytes are written and synced; a grant that ran out meanwhile takes the
\* file away again.
StageWrites(w) ==
  LET r == writer[w].record
  IN /\ writer[w].pc = "write"
     /\ stageFile' = [stageFile EXCEPT ![r] = IF stageRow[r].expired THEN "none" ELSE writer[w].digest]
     /\ Go(w, IF stageRow[r].expired THEN "unused" ELSE "facts")
     /\ UNCHANGED <<stageRow, contentRow, contentFile, reader, blobFaults>>

\* AuthorizeBlobMaterialize: reconcile_stage_facts.
RecordStageFacts(w) ==
  LET r == writer[w].record
      d == writer[w].digest
      first == stageRow[r].state = "open"
      denied == first /\ stageRow[r].expired
  IN /\ writer[w].pc = "facts"
     /\ stageRow' = IF first /\ ~denied THEN [stageRow EXCEPT ![r].state = "materialized"] ELSE stageRow
     /\ contentRow' = IF first /\ ~denied /\ contentRow[d] = "none"
                      THEN [contentRow EXCEPT ![d] = "staged"] ELSE contentRow
     /\ Go(w, IF denied THEN "unused" ELSE "link")
     /\ UNCHANGED <<stageFile, contentFile, reader, blobFaults>>

\* LocalStore.Materialize: the staged file is verified and linked; a content
\* file that is there already is verified instead.
Materialize(w) ==
  LET r == writer[w].record
      d == writer[w].digest
      linked == Verifies(stageFile[r], d) /\ contentFile[d] = "none"
      ready == Verifies(stageFile[r], d) /\ (linked \/ Verifies(contentFile[d], d))
  IN /\ writer[w].pc = "link"
     /\ contentFile' = IF linked THEN [contentFile EXCEPT ![d] = stageFile[r]] ELSE contentFile
     /\ Go(w, IF ready THEN "commit" ELSE "again")
     /\ UNCHANGED <<stageRow, contentRow, stageFile, reader, blobFaults>>

\* commitStage: the object row is inserted by the first commit of the stage.
CommitStage(w) ==
  LET r == writer[w].record
      d == writer[w].digest
      first == stageRow[r].state = "materialized" /\ ~stageRow[r].expired
  IN /\ writer[w].pc = "commit"
     /\ stageRow' = IF first THEN [stageRow EXCEPT ![r].state = "committed", ![r].commits = @ + 1]
                             ELSE stageRow
     /\ contentRow' = IF first THEN [contentRow EXCEPT ![d] = "committed"] ELSE contentRow
     /\ Go(w, "unused")
     /\ UNCHANGED <<stageFile, contentFile, reader, blobFaults>>

---------------------------------------------------------------------------
(* Failures *)

\* A call fails.  A failed Stage removes the file it created.
WriterFails(w) ==
  /\ writer[w].pc \notin {"unused", "again"}
  /\ blobFaults < BlobFaults
  /\ blobFaults' = blobFaults + 1
  /\ stageFile' = IF writer[w].pc = "write" THEN [stageFile EXCEPT ![writer[w].record] = "none"]
                                            ELSE stageFile
  /\ Go(w, "again")
  /\ UNCHANGED <<stageRow, contentRow, contentFile, reader>>

\* The process dies, and what is on disk stays.
WriterDies(w) ==
  /\ writer[w].pc \notin {"unused", "again"}
  /\ blobFaults < BlobFaults
  /\ blobFaults' = blobFaults + 1
  /\ Go(w, "again")
  /\ UNCHANGED <<stageRow, contentRow, stageFile, contentFile, reader>>

\* Five minutes after the first begin_stage.
StageExpires(r) ==
  /\ stageRow[r].state \in {"open", "materialized"} /\ ~stageRow[r].expired
  /\ stageRow' = [stageRow EXCEPT ![r].expired = TRUE]
  /\ UNCHANGED <<contentRow, stageFile, contentFile, writer, reader, blobFaults>>

---------------------------------------------------------------------------
\* OpenVerified: authorize_read knows committed objects only.
OpenVerified(n, r) ==
  LET d == stageRow[r].expected
  IN /\ stageRow[r].state = "committed" /\ contentRow[d] = "committed"
     /\ reader' = [reader EXCEPT ![n] = IF Verifies(contentFile[d], d) THEN "read" ELSE "failed"]
     /\ UNCHANGED <<stageRow, contentRow, stageFile, contentFile, writer, blobFaults>>

CommitControlBlob(w) ==
  \/ TriesAgain(w) \/ BeginStage(w) \/ ResumeStage(w) \/ StageCreates(w) \/ StageWrites(w)
  \/ RecordStageFacts(w) \/ Materialize(w) \/ CommitStage(w)

BlobNext ==
  \/ \E w \in BlobWriters, r \in Records, d \in Digests : Commits(w, r, d)
  \/ \E w \in BlobWriters : CommitControlBlob(w) \/ WriterFails(w) \/ WriterDies(w)
  \/ \E r \in Records : StageExpires(r)
  \/ \E n \in BlobReaders, r \in Records : OpenVerified(n, r)

BlobSpec == BlobInit /\ [][BlobNext]_blobVars

---------------------------------------------------------------------------
\* A record that is committed was committed once, for the digest of its first
\* request, and its content file holds exactly those bytes, whatever other
\* callers of the same record or of the same bytes failed half-way: no read of
\* it ever fails (Materialize verifies before it links).
CommittedIsReadable ==
  /\ \A r \in Records : stageRow[r].state = "committed" =>
       /\ stageRow[r].commits = 1
       /\ contentRow[stageRow[r].expected] = "committed"
       /\ contentFile[stageRow[r].expected] = stageRow[r].expected
  /\ \A n \in BlobReaders : reader[n] # "failed"

Torn(r) == stageFile[r] = "partial" /\ \A w \in BlobWriters : writer[w].pc = "write" => writer[w].record # r

\* A record whose caller keeps trying is committed, whatever step failed,
\* unless its five minutes are over or a process died while it wrote the staged
\* file: that file is never replaced (Stage, O_EXCL).
CommitSettles ==
  \A r \in Records :
    stageRow[r].state = "open" ~> stageRow[r].state = "committed" \/ stageRow[r].expired \/ Torn(r)
=============================================================================
