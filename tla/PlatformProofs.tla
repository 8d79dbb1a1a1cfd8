--------------------------- MODULE PlatformProofs ---------------------------
(***************************************************************************)
(* Proofs about the components of the agent platform that keep one record  *)
(* exactly once: the blob store, the paper effects, the tool calls and the *)
(* market triggers.                                                        *)
(***************************************************************************)
EXTENDS BlobStore, PaperEffects, CortexTools, DecisionTriggers, TLAPS

-----------------------------------------------------------------------------
(* The blob store                                                          *)

Files == Digests \union {"none", "partial"}
Staging == {"resume", "stage", "write", "facts", "link", "commit"}

StageRows == [state : {"none", "open", "materialized", "committed"},
              expected : Digests \union {"none"}, expired : BOOLEAN, commits : Nat]
WriterStates == [pc : Staging \union {"unused", "begin", "again"},
                 record : Records \union {"none"}, digest : Digests \union {"none"}]

BlobTypeOK ==
  /\ stageRow \in [Records -> StageRows]
  /\ contentRow \in [Digests -> {"none", "staged", "committed"}]
  /\ stageFile \in [Records -> Files]
  /\ contentFile \in [Digests -> Files]
  /\ writer \in [BlobWriters -> WriterStates]
  /\ reader \in [BlobReaders -> {"none", "read", "failed"}]
  /\ blobFaults \in Nat

\* The expected digest is fixed with the row, and a commit counts once.
RowFact(r) ==
  LET d == stageRow[r].expected
  IN /\ stageRow[r].state = "none" <=> d = "none"
     /\ stageRow[r].commits = IF stageRow[r].state = "committed" THEN 1 ELSE 0
     /\ stageRow[r].state = "committed" => contentRow[d] = "committed" /\ contentFile[d] = d

\* A file at a content address holds that content or is not there.
FileFact(d) == contentFile[d] \in {"none", d}

\* A caller that passed beginStage asks for the expected bytes, and commits only
\* what it saw at the content address.
WriterFact(w) ==
  LET r == writer[w].record
      d == writer[w].digest
  IN /\ writer[w].pc # "unused" => r \in Records /\ d \in Digests
     /\ writer[w].pc \in Staging => stageRow[r].expected = d
     /\ writer[w].pc = "commit" => contentFile[d] = d

BlobInv ==
  /\ BlobTypeOK
  /\ \A r \in Records : RowFact(r)
  /\ \A d \in Digests : FileFact(d)
  /\ \A w \in BlobWriters : WriterFact(w)
  /\ \A n \in BlobReaders : reader[n] # "failed"

LEMMA BlobInitInv == BlobInit => BlobInv
BY BlobConstants
   DEF BlobInit, BlobInv, BlobTypeOK, StageRows, WriterStates, Files, RowFact, FileFact, WriterFact,
       NoStage, Unused, Staging

\* One writer moves on, and the record it works on stays as its other callers know it.
LEMMA WriterMovesKeepsInv ==
    ASSUME BlobInv, NEW w \in BlobWriters, UNCHANGED reader, blobFaults' \in Nat,
           NEW s \in WriterStates, writer' = [writer EXCEPT ![w] = s],
           stageRow' \in [Records -> StageRows], stageFile' \in [Records -> Files],
           contentRow' \in [Digests -> {"none", "staged", "committed"}],
           contentFile' \in [Digests -> Files],
           \A r \in Records : RowFact(r)', \A d \in Digests : FileFact(d)',
           \A r \in Records : stageRow[r].expected \in {"none", stageRow'[r].expected},
           \A d \in Digests : contentFile[d] = d => contentFile'[d] = d,
           s.pc # "unused" => s.record \in Records /\ s.digest \in Digests,
           s.pc \in Staging => stageRow'[s.record].expected = s.digest,
           s.pc = "commit" => contentFile'[s.digest] = s.digest
    PROVE  BlobInv'
<1>1. BlobTypeOK'
    BY DEF BlobInv, BlobTypeOK
<1>2. ASSUME NEW v \in BlobWriters PROVE WriterFact(v)'
  <2>1. CASE v = w
    BY <2>1 DEF BlobInv, BlobTypeOK, WriterFact
  <2>2. CASE v # w
    <3>1. writer'[v] = writer[v] /\ WriterFact(v)
      BY <2>2 DEF BlobInv, BlobTypeOK
    <3>2. writer[v].pc \in Staging => writer[v].pc # "unused" /\ writer[v].digest \in Digests
      BY <3>1 DEF WriterFact, Staging
    <3> QED
      BY <3>1, <3>2, BlobConstants DEF WriterFact, Staging
  <2> QED
    BY <2>1, <2>2
<1> QED
    BY <1>1, <1>2 DEF BlobInv

\* Control moves to pc with the same request, or is done.
LEMMA GoIs ==
    ASSUME BlobTypeOK, NEW w \in BlobWriters, NEW pc \in Staging \union {"unused", "begin", "again"}, Go(w, pc)
    PROVE  \E s \in WriterStates :
              /\ writer' = [writer EXCEPT ![w] = s] /\ s.pc = pc
              /\ pc # "unused" => s.record = writer[w].record /\ s.digest = writer[w].digest
<1>1. writer[w] \in WriterStates
    BY DEF BlobTypeOK
<1>2. CASE pc = "unused"
  <2>1. Unused \in WriterStates /\ Unused.pc = "unused"
    BY DEF Unused, WriterStates
  <2>2. writer' = [writer EXCEPT ![w] = Unused]
    BY <1>2 DEF Go
  <2> QED
    BY <1>2, <2>1, <2>2
<1>3. CASE pc # "unused"
  <2> DEFINE s == [writer[w] EXCEPT !.pc = pc]
  <2>1. s \in WriterStates /\ s.pc = pc /\ s.record = writer[w].record /\ s.digest = writer[w].digest
    BY <1>1 DEF WriterStates
  <2>2. writer' = [writer EXCEPT ![w] = s]
    BY <1>1, <1>3 DEF Go, BlobTypeOK
  <2> HIDE DEF s
  <2> QED
    BY <2>1, <2>2
<1> QED
    BY <1>2, <1>3

\* A step of a writer that leaves rows and content files alone.
LEMMA WriterGoesKeepsInv ==
    ASSUME BlobInv, NEW w \in BlobWriters, writer[w].pc # "unused",
           NEW pc \in Staging \union {"unused", "begin", "again"}, Go(w, pc),
           UNCHANGED <<stageRow, contentRow, contentFile, reader>>, blobFaults' \in Nat,
           stageFile' \in [Records -> Files],
           pc \in Staging => stageRow[writer[w].record].expected = writer[w].digest,
           pc = "commit" => contentFile[writer[w].digest] = writer[w].digest
    PROVE  BlobInv'
<1>1. PICK s \in WriterStates :
          /\ writer' = [writer EXCEPT ![w] = s] /\ s.pc = pc
          /\ pc # "unused" => s.record = writer[w].record /\ s.digest = writer[w].digest
    BY GoIs DEF BlobInv
<1>2. writer[w].record \in Records /\ writer[w].digest \in Digests
    BY DEF BlobInv, WriterFact
<1>3. (\A r \in Records : RowFact(r)') /\ (\A d \in Digests : FileFact(d)')
    BY DEF BlobInv, RowFact, FileFact
<1>4. pc \in Staging => pc # "unused"
    BY DEF Staging
<1> QED
    BY <1>1, <1>2, <1>3, <1>4, WriterMovesKeepsInv DEF BlobInv, BlobTypeOK, Staging

LEMMA CommitStepKeepsInv ==
    ASSUME BlobInv, NEW w \in BlobWriters, CommitControlBlob(w) PROVE BlobInv'
<1> DEFINE r == writer[w].record
           d == writer[w].digest
<1>0. BlobTypeOK /\ WriterFact(w)
    BY DEF BlobInv
<1>1. CASE TriesAgain(w)
    BY <1>0, <1>1, WriterGoesKeepsInv DEF TriesAgain, BlobTypeOK, Staging
<1>2. CASE BeginStage(w)
  <2>1. /\ writer[w].pc = "begin" /\ r \in Records /\ d \in Digests /\ stageRow[r] \in StageRows
        /\ RowFact(r) /\ UNCHANGED <<contentRow, stageFile, contentFile, reader, blobFaults>>
    BY <1>0, <1>2 DEF BeginStage, WriterFact, BlobInv, BlobTypeOK
  <2>2. CASE stageRow[r].state # "none"
    <3>1. UNCHANGED stageRow /\ stageRow[r].expected # "none"
      BY <1>2, <2>1, <2>2 DEF BeginStage, RowFact
    <3>2. Go(w, IF stageRow[r].expected = d THEN "resume" ELSE "unused")
      BY <1>2, <3>1 DEF BeginStage
    <3> QED
      BY <1>0, <2>1, <3>1, <3>2, WriterGoesKeepsInv DEF BlobTypeOK, Staging
  <2>3. CASE stageRow[r].state = "none"
    <3>1. /\ stageRow' = [stageRow EXCEPT ![r].state = "open", ![r].expected = d]
          /\ stageRow[r].expected = "none" /\ Go(w, "resume")
      BY <1>2, <2>1, <2>3 DEF BeginStage, RowFact
    <3>2. /\ stageRow' \in [Records -> StageRows]
          /\ stageRow'[r].state = "open" /\ stageRow'[r].expected = d
          /\ stageRow'[r].commits = stageRow[r].commits
          /\ \A q \in Records \ {r} : stageRow'[q] = stageRow[q]
      BY <1>0, <2>1, <3>1 DEF BlobTypeOK, StageRows
    <3>3. ASSUME NEW q \in Records PROVE RowFact(q)'
      BY <2>1, <2>3, <3>2, BlobConstants DEF BlobInv, RowFact
    <3>4. PICK s \in WriterStates :
              /\ writer' = [writer EXCEPT ![w] = s] /\ s.pc = "resume" /\ s.record = r /\ s.digest = d
      BY <1>0, <3>1, GoIs DEF Staging
    <3>5. \A e \in Digests : FileFact(e)'
      BY <2>1 DEF BlobInv, FileFact
    <3>6. \A q \in Records : stageRow[q].expected \in {"none", stageRow'[q].expected}
      BY <3>1, <3>2
    <3> QED
      BY <1>0, <2>1, <3>2, <3>3, <3>4, <3>5, <3>6, WriterMovesKeepsInv DEF BlobTypeOK
  <2> QED
    BY <2>2, <2>3
<1>3. CASE ResumeStage(w)
  <2>1. PICK pc \in {"unused", "stage"} : Go(w, pc)
    BY <1>3 DEF ResumeStage
  <2> QED
    BY <1>0, <1>3, <2>1, WriterGoesKeepsInv DEF ResumeStage, WriterFact, BlobTypeOK, Staging
<1>4. CASE StageCreates(w)
  <2>1. PICK pc \in {"unused", "write", "facts", "again"} : Go(w, pc)
    BY <1>4 DEF StageCreates
  <2>2. stageFile' \in [Records -> Files]
    BY <1>0, <1>4 DEF StageCreates, BlobTypeOK, Files
  <2> QED
    BY <1>0, <1>4, <2>1, <2>2, WriterGoesKeepsInv DEF StageCreates, WriterFact, BlobTypeOK, Staging
<1>5. CASE StageWrites(w)
  <2>1. PICK pc \in {"unused", "facts"} : Go(w, pc)
    BY <1>5 DEF StageWrites
  <2>2. stageFile' \in [Records -> Files]
    BY <1>0, <1>5 DEF StageWrites, WriterFact, BlobTypeOK, Files
  <2> QED
    BY <1>0, <1>5, <2>1, <2>2, WriterGoesKeepsInv DEF StageWrites, WriterFact, BlobTypeOK, Staging
<1>6. CASE RecordStageFacts(w)
  <2>1. PICK pc \in {"unused", "link"} : Go(w, pc)
    BY <1>6 DEF RecordStageFacts
  <2>2. PICK s \in WriterStates :
            /\ writer' = [writer EXCEPT ![w] = s] /\ s.pc = pc
            /\ pc # "unused" => s.record = r /\ s.digest = d
    BY <1>0, <2>1, GoIs DEF Staging
  <2>3. /\ writer[w].pc = "facts" /\ r \in Records /\ d \in Digests /\ stageRow[r] \in StageRows
        /\ stageRow[r].expected = d /\ RowFact(r) /\ UNCHANGED <<stageFile, contentFile, reader, blobFaults>>
    BY <1>0, <1>6 DEF RecordStageFacts, WriterFact, Staging, BlobInv, BlobTypeOK
  <2>4. /\ contentRow' \in [Digests -> {"none", "staged", "committed"}]
        /\ \A e \in Digests : contentRow[e] = "committed" => contentRow'[e] = "committed"
    BY <1>0, <1>6, <2>3 DEF RecordStageFacts, BlobTypeOK
  <2>5. stageRow' = stageRow \/ (stageRow[r].state = "open" /\ stageRow' = [stageRow EXCEPT ![r].state = "materialized"])
    BY <1>6 DEF RecordStageFacts
  <2>6. /\ stageRow' \in [Records -> StageRows]
        /\ \A q \in Records : stageRow'[q].expected = stageRow[q].expected /\ stageRow'[q].commits = stageRow[q].commits
        /\ \A q \in Records : stageRow'[q].state = stageRow[q].state
                                \/ (stageRow[q].state = "open" /\ stageRow'[q].state = "materialized")
    <3>1. CASE stageRow' = stageRow
      BY <1>0, <3>1 DEF BlobTypeOK
    <3>2. CASE stageRow[r].state = "open" /\ stageRow' = [stageRow EXCEPT ![r].state = "materialized"]
      <4>1. /\ stageRow' \in [Records -> StageRows]
            /\ stageRow'[r].expected = stageRow[r].expected /\ stageRow'[r].commits = stageRow[r].commits
            /\ stageRow'[r].state = "materialized"
            /\ \A q \in Records \ {r} : stageRow'[q] = stageRow[q]
        BY <1>0, <2>3, <3>2 DEF BlobTypeOK, StageRows
      <4> QED
        BY <3>2, <4>1
    <3> QED
      BY <2>5, <3>1, <3>2
  <2>7. ASSUME NEW q \in Records PROVE RowFact(q)'
    <3>1. RowFact(q) /\ stageRow[q] \in StageRows
      BY <1>0 DEF BlobInv, BlobTypeOK
    <3> QED
      BY <2>3, <2>4, <2>6, <3>1 DEF RowFact, StageRows
  <2>8. \A e \in Digests : FileFact(e)'
    BY <2>3 DEF BlobInv, FileFact
  <2> QED
    BY <1>0, <2>2, <2>3, <2>4, <2>6, <2>7, <2>8, WriterMovesKeepsInv DEF BlobTypeOK, Staging
<1>7. CASE Materialize(w)
  <2>1. PICK pc \in {"commit", "again"} : Go(w, pc)
    BY <1>7 DEF Materialize
  <2>2. PICK s \in WriterStates :
            writer' = [writer EXCEPT ![w] = s] /\ s.pc = pc /\ s.record = r /\ s.digest = d
    BY <1>0, <2>1, GoIs DEF Staging
  <2>3. /\ writer[w].pc = "link" /\ r \in Records /\ d \in Digests
        /\ stageRow[r].expected = d /\ UNCHANGED <<stageRow, contentRow, stageFile, reader, blobFaults>>
    BY <1>0, <1>7 DEF Materialize, WriterFact, Staging
  \* what is linked is what was asked for, and nothing is linked over it
  <2>4. \/ contentFile' = contentFile
        \/ contentFile[d] = "none" /\ contentFile' = [contentFile EXCEPT ![d] = d]
    BY <1>7 DEF Materialize, Verifies
  <2>5. /\ contentFile' \in [Digests -> Files]
        /\ \A e \in Digests : contentFile'[e] \in {contentFile[e], e}
    BY <1>0, <2>3, <2>4 DEF BlobTypeOK, Files
  <2>6. pc = "commit" => contentFile'[d] = d
    <3>1. Go(w, "again") => writer'[w].pc = "again"
      BY <1>0 DEF Go, BlobTypeOK, WriterStates
    <3>2. pc = "commit" => ~Go(w, "again")
      BY <1>0, <2>2, <3>1 DEF BlobTypeOK
    <3> QED
      BY <1>0, <1>7, <2>3, <3>2 DEF Materialize, Verifies, BlobTypeOK
  <2>7. (\A q \in Records : RowFact(q)') /\ (\A e \in Digests : FileFact(e)')
    BY <2>3, <2>5, BlobConstants DEF BlobInv, BlobTypeOK, StageRows, RowFact, FileFact
  <2> QED
    BY <1>0, <2>2, <2>3, <2>5, <2>6, <2>7, WriterMovesKeepsInv DEF BlobTypeOK, Staging
<1>8. CASE CommitStage(w)
  <2>1. PICK s \in WriterStates : writer' = [writer EXCEPT ![w] = s] /\ s.pc = "unused"
    BY <1>0, <1>8, GoIs DEF CommitStage
  <2>2. /\ writer[w].pc = "commit" /\ r \in Records /\ d \in Digests /\ stageRow[r] \in StageRows
        /\ stageRow[r].expected = d /\ contentFile[d] = d /\ RowFact(r)
        /\ UNCHANGED <<stageFile, contentFile, reader, blobFaults>>
    BY <1>0, <1>8 DEF CommitStage, WriterFact, Staging, BlobInv, BlobTypeOK
  <2>3. \A e \in Digests : FileFact(e)'
    BY <2>2 DEF BlobInv, FileFact
  <2>4. CASE UNCHANGED <<stageRow, contentRow>>
    <3>1. \A q \in Records : RowFact(q)'
      BY <2>2, <2>4 DEF BlobInv, RowFact
    <3> QED
      BY <1>0, <2>1, <2>2, <2>3, <2>4, <3>1, WriterMovesKeepsInv DEF BlobTypeOK, Staging
  <2>5. CASE /\ stageRow[r].state = "materialized"
             /\ stageRow' = [stageRow EXCEPT ![r].state = "committed", ![r].commits = @ + 1]
             /\ contentRow' = [contentRow EXCEPT ![d] = "committed"]
    <3>1. /\ stageRow' \in [Records -> StageRows]
          /\ stageRow'[r].state = "committed" /\ stageRow'[r].commits = 1 /\ stageRow'[r].expected = d
          /\ \A q \in Records \ {r} : stageRow'[q] = stageRow[q]
      <4>1. PICK x : x = [stageRow[r] EXCEPT !.state = "committed", !.commits = @ + 1]
        OBVIOUS
      <4>2. stageRow[r].commits = 0 /\ stageRow[r] \in StageRows
        BY <2>2, <2>5 DEF RowFact
      <4>3. x \in StageRows /\ x.state = "committed" /\ x.commits = 1 /\ x.expected = d
        <5>1. stageRow[r].commits + 1 = 1 /\ 1 \in Nat
          BY <4>2
        <5>2. x.commits = stageRow[r].commits + 1
          BY <4>1, <4>2 DEF StageRows
        <5>3. x = [state |-> "committed", expected |-> stageRow[r].expected, expired |-> stageRow[r].expired,
                   commits |-> 1]
          BY <4>1, <4>2, <5>1, <5>2 DEF StageRows
        <5> QED
          BY <2>2, <4>2, <5>1, <5>3 DEF StageRows
      <4>4. stageRow' = [stageRow EXCEPT ![r] = x]
        BY <2>5, <4>1
      <4> QED
        BY <1>0, <2>2, <4>3, <4>4 DEF BlobTypeOK
    <3>2. /\ contentRow' \in [Digests -> {"none", "staged", "committed"}]
          /\ contentRow'[d] = "committed" /\ \A e \in Digests \ {d} : contentRow'[e] = contentRow[e]
      BY <1>0, <2>2, <2>5 DEF BlobTypeOK
    <3>3. ASSUME NEW q \in Records PROVE RowFact(q)'
      <4>1. CASE q = r
        BY <2>2, <3>1, <3>2, <4>1, BlobConstants DEF RowFact
      <4>2. CASE q # r
        <5>1. RowFact(q) /\ stageRow'[q] = stageRow[q] /\ stageRow[q] \in StageRows
          BY <1>0, <3>1, <4>2 DEF BlobInv, BlobTypeOK
        <5> QED
          BY <2>2, <3>2, <5>1 DEF RowFact, StageRows
      <4> QED
        BY <4>1, <4>2
    <3>4. \A q \in Records : stageRow'[q].expected = stageRow[q].expected
      BY <2>2, <3>1
    <3> QED
      BY <1>0, <2>1, <2>2, <2>3, <3>1, <3>2, <3>3, <3>4, WriterMovesKeepsInv DEF BlobTypeOK, Staging
  <2> QED
    BY <1>8, <2>4, <2>5 DEF CommitStage
<1> QED
    BY <1>1, <1>2, <1>3, <1>4, <1>5, <1>6, <1>7, <1>8 DEF CommitControlBlob

LEMMA BlobStepKeepsInv == BlobInv /\ [BlobNext]_blobVars => BlobInv'
<1> SUFFICES ASSUME BlobInv, [BlobNext]_blobVars PROVE BlobInv'
    OBVIOUS
<1>0. BlobTypeOK
    BY DEF BlobInv
<1>1. CASE UNCHANGED blobVars
    BY <1>1 DEF blobVars, BlobInv, BlobTypeOK, RowFact, FileFact, WriterFact
<1>2. ASSUME NEW w \in BlobWriters, NEW r \in Records, NEW d \in Digests, Commits(w, r, d) PROVE BlobInv'
  <2> DEFINE s == [pc |-> "begin", record |-> r, digest |-> d]
  <2>1. s \in WriterStates /\ s.pc = "begin" /\ s.record = r /\ s.digest = d
    BY DEF WriterStates
  <2>2. writer' = [writer EXCEPT ![w] = s] /\ UNCHANGED <<stageRow, contentRow, stageFile, contentFile, reader, blobFaults>>
    BY <1>2 DEF Commits
  <2>3. (\A q \in Records : RowFact(q)') /\ (\A e \in Digests : FileFact(e)')
    BY <2>2 DEF BlobInv, RowFact, FileFact
  <2> HIDE DEF s
  <2> QED
    BY <1>0, <2>1, <2>2, <2>3, WriterMovesKeepsInv DEF BlobTypeOK, Staging
<1>3. ASSUME NEW w \in BlobWriters, CommitControlBlob(w) PROVE BlobInv'
    BY <1>3, CommitStepKeepsInv
<1>4. ASSUME NEW w \in BlobWriters, WriterFails(w) \/ WriterDies(w) PROVE BlobInv'
  <2>1. /\ writer[w].pc # "unused" /\ Go(w, "again") /\ UNCHANGED <<stageRow, contentRow, contentFile, reader>>
        /\ blobFaults' = blobFaults + 1
    BY <1>4 DEF WriterFails, WriterDies
  <2>2. stageFile' \in [Records -> Files]
    BY <1>0, <1>4 DEF WriterFails, WriterDies, BlobTypeOK, Files
  <2> QED
    BY <1>0, <2>1, <2>2, WriterGoesKeepsInv DEF BlobTypeOK, Staging
<1>5. ASSUME NEW r \in Records, StageExpires(r) PROVE BlobInv'
  <2>1. /\ UNCHANGED <<contentRow, stageFile, contentFile, writer, reader, blobFaults>>
        /\ stageRow' \in [Records -> StageRows]
        /\ \A q \in Records : /\ stageRow'[q].expected = stageRow[q].expected
                              /\ stageRow'[q].state = stageRow[q].state
                              /\ stageRow'[q].commits = stageRow[q].commits
    BY <1>0, <1>5 DEF StageExpires, BlobTypeOK, StageRows
  <2>2. ASSUME NEW w \in BlobWriters PROVE WriterFact(w)'
    <3>1. WriterFact(w) /\ (writer[w].pc \in Staging => writer[w].pc # "unused")
      BY DEF BlobInv, Staging
    <3> QED
      BY <2>1, <3>1 DEF WriterFact
  <2>3. (\A q \in Records : RowFact(q)') /\ (\A e \in Digests : FileFact(e)')
    BY <2>1 DEF BlobInv, RowFact, FileFact
  <2> QED
    BY <1>0, <2>1, <2>2, <2>3 DEF BlobInv, BlobTypeOK
<1>6. ASSUME NEW n \in BlobReaders, NEW r \in Records, OpenVerified(n, r) PROVE BlobInv'
  \* what is committed reads back
  <2>1. reader' = [reader EXCEPT ![n] = "read"]
    BY <1>6 DEF OpenVerified, Verifies, BlobInv, RowFact
  <2>2. UNCHANGED <<stageRow, contentRow, stageFile, contentFile, writer, blobFaults>>
    BY <1>6 DEF OpenVerified
  <2> QED
    BY <1>0, <2>1, <2>2 DEF BlobInv, BlobTypeOK, RowFact, FileFact, WriterFact
<1> QED
    BY <1>1, <1>2, <1>3, <1>4, <1>5, <1>6 DEF BlobNext

\* A committed record was committed once and reads back as the bytes it was first
\* asked for, whatever calls failed half-way (commitControlBlob, Materialize).
THEOREM CommittedStaysReadable == BlobSpec => []CommittedIsReadable
<1>1. BlobInv => CommittedIsReadable
    BY DEF BlobInv, RowFact, CommittedIsReadable
<1> QED
    BY <1>1, BlobInitInv, BlobStepKeepsInv, PTL DEF BlobSpec

-----------------------------------------------------------------------------
(* Paper effects                                                           *)

ExecutorStates ==
  [pc : {"idle", "mode", "authorize", "post", "wait", "record"},
   c : PaperCandidates \union {"none"}, kind : Kinds \union {"none"},
   generation : Nat, answer : {0, 200, 409, 422, 502}]
Orders == [c : PaperCandidates, kind : Kinds, step : {"received", "checked"},
           generation : Nat, caller : Executors \union {Nobody}]

PaperTypeOK ==
  /\ autonomy \in [mode : AutonomyModes, generation : Nat]
  /\ candidate \in [PaperCandidates ->
       [run : {"running", "succeeded", "failed"},
        review : {"absent", "proposed", "approved", "rejected"}, side : {"none", "buy", "sell"}]]
  /\ authorization \in [PaperCandidates -> [kind : Kinds \union {"none"}, generation : Nat]]
  /\ effectReceipt \in [PaperCandidates -> {"none", "succeeded", "failed"}]
  /\ executor \in [Executors -> ExecutorStates]
  /\ sweep \subseteq [c : PaperCandidates, kind : Kinds]
  /\ kernelCalls \subseteq Orders
  /\ fills \in [PaperCandidates -> Nat]

\* An effect has its authorization first, and a success its fill.
EffectFact(c) ==
  /\ fills[c] <= 1
  /\ fills[c] = 1 => authorization[c] # NoAuthorization
  /\ effectReceipt[c] = "succeeded" => fills[c] = 1

\* Past the authorization an execution has one, and an answer of 200 a fill.
ExecutorFact(e) ==
  LET c == executor[e].c
  IN /\ executor[e].pc # "idle" => c \in PaperCandidates /\ executor[e].kind \in Kinds
     /\ executor[e].pc \in {"post", "wait", "record"} => authorization[c] # NoAuthorization
     /\ executor[e].pc = "record" /\ executor[e].answer = 200 => fills[c] = 1

\* A request in the Kernel is authorized; a caller that still listens waits for it.
OrderFact(k) ==
  /\ authorization[k.c] # NoAuthorization
  /\ k.caller # Nobody => executor[k.caller].pc = "wait" /\ executor[k.caller].c = k.c

PaperInv ==
  /\ PaperTypeOK
  /\ \A c \in PaperCandidates : EffectFact(c)
  /\ \A e \in Executors : ExecutorFact(e)
  /\ \A k \in kernelCalls : OrderFact(k)
  /\ \A k, l \in kernelCalls : k.caller = l.caller /\ k.caller # Nobody => k = l

LEMMA RestingTyped == Resting \in ExecutorStates /\ Resting.pc = "idle"
BY DEF Resting, ExecutorStates, Kinds

LEMMA PaperInitInv == PaperInit => PaperInv
<1> SUFFICES ASSUME PaperInit PROVE PaperInv
    OBVIOUS
<1>1. PaperTypeOK
    BY RestingTyped DEF PaperInit, PaperTypeOK, NoAuthorization, AutonomyModes, Kinds
<1>2. \A c \in PaperCandidates : EffectFact(c)
    BY DEF PaperInit, EffectFact
<1>3. \A e \in Executors : ExecutorFact(e)
    BY RestingTyped DEF PaperInit, ExecutorFact
<1> QED
    BY <1>1, <1>2, <1>3 DEF PaperInv, PaperInit

LEMMA NobodyExecutes == Nobody \notin Executors
BY PaperConstants DEF Nobody, Executors, Recovery

\* One execution moves on, and nothing reaches the Kernel.
LEMMA ExecutionKeepsInv ==
    ASSUME PaperInv, NEW e \in Executors, executor[e].pc # "wait",
           NEW s \in ExecutorStates, executor' = [executor EXCEPT ![e] = s],
           UNCHANGED <<fills, kernelCalls>>,
           autonomy' = autonomy, sweep' \subseteq [c : PaperCandidates, kind : Kinds],
           candidate' \in [PaperCandidates ->
             [run : {"running", "succeeded", "failed"},
              review : {"absent", "proposed", "approved", "rejected"}, side : {"none", "buy", "sell"}]],
           authorization' \in [PaperCandidates -> [kind : Kinds \union {"none"}, generation : Nat]],
           effectReceipt' \in [PaperCandidates -> {"none", "succeeded", "failed"}],
           \A c \in PaperCandidates :
              /\ authorization[c] # NoAuthorization => authorization'[c] # NoAuthorization
              /\ effectReceipt'[c] = "succeeded" => fills[c] = 1,
           s.pc # "idle" => s.c \in PaperCandidates /\ s.kind \in Kinds,
           s.pc \in {"post", "wait", "record"} => authorization'[s.c] # NoAuthorization,
           s.pc = "record" /\ s.answer = 200 => fills[s.c] = 1
    PROVE  PaperInv'
<1>1. PaperTypeOK'
    BY DEF PaperInv, PaperTypeOK
<1>2. ASSUME NEW c \in PaperCandidates PROVE EffectFact(c)'
    BY DEF PaperInv, EffectFact
<1>3. executor'[e] = s /\ \A d \in Executors \ {e} : executor'[d] = executor[d]
    BY DEF PaperInv, PaperTypeOK
<1>4. ASSUME NEW d \in Executors PROVE ExecutorFact(d)'
  <2>1. CASE d = e
    BY <1>3, <2>1 DEF ExecutorFact
  <2>2. CASE d # e
    BY <1>3, <2>2 DEF PaperInv, ExecutorFact
  <2> QED
    BY <2>1, <2>2
<1>5. ASSUME NEW k \in kernelCalls PROVE OrderFact(k)'
  <2>1. OrderFact(k) /\ k.c \in PaperCandidates /\ k.caller \in Executors \union {Nobody}
    BY DEF PaperInv, PaperTypeOK, Orders
  <2> QED
    BY <1>3, <2>1 DEF OrderFact
<1> QED
    BY <1>1, <1>2, <1>4, <1>5 DEF PaperInv

\* Nothing of an execution changes.
LEMMA BystandersKeepInv ==
    ASSUME PaperInv, PaperTypeOK', UNCHANGED <<authorization, effectReceipt, executor, kernelCalls, fills>>
    PROVE  PaperInv'
BY DEF PaperInv, EffectFact, ExecutorFact, OrderFact

LEMMA CallingTyped ==
    ASSUME NEW c \in PaperCandidates, NEW kind \in Kinds
    PROVE  /\ Calling(c, kind) \in ExecutorStates
           /\ Calling(c, kind).pc = "mode" /\ Calling(c, kind).c = c /\ Calling(c, kind).kind = kind
BY DEF Calling, Resting, ExecutorStates

\* A candidate whose run or review moves is still a candidate.
LEMMA CandidateTyped ==
    ASSUME PaperTypeOK, NEW c \in PaperCandidates, NEW d,
           \/ d \in {"running", "succeeded", "failed"} /\ candidate' = [candidate EXCEPT ![c].run = d]
           \/ d \in {"approved", "rejected"} /\ candidate' = [candidate EXCEPT ![c].review = d]
    PROVE  candidate' \in [PaperCandidates ->
               [run : {"running", "succeeded", "failed"},
                review : {"absent", "proposed", "approved", "rejected"}, side : {"none", "buy", "sell"}]]
<1>1. candidate[c] \in [run : {"running", "succeeded", "failed"},
                        review : {"absent", "proposed", "approved", "rejected"}, side : {"none", "buy", "sell"}]
    BY DEF PaperTypeOK
<1>2. CASE d \in {"running", "succeeded", "failed"} /\ candidate' = [candidate EXCEPT ![c].run = d]
  <2>1. PICK x : x = [candidate[c] EXCEPT !.run = d]
    OBVIOUS
  <2>2. candidate' = [candidate EXCEPT ![c] = x]
    BY <1>2, <2>1
  <2>3. x \in [run : {"running", "succeeded", "failed"},
              review : {"absent", "proposed", "approved", "rejected"}, side : {"none", "buy", "sell"}]
    BY <1>1, <1>2, <2>1
  <2> QED
    BY <2>2, <2>3 DEF PaperTypeOK
<1>3. CASE d \in {"approved", "rejected"} /\ candidate' = [candidate EXCEPT ![c].review = d]
  <2>1. PICK x : x = [candidate[c] EXCEPT !.review = d]
    OBVIOUS
  <2>2. candidate' = [candidate EXCEPT ![c] = x]
    BY <1>3, <2>1
  <2>3. x \in [run : {"running", "succeeded", "failed"},
              review : {"absent", "proposed", "approved", "rejected"}, side : {"none", "buy", "sell"}]
    BY <1>1, <1>3, <2>1
  <2> QED
    BY <2>2, <2>3 DEF PaperTypeOK
<1> QED
    BY <1>2, <1>3

\* The Desk, the reviewer and the operator.
LEMMA PeopleKeepInv ==
    ASSUME PaperInv,
           \/ \E c \in PaperCandidates, side \in {"buy", "sell"} : AdmitPaperCandidate(c, side)
           \/ \E c \in PaperCandidates : RunSucceeds(c) \/ RunFails(c)
           \/ \E h \in PaperHandlers, c \in PaperCandidates, d \in {"approved", "rejected"} :
                ReviewPaperCandidate(h, c, d)
           \/ \E mode \in AutonomyModes : SetAgentAutonomy(mode)
    PROVE  PaperInv'
<1>0. PaperTypeOK /\ PaperHandlers \subseteq Executors
    BY DEF PaperInv, Executors
<1>1. ASSUME NEW c \in PaperCandidates, NEW side \in {"buy", "sell"}, AdmitPaperCandidate(c, side) PROVE PaperInv'
  <2>1. /\ candidate' = [candidate EXCEPT ![c].review = "proposed", ![c].side = side]
        /\ UNCHANGED <<autonomy, authorization, effectReceipt, executor, sweep, kernelCalls, fills>>
    BY <1>1 DEF AdmitPaperCandidate
  <2>2. candidate' \in [PaperCandidates ->
               [run : {"running", "succeeded", "failed"},
                review : {"absent", "proposed", "approved", "rejected"}, side : {"none", "buy", "sell"}]]
    <3>1. PICK k : k = [candidate[c] EXCEPT !.review = "proposed", !.side = side]
      OBVIOUS
    <3>2. candidate[c] \in [run : {"running", "succeeded", "failed"},
                review : {"absent", "proposed", "approved", "rejected"}, side : {"none", "buy", "sell"}]
      BY <1>0, <1>1 DEF PaperTypeOK
    <3>3. k \in [run : {"running", "succeeded", "failed"},
                review : {"absent", "proposed", "approved", "rejected"}, side : {"none", "buy", "sell"}]
      BY <1>1, <3>1, <3>2
    <3>4. candidate' = [candidate EXCEPT ![c] = k]
      BY <2>1, <3>1
    <3> QED
      BY <1>0, <1>1, <3>3, <3>4 DEF PaperTypeOK
  <2>3. PaperTypeOK'
    BY <1>0, <2>1, <2>2 DEF PaperTypeOK
  <2> QED
    BY <2>1, <2>3, BystandersKeepInv
<1>2. ASSUME NEW c \in PaperCandidates, RunFails(c) PROVE PaperInv'
  <2>1. /\ candidate' = [candidate EXCEPT ![c].run = "failed"]
        /\ UNCHANGED <<autonomy, authorization, effectReceipt, executor, sweep, kernelCalls, fills>>
    BY <1>2 DEF RunFails
  <2>2. candidate' \in [PaperCandidates ->
               [run : {"running", "succeeded", "failed"},
                review : {"absent", "proposed", "approved", "rejected"}, side : {"none", "buy", "sell"}]]
    BY <1>0, <2>1, CandidateTyped
  <2>3. PaperTypeOK'
    BY <1>0, <2>1, <2>2 DEF PaperTypeOK
  <2> QED
    BY <2>1, <2>3, BystandersKeepInv
<1>3. ASSUME NEW mode \in AutonomyModes, SetAgentAutonomy(mode) PROVE PaperInv'
    BY <1>0, <1>3, BystandersKeepInv DEF SetAgentAutonomy, PaperTypeOK
\* a handler that rests takes the execution up
<1>4. ASSUME NEW h \in PaperHandlers, NEW c \in PaperCandidates, NEW kind \in Kinds, executor[h] = Resting,
             executor' = [executor EXCEPT ![h] = Calling(c, kind)],
             candidate' \in [PaperCandidates ->
               [run : {"running", "succeeded", "failed"},
                review : {"absent", "proposed", "approved", "rejected"}, side : {"none", "buy", "sell"}]],
             UNCHANGED <<autonomy, authorization, effectReceipt, sweep, kernelCalls, fills>>
      PROVE  PaperInv'
  <2>1. executor[h].pc = "idle" /\ h \in Executors
    BY <1>0, <1>4, RestingTyped
  <2>2. \A x \in PaperCandidates : effectReceipt[x] = "succeeded" => fills[x] = 1
    BY DEF PaperInv, EffectFact
  <2>3. PICK s \in ExecutorStates : s = Calling(c, kind) /\ s.pc = "mode" /\ s.c = c /\ s.kind = kind
    BY CallingTyped
  <2>4. executor' = [executor EXCEPT ![h] = s] /\ executor[h].pc # "wait"
    BY <1>4, <2>1, <2>3
  <2>5. /\ UNCHANGED <<fills, kernelCalls>> /\ autonomy' = autonomy /\ UNCHANGED <<authorization, effectReceipt>>
        /\ sweep' \subseteq [c : PaperCandidates, kind : Kinds]
        /\ authorization' \in [PaperCandidates -> [kind : Kinds \union {"none"}, generation : Nat]]
        /\ effectReceipt' \in [PaperCandidates -> {"none", "succeeded", "failed"}]
    BY <1>0, <1>4 DEF PaperTypeOK
  <2>6. \A x \in PaperCandidates :
          /\ authorization[x] # NoAuthorization => authorization'[x] # NoAuthorization
          /\ effectReceipt'[x] = "succeeded" => fills[x] = 1
    BY <2>2, <2>5
  <2>7. s.pc # "idle" => s.c \in PaperCandidates /\ s.kind \in Kinds
    BY <2>3
  <2>8. /\ s.pc \in {"post", "wait", "record"} => authorization'[s.c] # NoAuthorization
        /\ s.pc = "record" /\ s.answer = 200 => fills[s.c] = 1
    BY <2>3
  <2>9. candidate' \in [PaperCandidates ->
               [run : {"running", "succeeded", "failed"},
                review : {"absent", "proposed", "approved", "rejected"}, side : {"none", "buy", "sell"}]]
    BY <1>4
  <2> QED
    BY <2>1, <2>4, <2>5, <2>6, <2>7, <2>8, <2>9, ExecutionKeepsInv
<1>5. ASSUME NEW c \in PaperCandidates, RunSucceeds(c) PROVE PaperInv'
  <2>1. /\ candidate' = [candidate EXCEPT ![c].run = "succeeded"]
        /\ UNCHANGED <<autonomy, authorization, effectReceipt, sweep, kernelCalls, fills>>
    BY <1>5 DEF RunSucceeds
  <2>2. candidate' \in [PaperCandidates ->
               [run : {"running", "succeeded", "failed"},
                review : {"absent", "proposed", "approved", "rejected"}, side : {"none", "buy", "sell"}]]
    BY <1>0, <2>1, CandidateTyped
  <2>3. CASE UNCHANGED executor
    BY <1>0, <2>1, <2>2, <2>3, BystandersKeepInv DEF PaperTypeOK
  <2>4. ASSUME NEW h \in PaperHandlers, executor[h] = Resting,
               executor' = [executor EXCEPT ![h] = Calling(c, "agentic")]
        PROVE  PaperInv'
    BY <1>4, <2>1, <2>2, <2>4 DEF Kinds
  <2> QED
    BY <1>5, <2>3, <2>4 DEF RunSucceeds
<1>6. ASSUME NEW h \in PaperHandlers, NEW c \in PaperCandidates, NEW d \in {"approved", "rejected"},
             ReviewPaperCandidate(h, c, d)
      PROVE  PaperInv'
  <2>1. /\ candidate' = [candidate EXCEPT ![c].review = d] /\ executor[h] = Resting
        /\ UNCHANGED <<autonomy, authorization, effectReceipt, sweep, kernelCalls, fills>>
    BY <1>6 DEF ReviewPaperCandidate
  <2>2. candidate' \in [PaperCandidates ->
               [run : {"running", "succeeded", "failed"},
                review : {"absent", "proposed", "approved", "rejected"}, side : {"none", "buy", "sell"}]]
    BY <1>0, <2>1, CandidateTyped
  <2>3. CASE UNCHANGED executor
    BY <1>0, <2>1, <2>2, <2>3, BystandersKeepInv DEF PaperTypeOK
  <2>4. CASE executor' = [executor EXCEPT ![h] = Calling(c, "copilot")]
    BY <1>4, <2>1, <2>2, <2>4 DEF Kinds
  <2> QED
    BY <1>6, <2>3, <2>4 DEF ReviewPaperCandidate
<1> QED
    BY <1>1, <1>2, <1>3, <1>5, <1>6

\* An execution goes to pc with another generation.
LEMMA TurnedIs ==
    ASSUME NEW x \in ExecutorStates, NEW pc \in {"authorize", "post"}, NEW g \in Nat
    PROVE  LET s == [x EXCEPT !.pc = pc, !.generation = g]
           IN  s \in ExecutorStates /\ s.pc = pc /\ s.c = x.c /\ s.kind = x.kind
<1> DEFINE y == [x EXCEPT !.pc = pc]
           s == [y EXCEPT !.generation = g]
<1>1. y \in ExecutorStates /\ y.pc = pc /\ y.c = x.c /\ y.kind = x.kind
    BY DEF ExecutorStates
<1> HIDE DEF y
<1>2. s \in ExecutorStates /\ s.pc = y.pc /\ s.c = y.c /\ s.kind = y.kind
    BY <1>1 DEF ExecutorStates
<1>3. s = [x EXCEPT !.pc = pc, !.generation = g]
    BY DEF y
<1> QED
    BY <1>1, <1>2, <1>3

\* executePaperCandidate, up to its request to the Kernel and from the answer on.
LEMMA ExecutorsKeepInv ==
    ASSUME PaperInv, NEW e \in Executors, ExecutePaperCandidate(e)
    PROVE  PaperInv'
<1> DEFINE c == executor[e].c
<1>0. PaperTypeOK /\ executor[e] \in ExecutorStates /\ ExecutorFact(e)
    BY DEF PaperInv, PaperTypeOK
<1>1. \A x \in PaperCandidates : effectReceipt[x] = "succeeded" => fills[x] = 1
    BY DEF PaperInv, EffectFact
<1>2. CASE ReadKernelPaperMode(e)
  <2>1. /\ executor[e].pc = "mode" /\ c \in PaperCandidates
        /\ UNCHANGED <<autonomy, candidate, authorization, effectReceipt, sweep, kernelCalls, fills>>
    BY <1>0, <1>2 DEF ReadKernelPaperMode, ExecutorFact
  <2>2. PICK s \in ExecutorStates :
            /\ executor' = [executor EXCEPT ![e] = s] /\ s.pc \in {"idle", "authorize"}
            /\ s.pc # "idle" => s.c = c /\ s.kind = executor[e].kind
    <3>1. CASE autonomy.mode # executor[e].kind
      BY <1>2, <3>1, RestingTyped DEF ReadKernelPaperMode, Step
    <3>2. CASE autonomy.mode = executor[e].kind
      <4> DEFINE s == [executor[e] EXCEPT !.pc = "authorize", !.generation = autonomy.generation]
      <4>1. autonomy.generation \in Nat
        BY <1>0 DEF PaperTypeOK
      <4>2. s \in ExecutorStates /\ s.pc = "authorize" /\ s.c = c /\ s.kind = executor[e].kind
        BY <1>0, <4>1, TurnedIs
      <4>3. executor' = [executor EXCEPT ![e] = s]
        BY <1>2, <3>2 DEF ReadKernelPaperMode, Step
      <4> HIDE DEF s
      <4> QED
        BY <4>2, <4>3
    <3> QED
      BY <3>1, <3>2
  <2> QED
    BY <1>0, <1>1, <2>1, <2>2, ExecutionKeepsInv DEF PaperTypeOK, ExecutorFact
<1>3. CASE AuthorizePaperEffect(e)
  <2>1. /\ executor[e].pc = "authorize" /\ c \in PaperCandidates /\ executor[e].kind \in Kinds
        /\ UNCHANGED <<autonomy, candidate, effectReceipt, sweep, kernelCalls, fills>>
    BY <1>0, <1>3 DEF AuthorizePaperEffect, ExecutorFact
  <2>2. CASE UNCHANGED authorization /\ Step(e, Resting)
    BY <1>0, <1>1, <2>1, <2>2, RestingTyped, ExecutionKeepsInv DEF PaperTypeOK, Step
  <2>3. ASSUME NEW granted \in [kind : Kinds, generation : Nat],
               authorization' = [authorization EXCEPT ![c] = granted],
               Step(e, [executor[e] EXCEPT !.pc = "post", !.generation = granted.generation])
        PROVE  PaperInv'
    <3> DEFINE s == [executor[e] EXCEPT !.pc = "post", !.generation = granted.generation]
    <3>1. s \in ExecutorStates /\ s.pc = "post" /\ s.c = c /\ s.kind = executor[e].kind
      BY <1>0, TurnedIs
    <3>2. executor' = [executor EXCEPT ![e] = s]
      BY <2>3 DEF Step
    <3> HIDE DEF s
    <3>3. granted # NoAuthorization /\ granted \in [kind : Kinds \union {"none"}, generation : Nat]
      BY DEF NoAuthorization, Kinds
    <3>4. /\ authorization' \in [PaperCandidates -> [kind : Kinds \union {"none"}, generation : Nat]]
          /\ authorization'[c] = granted
          /\ \A x \in PaperCandidates \ {c} : authorization'[x] = authorization[x]
      BY <1>0, <2>1, <2>3, <3>3 DEF PaperTypeOK
    <3>5. \A x \in PaperCandidates : authorization[x] # NoAuthorization => authorization'[x] # NoAuthorization
      BY <3>3, <3>4
    <3> QED
      BY <1>0, <1>1, <2>1, <3>1, <3>2, <3>3, <3>4, <3>5, ExecutionKeepsInv DEF PaperTypeOK
  <2>4. CASE authorization[c] = NoAuthorization
    <3> DEFINE fresh == [kind |-> executor[e].kind, generation |-> executor[e].generation]
    <3>1. fresh \in [kind : Kinds, generation : Nat]
      BY <1>0, <2>1 DEF ExecutorStates
    <3> QED
      BY <1>3, <2>2, <2>3, <2>4, <3>1 DEF AuthorizePaperEffect
  <2>5. CASE authorization[c] # NoAuthorization
    <3>1. authorization[c] \in [kind : Kinds \union {"none"}, generation : Nat]
      BY <1>0, <2>1 DEF PaperTypeOK
    <3>2. CASE authorization[c].kind # executor[e].kind
      BY <1>3, <2>2, <2>5, <3>2 DEF AuthorizePaperEffect
    <3>3. CASE authorization[c].kind = executor[e].kind
      <4>1. authorization[c] \in [kind : Kinds, generation : Nat]
        BY <2>1, <3>1, <3>3
      <4> QED
        BY <1>3, <2>3, <2>5, <3>3, <4>1 DEF AuthorizePaperEffect
    <3> QED
      BY <3>2, <3>3
  <2> QED
    BY <2>4, <2>5
<1>4. CASE PostPaperOrder(e)
  <2> DEFINE s == [executor[e] EXCEPT !.pc = "wait"]
             k == [c |-> executor[e].c, kind |-> executor[e].kind, step |-> "received",
                   generation |-> executor[e].generation, caller |-> e]
  <2>1. /\ executor[e].pc = "post" /\ c \in PaperCandidates /\ executor[e].kind \in Kinds
        /\ authorization[c] # NoAuthorization
        /\ UNCHANGED <<autonomy, candidate, authorization, effectReceipt, sweep, fills>>
    BY <1>0, <1>4 DEF PostPaperOrder, ExecutorFact
  <2>2. /\ executor' = [executor EXCEPT ![e] = s] /\ s \in ExecutorStates
        /\ s.pc = "wait" /\ s.c = c /\ s.kind = executor[e].kind
    BY <1>0, <1>4 DEF PostPaperOrder, Step, ExecutorStates
  <2>3. kernelCalls' = kernelCalls \union {k} /\ k \in Orders /\ k.c = c /\ k.caller = e
    BY <1>0, <1>4, <2>1 DEF PostPaperOrder, ExecutorStates, Orders
  <2> HIDE DEF s, k
  <2>4. executor'[e] = s /\ \A d \in Executors \ {e} : executor'[d] = executor[d]
    BY <1>0, <2>2 DEF PaperTypeOK
  \* e waits for no other request
  <2>5. \A l \in kernelCalls : OrderFact(l) /\ l \in Orders /\ l.caller # e
    BY <1>0, <2>1, NobodyExecutes DEF PaperInv, PaperTypeOK, OrderFact
  <2>6. PaperTypeOK'
    BY <1>0, <2>1, <2>2, <2>3 DEF PaperTypeOK
  <2>7. \A x \in PaperCandidates : EffectFact(x)'
    BY <2>1 DEF PaperInv, EffectFact
  <2>8. ASSUME NEW d \in Executors PROVE ExecutorFact(d)'
    BY <2>1, <2>2, <2>4 DEF PaperInv, ExecutorFact
  <2>9. ASSUME NEW l \in kernelCalls' PROVE OrderFact(l)'
    <3>1. CASE l = k
      BY <2>1, <2>2, <2>3, <2>4, <3>1 DEF OrderFact
    <3>2. CASE l \in kernelCalls
      BY <2>1, <2>4, <2>5, <3>2 DEF OrderFact, Orders
    <3> QED
      BY <2>3, <3>1, <3>2
  <2>10. \A l, m \in kernelCalls' : l.caller = m.caller /\ l.caller # Nobody => l = m
    BY <2>3, <2>5 DEF PaperInv
  <2> QED
    BY <2>6, <2>7, <2>8, <2>9, <2>10 DEF PaperInv
<1>5. CASE RecordPaperEffectReceipt(e)
  <2>1. /\ executor[e].pc = "record" /\ c \in PaperCandidates
        /\ UNCHANGED <<autonomy, candidate, authorization, sweep, kernelCalls, fills>>
        /\ executor' = [executor EXCEPT ![e] = Resting]
    BY <1>0, <1>5 DEF RecordPaperEffectReceipt, ExecutorFact, Step
  <2>2. /\ effectReceipt' \in [PaperCandidates -> {"none", "succeeded", "failed"}]
        /\ \A x \in PaperCandidates :
             effectReceipt'[x] = "succeeded" => effectReceipt[x] = "succeeded" \/ (x = c /\ executor[e].answer = 200)
    BY <1>0, <1>5, <2>1 DEF RecordPaperEffectReceipt, Outcome, PaperTypeOK
  <2>3. \A x \in PaperCandidates : effectReceipt'[x] = "succeeded" => fills[x] = 1
    BY <1>0, <1>1, <2>1, <2>2 DEF ExecutorFact
  <2> QED
    BY ZenonT(60), <1>0, <2>1, <2>2, <2>3, RestingTyped, ExecutionKeepsInv DEF PaperTypeOK
<1> QED
    BY <1>2, <1>3, <1>4, <1>5 DEF ExecutePaperCandidate

\* A call ends without a receipt, and its request goes on unheard.
LEMMA LostKeepsInv ==
    ASSUME PaperInv, NEW e \in Executors, ExecutionLost(e) PROVE PaperInv'
<1> DEFINE Unheard1(k) == IF k.caller = e THEN [k EXCEPT !.caller = Nobody] ELSE k
<1>0. PaperTypeOK
    BY DEF PaperInv
<1>1. /\ executor' = [executor EXCEPT ![e] = Resting]
      /\ kernelCalls' = {Unheard1(k) : k \in kernelCalls}
      /\ UNCHANGED <<autonomy, candidate, authorization, effectReceipt, fills>>
      /\ sweep' \in {sweep, {}}
    BY DEF ExecutionLost, Step
<1>2. executor'[e] = Resting /\ \A d \in Executors \ {e} : executor'[d] = executor[d]
    BY <1>0, <1>1 DEF PaperTypeOK
<1>3. ASSUME NEW k \in kernelCalls
      PROVE  /\ Unheard1(k) \in Orders /\ Unheard1(k).c = k.c
             /\ Unheard1(k).caller = IF k.caller = e THEN Nobody ELSE k.caller
             /\ k.caller # e => Unheard1(k) = k
    BY <1>0 DEF PaperTypeOK, Orders
<1> HIDE DEF Unheard1
<1>4. PaperTypeOK'
    BY <1>0, <1>1, <1>3, RestingTyped DEF PaperTypeOK
<1>5. \A c \in PaperCandidates : EffectFact(c)'
    BY <1>1 DEF PaperInv, EffectFact
<1>6. \A d \in Executors : ExecutorFact(d)'
    BY <1>1, <1>2, RestingTyped DEF PaperInv, ExecutorFact
<1>7. ASSUME NEW k \in kernelCalls PROVE OrderFact(Unheard1(k))'
  <2>1. OrderFact(k) /\ k \in Orders
    BY <1>0 DEF PaperInv, PaperTypeOK
  <2> QED
    BY <1>1, <1>2, <1>3, <2>1 DEF OrderFact, Orders
<1>8. ASSUME NEW k \in kernelCalls, NEW l \in kernelCalls,
             Unheard1(k).caller = Unheard1(l).caller, Unheard1(k).caller # Nobody
      PROVE  Unheard1(k) = Unheard1(l)
    BY <1>3, <1>8 DEF PaperInv
<1> QED
    BY <1>1, <1>4, <1>5, <1>6, <1>7, <1>8 DEF PaperInv

\* The Kernel answers a request, for a success with its fill.
LEMMA AnswerKeepsInv ==
    ASSUME PaperInv, NEW k \in kernelCalls, NEW status \in {200, 409, 422, 502}, Answers(k, status),
           UNCHANGED <<autonomy, candidate, authorization, effectReceipt, sweep>>,
           \/ UNCHANGED fills
           \/ fills[k.c] = 0 /\ fills' = [fills EXCEPT ![k.c] = 1],
           status = 200 => fills'[k.c] = 1
    PROVE  PaperInv'
<1>0. PaperTypeOK /\ k \in Orders /\ OrderFact(k) /\ k.c \in PaperCandidates
    BY DEF PaperInv, PaperTypeOK, Orders
<1>1. /\ fills' \in [PaperCandidates -> Nat]
      /\ \A c \in PaperCandidates : fills[c] = 1 => fills'[c] = 1
      /\ \A c \in PaperCandidates : fills'[c] = fills[c] \/ (c = k.c /\ fills'[c] = 1)
    BY <1>0 DEF PaperTypeOK
<1>2. kernelCalls' = kernelCalls \ {k}
    BY DEF Answers
<1>3. ASSUME NEW d \in Executors
      PROVE  IF d = k.caller
             THEN /\ executor'[d] \in ExecutorStates /\ executor'[d].pc = "record"
                  /\ executor'[d].answer = status /\ executor'[d].c = k.c
                  /\ executor'[d].kind = executor[d].kind /\ executor[d].pc = "wait"
             ELSE executor'[d] = executor[d]
  <2>1. CASE k.caller = Nobody
    BY <2>1, NobodyExecutes DEF Answers
  <2>2. CASE k.caller # Nobody
    <3>1. /\ k.caller \in Executors /\ executor[k.caller].c = k.c /\ executor[k.caller].pc = "wait"
          /\ executor[k.caller] \in ExecutorStates
      BY <1>0, <2>2 DEF Orders, OrderFact, PaperTypeOK
    <3>2. executor' = [executor EXCEPT ![k.caller].pc = "record", ![k.caller].answer = status]
      BY <2>2 DEF Answers
    <3>3. CASE d # k.caller
      BY <1>0, <3>2, <3>3 DEF PaperTypeOK
    <3>4. CASE d = k.caller
      <4> DEFINE x == [executor[d] EXCEPT !.pc = "record"]
      <4>1. x \in ExecutorStates /\ x.pc = "record" /\ x.c = k.c /\ x.kind = executor[d].kind
        BY <3>1, <3>4 DEF ExecutorStates
      <4>2. executor'[d] = [x EXCEPT !.answer = status]
        BY <1>0, <3>2, <3>4 DEF PaperTypeOK
      <4> HIDE DEF x
      <4> QED
        BY <3>1, <3>4, <4>1, <4>2 DEF ExecutorStates
    <3> QED
      BY <3>3, <3>4
  <2> QED
    BY <2>1, <2>2
<1>4. PaperTypeOK'
  <2>1. executor' \in [Executors -> ExecutorStates]
    <3>1. executor \in [Executors -> ExecutorStates]
      BY <1>0 DEF PaperTypeOK
    <3>2. CASE k.caller = Nobody
      BY <3>1, <3>2 DEF Answers
    <3>3. CASE k.caller # Nobody
      <4> DEFINE recorded == [executor EXCEPT ![k.caller].pc = "record"]
      <4>1. k.caller \in Executors
        BY <1>0, <3>3 DEF Orders
      <4>2. recorded \in [Executors -> ExecutorStates]
        BY <3>1, <4>1 DEF ExecutorStates
      <4>3. executor' = [recorded EXCEPT ![k.caller].answer = status]
        BY <3>3 DEF Answers
      <4> HIDE DEF recorded
      <4> QED
        BY <4>1, <4>2, <4>3 DEF ExecutorStates
    <3> QED
      BY <3>2, <3>3
  <2> QED
    BY <1>0, <1>1, <1>2, <2>1 DEF PaperTypeOK
<1>5. ASSUME NEW c \in PaperCandidates PROVE EffectFact(c)'
    BY <1>0, <1>1 DEF PaperInv, EffectFact, OrderFact
<1>6. ASSUME NEW d \in Executors PROVE ExecutorFact(d)'
  <2>1. ExecutorFact(d)
    BY DEF PaperInv
  <2>2. CASE d = k.caller
    BY <1>0, <1>3, <2>1, <2>2 DEF ExecutorFact, OrderFact
  <2>3. CASE d # k.caller
    BY <1>1, <1>3, <2>1, <2>3 DEF ExecutorFact
  <2> QED
    BY <2>2, <2>3
<1>7. ASSUME NEW l \in kernelCalls' PROVE OrderFact(l)'
  \* nobody but the answered caller was waiting for this request
  <2>1. l \in kernelCalls /\ OrderFact(l) /\ l \in Orders /\ (l.caller # Nobody => l.caller # k.caller)
    BY <1>0, <1>2 DEF PaperInv, PaperTypeOK
  <2> QED
    BY <1>3, <2>1 DEF OrderFact, Orders
<1> QED
    BY <1>2, <1>4, <1>5, <1>6, <1>7 DEF PaperInv

LEMMA KernelKeepsInv ==
    ASSUME PaperInv, NEW k \in kernelCalls, PostCortexPaperOrder(k) PROVE PaperInv'
<1>0. PaperTypeOK /\ k \in Orders /\ OrderFact(k) /\ k.c \in PaperCandidates /\ EffectFact(k.c)
    BY DEF PaperInv, PaperTypeOK, Orders
<1>1. CASE KernelChecksMode(k)
  <2>1. CASE Answers(k, 409)
    BY <1>1, <2>1, AnswerKeepsInv DEF KernelChecksMode
  <2>2. CASE /\ kernelCalls' = (kernelCalls \ {k}) \union {[k EXCEPT !.step = "checked"]}
             /\ UNCHANGED executor
    <3> DEFINE l == [k EXCEPT !.step = "checked"]
    <3>1. l \in Orders /\ l.c = k.c /\ l.caller = k.caller
      BY <1>0 DEF Orders
    <3> HIDE DEF l
    <3>2. /\ kernelCalls' = (kernelCalls \ {k}) \union {l}
          /\ UNCHANGED <<executor, autonomy, candidate, authorization, effectReceipt, sweep, fills>>
      BY <1>1, <2>2 DEF KernelChecksMode, l
    <3>3. PaperTypeOK'
      BY <1>0, <3>1, <3>2 DEF PaperTypeOK
    <3>4. \A m \in kernelCalls' : OrderFact(m)'
      BY <1>0, <3>1, <3>2 DEF PaperInv, OrderFact
    <3>5. \A m, n \in kernelCalls' : m.caller = n.caller /\ m.caller # Nobody => m = n
      BY <3>1, <3>2 DEF PaperInv
    <3> QED
      BY <3>2, <3>3, <3>4, <3>5 DEF PaperInv, EffectFact, ExecutorFact
  <2> QED
    BY <1>1, <2>1, <2>2 DEF KernelChecksMode
<1>2. CASE KernelHasNoQuote(k)
    BY <1>2, AnswerKeepsInv DEF KernelHasNoQuote
<1>3. CASE ExecuteAgentPaperOrder(k)
  <2>1. /\ UNCHANGED <<autonomy, candidate, authorization, effectReceipt, sweep>>
        /\ UNCHANGED fills \/ (fills[k.c] = 0 /\ fills' = [fills EXCEPT ![k.c] = 1])
    BY <1>3 DEF ExecuteAgentPaperOrder
  <2>2. fills[k.c] \in Nat
    BY <1>0 DEF PaperTypeOK
  <2>3. CASE Answers(k, 422)
    BY <2>1, <2>3, AnswerKeepsInv
  <2>4. CASE Answers(k, 200) /\ (fills[k.c] = 1 \/ Covered(candidate[k.c].side))
    <3>1. CASE fills[k.c] = 1
      BY <2>1, <2>4, <3>1, AnswerKeepsInv
    <3>2. CASE fills[k.c] # 1
      <4>1. fills[k.c] = 0 /\ Covered(candidate[k.c].side)
        BY <1>0, <2>2, <2>4, <3>2 DEF EffectFact
      <4>2. fills' = [fills EXCEPT ![k.c] = 1]
        BY <1>3, <4>1 DEF ExecuteAgentPaperOrder
      <4>3. fills'[k.c] = 1
        BY <1>0, <4>2 DEF PaperTypeOK
      <4> QED
        BY ZenonT(60), <2>1, <2>4, <4>1, <4>2, <4>3, AnswerKeepsInv
    <3> QED
      BY <3>1, <3>2
  <2> QED
    BY <1>3, <2>3, <2>4 DEF ExecuteAgentPaperOrder
<1> QED
    BY <1>1, <1>2, <1>3 DEF PostCortexPaperOrder

LEMMA PaperRecoveryKeepsInv ==
    ASSUME PaperInv, PaperRecovery PROVE PaperInv'
<1>0. PaperTypeOK
    BY DEF PaperInv
<1>1. CASE RecoverPaperCandidateExecutions
  <2>1. \A c \in RecoverableCandidates : [c |-> c, kind |-> autonomy.mode] \in [c : PaperCandidates, kind : Kinds]
    BY <1>0, <1>1 DEF RecoverPaperCandidateExecutions, RecoverableCandidates, PaperTypeOK, AutonomyModes
  <2>2. sweep' \subseteq [c : PaperCandidates, kind : Kinds]
    BY <1>1, <2>1 DEF RecoverPaperCandidateExecutions
  <2> QED
    BY <1>0, <1>1, <2>2, BystandersKeepInv DEF RecoverPaperCandidateExecutions, PaperTypeOK
<1>2. ASSUME NEW t \in sweep, RecoveryTries(t) PROVE PaperInv'
  <2>1. t.c \in PaperCandidates /\ t.kind \in Kinds /\ Recovery \in Executors
    BY <1>0 DEF PaperTypeOK, Executors
  <2>2. PICK s \in ExecutorStates : s = Calling(t.c, t.kind) /\ s.pc = "mode" /\ s.c = t.c /\ s.kind = t.kind
    BY <2>1, CallingTyped
  <2>3. /\ executor' = [executor EXCEPT ![Recovery] = s] /\ executor[Recovery].pc # "wait"
        /\ UNCHANGED <<autonomy, candidate, authorization, effectReceipt, kernelCalls, fills>>
    BY <1>2, <2>2, RestingTyped DEF RecoveryTries, Step
  <2>4. sweep' \subseteq [c : PaperCandidates, kind : Kinds]
    BY <1>0, <1>2 DEF RecoveryTries, PaperTypeOK
  <2>5. \A x \in PaperCandidates : effectReceipt[x] = "succeeded" => fills[x] = 1
    BY DEF PaperInv, EffectFact
  <2> QED
    BY <1>0, <2>1, <2>2, <2>3, <2>4, <2>5, ExecutionKeepsInv DEF PaperTypeOK
<1> QED
    BY <1>1, <1>2 DEF PaperRecovery

LEMMA PaperStepKeepsInv == PaperInv /\ [PaperNext]_paperVars => PaperInv'
<1> SUFFICES ASSUME PaperInv, [PaperNext]_paperVars PROVE PaperInv'
    OBVIOUS
<1>1. CASE UNCHANGED paperVars
    BY <1>1 DEF paperVars, PaperInv, PaperTypeOK, EffectFact, ExecutorFact, OrderFact
<1>2. CASE PaperNext
    BY <1>2, PeopleKeepInv, ExecutorsKeepInv, LostKeepsInv, KernelKeepsInv, PaperRecoveryKeepsInv DEF PaperNext
<1> QED
    BY <1>1, <1>2

\* A candidate moves the account once at most, and a success has its fill, however
\* often Control asks and whatever answer is lost (executeAgentPaperOrderTx).
THEOREM EffectsSettleOnce == PaperSpec => []SettledAtMostOnce
<1>1. PaperInv => SettledAtMostOnce
    BY DEF PaperInv, EffectFact, SettledAtMostOnce
<1> QED
    BY <1>1, PaperInitInv, PaperStepKeepsInv, PTL DEF PaperSpec

LEMMA RejectedStaysUnauthorized ==
    ASSUME PaperInv, PaperNext, NEW c \in PaperCandidates,
           candidate[c].review = "rejected", authorization[c] = NoAuthorization
    PROVE  authorization'[c] = NoAuthorization /\ fills'[c] = 0
<1>0. PaperTypeOK /\ EffectFact(c) /\ fills[c] \in Nat
    BY DEF PaperInv, PaperTypeOK
<1>1. fills[c] = 0
    BY <1>0 DEF EffectFact
<1>2. ASSUME UNCHANGED <<authorization, fills>> PROVE authorization'[c] = NoAuthorization /\ fills'[c] = 0
    BY <1>1, <1>2
<1>3. CASE \/ \E x \in PaperCandidates, side \in {"buy", "sell"} : AdmitPaperCandidate(x, side)
           \/ \E x \in PaperCandidates : RunSucceeds(x) \/ RunFails(x)
           \/ \E h \in PaperHandlers, x \in PaperCandidates, d \in {"approved", "rejected"} :
                ReviewPaperCandidate(h, x, d)
           \/ \E mode \in AutonomyModes : SetAgentAutonomy(mode)
           \/ PaperRecovery
    BY <1>2, <1>3 DEF AdmitPaperCandidate, RunSucceeds, RunFails, ReviewPaperCandidate, SetAgentAutonomy,
                      PaperRecovery, RecoverPaperCandidateExecutions, RecoveryTries
<1>4. ASSUME NEW e \in Executors, ExecutePaperCandidate(e) \/ ExecutionLost(e)
      PROVE  authorization'[c] = NoAuthorization /\ fills'[c] = 0
  <2>1. CASE ~AuthorizePaperEffect(e)
    BY <1>2, <1>4, <2>1 DEF ExecutePaperCandidate, ReadKernelPaperMode, PostPaperOrder,
                            RecordPaperEffectReceipt, ExecutionLost
  \* a first authorization needs the candidate proposed or approved
  <2>2. CASE AuthorizePaperEffect(e)
    <3>1. ~Authorizable(c, executor[e].kind)
      BY DEF Authorizable
    <3>2. executor[e].c \in PaperCandidates
      BY <2>2 DEF AuthorizePaperEffect, PaperInv, ExecutorFact
    <3>3. authorization'[c] = authorization[c]
      BY <1>0, <2>2, <3>1, <3>2 DEF AuthorizePaperEffect, PaperTypeOK
    <3> QED
      BY <1>1, <2>2, <3>3 DEF AuthorizePaperEffect
  <2> QED
    BY <2>1, <2>2
<1>5. ASSUME NEW k \in kernelCalls, PostCortexPaperOrder(k)
      PROVE  authorization'[c] = NoAuthorization /\ fills'[c] = 0
  \* what the Kernel fills is authorized
  <2>1. k.c # c
    BY DEF PaperInv, OrderFact
  <2>2. UNCHANGED authorization /\ (UNCHANGED fills \/ fills' = [fills EXCEPT ![k.c] = 1])
    BY <1>5 DEF PostCortexPaperOrder, KernelChecksMode, KernelHasNoQuote, ExecuteAgentPaperOrder
  <2> QED
    BY <1>0, <1>1, <2>1, <2>2 DEF PaperTypeOK
<1> QED
    BY <1>3, <1>4, <1>5 DEF PaperNext

\* A rejection before any authorization is final: what was under way when it came
\* neither authorizes the candidate nor fills it.
THEOREM RejectionIsFinal == PaperSpec => RejectionStands
<1>1. PaperInv /\ [PaperNext]_paperVars
        => [\A c \in PaperCandidates :
              candidate[c].review = "rejected" /\ authorization[c] = NoAuthorization
              => authorization'[c] = NoAuthorization /\ fills'[c] = 0]_paperVars
    BY RejectedStaysUnauthorized
<1> QED
    BY <1>1, PaperInitInv, PaperStepKeepsInv, PTL DEF PaperSpec, RejectionStands

-----------------------------------------------------------------------------
(* Tool calls                                                              *)

AskedStates == [tool : Tools \union {"none"},
                step : {"none", "received", "authorized", "invoking", "answered", "over"},
                result : Facts \union {"none"}, worker : {"none", "waiting", "used", "failed"}]
BatchStates == [claims : SUBSET Sources, step : {"idle", "invoking", "done", "failed"},
                source : Sources \union {"none"}, result : Facts \union {"none"}]
Calls == [source : Sources, by : RecoveryDaemons \union {"handler"},
          step : {"received", "fetching", "fetched", "done", "failed"}, result : Facts \union {"none"}]

ToolsTypeOK ==
  /\ asked \in [Sources -> AskedStates]
  /\ intent \in [Sources -> Tools \union {"none"}]
  /\ receipt \in [Sources -> Facts \union {"none"}]
  /\ ack \in [Sources -> Facts \union {"none"}]
  /\ recovery \in [Sources -> [state : {"none", "pending", "leased", "succeeded"}, ripe : BOOLEAN,
                               holder : RecoveryDaemons \union {"none"}]]
  /\ batch \in [RecoveryDaemons -> BatchStates]
  /\ calls \subseteq Calls

\* What the Worker used is what Control acknowledged and the executor stored; a web
\* fetch has its recovery row, and nothing else has.
SourceFact(s) ==
  /\ asked[s].step = "none" <=> asked[s].tool = "none"
  /\ asked[s].step \in {"none", "received"} => intent[s] = "none"
  /\ asked[s].step \in {"authorized", "invoking", "answered"} => intent[s] = asked[s].tool
  /\ intent[s] \in {"none", asked[s].tool}
  /\ asked[s].step = "answered" => asked[s].result # "none"
  /\ intent[s] = "none" => receipt[s] = "none"
  /\ ack[s] # "none" => ack[s] = receipt[s] /\ intent[s] # "none"
  /\ asked[s].worker = "used" => asked[s].result = ack[s] /\ ack[s] # "none" /\ asked[s].step = "over"
  /\ asked[s].step = "none" => asked[s].worker = "none"
  /\ recovery[s].state # "none" <=> intent[s] = "research_web_fetch"
  /\ recovery[s].state = "succeeded" => ack[s] # "none"
  /\ intent[s] = "research_web_fetch" /\ ack[s] # "none" => recovery[s].state = "succeeded"

\* Only web fetches are recovered.
BatchFact(d) ==
  /\ \A s \in batch[d].claims : intent[s] = "research_web_fetch"
  /\ batch[d].step # "idle" => batch[d].source \in Sources /\ intent[batch[d].source] = "research_web_fetch"
  /\ batch[d].step = "done" => batch[d].result # "none"

\* What is called is intended, and an answer is a fact.
CallFact(c) ==
  /\ intent[c.source] # "none"
  /\ c.step \in {"fetched", "done"} => c.result # "none"

ToolsInv ==
  /\ ToolsTypeOK
  /\ \A s \in Sources : SourceFact(s)
  /\ \A d \in RecoveryDaemons : BatchFact(d)
  /\ \A c \in calls : CallFact(c)

LEMMA ToolsInitInv == ToolsInit => ToolsInv
<1> SUFFICES ASSUME ToolsInit PROVE ToolsInv
    OBVIOUS
<1>1. NoBatch \in BatchStates /\ NoBatch.claims = {} /\ NoBatch.step = "idle"
    BY DEF NoBatch, BatchStates
<1>2. ToolsTypeOK
    BY <1>1 DEF ToolsInit, ToolsTypeOK, AskedStates, NoRow
<1>3. \A s \in Sources : SourceFact(s)
    BY DEF ToolsInit, SourceFact, NoRow
<1>4. \A d \in RecoveryDaemons : BatchFact(d)
    BY <1>1 DEF ToolsInit, BatchFact
<1> QED
    BY <1>2, <1>3, <1>4 DEF ToolsInv, ToolsInit

\* Only the rows of one source change, and an intent stays.
LEMMA SourceKeepsInv ==
    ASSUME ToolsInv, NEW s \in Sources, ToolsTypeOK', SourceFact(s)', UNCHANGED batch,
           \A q \in Sources \ {s} :
              /\ asked'[q] = asked[q] /\ intent'[q] = intent[q] /\ receipt'[q] = receipt[q]
              /\ ack'[q] = ack[q] /\ recovery'[q] = recovery[q],
           intent[s] # "none" => intent'[s] = intent[s],
           \A c \in calls' : c \in calls \/ CallFact(c)'
    PROVE  ToolsInv'
<1>1. ASSUME NEW q \in Sources PROVE SourceFact(q)'
    BY DEF ToolsInv, SourceFact
<1>2. ASSUME NEW d \in RecoveryDaemons PROVE BatchFact(d)'
  <2>1. BatchFact(d) /\ batch[d].claims \subseteq Sources
    BY DEF ToolsInv, ToolsTypeOK, BatchStates
  <2> QED
    BY <2>1 DEF BatchFact
<1>3. ASSUME NEW c \in calls' PROVE CallFact(c)'
  <2>1. CASE c \in calls
    <3>1. CallFact(c) /\ c.source \in Sources
      BY <2>1 DEF ToolsInv, ToolsTypeOK, Calls
    <3> QED
      BY <3>1 DEF CallFact
  <2> QED
    BY <2>1
<1> QED
    BY <1>1, <1>2, <1>3 DEF ToolsInv

\* One field of the row of a source is written.
LEMMA AskedWritten ==
    ASSUME NEW x \in [Sources -> AskedStates], NEW s \in Sources
    PROVE  /\ \A step \in {"none", "received", "authorized", "invoking", "answered", "over"} :
                 [x EXCEPT ![s].step = step] \in [Sources -> AskedStates]
           /\ \A fact \in Facts \union {"none"} : [x EXCEPT ![s].result = fact] \in [Sources -> AskedStates]
           /\ \A worker \in {"none", "waiting", "used", "failed"} :
                 [x EXCEPT ![s].worker = worker] \in [Sources -> AskedStates]
<1>1. x[s] \in AskedStates
    OBVIOUS
<1>2. ASSUME NEW step \in {"none", "received", "authorized", "invoking", "answered", "over"}
      PROVE  [x EXCEPT ![s].step = step] \in [Sources -> AskedStates]
    BY <1>1 DEF AskedStates
<1>3. ASSUME NEW fact \in Facts \union {"none"} PROVE [x EXCEPT ![s].result = fact] \in [Sources -> AskedStates]
    BY <1>1 DEF AskedStates
<1>4. ASSUME NEW worker \in {"none", "waiting", "used", "failed"}
      PROVE  [x EXCEPT ![s].worker = worker] \in [Sources -> AskedStates]
    BY <1>1 DEF AskedStates
<1> QED
    BY <1>2, <1>3, <1>4

\* What a handler's step does to the row of its source.
LEMMA AskedOver ==
    ASSUME ToolsTypeOK, NEW s \in Sources, NEW used \in {"used", "failed"},
           asked' = [asked EXCEPT ![s].step = "over", ![s].worker = IF @ = "waiting" THEN used ELSE @]
    PROVE  /\ asked' \in [Sources -> AskedStates] /\ \A q \in Sources \ {s} : asked'[q] = asked[q]
           /\ asked'[s].tool = asked[s].tool /\ asked'[s].result = asked[s].result /\ asked'[s].step = "over"
           /\ asked'[s].worker = IF asked[s].worker = "waiting" THEN used ELSE asked[s].worker
<1>1. PICK over : over = [asked EXCEPT ![s].step = "over"]
    OBVIOUS
<1>2. PICK worker : worker = IF over[s].worker = "waiting" THEN used ELSE over[s].worker
    OBVIOUS
<1>3. asked' = [over EXCEPT ![s].worker = worker]
    BY <1>1, <1>2
<1>4. over \in [Sources -> AskedStates]
    BY <1>1, AskedWritten DEF ToolsTypeOK
<1>5. /\ \A q \in Sources \ {s} : over[q] = asked[q]
      /\ over[s].tool = asked[s].tool /\ over[s].result = asked[s].result /\ over[s].step = "over"
      /\ over[s].worker = asked[s].worker
    BY <1>1 DEF ToolsTypeOK, AskedStates
<1>6. worker \in {"none", "waiting", "used", "failed"}
    BY <1>2, <1>4 DEF AskedStates
<1>7. [over EXCEPT ![s].worker = worker] \in [Sources -> AskedStates]
    BY <1>4, <1>6, AskedWritten
<1>8. /\ \A q \in Sources \ {s} : asked'[q] = over[q]
      /\ asked'[s].tool = over[s].tool /\ asked'[s].result = over[s].result /\ asked'[s].step = over[s].step
      /\ asked'[s].worker = worker
    BY <1>3, <1>4 DEF AskedStates
<1> QED
    BY <1>2, <1>3, <1>5, <1>7, <1>8

LEMMA AskedReplied ==
    ASSUME ToolsTypeOK, NEW s \in Sources, NEW fact \in Facts \union {"none"}, Replied(s, fact)
    PROVE  /\ asked' \in [Sources -> AskedStates] /\ \A q \in Sources \ {s} : asked'[q] = asked[q]
           /\ asked'[s].tool = asked[s].tool /\ asked'[s].result = fact /\ asked'[s].step = "over"
           /\ asked'[s].worker = IF asked[s].worker = "waiting" THEN "used" ELSE asked[s].worker
<1>1. PICK over : over = [asked EXCEPT ![s].step = "over"]
    OBVIOUS
<1>2. PICK told : told = [over EXCEPT ![s].result = fact]
    OBVIOUS
<1>3. PICK worker : worker = IF told[s].worker = "waiting" THEN "used" ELSE told[s].worker
    OBVIOUS
<1>4. asked' = [told EXCEPT ![s].worker = worker]
    BY <1>1, <1>2, <1>3 DEF Replied
<1>5. over \in [Sources -> AskedStates]
    BY <1>1, AskedWritten DEF ToolsTypeOK
<1>6. told \in [Sources -> AskedStates]
    BY <1>2, <1>5, AskedWritten
<1>7. /\ \A q \in Sources \ {s} : over[q] = asked[q]
      /\ over[s].tool = asked[s].tool /\ over[s].step = "over" /\ over[s].worker = asked[s].worker
    BY <1>1 DEF ToolsTypeOK, AskedStates
<1>8. /\ \A q \in Sources \ {s} : told[q] = over[q]
      /\ told[s].tool = over[s].tool /\ told[s].step = over[s].step /\ told[s].worker = over[s].worker
      /\ told[s].result = fact
    BY <1>2, <1>5 DEF AskedStates
<1>9. worker \in {"none", "waiting", "used", "failed"}
    BY <1>3, <1>6 DEF AskedStates
<1>10. asked' \in [Sources -> AskedStates]
    BY <1>4, <1>6, <1>9, AskedWritten
<1>11. /\ \A q \in Sources \ {s} : asked'[q] = told[q]
      /\ asked'[s].tool = told[s].tool /\ asked'[s].result = told[s].result /\ asked'[s].step = told[s].step
      /\ asked'[s].worker = worker
    BY <1>4, <1>6 DEF AskedStates
<1> QED
    BY <1>3, <1>7, <1>8, <1>10, <1>11

LEMMA RefusedSourceKeepsInv ==
    ASSUME ToolsInv, NEW s \in Sources, asked[s].step \notin {"none", "over"},
           asked' = [asked EXCEPT ![s].step = "over", ![s].worker = IF @ = "waiting" THEN "failed" ELSE @],
           calls' \subseteq calls, UNCHANGED <<intent, receipt, ack, recovery, batch>>
    PROVE  ToolsInv'
<1>0. ToolsTypeOK /\ SourceFact(s)
    BY DEF ToolsInv
<1>1. /\ asked' \in [Sources -> AskedStates] /\ \A q \in Sources \ {s} : asked'[q] = asked[q]
      /\ asked'[s].tool = asked[s].tool /\ asked'[s].result = asked[s].result /\ asked'[s].step = "over"
      /\ asked'[s].worker = IF asked[s].worker = "waiting" THEN "failed" ELSE asked[s].worker
    BY <1>0, AskedOver
<1>2. ToolsTypeOK'
    BY <1>0, <1>1 DEF ToolsTypeOK
<1>3. SourceFact(s)'
    BY <1>0, <1>1 DEF SourceFact
<1> QED
    BY <1>1, <1>2, <1>3, SourceKeepsInv

\* The Worker asks, or gives up.
LEMMA WorkerAsksKeepsInv ==
    ASSUME ToolsInv, NEW s \in Sources, executeTaskGraphGrantedTool(s) \/ WorkerGivesUp(s)
    PROVE  ToolsInv'
<1>0. ToolsTypeOK /\ SourceFact(s)
    BY DEF ToolsInv
<1>1. ASSUME NEW t \in Tools, Asks(s, t) PROVE ToolsInv'
  <2>1. /\ asked[s].tool = "none" /\ UNCHANGED <<intent, receipt, ack, recovery, batch, calls>>
        /\ asked' = [asked EXCEPT ![s] = [tool |-> t, step |-> "received", result |-> "none", worker |-> "waiting"]]
    BY <1>1 DEF Asks
  <2>2. /\ asked' \in [Sources -> AskedStates] /\ \A q \in Sources \ {s} : asked'[q] = asked[q]
        /\ asked'[s].tool = t /\ asked'[s].step = "received" /\ asked'[s].worker = "waiting"
    BY <1>0, <2>1 DEF ToolsTypeOK, AskedStates
  <2>3. ToolsTypeOK'
    BY <1>0, <2>1, <2>2 DEF ToolsTypeOK
  <2>4. SourceFact(s)'
    BY <1>0, <2>1, <2>2 DEF SourceFact, Tools, ResearchTools, KernelTools
  <2> QED
    BY <2>1, <2>2, <2>3, <2>4, SourceKeepsInv
<1>2. CASE WorkerGivesUp(s)
  <2>1. /\ asked[s].worker = "waiting" /\ UNCHANGED <<intent, receipt, ack, recovery, batch, calls>>
        /\ asked' = [asked EXCEPT ![s].worker = "failed"]
    BY <1>2 DEF WorkerGivesUp
  <2>2. /\ asked' \in [Sources -> AskedStates] /\ \A q \in Sources \ {s} : asked'[q] = asked[q]
        /\ asked'[s].tool = asked[s].tool /\ asked'[s].step = asked[s].step
        /\ asked'[s].result = asked[s].result /\ asked'[s].worker = "failed"
    <3>1. PICK x : x = [asked[s] EXCEPT !.worker = "failed"]
      OBVIOUS
    <3>2. asked[s] \in AskedStates
      BY <1>0 DEF ToolsTypeOK
    <3>3. /\ x \in AskedStates /\ x.worker = "failed"
          /\ x.tool = asked[s].tool /\ x.step = asked[s].step /\ x.result = asked[s].result
      BY <3>1, <3>2 DEF AskedStates
    <3>4. asked' = [asked EXCEPT ![s] = x]
      BY <2>1, <3>1
    <3>5. asked' \in [Sources -> AskedStates] /\ asked'[s] = x /\ \A q \in Sources \ {s} : asked'[q] = asked[q]
      BY <1>0, <3>3, <3>4 DEF ToolsTypeOK
    <3> QED
      BY <3>3, <3>5
  <2>3. ToolsTypeOK'
    BY <1>0, <2>1, <2>2 DEF ToolsTypeOK
  <2>4. SourceFact(s)'
    BY <1>0, <2>1, <2>2 DEF SourceFact
  <2> QED
    BY <2>1, <2>2, <2>3, <2>4, SourceKeepsInv
<1> QED
    BY <1>1, <1>2 DEF executeTaskGraphGrantedTool, executeWebFetch, executeGEXBOTAsOf, executeGEXBOTLive,
                      executeKernelEarningsResults, executeKernelRead, Tools, ResearchTools, KernelTools

\* A recovery row is made due or given a new state.
RecoveryRows == [state : {"none", "pending", "leased", "succeeded"}, ripe : BOOLEAN,
                 holder : RecoveryDaemons \union {"none"}]

LEMMA RowScheduled ==
    ASSUME NEW state \in {"none", "pending", "leased", "succeeded"}
    PROVE  [NoRow EXCEPT !.state = state] \in RecoveryRows /\ [NoRow EXCEPT !.state = state].state = state
BY DEF NoRow, RecoveryRows

\* Control authorizes the tool: its intent, and for a web fetch its recovery row.
LEMMA AuthorizeKeepsInv ==
    ASSUME ToolsInv, NEW s \in Sources, NEW t \in Tools, At(s, t, "received"), Authorized(s),
           IF t = "research_web_fetch" THEN recovery' = [recovery EXCEPT ![s] = [NoRow EXCEPT !.state = "pending"]]
                                       ELSE UNCHANGED recovery
    PROVE  ToolsInv'
<1>0. ToolsTypeOK /\ SourceFact(s)
    BY DEF ToolsInv
<1>1. /\ asked[s].tool = t /\ asked[s].step = "received" /\ UNCHANGED <<receipt, ack, batch, calls>>
      /\ intent' = [intent EXCEPT ![s] = t] /\ asked' = [asked EXCEPT ![s].step = "authorized"]
    BY DEF At, Authorized
<1>2. /\ \A q \in Sources \ {s} : asked'[q] = asked[q]
      /\ asked'[s].tool = t /\ asked'[s].step = "authorized" /\ asked'[s].worker = asked[s].worker
    BY <1>0, <1>1 DEF ToolsTypeOK, AskedStates
<1>3. asked' \in [Sources -> AskedStates]
    BY <1>0, <1>1, AskedWritten DEF ToolsTypeOK
<1>4. intent' \in [Sources -> Tools \union {"none"}] /\ intent'[s] = t /\ \A q \in Sources \ {s} : intent'[q] = intent[q]
    BY <1>0, <1>1 DEF ToolsTypeOK
<1>5. recovery \in [Sources -> RecoveryRows]
    BY <1>0 DEF ToolsTypeOK, RecoveryRows
<1>6. PICK row : row = [NoRow EXCEPT !.state = "pending"]
    OBVIOUS
<1>7. row \in RecoveryRows /\ row.state = "pending"
    BY <1>6, RowScheduled
<1>8. /\ recovery' \in [Sources -> RecoveryRows] /\ \A q \in Sources \ {s} : recovery'[q] = recovery[q]
      /\ recovery'[s] = IF t = "research_web_fetch" THEN row ELSE recovery[s]
    BY <1>5, <1>6, <1>7
<1>9. ToolsTypeOK'
    BY <1>0, <1>1, <1>3, <1>4, <1>8 DEF ToolsTypeOK, RecoveryRows
<1>10. intent[s] = "none" /\ receipt[s] = "none" /\ ack[s] = "none" /\ asked[s].worker # "used" /\ t # "none"
    BY <1>0, <1>1 DEF SourceFact, Tools, ResearchTools, KernelTools
<1>11. recovery'[s].state # "none" <=> t = "research_web_fetch"
    BY <1>0, <1>7, <1>8, <1>10 DEF SourceFact
<1>12. recovery'[s].state # "succeeded"
    BY <1>0, <1>7, <1>8, <1>10 DEF SourceFact
<1>13. SourceFact(s)'
    BY <1>1, <1>2, <1>4, <1>10, <1>11, <1>12 DEF SourceFact
<1> QED
    BY <1>1, <1>2, <1>4, <1>8, <1>9, <1>10, <1>13, SourceKeepsInv

\* Control calls the executor.
LEMMA InvokeKeepsInv ==
    ASSUME ToolsInv, NEW s \in Sources, asked[s].step = "authorized", Invokes(s)
    PROVE  ToolsInv'
<1>0. ToolsTypeOK /\ SourceFact(s)
    BY DEF ToolsInv
<1>1. /\ UNCHANGED <<intent, receipt, ack, recovery, batch>> /\ asked' = [asked EXCEPT ![s].step = "invoking"]
      /\ calls' = calls \union {Request(s, "handler")}
    BY DEF Invokes
<1>2. /\ \A q \in Sources \ {s} : asked'[q] = asked[q]
      /\ asked'[s].tool = asked[s].tool /\ asked'[s].step = "invoking" /\ asked'[s].worker = asked[s].worker
    BY <1>0, <1>1 DEF ToolsTypeOK, AskedStates
<1>3. asked' \in [Sources -> AskedStates]
    BY <1>0, <1>1, AskedWritten DEF ToolsTypeOK
<1>4. /\ Request(s, "handler") \in Calls
      /\ Request(s, "handler").source = s /\ Request(s, "handler").step = "received"
    BY DEF Request, Calls
<1>5. ToolsTypeOK'
    BY <1>0, <1>1, <1>3, <1>4 DEF ToolsTypeOK
<1>6. intent[s] # "none" /\ intent'[s] = intent[s]
    BY <1>0, <1>1 DEF SourceFact
<1>7. SourceFact(s)'
    BY <1>0, <1>1, <1>2 DEF SourceFact
<1>8. CallFact(Request(s, "handler"))'
    BY <1>4, <1>6 DEF CallFact
<1> QED
    BY <1>1, <1>2, <1>4, <1>5, <1>7, <1>8, SourceKeepsInv

\* The executor's answer reaches its handler.
LEMMA AnsweredKeepsInv ==
    ASSUME ToolsInv, NEW s \in Sources, NEW fact \in Facts, asked[s].step = "invoking",
           asked' = [asked EXCEPT ![s].step = "answered", ![s].result = fact],
           calls' \subseteq calls, UNCHANGED <<intent, receipt, ack, recovery, batch>>
    PROVE  ToolsInv'
<1>0. ToolsTypeOK /\ SourceFact(s) /\ fact # "none"
    BY ToolConstants DEF ToolsInv
<1>1. PICK moved : moved = [asked EXCEPT ![s].step = "answered"]
    OBVIOUS
<1>2. asked' = [moved EXCEPT ![s].result = fact]
    BY <1>1
<1>3. moved \in [Sources -> AskedStates]
    BY <1>0, <1>1, AskedWritten DEF ToolsTypeOK
<1>4. [moved EXCEPT ![s].result = fact] \in [Sources -> AskedStates]
    BY <1>3, AskedWritten
<1>5. /\ \A q \in Sources \ {s} : moved[q] = asked[q]
      /\ moved[s].tool = asked[s].tool /\ moved[s].step = "answered" /\ moved[s].worker = asked[s].worker
    BY <1>0, <1>1 DEF ToolsTypeOK, AskedStates
<1>6. /\ \A q \in Sources \ {s} : asked'[q] = moved[q]
      /\ asked'[s].result = fact
      /\ asked'[s].tool = moved[s].tool /\ asked'[s].step = moved[s].step /\ asked'[s].worker = moved[s].worker
    BY <1>2, <1>3 DEF AskedStates
<1>7. ToolsTypeOK'
    BY <1>0, <1>2, <1>4 DEF ToolsTypeOK
<1>8. SourceFact(s)'
    BY <1>0, <1>5, <1>6 DEF SourceFact
<1> QED
    BY <1>5, <1>6, <1>7, <1>8, SourceKeepsInv

LEMMA AnsweringKeepsInv ==
    ASSUME ToolsInv, NEW s \in Sources, \E c \in calls : HandlerAnswered(s, c) \/ HandlerFailed(s, c)
    PROVE  ToolsInv'
<1>1. PICK c \in calls : HandlerAnswered(s, c) \/ HandlerFailed(s, c)
    OBVIOUS
<1>2. /\ asked[s].step = "invoking" /\ calls' \subseteq calls
      /\ UNCHANGED <<intent, receipt, ack, recovery, batch>>
    BY <1>1 DEF HandlerAnswered, HandlerFailed, Answered
<1>3. CASE HandlerFailed(s, c)
    BY <1>2, <1>3, RefusedSourceKeepsInv DEF HandlerFailed
<1>4. CASE HandlerAnswered(s, c)
  <2>1. ToolsTypeOK /\ CallFact(c)
    BY DEF ToolsInv
  <2>2. c.result \in Facts
    BY <1>4, <2>1 DEF CallFact, HandlerAnswered, ToolsTypeOK, Calls
  <2> QED
    BY <1>2, <1>4, <2>2, AnsweredKeepsInv DEF HandlerAnswered
<1> QED
    BY <1>1, <1>3, <1>4

\* Control acknowledges, and the handler replies with what it acknowledged.
LEMMA RecordKeepsInv ==
    ASSUME ToolsInv, NEW s \in Sources, NEW fact \in Facts, asked[s].step = "answered", Replied(s, fact),
           ack' = [ack EXCEPT ![s] = fact], receipt' = [receipt EXCEPT ![s] = fact],
           UNCHANGED <<intent, batch, calls>>,
           IF asked[s].tool = "research_web_fetch"
           THEN recovery' = [recovery EXCEPT ![s] = [NoRow EXCEPT !.state = "succeeded"]] ELSE UNCHANGED recovery
    PROVE  ToolsInv'
<1>0. ToolsTypeOK /\ SourceFact(s) /\ fact # "none"
    BY ToolConstants DEF ToolsInv
<1>1. /\ asked' \in [Sources -> AskedStates] /\ \A q \in Sources \ {s} : asked'[q] = asked[q]
      /\ asked'[s].tool = asked[s].tool /\ asked'[s].result = fact /\ asked'[s].step = "over"
      /\ asked'[s].worker = IF asked[s].worker = "waiting" THEN "used" ELSE asked[s].worker
    BY <1>0, AskedReplied
<1>2. /\ receipt' \in [Sources -> Facts \union {"none"}] /\ receipt'[s] = fact
      /\ \A q \in Sources \ {s} : receipt'[q] = receipt[q]
    BY <1>0 DEF ToolsTypeOK
<1>3. /\ ack' \in [Sources -> Facts \union {"none"}] /\ ack'[s] = fact /\ \A q \in Sources \ {s} : ack'[q] = ack[q]
    BY <1>0 DEF ToolsTypeOK
<1>4. recovery \in [Sources -> RecoveryRows]
    BY <1>0 DEF ToolsTypeOK, RecoveryRows
<1>5. PICK row : row = [NoRow EXCEPT !.state = "succeeded"]
    OBVIOUS
<1>6. row \in RecoveryRows /\ row.state = "succeeded"
    BY <1>5, RowScheduled
<1>7. /\ recovery' \in [Sources -> RecoveryRows] /\ \A q \in Sources \ {s} : recovery'[q] = recovery[q]
      /\ recovery'[s] = IF asked[s].tool = "research_web_fetch" THEN row ELSE recovery[s]
    BY <1>4, <1>5, <1>6
<1>8. ToolsTypeOK'
    BY <1>0, <1>1, <1>2, <1>3, <1>7 DEF ToolsTypeOK, RecoveryRows
<1>9. intent[s] = asked[s].tool /\ intent'[s] = intent[s] /\ asked[s].worker # "used" /\ intent[s] # "none"
    BY <1>0 DEF SourceFact
<1>10. recovery'[s].state # "none" <=> intent[s] = "research_web_fetch"
    BY <1>0, <1>6, <1>7, <1>9 DEF SourceFact
<1>11. intent[s] = "research_web_fetch" => recovery'[s].state = "succeeded"
    BY <1>6, <1>7, <1>9
<1>12. SourceFact(s)'
    BY <1>0, <1>1, <1>2, <1>3, <1>9, <1>10, <1>11 DEF SourceFact
<1>13. \A q \in Sources \ {s} : intent'[q] = intent[q]
    OBVIOUS
<1> QED
    BY <1>1, <1>2, <1>3, <1>7, <1>8, <1>9, <1>12, <1>13, SourceKeepsInv

\* One step of a handler.
LEMMA HandlingKeepsInv ==
    ASSUME ToolsInv, NEW s \in Sources, Handling(s) \/ RecordFails(s)
    PROVE  ToolsInv'
<1>0. ToolsTypeOK /\ SourceFact(s)
    BY DEF ToolsInv
<1>1. CASE ToolDenied(s) \/ RecordFails(s)
    BY <1>1, RefusedSourceKeepsInv DEF ToolDenied, RecordFails, Refuses
<1>2. CASE \E c \in calls : HandlerAnswered(s, c) \/ HandlerFailed(s, c)
    BY <1>2, AnsweringKeepsInv
<1>3. CASE \/ AuthorizeWebFetch(s) \/ AuthorizeGEXBOTAsOf(s) \/ AuthorizeGEXBOTLive(s)
           \/ AuthorizeKernelEarningsResults(s) \/ AuthorizeKernelRead(s)
  <2>1. PICK t \in Tools :
          /\ At(s, t, "received") /\ Authorized(s)
          /\ IF t = "research_web_fetch" THEN recovery' = [recovery EXCEPT ![s] = [NoRow EXCEPT !.state = "pending"]]
                                         ELSE UNCHANGED recovery
    BY <1>3 DEF AuthorizeWebFetch, AuthorizeGEXBOTAsOf, AuthorizeGEXBOTLive, AuthorizeKernelEarningsResults,
                AuthorizeKernelRead, Tools, ResearchTools, KernelTools
  <2> QED
    BY <2>1, AuthorizeKeepsInv
<1>4. CASE \/ invokeResearchWebFetch(s) \/ invokeResearchGEXBOTAsOf(s) \/ invokeResearchGEXBOTLive(s)
           \/ invokeKernelEarningsResults(s) \/ invokeKernelRead(s)
    BY <1>4, InvokeKeepsInv DEF invokeResearchWebFetch, invokeResearchGEXBOTAsOf, invokeResearchGEXBOTLive,
                                invokeKernelEarningsResults, invokeKernelRead, At
<1>5. asked[s].step = "answered" => asked[s].result \in Facts /\ receipt[s] \in Facts \union {"none"}
    BY <1>0 DEF SourceFact, ToolsTypeOK, AskedStates
<1>6. ASSUME NEW fact, receipt[s] = fact
      PROVE  receipt = [receipt EXCEPT ![s] = fact]
    BY <1>0, <1>6 DEF ToolsTypeOK
<1>7. CASE HandlerRecordsWebFetch(s)
  <2>1. /\ asked[s].step = "answered" /\ asked[s].tool = "research_web_fetch" /\ receipt[s] = asked[s].result
        /\ ack' = [ack EXCEPT ![s] = asked[s].result] /\ Replied(s, asked[s].result)
        /\ recovery' = [recovery EXCEPT ![s] = [NoRow EXCEPT !.state = "succeeded"]]
        /\ UNCHANGED <<intent, receipt, batch, calls>>
    BY <1>7 DEF HandlerRecordsWebFetch, RecordWebFetchReceipt, Acknowledge, At
  <2>2. receipt' = [receipt EXCEPT ![s] = asked[s].result]
    BY <1>6, <2>1
  <2> QED
    BY <1>5, <2>1, <2>2, RecordKeepsInv
<1>8. CASE RecordGEXBOTAsOfReceipt(s) \/ RecordGEXBOTLiveReceipt(s)
  <2>1. /\ asked[s].step = "answered" /\ asked[s].tool # "research_web_fetch" /\ receipt[s] = asked[s].result
        /\ ack' = [ack EXCEPT ![s] = asked[s].result] /\ Replied(s, asked[s].result)
        /\ UNCHANGED <<intent, receipt, recovery, batch, calls>>
    BY <1>8 DEF RecordGEXBOTAsOfReceipt, RecordGEXBOTLiveReceipt, Acknowledge, At
  <2>2. receipt' = [receipt EXCEPT ![s] = asked[s].result]
    BY <1>6, <2>1
  <2> QED
    BY <1>5, <2>1, <2>2, RecordKeepsInv
<1>9. CASE RecordKernelEarningsResults(s) \/ RecordKernelRead(s)
  <2>1. /\ asked[s].step = "answered" /\ asked[s].tool # "research_web_fetch"
        /\ ack' = [ack EXCEPT ![s] = KernelFact(s)] /\ Replied(s, KernelFact(s))
        /\ receipt' = [receipt EXCEPT ![s] = KernelFact(s)] /\ UNCHANGED <<intent, recovery, batch, calls>>
    BY <1>9 DEF RecordKernelEarningsResults, RecordKernelRead, StoreKernelFact, At
  <2>2. KernelFact(s) \in Facts
    BY <1>5, <2>1 DEF KernelFact
  <2> QED
    BY <2>1, <2>2, RecordKeepsInv
<1> QED
    BY <1>1, <1>2, <1>3, <1>4, <1>7, <1>8, <1>9
    DEF Handling, PostWebFetch, PostGEXBOTAsOf, PostGEXBOTLive, PostKernelEarnings, PostKernelRead

\* The executor moves one request on; the first record of a source stands.
LEMMA ServeKeepsInv ==
    ASSUME ToolsInv, NEW c \in calls, NEW step \in {"received", "fetching", "fetched", "done", "failed"},
           NEW fact \in Facts \union {"none"}, Serve(c, step, fact), step \in {"fetched", "done"} => fact # "none",
           UNCHANGED receipt \/ (receipt[c.source] = "none" /\ receipt' = [receipt EXCEPT ![c.source] = fact])
    PROVE  ToolsInv'
<1>0. ToolsTypeOK /\ c \in Calls /\ c.source \in Sources /\ CallFact(c)
    BY DEF ToolsInv, ToolsTypeOK, Calls
<1>1. UNCHANGED <<asked, intent, ack, recovery, batch>>
    BY DEF Serve
<1>2. PICK moved : moved = [c EXCEPT !.step = step]
    OBVIOUS
<1>3. PICK served : served = [moved EXCEPT !.result = fact]
    OBVIOUS
<1>4. moved \in Calls /\ moved.source = c.source /\ moved.step = step
    BY <1>0, <1>2 DEF Calls
<1>5. served \in Calls /\ served.source = c.source /\ served.step = step /\ served.result = fact
    BY <1>3, <1>4 DEF Calls
<1>6. calls' = (calls \ {c}) \union {served}
    BY <1>2, <1>3 DEF Serve
<1>7. receipt' \in [Sources -> Facts \union {"none"}]
    BY <1>0 DEF ToolsTypeOK
<1>8. ToolsTypeOK'
    BY <1>0, <1>1, <1>5, <1>6, <1>7 DEF ToolsTypeOK
<1>9. ASSUME NEW s \in Sources PROVE SourceFact(s)'
  <2>1. SourceFact(s) /\ (receipt[s] = "none" => ack[s] = "none")
    BY DEF ToolsInv, SourceFact
  <2>2. receipt'[s] = receipt[s] \/ (s = c.source /\ receipt[s] = "none")
    <3>1. CASE receipt' = [receipt EXCEPT ![c.source] = fact] /\ receipt[c.source] = "none"
      BY <1>0, <3>1 DEF ToolsTypeOK
    <3> QED
      BY <3>1
  <2>3. intent[c.source] # "none"
    BY <1>0 DEF CallFact
  <2> QED
    BY <1>1, <2>1, <2>2, <2>3 DEF SourceFact
<1>10. CallFact(served)'
    BY <1>0, <1>1, <1>5 DEF CallFact
<1>11. ASSUME NEW q \in calls PROVE CallFact(q)'
  <2>1. CallFact(q)
    BY DEF ToolsInv
  <2> QED
    BY <1>1, <2>1 DEF CallFact
<1>12. ASSUME NEW d \in RecoveryDaemons PROVE BatchFact(d)'
  <2>1. BatchFact(d)
    BY DEF ToolsInv
  <2> QED
    BY <1>1, <2>1 DEF BatchFact
<1> QED
    BY <1>6, <1>8, <1>9, <1>10, <1>11, <1>12 DEF ToolsInv

LEMMA ServingKeepsInv ==
    ASSUME ToolsInv, NEW c \in calls, Serving(c) \/ ServiceFails(c) PROVE ToolsInv'
<1>0. ToolsTypeOK /\ c.source \in Sources /\ CallFact(c) /\ c.result \in Facts \union {"none"}
      /\ receipt[c.source] \in Facts \union {"none"}
    BY DEF ToolsInv, ToolsTypeOK, Calls
<1>1. CASE loadReceipt(c)
  <2>1. CASE receipt[c.source] = "none"
    <3>1. Serve(c, "fetching", "none") /\ UNCHANGED receipt
      BY <1>1, <2>1 DEF loadReceipt
    <3> QED
      BY <3>1, ServeKeepsInv
  <2>2. CASE receipt[c.source] # "none"
    <3>1. Serve(c, "done", receipt[c.source]) /\ UNCHANGED receipt
      BY <1>1, <2>2 DEF loadReceipt
    <3> QED
      BY <1>0, <2>2, <3>1, ServeKeepsInv
  <2> QED
    BY <2>1, <2>2
<1>2. CASE recordReceipt(c)
  <2>1. /\ c.step = "fetched" /\ Serve(c, "done", RecordedFact(c))
        /\ receipt' = [receipt EXCEPT ![c.source] = RecordedFact(c)]
    BY <1>2 DEF recordReceipt
  <2>2. RecordedFact(c) \in Facts \union {"none"} /\ RecordedFact(c) # "none"
    BY <1>0, <2>1 DEF RecordedFact, CallFact
  <2>3. CASE receipt[c.source] = "none"
    BY <2>1, <2>2, <2>3, ServeKeepsInv
  <2>4. CASE receipt[c.source] # "none"
    <3>1. UNCHANGED receipt
      BY <1>0, <2>1, <2>4 DEF RecordedFact, ToolsTypeOK
    <3> QED
      BY <2>1, <2>2, <3>1, ServeKeepsInv
  <2> QED
    BY <2>3, <2>4
<1>3. CASE Fetching(c)
  <2>1. PICK fact \in Facts, step \in {"fetched", "done"} : Serve(c, step, fact) /\ UNCHANGED receipt
    BY <1>3 DEF Fetching, fetchPublicPage, fetchGEXBOTAsOf, fetchGEXBOTLive, Fetches,
                postCortexEarningsResults, postCortexKernelRead
  <2>2. fact \in Facts \union {"none"} /\ fact # "none"
    BY ToolConstants
  <2>3. step \in {"received", "fetching", "fetched", "done", "failed"}
    OBVIOUS
  <2> QED
    BY <2>1, <2>2, <2>3, ServeKeepsInv
<1>4. CASE ServiceFails(c)
  <2>1. Serve(c, "failed", "none") /\ UNCHANGED receipt
    BY <1>4 DEF ServiceFails
  <2> QED
    BY <2>1, ServeKeepsInv
<1> QED
    BY <1>1, <1>2, <1>3, <1>4 DEF Serving, cortexWebFetch, cortexGEXBOTAsOfTool, cortexGEXBOTLiveTool

\* Only the recovery row of a source and the batches change.
LEMMA RecoveryKeepsInv ==
    ASSUME ToolsInv, recovery' \in [Sources -> RecoveryRows],
           \A s \in Sources : /\ recovery'[s].state # "none" <=> recovery[s].state # "none"
                              /\ recovery'[s].state = "succeeded" <=> recovery[s].state = "succeeded",
           batch' \in [RecoveryDaemons -> BatchStates], \A d \in RecoveryDaemons : BatchFact(d)',
           UNCHANGED <<asked, intent, receipt, ack>>,
           calls' \subseteq Calls, \A c \in calls' : c \in calls \/ (intent[c.source] # "none" /\ c.step = "received")
    PROVE  ToolsInv'
<1>1. ToolsTypeOK'
    BY DEF ToolsInv, ToolsTypeOK, RecoveryRows
<1>2. ASSUME NEW s \in Sources PROVE SourceFact(s)'
  <2>1. SourceFact(s)
    BY DEF ToolsInv
  <2> QED
    BY <2>1 DEF SourceFact
<1>3. ASSUME NEW c \in calls' PROVE CallFact(c)'
  <2>1. c \in calls => CallFact(c)
    BY DEF ToolsInv
  <2> QED
    BY <1>3, <2>1 DEF CallFact
<1> QED
    BY <1>1, <1>2, <1>3 DEF ToolsInv

\* One daemon's batch is written.
LEMMA BatchWritten ==
    ASSUME ToolsInv, NEW d \in RecoveryDaemons, NEW b \in BatchStates, batch' = [batch EXCEPT ![d] = b],
           UNCHANGED intent, \A s \in b.claims : intent[s] = "research_web_fetch",
           b.step # "idle" => b.source \in Sources /\ intent[b.source] = "research_web_fetch",
           b.step = "done" => b.result # "none"
    PROVE  batch' \in [RecoveryDaemons -> BatchStates] /\ \A q \in RecoveryDaemons : BatchFact(q)'
<1>1. batch \in [RecoveryDaemons -> BatchStates] /\ \A q \in RecoveryDaemons : BatchFact(q)
    BY DEF ToolsInv, ToolsTypeOK
<1>2. batch' \in [RecoveryDaemons -> BatchStates] /\ batch'[d] = b
    BY <1>1
<1>3. ASSUME NEW q \in RecoveryDaemons PROVE BatchFact(q)'
  <2>1. CASE q = d
    BY <1>2, <2>1 DEF BatchFact
  <2>2. CASE q # d
    <3>1. batch'[q] = batch[q] /\ BatchFact(q)
      BY <1>1, <2>2
    <3> QED
      BY <3>1 DEF BatchFact
  <2> QED
    BY <2>1, <2>2
<1> QED
    BY <1>2, <1>3

\* The rest of the batch after the source that was served.
LEMMA NextInBatch ==
    ASSUME ToolsInv, NEW d \in RecoveryDaemons
    PROVE  Next1(d) \in BatchStates /\ Next1(d).step = "idle" /\ Next1(d).claims = batch[d].claims
<1>1. batch[d] \in BatchStates
    BY DEF ToolsInv, ToolsTypeOK
<1> QED
    BY <1>1 DEF Next1, BatchStates

\* A row ripens, is claimed, or goes back.
LEMMA RipensKeepsInv ==
    ASSUME ToolsInv, NEW s \in Sources, RowRipens(s) PROVE ToolsInv'
<1>1. /\ recovery' = [recovery EXCEPT ![s].ripe = TRUE] /\ recovery \in [Sources -> RecoveryRows]
      /\ UNCHANGED <<asked, intent, receipt, ack, batch, calls>>
    BY DEF RowRipens, ToolsInv, ToolsTypeOK, RecoveryRows
<1>2. recovery' \in [Sources -> RecoveryRows]
    BY <1>1 DEF RecoveryRows
<1>3. \A q \in Sources : recovery'[q].state = recovery[q].state
    BY <1>1 DEF RecoveryRows
<1>4. batch' \in [RecoveryDaemons -> BatchStates] /\ calls' \subseteq Calls
    BY <1>1 DEF ToolsInv, ToolsTypeOK
<1>5. \A d \in RecoveryDaemons : BatchFact(d)'
    BY <1>1 DEF ToolsInv, BatchFact
<1> QED
    BY <1>1, <1>2, <1>3, <1>4, <1>5, RecoveryKeepsInv

LEMMA ClaimKeepsInv ==
    ASSUME ToolsInv, NEW d \in RecoveryDaemons, ClaimWebFetchRecoveries(d) PROVE ToolsInv'
<1>1. PICK due : due = {s \in Sources : Claimable(s)}
    OBVIOUS
<1>2. /\ batch' = [batch EXCEPT ![d].claims = due] /\ UNCHANGED <<asked, intent, receipt, ack, calls>>
      /\ batch[d].step = "idle"
      /\ recovery' = [s \in Sources |->
            IF Claimable(s) THEN [state |-> "leased", ripe |-> FALSE, holder |-> d] ELSE recovery[s]]
    BY <1>1 DEF ClaimWebFetchRecoveries
<1>3. batch[d] \in BatchStates /\ batch \in [RecoveryDaemons -> BatchStates] /\ calls \subseteq Calls
      /\ recovery \in [Sources -> RecoveryRows]
    BY DEF ToolsInv, ToolsTypeOK, RecoveryRows
<1>4. PICK b : b = [batch[d] EXCEPT !.claims = due]
    OBVIOUS
<1>5. b \in BatchStates /\ b.claims = due /\ b.step = "idle"
    BY <1>1, <1>2, <1>3, <1>4 DEF BatchStates
<1>6. \A s \in due : intent[s] = "research_web_fetch"
    BY <1>1 DEF Claimable, ToolsInv, SourceFact
<1>7. batch' \in [RecoveryDaemons -> BatchStates] /\ \A q \in RecoveryDaemons : BatchFact(q)'
    BY <1>2, <1>4, <1>5, <1>6, BatchWritten
<1>8. PICK row : row = [state |-> "leased", ripe |-> FALSE, holder |-> d]
    OBVIOUS
<1>9. row \in RecoveryRows /\ row.state = "leased"
    BY <1>8 DEF RecoveryRows
<1>10. \A s \in Sources : recovery'[s] = IF Claimable(s) THEN row ELSE recovery[s]
    BY <1>2, <1>8
<1>11. recovery' \in [Sources -> RecoveryRows]
    BY <1>2, <1>3, <1>8, <1>9
<1>12. \A s \in Sources : /\ recovery'[s].state # "none" <=> recovery[s].state # "none"
                          /\ recovery'[s].state = "succeeded" <=> recovery[s].state = "succeeded"
    BY <1>9, <1>10 DEF Claimable
<1> QED
    BY <1>2, <1>3, <1>7, <1>11, <1>12, RecoveryKeepsInv

LEMMA RecoveryInvokesKeepsInv ==
    ASSUME ToolsInv, NEW d \in RecoveryDaemons, NEW s \in Sources, RecoveryInvokes(d, s) PROVE ToolsInv'
<1>1. /\ s \in batch[d].claims /\ UNCHANGED <<asked, intent, receipt, ack, recovery>>
      /\ batch' = [batch EXCEPT ![d] = [claims |-> batch[d].claims \ {s}, step |-> "invoking",
                                        source |-> s, result |-> "none"]]
      /\ calls' = calls \union {Request(s, d)}
    BY DEF RecoveryInvokes
<1>2. batch[d] \in BatchStates /\ calls \subseteq Calls /\ recovery \in [Sources -> RecoveryRows] /\ BatchFact(d)
    BY DEF ToolsInv, ToolsTypeOK, RecoveryRows
<1>3. PICK b : b = [claims |-> batch[d].claims \ {s}, step |-> "invoking", source |-> s, result |-> "none"]
    OBVIOUS
<1>4. b \in BatchStates /\ b.claims = batch[d].claims \ {s} /\ b.step = "invoking" /\ b.source = s
    BY <1>2, <1>3 DEF BatchStates
<1>5. intent[s] = "research_web_fetch" /\ \A q \in b.claims : intent[q] = "research_web_fetch"
    BY <1>1, <1>2, <1>4 DEF BatchFact
<1>6. batch' \in [RecoveryDaemons -> BatchStates] /\ \A q \in RecoveryDaemons : BatchFact(q)'
    BY <1>1, <1>3, <1>4, <1>5, BatchWritten
<1>7. Request(s, d) \in Calls /\ Request(s, d).source = s /\ Request(s, d).step = "received"
    BY DEF Request, Calls
<1>8. \A c \in calls' : c \in calls \/ (intent[c.source] # "none" /\ c.step = "received")
    BY <1>1, <1>5, <1>7
<1> QED
    BY <1>1, <1>2, <1>6, <1>7, <1>8, RecoveryKeepsInv

LEMMA RecoveryAnsweredKeepsInv ==
    ASSUME ToolsInv, NEW d \in RecoveryDaemons, \E c \in calls : RecoveryAnswered(d, c) PROVE ToolsInv'
<1>1. PICK c \in calls : RecoveryAnswered(d, c)
    OBVIOUS
<1>2. /\ c.step \in {"done", "failed"} /\ batch[d].step = "invoking"
      /\ batch' = [batch EXCEPT ![d].step = c.step, ![d].result = c.result]
      /\ calls' = calls \ {c} /\ UNCHANGED <<asked, intent, receipt, ack, recovery>>
    BY <1>1, ToolConstants DEF RecoveryAnswered, Waiting
<1>3. /\ batch \in [RecoveryDaemons -> BatchStates] /\ calls \subseteq Calls
      /\ recovery \in [Sources -> RecoveryRows] /\ BatchFact(d) /\ CallFact(c)
    BY DEF ToolsInv, ToolsTypeOK, RecoveryRows
<1>4. PICK moved : moved = [batch[d] EXCEPT !.step = c.step]
    OBVIOUS
<1>5. PICK b : b = [moved EXCEPT !.result = c.result]
    OBVIOUS
<1>6. moved \in BatchStates /\ moved.claims = batch[d].claims /\ moved.step = c.step /\ moved.source = batch[d].source
    BY <1>2, <1>3, <1>4 DEF BatchStates
<1>7. c.result \in Facts \union {"none"}
    BY <1>3 DEF Calls
<1>8. b \in BatchStates /\ b.claims = moved.claims /\ b.step = moved.step /\ b.source = moved.source
      /\ b.result = c.result
    BY <1>5, <1>6, <1>7 DEF BatchStates
<1>9. batch' = [batch EXCEPT ![d] = b]
    BY <1>2, <1>3, <1>4, <1>5
<1>10. /\ \A s \in b.claims : intent[s] = "research_web_fetch"
       /\ b.source \in Sources /\ intent[b.source] = "research_web_fetch" /\ (b.step = "done" => b.result # "none")
    BY <1>2, <1>3, <1>6, <1>8 DEF BatchFact, CallFact
<1>11. batch' \in [RecoveryDaemons -> BatchStates] /\ \A q \in RecoveryDaemons : BatchFact(q)'
    BY <1>2, <1>8, <1>9, <1>10, BatchWritten
<1> QED
    BY <1>2, <1>3, <1>11, RecoveryKeepsInv

\* A recovery is acknowledged, fails, or is given back under its own lease.
LEMMA RecoveryRecordsKeepsInv ==
    ASSUME ToolsInv, NEW d \in RecoveryDaemons, RecoveryRecords(d) PROVE ToolsInv'
<1>1. PICK s : s = batch[d].source
    OBVIOUS
<1>2. PICK fact : fact = batch[d].result
    OBVIOUS
<1>3. /\ batch[d].step = "done" /\ receipt[s] = fact /\ ack' = [ack EXCEPT ![s] = fact]
      /\ recovery' = [recovery EXCEPT ![s] = [NoRow EXCEPT !.state = "succeeded"]]
      /\ batch' = [batch EXCEPT ![d] = Next1(d)] /\ UNCHANGED <<asked, intent, receipt, calls>>
    BY <1>1, <1>2 DEF RecoveryRecords, RecordWebFetchReceipt, Acknowledge
<1>4. ToolsTypeOK /\ BatchFact(d) /\ batch[d] \in BatchStates
    BY DEF ToolsInv, ToolsTypeOK
<1>5. s \in Sources /\ intent[s] = "research_web_fetch" /\ fact \in Facts
    BY <1>1, <1>2, <1>3, <1>4 DEF BatchFact, BatchStates
<1>6. batch' \in [RecoveryDaemons -> BatchStates] /\ \A q \in RecoveryDaemons : BatchFact(q)'
  <2>1. \A q \in Next1(d).claims : intent[q] = "research_web_fetch"
    BY <1>4, NextInBatch DEF BatchFact
  <2> QED
    BY <1>3, <2>1, NextInBatch, BatchWritten
<1>7. recovery \in [Sources -> RecoveryRows] /\ ack \in [Sources -> Facts \union {"none"}]
    BY <1>4 DEF ToolsTypeOK, RecoveryRows
<1>8. PICK row : row = [NoRow EXCEPT !.state = "succeeded"]
    OBVIOUS
<1>9. row \in RecoveryRows /\ row.state = "succeeded"
    BY <1>8, RowScheduled
<1>10. recovery' \in [Sources -> RecoveryRows] /\ recovery'[s] = row
       /\ \A q \in Sources \ {s} : recovery'[q] = recovery[q]
    BY <1>3, <1>5, <1>7, <1>8, <1>9
<1>11. ack' \in [Sources -> Facts \union {"none"}] /\ ack'[s] = fact /\ \A q \in Sources \ {s} : ack'[q] = ack[q]
    BY <1>3, <1>5, <1>7
<1>12. ToolsTypeOK'
    BY <1>3, <1>4, <1>6, <1>10, <1>11 DEF ToolsTypeOK, RecoveryRows
<1>13. ASSUME NEW q \in Sources PROVE SourceFact(q)'
  <2>1. SourceFact(q) /\ fact # "none"
    BY <1>5, ToolConstants DEF ToolsInv
  <2>2. CASE q = s
    BY <1>3, <1>5, <1>9, <1>10, <1>11, <2>1, <2>2 DEF SourceFact
  <2>3. CASE q # s
    BY <1>3, <1>10, <1>11, <2>1, <2>3 DEF SourceFact
  <2> QED
    BY <2>2, <2>3
<1>14. ASSUME NEW c \in calls' PROVE CallFact(c)'
    BY <1>3, <1>14 DEF CallFact, ToolsInv
<1> QED
    BY <1>6, <1>12, <1>13, <1>14 DEF ToolsInv

LEMMA RecoveryRecordFailsKeepsInv ==
    ASSUME ToolsInv, NEW d \in RecoveryDaemons, RecoveryRecordFails(d) PROVE ToolsInv'
<1>1. batch[d].step = "done" /\ batch' = [batch EXCEPT ![d].step = "failed"]
      /\ UNCHANGED <<asked, intent, receipt, ack, recovery, calls>>
    BY DEF RecoveryRecordFails
<1>2. /\ batch \in [RecoveryDaemons -> BatchStates] /\ batch[d] \in BatchStates /\ calls \subseteq Calls
      /\ recovery \in [Sources -> RecoveryRows] /\ BatchFact(d)
    BY DEF ToolsInv, ToolsTypeOK, RecoveryRows
<1>3. PICK b : b = [batch[d] EXCEPT !.step = "failed"]
    OBVIOUS
<1>4. b \in BatchStates /\ b.claims = batch[d].claims /\ b.step = "failed" /\ b.source = batch[d].source
    BY <1>2, <1>3 DEF BatchStates
<1>5. batch' = [batch EXCEPT ![d] = b]
    BY <1>1, <1>2, <1>3
<1>6. /\ \A s \in b.claims : intent[s] = "research_web_fetch"
      /\ b.source \in Sources /\ intent[b.source] = "research_web_fetch"
    BY <1>1, <1>2, <1>4 DEF BatchFact
<1>7. batch' \in [RecoveryDaemons -> BatchStates] /\ \A q \in RecoveryDaemons : BatchFact(q)'
    BY <1>1, <1>4, <1>5, <1>6, BatchWritten
<1> QED
    BY <1>1, <1>2, <1>7, RecoveryKeepsInv

LEMMA RequeueKeepsInv ==
    ASSUME ToolsInv, NEW d \in RecoveryDaemons, RequeueWebFetchRecovery(d) PROVE ToolsInv'
<1>1. PICK s : s = batch[d].source
    OBVIOUS
<1>2. PICK row : row = [NoRow EXCEPT !.state = "pending"]
    OBVIOUS
<1>3. /\ batch[d].step = "failed" /\ batch' = [batch EXCEPT ![d] = Next1(d)]
      /\ recovery' = IF HoldsRecovery(d, s) THEN [recovery EXCEPT ![s] = row] ELSE recovery
      /\ UNCHANGED <<asked, intent, receipt, ack, calls>>
    BY <1>1, <1>2 DEF RequeueWebFetchRecovery
<1>4. row \in RecoveryRows /\ row.state = "pending"
    BY <1>2, RowScheduled
<1>5. /\ recovery \in [Sources -> RecoveryRows] /\ BatchFact(d) /\ calls \subseteq Calls
    BY DEF ToolsInv, ToolsTypeOK, RecoveryRows
<1>6. s \in Sources
    BY <1>1, <1>3, <1>5 DEF BatchFact
<1>7. batch' \in [RecoveryDaemons -> BatchStates] /\ \A q \in RecoveryDaemons : BatchFact(q)'
  <2>1. \A q \in Next1(d).claims : intent[q] = "research_web_fetch"
    BY <1>5, NextInBatch DEF BatchFact
  <2> QED
    BY <1>3, <2>1, NextInBatch, BatchWritten
<1>8. recovery' \in [Sources -> RecoveryRows]
    BY <1>3, <1>4, <1>5
<1>9. \A q \in Sources : /\ recovery'[q].state # "none" <=> recovery[q].state # "none"
                         /\ recovery'[q].state = "succeeded" <=> recovery[q].state = "succeeded"
  <2>1. \A q \in Sources \ {s} : recovery'[q] = recovery[q]
    BY <1>3, <1>5
  <2>2. recovery'[s] = recovery[s] \/ (recovery[s].state = "leased" /\ recovery'[s] = row)
    BY <1>3, <1>5, <1>6 DEF HoldsRecovery
  <2>3. ASSUME NEW q \in Sources
        PROVE  /\ recovery'[q].state # "none" <=> recovery[q].state # "none"
               /\ recovery'[q].state = "succeeded" <=> recovery[q].state = "succeeded"
    <3>1. CASE recovery'[q] = recovery[q]
      BY <3>1
    <3>2. CASE q = s /\ recovery[s].state = "leased" /\ recovery'[s] = row
      BY <1>4, <3>2
    <3> QED
      BY <2>1, <2>2, <3>1, <3>2
  <2> QED
    BY <2>3
<1> QED
    BY <1>3, <1>5, <1>7, <1>8, <1>9, RecoveryKeepsInv

\* Control dies with its handlers and the batch in hand.
LEMMA ControlCrashesKeepsInv ==
    ASSUME ToolsInv, NEW d \in RecoveryDaemons, ControlCrashes(d) PROVE ToolsInv'
<1>0. ToolsTypeOK
    BY DEF ToolsInv
<1>1. /\ batch' = [batch EXCEPT ![d] = NoBatch] /\ UNCHANGED <<intent, receipt, ack, recovery, calls>>
      /\ asked' = [s \in Sources |->
            IF asked[s].step \in {"none", "over"} THEN asked[s]
            ELSE [asked[s] EXCEPT !.step = "over", !.worker = IF @ = "waiting" THEN "failed" ELSE @]]
    BY DEF ControlCrashes
<1>2. NoBatch \in BatchStates /\ NoBatch.claims = {} /\ NoBatch.step = "idle"
    BY DEF NoBatch, BatchStates
<1>3. batch' \in [RecoveryDaemons -> BatchStates] /\ \A q \in RecoveryDaemons : BatchFact(q)'
    BY <1>1, <1>2, BatchWritten
<1>4. ASSUME NEW s \in Sources
      PROVE  /\ asked'[s] \in AskedStates /\ asked'[s].tool = asked[s].tool /\ asked'[s].result = asked[s].result
             /\ IF asked[s].step \in {"none", "over"} THEN asked'[s] = asked[s]
                ELSE asked'[s].step = "over"
                     /\ asked'[s].worker = IF asked[s].worker = "waiting" THEN "failed" ELSE asked[s].worker
  <2>1. asked[s] \in AskedStates
    BY <1>0 DEF ToolsTypeOK
  <2>2. CASE asked[s].step \in {"none", "over"}
    BY <1>1, <2>1, <2>2
  <2>3. CASE asked[s].step \notin {"none", "over"}
    <3>1. PICK over : over = [asked[s] EXCEPT !.step = "over"]
      OBVIOUS
    <3>2. PICK worker : worker = IF asked[s].worker = "waiting" THEN "failed" ELSE asked[s].worker
      OBVIOUS
    <3>3. over \in AskedStates /\ over.tool = asked[s].tool /\ over.result = asked[s].result /\ over.step = "over"
          /\ over.worker = asked[s].worker
      BY <2>1, <3>1 DEF AskedStates
    <3>4. worker \in {"none", "waiting", "used", "failed"}
      BY <2>1, <3>2 DEF AskedStates
    <3>5. asked'[s] = [over EXCEPT !.worker = worker]
      BY <1>1, <2>1, <2>3, <3>1, <3>2, <3>3
    <3>6. /\ [over EXCEPT !.worker = worker] \in AskedStates /\ [over EXCEPT !.worker = worker].tool = over.tool
          /\ [over EXCEPT !.worker = worker].result = over.result
          /\ [over EXCEPT !.worker = worker].step = over.step /\ [over EXCEPT !.worker = worker].worker = worker
      BY <3>3, <3>4 DEF AskedStates
    <3> QED
      BY <2>3, <3>2, <3>3, <3>5, <3>6
  <2> QED
    BY <2>2, <2>3
<1>5. asked' \in [Sources -> AskedStates]
    BY <1>1, <1>4
<1>6. ToolsTypeOK'
    BY <1>0, <1>1, <1>3, <1>5 DEF ToolsTypeOK
<1>7. ASSUME NEW s \in Sources PROVE SourceFact(s)'
  <2>1. SourceFact(s)
    BY DEF ToolsInv
  <2>2. CASE asked[s].step \in {"none", "over"}
    BY <1>1, <1>4, <2>1, <2>2 DEF SourceFact
  <2>3. CASE asked[s].step \notin {"none", "over"}
    <3>1. /\ asked'[s].tool = asked[s].tool /\ asked'[s].result = asked[s].result /\ asked'[s].step = "over"
          /\ asked'[s].worker = IF asked[s].worker = "waiting" THEN "failed" ELSE asked[s].worker
      BY <1>4, <2>3
    <3>2. UNCHANGED <<intent, receipt, ack, recovery>>
      BY <1>1
    <3> QED
      BY <2>1, <2>3, <3>1, <3>2 DEF SourceFact
  <2> QED
    BY <2>2, <2>3
<1>8. ASSUME NEW c \in calls' PROVE CallFact(c)'
    BY <1>1, <1>8 DEF CallFact, ToolsInv
<1> QED
    BY <1>3, <1>6, <1>7, <1>8 DEF ToolsInv

LEMMA ToolsNextInv == ToolsInv /\ [ToolsNext]_toolVars => ToolsInv'
<1> SUFFICES ASSUME ToolsInv, [ToolsNext]_toolVars PROVE ToolsInv'
    OBVIOUS
<1>1. ASSUME UNCHANGED <<asked, intent, receipt, ack, recovery, batch>>, calls' \subseteq calls PROVE ToolsInv'
  <2>1. ToolsTypeOK' /\ (\A s \in Sources : SourceFact(s)') /\ (\A d \in RecoveryDaemons : BatchFact(d)')
    BY <1>1 DEF ToolsInv, ToolsTypeOK, SourceFact, BatchFact
  <2>2. \A c \in calls' : CallFact(c)'
    BY <1>1 DEF ToolsInv, CallFact
  <2> QED
    BY <2>1, <2>2 DEF ToolsInv
<1>2. CASE \/ UNCHANGED toolVars \/ LeaseEnds \/ OutageEnds \/ \E c \in calls : Unheard(c)
  <2>1. UNCHANGED <<asked, intent, receipt, ack, recovery, batch>> /\ calls' \subseteq calls
    BY <1>2 DEF toolVars, LeaseEnds, OutageEnds, Unheard
  <2> QED
    BY <1>1, <2>1
<1>3. CASE \E s \in Sources : executeTaskGraphGrantedTool(s) \/ WorkerGivesUp(s)
    BY <1>3, WorkerAsksKeepsInv
<1>4. CASE \E s \in Sources : Handling(s) \/ RecordFails(s)
    BY <1>4, HandlingKeepsInv
<1>5. CASE \E s \in Sources : RowRipens(s)
    BY <1>5, RipensKeepsInv
<1>6. CASE \E c \in calls : Serving(c) \/ ServiceFails(c)
    BY <1>6, ServingKeepsInv
<1>7. ASSUME NEW d \in RecoveryDaemons,
             Reconciling(d) \/ RecoveryRecords(d) \/ RecoveryRecordFails(d) \/ ControlCrashes(d)
      PROVE  ToolsInv'
  <2>1. CASE ClaimWebFetchRecoveries(d)
    BY <2>1, ClaimKeepsInv
  <2>2. CASE \E s \in Sources : RecoveryInvokes(d, s)
    BY <2>2, RecoveryInvokesKeepsInv
  <2>3. CASE \E c \in calls : RecoveryAnswered(d, c)
    BY <2>3, RecoveryAnsweredKeepsInv
  <2>4. CASE RequeueWebFetchRecovery(d)
    BY <2>4, RequeueKeepsInv
  <2>5. CASE RecoveryRecords(d)
    BY <2>5, RecoveryRecordsKeepsInv
  <2>6. CASE RecoveryRecordFails(d)
    BY <2>6, RecoveryRecordFailsKeepsInv
  <2>7. CASE ControlCrashes(d)
    BY <2>7, ControlCrashesKeepsInv
  <2> QED
    BY <1>7, <2>1, <2>2, <2>3, <2>4, <2>5, <2>6, <2>7 DEF Reconciling
<1> QED
    BY <1>2, <1>3, <1>4, <1>5, <1>6, <1>7 DEF ToolsNext

\* What a Worker put into its prompt, what Control acknowledged (RecordWebFetchReceipt
\* and its siblings) and what the executor stored are one fact, and a recovery row is
\* finished exactly when its receipt is acknowledged: whatever handlers, recovery
\* daemons and executors run concurrently, fail or die.
THEOREM FactsStayInAgreement == ToolsSpec => []FactsAgree
<1>1. ToolsInv => FactsAgree
  <2>1. ASSUME ToolsInv, NEW s \in Sources
        PROVE  /\ asked[s].worker = "used" => asked[s].result = ack[s] /\ ack[s] # "none"
               /\ ack[s] # "none" => ack[s] = receipt[s] /\ intent[s] # "none"
               /\ intent[s] = "research_web_fetch" => (recovery[s].state = "succeeded" <=> ack[s] # "none")
    BY <2>1 DEF ToolsInv, SourceFact
  <2> QED
    BY <2>1 DEF FactsAgree, OneFactPerCall, RecoveryMatchesAck
<1> QED
    BY <1>1, ToolsInitInv, ToolsNextInv, PTL DEF ToolsSpec

-----------------------------------------------------------------------------
(* The decision triggers                                                   *)

InHand == {"stage", "admit", "prepare"}
SampleRecords == [revision : Nat, measured : Nat, value : Nat, at : Nat, committed : Nat,
                  frame : Frames \union {0}, fired : BOOLEAN]
Jobs == [pc : InHand \union {"rest", "evaluate", "fetch", "record", "materialize", "wakes"},
         path : {"none", "evaluation", "replay", "recovery"}, todo : SUBSET Ids,
         id : 0..SampleBound, revision : Nat, value : Nat, at : Nat, frame : Frames \union {0},
         text : {"none", "supplied", "column"}]
Prompts == [revision : Nat, text : {"none", "supplied", "column"}]

StoresTyped ==
  /\ revisions \in Seq(Revisions) /\ Len(revisions) > 0
  /\ \A i \in 1..Len(samples) : samples[i].revision \in 1..Len(revisions)
  /\ samples \in Seq(SampleRecords) /\ Len(samples) <= SampleBound
  /\ occurrence \in [Ids -> 0..Absent]
  /\ prompt \in [Ids -> Prompts] /\ wake \in [Ids -> Prompts]
  /\ runs \in [Ids -> Nat] /\ sessions \subseteq Ids
  /\ triggerClock \in 0..ClockBound

Fired == {i \in 1..Len(samples) : samples[i].fired}

\* A Run is the one of its wake, and the wake is the prompt of an occurrence.
WakeFact(i) ==
  /\ occurrence[i] # Absent => i \in Fired
  /\ wake[i] = NoPrompt => runs[i] = 0
  /\ wake[i] # NoPrompt => runs[i] = 1 /\ wake[i] = prompt[i] /\ occurrence[i] # Absent
  /\ i \in sessions => wake[i] # NoPrompt

\* What a process remembers between two commits is still so: a firing does not
\* go away, nor an occurrence, a committed prompt or an admitted wake.
JobFact(j) ==
  /\ j.todo \subseteq Fired
  /\ j.pc # "materialize" => \A i \in j.todo : occurrence[i] # Absent
  /\ j.path = "replay" <=> j.frame # 0
  /\ j.path # "recovery" => j.todo = {}
  /\ j.pc \in InHand \/ (j.pc = "materialize" /\ j.path # "recovery") => j.id \in Fired /\ j.text # "none"
  /\ j.pc \in InHand => occurrence[j.id] # Absent
  /\ j.pc = "admit" => prompt[j.id] = [revision |-> j.revision, text |-> j.text]
  /\ j.pc = "prepare" => wake[j.id] # NoPrompt

TriggerInv ==
  /\ StoresTyped /\ job \in [Controls \union Replayers -> Jobs]
  /\ CooldownHolds
  /\ \A i \in Ids : WakeFact(i)
  /\ \A p \in Controls \union Replayers : JobFact(job[p])

\* No commit takes back what another process may remember.
Kept ==
  /\ Fired \subseteq Fired'
  /\ \A i \in Ids : /\ occurrence[i] # Absent => occurrence'[i] # Absent
                    /\ prompt[i] # NoPrompt => prompt'[i] = prompt[i]
                    /\ wake[i] # NoPrompt => wake'[i] # NoPrompt

LEMMA TriggerBasics ==
  ASSUME TriggerInv
  PROVE  /\ Fired \subseteq Ids /\ Absent \in Nat /\ triggerClock # Absent /\ SampleBound \in Nat
         /\ Rest \in Jobs /\ JobFact(Rest) /\ Rest.pc = "rest" /\ Rest.todo = {} /\ Rest.frame = 0
         /\ Revision \in Nat
         /\ Len(samples) \in Nat /\ Len(samples) <= SampleBound
         /\ \A i \in 1..Len(samples) : samples[i] \in SampleRecords
<1>1. SampleBound \in Nat /\ ClockBound \in Nat /\ Frames \subseteq Nat
  BY TriggerConstants DEF Frames
<1>2. Rest \in Jobs /\ Rest.pc = "rest" /\ Rest.todo = {} /\ Rest.frame = 0 /\ Rest.path = "none"
  BY <1>1 DEF Rest, Jobs, InHand
<1>3. JobFact(Rest)
  BY <1>2 DEF JobFact, InHand
<1>4. Len(samples) \in Nat /\ Len(samples) <= SampleBound /\ \A i \in 1..Len(samples) : samples[i] \in SampleRecords
  BY DEF TriggerInv, StoresTyped
<1>5. Revision \in Nat
  BY DEF TriggerInv, StoresTyped, Revision
<1>6. Absent \in Nat /\ triggerClock # Absent
  BY <1>1 DEF TriggerInv, StoresTyped, Absent
<1>7. Fired \subseteq Ids
  BY <1>1, <1>4 DEF Fired, Ids
<1> QED
  BY <1>1, <1>2, <1>3, <1>4, <1>5, <1>6, <1>7

LEMMA FactKept ==
  ASSUME TriggerInv, Kept, NEW j \in Jobs, JobFact(j)
  PROVE  JobFact(j)'
<1>1. Fired \subseteq Ids
  BY TriggerBasics
<1>2. j.todo \subseteq Fired' /\ (j.pc # "materialize" => \A i \in j.todo : occurrence'[i] # Absent)
  BY <1>1 DEF JobFact, Kept
<1>3. j.pc \in InHand \/ (j.pc = "materialize" /\ j.path # "recovery") => j.id \in Fired' /\ j.text # "none"
  BY DEF JobFact, Kept
<1>4. j.pc \in InHand => occurrence'[j.id] # Absent
  BY <1>1 DEF JobFact, Kept
<1>5. j.pc = "admit" => prompt'[j.id] = [revision |-> j.revision, text |-> j.text]
  BY <1>1 DEF JobFact, Kept, InHand, NoPrompt
<1>6. j.pc = "prepare" => wake'[j.id] # NoPrompt
  BY <1>1 DEF JobFact, Kept, InHand
<1>7. (j.path = "replay" <=> j.frame # 0) /\ (j.path # "recovery" => j.todo = {})
  BY DEF JobFact
<1> QED
  BY <1>2, <1>3, <1>4, <1>5, <1>6, <1>7 DEF JobFact, Absent

\* One process takes a step; the others remember what is still so.
LEMMA JobMoves ==
  ASSUME TriggerInv, NEW p \in Controls \union Replayers, NEW r \in Jobs,
         job' = [job EXCEPT ![p] = r], JobFact(r)', Kept,
         StoresTyped', CooldownHolds', \A i \in Ids : WakeFact(i)'
  PROVE  TriggerInv'
<1>1. job' \in [Controls \union Replayers -> Jobs]
  BY DEF TriggerInv
<1>2. ASSUME NEW q \in Controls \union Replayers PROVE JobFact(job[q])'
  <2>1. CASE q = p
    <3>1. job'[q] = r
      BY <2>1 DEF TriggerInv
    <3> QED
      BY <3>1 DEF JobFact
  <2>2. CASE q # p
    <3>1. PICK j \in Jobs : j = job[q]
      BY DEF TriggerInv
    <3>2. JobFact(j)' /\ job'[q] = j
      BY <2>2, <3>1, FactKept DEF TriggerInv
    <3> QED
      BY <3>2 DEF JobFact
  <2> QED
    BY <2>1, <2>2
<1> QED
  BY <1>1, <1>2 DEF TriggerInv

\* A step that changes no row.
LEMMA QuietJob ==
  ASSUME TriggerInv, NEW p \in Controls \union Replayers, NEW r \in Jobs,
         job' = [job EXCEPT ![p] = r], JobFact(r),
         UNCHANGED <<revisions, samples, occurrence, prompt, wake, runs, sessions, triggerClock>>
  PROVE  TriggerInv'
<1>1. Kept
  BY DEF Kept, Fired
<1>2. StoresTyped' /\ CooldownHolds'
  BY DEF TriggerInv, StoresTyped, CooldownHolds
<1>3. \A i \in Ids : WakeFact(i)'
  BY DEF TriggerInv, WakeFact, Fired
<1>4. JobFact(r)'
  BY <1>1, FactKept
<1> QED
  BY <1>1, <1>2, <1>3, <1>4, JobMoves

LEMMA TriggerInitInv == TriggersInit => TriggerInv
<1> SUFFICES ASSUME TriggersInit PROVE TriggerInv
  OBVIOUS
<1>1. samples = <<>> /\ Len(samples) = 0 /\ Fired = {}
  BY DEF TriggersInit, Fired
<1>2. SampleBound \in Nat /\ ClockBound \in Nat
  BY TriggerConstants
<1>3. Rest \in Jobs /\ JobFact(Rest)
  BY <1>2 DEF Rest, Jobs, JobFact, InHand
<1>4. PICK r \in Revisions : revisions = <<r>>
  BY DEF TriggersInit
<1>5. StoresTyped
  BY <1>1, <1>2, <1>4 DEF TriggersInit, StoresTyped, Absent, Prompts, NoPrompt
<1>6. CooldownHolds
  BY <1>1 DEF CooldownHolds
<1>7. \A i \in Ids : WakeFact(i)
  BY DEF TriggersInit, WakeFact
<1>8. /\ job \in [Controls \union Replayers -> Jobs]
      /\ \A p \in Controls \union Replayers : JobFact(job[p])
  BY <1>3 DEF TriggersInit
<1> QED
  BY <1>5, <1>6, <1>7, <1>8 DEF TriggerInv

LEMMA AfterTyped ==
  ASSUME TriggerInv, NEW p \in Controls \union Replayers, job[p].pc # "materialize"
  PROVE  After(p) \in Jobs /\ JobFact(After(p))
<1>1. job[p] \in Jobs /\ JobFact(job[p])
  BY DEF TriggerInv
<1>2. CASE job[p].path # "recovery"
  BY <1>2, TriggerBasics DEF After
<1>3. CASE job[p].path = "recovery"
  <2>1. PICK r : r = [Rest EXCEPT !.pc = "wakes", !.path = "recovery", !.todo = job[p].todo]
    OBVIOUS
  <2>2. /\ r \in Jobs /\ r.pc = "wakes" /\ r.path = "recovery" /\ r.frame = 0 /\ r.todo = job[p].todo
    BY <1>1, <2>1, TriggerBasics DEF Jobs, InHand
  <2>3. JobFact(r)
    BY <1>1, <2>2 DEF JobFact, InHand
  <2> QED
    BY <1>3, <2>1, <2>2, <2>3 DEF After
<1> QED
  BY <1>2, <1>3

\* A process takes up or drops an item without a commit.
LEMMA QuietStepsKeepTriggers ==
  ASSUME TriggerInv, NEW c \in Controls \union Replayers,
         ListsTrigger(c) \/ FetchesValue(c) \/ FetchRejected(c) \/ RecoveryLists(c) \/ RecoveryAdmits(c) \/ PassInterrupted(c)
         \/ \E f \in Frames : ReplayNext(c, f)
  PROVE  TriggerInv'
<1>1. job[c] \in Jobs /\ JobFact(job[c])
  BY DEF TriggerInv
<1>2. ASSUME To(c, Rest), UNCHANGED <<revisions, samples, occurrence, prompt, wake, runs, sessions, triggerClock>>
      PROVE  TriggerInv'
  BY <1>2, TriggerBasics, QuietJob DEF To
<1>3. CASE ListsTrigger(c)
  <2>1. PICK r : r = [Rest EXCEPT !.pc = "fetch", !.path = "evaluation", !.revision = Revision]
    OBVIOUS
  <2>2. r \in Jobs /\ r.pc = "fetch" /\ r.path = "evaluation" /\ r.frame = 0 /\ r.todo = {}
    BY <2>1, TriggerBasics DEF Jobs, InHand
  <2>3. JobFact(r)
    BY <2>2 DEF JobFact, InHand
  <2>4. To(c, r) \/ To(c, Rest)
    BY <1>3, <2>1 DEF ListsTrigger
  <2>5. UNCHANGED <<revisions, samples, occurrence, prompt, wake, runs, sessions, triggerClock>>
    BY <1>3 DEF ListsTrigger
  <2> QED
    BY <1>2, <2>2, <2>3, <2>4, <2>5, QuietJob DEF To
<1>4. CASE FetchesValue(c)
  <2>1. PICK v \in Values, age \in {0, 1} \cap 0..triggerClock :
          To(c, [job[c] EXCEPT !.pc = "record", !.value = v, !.at = triggerClock - age])
    BY <1>4 DEF FetchesValue
  <2>2. PICK r : r = [job[c] EXCEPT !.pc = "record", !.value = v, !.at = triggerClock - age]
    OBVIOUS
  <2>3. v \in Nat /\ triggerClock - age \in Nat
    BY TriggerConstants DEF TriggerInv, StoresTyped
  <2>4. r \in Jobs /\ r.pc = "record" /\ r.path = job[c].path /\ r.frame = job[c].frame /\ r.todo = job[c].todo
    BY <1>1, <2>2, <2>3 DEF Jobs, InHand
  <2>5. job[c].pc = "fetch"
    BY <1>4 DEF FetchesValue
  <2>6. JobFact(r)
    BY <1>1, <2>4, <2>5 DEF JobFact, InHand
  <2>7. UNCHANGED <<revisions, samples, occurrence, prompt, wake, runs, sessions, triggerClock>>
    BY <1>4 DEF FetchesValue
  <2> QED
    BY <2>1, <2>2, <2>4, <2>6, <2>7, QuietJob DEF To
<1>5. CASE FetchRejected(c)
  BY <1>2, <1>5 DEF FetchRejected
<1>6. CASE RecoveryLists(c)
  <2>1. PICK r : r = [Rest EXCEPT !.pc = "materialize", !.path = "recovery", !.todo = PendingOccurrences]
    OBVIOUS
  <2>2. PendingOccurrences \subseteq Fired /\ PendingOccurrences \subseteq Ids
    BY TriggerBasics DEF PendingOccurrences, Fired
  <2>3. r \in Jobs /\ r.pc = "materialize" /\ r.path = "recovery" /\ r.frame = 0 /\ r.todo = PendingOccurrences
    BY <2>1, <2>2, TriggerBasics DEF Jobs, InHand
  <2>4. JobFact(r)
    BY <2>2, <2>3 DEF JobFact, InHand
  <2>5. To(c, r) /\ UNCHANGED <<revisions, samples, occurrence, prompt, wake, runs, sessions, triggerClock>>
    BY <1>6, <2>1 DEF RecoveryLists
  <2> QED
    BY <2>3, <2>4, <2>5, QuietJob DEF To
<1>7. CASE RecoveryAdmits(c)
  <2>1. UNCHANGED <<revisions, samples, occurrence, prompt, wake, runs, sessions, triggerClock>> /\ job[c].pc = "wakes"
    BY <1>7 DEF RecoveryAdmits
  <2>2. CASE job[c].todo = {}
    <3>1. PICK r : r = [Rest EXCEPT !.pc = "evaluate"]
      OBVIOUS
    <3>2. r \in Jobs /\ r.pc = "evaluate" /\ r.path = "none" /\ r.frame = 0 /\ r.todo = {}
      BY <3>1, TriggerBasics DEF Jobs, InHand, Rest
    <3>3. JobFact(r)
      BY <3>2 DEF JobFact, InHand
    <3>4. To(c, r)
      BY <1>7, <2>2, <3>1 DEF RecoveryAdmits
    <3> QED
      BY <2>1, <3>2, <3>3, <3>4, QuietJob DEF To
  <2>3. CASE job[c].todo # {}
    <3>1. PICK i \in job[c].todo :
            To(c, [job[c] EXCEPT !.pc = "stage", !.todo = @ \ {i}, !.id = i,
                                 !.revision = samples[i].revision, !.text = "column"])
      BY <1>7, <2>3 DEF RecoveryAdmits
    <3>2. PICK r : r = [job[c] EXCEPT !.pc = "stage", !.todo = @ \ {i}, !.id = i,
                                      !.revision = samples[i].revision, !.text = "column"]
      OBVIOUS
    <3>3. i \in Fired /\ i \in Ids /\ i \in 0..SampleBound /\ samples[i].revision \in Nat /\ occurrence[i] # Absent
      <4>1. i \in Fired /\ occurrence[i] # Absent
        BY <1>1, <2>1, <3>1 DEF JobFact
      <4>2. i \in Ids /\ i \in 1..Len(samples)
        BY <4>1, TriggerBasics DEF Fired
      <4>3. samples[i] \in SampleRecords /\ i \in 0..SampleBound
        BY <4>2, TriggerBasics DEF Ids
      <4> QED
        BY <4>1, <4>2, <4>3 DEF SampleRecords
    <3>4. /\ r \in Jobs /\ r.pc = "stage" /\ r.path = job[c].path /\ r.frame = job[c].frame
          /\ r.todo = job[c].todo \ {i} /\ r.id = i /\ r.text = "column"
      BY <1>1, <3>2, <3>3 DEF Jobs, InHand
    <3>5. JobFact(r)
      BY <1>1, <2>1, <3>3, <3>4 DEF JobFact, InHand
    <3> QED
      BY <2>1, <3>1, <3>2, <3>4, <3>5, QuietJob DEF To
  <2> QED
    BY <2>2, <2>3
<1>8. CASE PassInterrupted(c)
  BY <1>2, <1>8 DEF PassInterrupted
<1>9. ASSUME NEW f \in Frames, ReplayNext(c, f) PROVE TriggerInv'
  <2>1. PICK r : r = [Rest EXCEPT !.pc = "record", !.path = "replay", !.revision = Revision,
                                  !.frame = f, !.value = FrameValue[f], !.at = f]
    OBVIOUS
  <2>2. f \in Nat /\ f # 0 /\ FrameValue[f] \in Nat
    BY TriggerConstants DEF Frames
  <2>3. r \in Jobs /\ r.pc = "record" /\ r.path = "replay" /\ r.frame = f /\ r.todo = {}
    BY <2>1, <2>2, TriggerBasics DEF Jobs, InHand
  <2>4. JobFact(r)
    BY <2>2, <2>3 DEF JobFact, InHand
  <2>5. To(c, r) /\ UNCHANGED <<revisions, samples, occurrence, prompt, wake, runs, sessions, triggerClock>>
    BY <1>9, <2>1 DEF ReplayNext
  <2> QED
    BY <2>3, <2>4, <2>5, QuietJob DEF To
<1> QED
  BY <1>3, <1>4, <1>5, <1>6, <1>7, <1>8, <1>9

LEMMA SampledTyped ==
  ASSUME TriggerInv, NEW p \in Controls \union Replayers, NEW past, NEW prior
  PROVE  LET s == Sampled(p, past, prior)
         IN  /\ s \in SampleRecords /\ s.at = job[p].at /\ s.frame = job[p].frame
             /\ s.revision = Revision /\ (s.fired => Cooled(past, job[p].at))
<1>1. job[p] \in Jobs /\ Revision \in Nat /\ triggerClock \in Nat
  BY TriggerBasics, TriggerConstants DEF TriggerInv, StoresTyped
<1>2. PICK fires : fires = (/\ ConditionMet(Current.comparator, prior, job[p].value)
                            /\ Cooled(past, job[p].at))
  OBVIOUS
<1>3. fires \in BOOLEAN /\ (fires => Cooled(past, job[p].at))
  BY <1>2 DEF ConditionMet, Cooled
<1>4. Sampled(p, past, prior) =
        [revision |-> Revision, measured |-> job[p].revision, value |-> job[p].value,
         at |-> job[p].at, committed |-> triggerClock, frame |-> job[p].frame, fired |-> fires]
  BY <1>2 DEF Sampled
<1> QED
  BY <1>1, <1>3, <1>4 DEF SampleRecords, Jobs

\* A new sample fires a cooldown after those that count for it.
LEMMA FiresKeepsTriggers ==
  ASSUME TriggerInv, NEW p \in Controls \union Replayers, NEW s \in SampleRecords, Fires(p, s),
         Len(samples) < SampleBound, job[p].pc = "record", s.revision = Revision,
         UNCHANGED <<revisions, occurrence, prompt, wake, runs, sessions, triggerClock>>,
         s.fired => \A i \in 1..Len(samples) :
           /\ samples[i].fired
           /\ \/ samples[i].frame = 0 /\ s.frame = 0
              \/ samples[i].frame # 0 /\ s.frame # 0 /\ samples[i].revision = s.revision
           => samples[i].at + Current.cooldown <= s.at
  PROVE  TriggerInv'
<1>1. PICK n \in Nat : n = Len(samples) /\ n < SampleBound
  BY TriggerBasics
<1>2. /\ samples \in Seq(SampleRecords) /\ samples' = Append(samples, s) /\ samples' \in Seq(SampleRecords)
      /\ Len(samples') = n + 1
  BY <1>1 DEF TriggerInv, StoresTyped, Fires
<1>3. samples'[n + 1] = s /\ \A i \in 1..n : samples'[i] = samples[i]
  BY <1>1, <1>2
<1>4. Fired \subseteq Fired' /\ (s.fired => n + 1 \in Fired')
  BY <1>1, <1>2, <1>3 DEF Fired
<1>5. Kept
  BY <1>4 DEF Kept
<1>6. StoresTyped'
  <2>1. ASSUME NEW i \in 1..(n + 1) PROVE samples'[i].revision \in 1..Len(revisions)
    <3>1. Len(revisions) \in Nat /\ Len(revisions) > 0
      BY DEF TriggerInv, StoresTyped
    <3>2. CASE i = n + 1
      BY <1>3, <3>1, <3>2 DEF Revision
    <3>3. CASE i \in 1..n
      BY <1>1, <1>3, <3>3 DEF TriggerInv, StoresTyped
    <3> QED
      BY <1>1, <3>2, <3>3
  <2> QED
    BY <1>1, <1>2, <2>1, TriggerBasics DEF TriggerInv, StoresTyped
<1>7. \A i \in Ids : WakeFact(i)'
  BY <1>4 DEF TriggerInv, WakeFact
<1>8. CooldownHolds'
  <2> SUFFICES ASSUME NEW j \in 1..(n + 1), NEW i \in 1..(j - 1),
                      samples'[i].fired, samples'[j].fired,
                      \/ samples'[i].frame = 0 /\ samples'[j].frame = 0
                      \/ samples'[i].frame # 0 /\ samples'[j].frame # 0
                         /\ samples'[i].revision = samples'[j].revision
               PROVE  samples'[i].at + revisions'[samples'[j].revision].cooldown <= samples'[j].at
    BY <1>2 DEF CooldownHolds
  <2>1. CASE j # n + 1
    <3>1. j \in 1..n /\ i \in 1..n
      BY <1>1, <2>1
    <3> QED
      BY <1>1, <1>3, <3>1 DEF TriggerInv, CooldownHolds
  <2>2. CASE j = n + 1
    <3>1. i \in 1..n /\ samples'[i] = samples[i] /\ samples'[j] = s
      BY <1>1, <1>3, <2>2
    <3>2. revisions'[samples'[j].revision] = Current
      BY <3>1 DEF Current, Revision
    <3> QED
      BY <1>1, <3>1, <3>2
  <2> QED
    BY <2>1, <2>2
<1>9. job[p] \in Jobs /\ JobFact(job[p])
  BY DEF TriggerInv
<1>10. CASE s.fired = TRUE
  <2>1. PICK r : r = [job[p] EXCEPT !.pc = "materialize", !.id = n + 1, !.text = "supplied"]
    OBVIOUS
  <2>2. /\ r \in Jobs /\ r.pc = "materialize" /\ r.id = n + 1 /\ r.text = "supplied"
        /\ r.path = job[p].path /\ r.frame = job[p].frame /\ r.todo = job[p].todo
    <3>1. n + 1 \in 0..SampleBound
      BY <1>1, TriggerBasics
    <3> QED
      BY <1>9, <2>1, <3>1 DEF Jobs, InHand
  <2>3. JobFact(r)'
    BY <1>4, <1>9, <1>10, <2>2 DEF JobFact, InHand
  <2>4. job' = [job EXCEPT ![p] = r]
    BY <1>1, <1>10, <2>1 DEF Fires, To
  <2> QED
    BY <1>5, <1>6, <1>7, <1>8, <2>2, <2>3, <2>4, JobMoves
<1>11. CASE s.fired = FALSE
  <2>1. job' = [job EXCEPT ![p] = Rest] /\ Rest \in Jobs /\ JobFact(Rest)'
    BY <1>11, <1>5, TriggerBasics, FactKept DEF Fires, To
  <2> QED
    BY <1>5, <1>6, <1>7, <1>8, <2>1, JobMoves
<1> QED
  BY <1>10, <1>11 DEF SampleRecords

LEMMA SamplesKeepTriggers ==
  ASSUME TriggerInv, NEW p \in Controls \union Replayers,
         RecordDecisionTriggerSample(p) \/ RecordMoodyBluesReplaySample(p)
  PROVE  TriggerInv'
<1>1. job[p] \in Jobs /\ JobFact(job[p]) /\ Rest \in Jobs /\ JobFact(Rest)
  BY TriggerBasics DEF TriggerInv
<1>2. ASSUME To(p, Rest), UNCHANGED <<revisions, samples, occurrence, prompt, wake, runs, sessions, triggerClock>>
      PROVE  TriggerInv'
  BY <1>1, <1>2, QuietJob DEF To
<1>3. ASSUME NEW past, NEW prior, Fires(p, Sampled(p, past, prior)),
             Len(samples) < SampleBound, job[p].pc = "record",
             UNCHANGED <<revisions, occurrence, prompt, wake, runs, sessions, triggerClock>>,
             \A i \in 1..Len(samples) :
               \/ samples[i].frame = 0 /\ job[p].frame = 0
               \/ samples[i].frame # 0 /\ job[p].frame # 0 /\ samples[i].revision = Revision
               => i \in past
      PROVE  TriggerInv'
  <2>1. PICK s \in SampleRecords : /\ s = Sampled(p, past, prior)
                                   /\ s.at = job[p].at /\ s.frame = job[p].frame
                                   /\ s.revision = Revision /\ (s.fired => Cooled(past, s.at))
    BY SampledTyped
  <2>2. s.fired => \A i \in 1..Len(samples) :
           /\ samples[i].fired
           /\ \/ samples[i].frame = 0 /\ s.frame = 0
              \/ samples[i].frame # 0 /\ s.frame # 0 /\ samples[i].revision = s.revision
           => samples[i].at + Current.cooldown <= s.at
    BY <1>3, <2>1 DEF Cooled
  <2> QED
    BY <1>3, <2>1, <2>2, FiresKeepsTriggers
<1>4. CASE RecordDecisionTriggerSample(p)
  <2>1. /\ job[p].pc = "record" /\ job[p].frame = 0
        /\ UNCHANGED <<revisions, occurrence, prompt, wake, runs, sessions, triggerClock>>
    BY <1>1, <1>4 DEF RecordDecisionTriggerSample, JobFact
  <2>2. \/ Rejects(p)
        \/ Len(samples) < SampleBound /\ \E prior : Fires(p, Sampled(p, 1..Len(samples), prior))
    <3>1. CASE Current.enabled /\ Live(Current) /\ triggerClock - job[p].at <= 1 /\ Len(samples) < SampleBound
      <4>1. CASE 1..Len(samples) = {}
        BY <1>4, <3>1, <4>1 DEF RecordDecisionTriggerSample
      <4>2. CASE 1..Len(samples) # {}
        <5>1. PICK i \in Previous(1..Len(samples)) : Fires(p, Sampled(p, 1..Len(samples), {samples[i].value}))
          BY <1>4, <3>1, <4>2 DEF RecordDecisionTriggerSample
        <5> QED
          BY <3>1, <5>1
      <4> QED
        BY <4>1, <4>2
    <3>2. CASE ~(Current.enabled /\ Live(Current) /\ triggerClock - job[p].at <= 1 /\ Len(samples) < SampleBound)
      BY <1>4, <3>2 DEF RecordDecisionTriggerSample
    <3> QED
      BY <3>1, <3>2
  <2> QED
    BY <1>2, <1>3, <2>1, <2>2 DEF Rejects
<1>5. CASE RecordMoodyBluesReplaySample(p)
  <2>1. /\ job[p].pc = "record" /\ job[p].path = "replay" /\ job[p].frame # 0
        /\ UNCHANGED <<revisions, occurrence, prompt, wake, runs, sessions, triggerClock>>
    BY <1>1, <1>5 DEF RecordMoodyBluesReplaySample, JobFact
  <2>2. \/ Rejects(p)
        \/ \E i \in Played :
             /\ To(p, IF samples[i].fired THEN [job[p] EXCEPT !.pc = "materialize", !.id = i, !.text = "column"]
                                          ELSE Rest)
             /\ UNCHANGED samples
        \/ Len(samples) # SampleBound /\ \E prior : Fires(p, Sampled(p, Played, prior))
    BY <1>5 DEF RecordMoodyBluesReplaySample
  <2>3. ASSUME NEW i \in Played,
               To(p, IF samples[i].fired THEN [job[p] EXCEPT !.pc = "materialize", !.id = i, !.text = "column"]
                                         ELSE Rest),
               UNCHANGED samples
        PROVE  TriggerInv'
    <3>1. CASE samples[i].fired
      <4>1. PICK r : r = [job[p] EXCEPT !.pc = "materialize", !.id = i, !.text = "column"]
        OBVIOUS
      <4>2. i \in Fired /\ i \in 0..SampleBound
        BY <2>3, <3>1, TriggerBasics DEF Played, Fired, Ids
      <4>3. /\ r \in Jobs /\ r.pc = "materialize" /\ r.id = i /\ r.text = "column"
            /\ r.path = job[p].path /\ r.frame = job[p].frame /\ r.todo = job[p].todo
        BY <1>1, <4>1, <4>2 DEF Jobs, InHand
      <4>4. JobFact(r)
        BY <1>1, <4>2, <4>3 DEF JobFact, InHand
      <4> QED
        BY <2>1, <2>3, <3>1, <4>1, <4>3, <4>4, QuietJob DEF To
    <3>2. CASE ~samples[i].fired
      BY <1>2, <2>1, <2>3, <3>2
    <3> QED
      BY <3>1, <3>2
  <2>4. ASSUME NEW prior, Len(samples) # SampleBound, Fires(p, Sampled(p, Played, prior)) PROVE TriggerInv'
    <3>1. Len(samples) < SampleBound
      BY <2>4, TriggerBasics
    <3>2. \A i \in 1..Len(samples) :
            \/ samples[i].frame = 0 /\ job[p].frame = 0
            \/ samples[i].frame # 0 /\ job[p].frame # 0 /\ samples[i].revision = Revision
            => i \in Played
      BY <2>1 DEF Played
    <3> QED
      BY <1>3, <2>1, <2>4, <3>1, <3>2
  <2> QED
    BY <1>2, <2>1, <2>2, <2>3, <2>4 DEF Rejects
<1> QED
  BY <1>4, <1>5

\* A new occurrence of a fired sample, from evaluation or from recovery.
LEMMA MaterializeKeepsTriggers ==
  ASSUME TriggerInv, NEW p \in Controls \union Replayers,
         MaterializeDecisionTriggerOccurrence(p) \/ RecoveryMaterializes(p)
  PROVE  TriggerInv'
<1>1. job[p] \in Jobs /\ JobFact(job[p]) /\ triggerClock \in 0..Absent /\ triggerClock # Absent /\ Fired \subseteq Ids
  BY TriggerBasics, TriggerConstants DEF TriggerInv, StoresTyped, Absent
<1>2. ASSUME NEW i \in Fired, occurrence' = Materialized(i),
             UNCHANGED <<revisions, samples, prompt, wake, runs, sessions, triggerClock>>
      PROVE  Kept /\ StoresTyped' /\ CooldownHolds' /\ (\A k \in Ids : WakeFact(k)') /\ occurrence'[i] # Absent
  <2>1. occurrence' \in [Ids -> 0..Absent] /\ Absent' = Absent
    BY <1>1, <1>2 DEF TriggerInv, StoresTyped, Materialized, Absent
  <2>2. /\ \A k \in Ids : k # i => occurrence'[k] = occurrence[k]
        /\ occurrence'[i] # Absent
    BY <1>1, <1>2 DEF TriggerInv, StoresTyped, Materialized
  <2>3. Fired' = Fired
    BY <1>2 DEF Fired
  <2>4. Kept
    BY <1>2, <2>1, <2>2, <2>3 DEF Kept
  <2>5. StoresTyped' /\ CooldownHolds'
    BY <1>2, <2>1 DEF TriggerInv, StoresTyped, CooldownHolds
  <2>6. \A k \in Ids : WakeFact(k)'
    BY <1>2, <2>1, <2>2, <2>3 DEF TriggerInv, WakeFact
  <2> QED
    BY <2>2, <2>4, <2>5, <2>6
<1>3. CASE MaterializeDecisionTriggerOccurrence(p)
  <2>1. /\ job[p].pc = "materialize" /\ job[p].path # "recovery" /\ occurrence' = Materialized(job[p].id)
        /\ UNCHANGED <<revisions, samples, prompt, wake, runs, sessions, triggerClock>>
    BY <1>3 DEF MaterializeDecisionTriggerOccurrence
  <2>2. PICK r : r = [job[p] EXCEPT !.pc = "stage"]
    OBVIOUS
  <2>3. job' = [job EXCEPT ![p] = r]
    BY <1>3, <2>2 DEF MaterializeDecisionTriggerOccurrence, To
  <2>4. /\ r \in Jobs /\ r.pc = "stage" /\ r.id = job[p].id /\ r.text = job[p].text
        /\ r.path = job[p].path /\ r.frame = job[p].frame /\ r.todo = job[p].todo
    BY <1>1, <2>2 DEF Jobs, InHand
  <2>5. PICK i \in Fired : i = job[p].id
    BY <1>1, <2>1 DEF JobFact
  <2>6. Kept /\ StoresTyped' /\ CooldownHolds' /\ (\A k \in Ids : WakeFact(k)') /\ occurrence'[i] # Absent
    BY <1>2, <2>1, <2>5
  <2>7. Fired' = Fired
    BY <2>1 DEF Fired
  <2>8. JobFact(r)'
    BY <1>1, <2>1, <2>4, <2>5, <2>6, <2>7 DEF JobFact, InHand
  <2> QED
    BY <2>3, <2>4, <2>6, <2>8, JobMoves
<1>4. CASE RecoveryMaterializes(p)
  <2>1. /\ job[p].pc = "materialize" /\ job[p].path = "recovery"
        /\ UNCHANGED <<revisions, samples, prompt, wake, runs, sessions, triggerClock>>
    BY <1>4 DEF RecoveryMaterializes
  <2>2. CASE job[p].todo = {}
    <3>1. PICK r : r = [job[p] EXCEPT !.pc = "wakes", !.todo = PendingWakes]
      OBVIOUS
    <3>2. PendingWakes \subseteq Fired /\ \A i \in PendingWakes : occurrence[i] # Absent
      <4>1. \A i \in 1..Len(samples) : i \in Ids
        BY TriggerBasics DEF Ids
      <4> QED
        BY <4>1 DEF PendingWakes, TriggerInv, WakeFact
    <3>3. /\ r \in Jobs /\ r.pc = "wakes" /\ r.path = "recovery" /\ r.frame = job[p].frame /\ r.todo = PendingWakes
      BY <1>1, <2>1, <3>1, <3>2 DEF Jobs, InHand
    <3>4. JobFact(r)
      BY <1>1, <2>1, <3>2, <3>3 DEF JobFact, InHand
    <3>5. To(p, r) /\ UNCHANGED occurrence
      BY <1>4, <2>2, <3>1 DEF RecoveryMaterializes
    <3> QED
      BY <2>1, <3>3, <3>4, <3>5, QuietJob DEF To
  <2>3. CASE job[p].todo # {}
    <3>1. PICK i \in job[p].todo : occurrence' = Materialized(i) /\ To(p, [job[p] EXCEPT !.todo = @ \ {i}])
      BY <1>4, <2>3 DEF RecoveryMaterializes
    <3>2. PICK r : r = [job[p] EXCEPT !.todo = @ \ {i}]
      OBVIOUS
    <3>3. /\ r \in Jobs /\ r.pc = "materialize" /\ r.path = "recovery" /\ r.frame = job[p].frame
          /\ r.todo = job[p].todo \ {i}
      BY <1>1, <2>1, <3>2 DEF Jobs
    <3>4. i \in Fired /\ Fired' = Fired
      BY <1>1, <2>1, <3>1 DEF JobFact, Fired
    <3>5. JobFact(r)'
      BY <1>1, <2>1, <3>3, <3>4 DEF JobFact, InHand
    <3>6. Kept /\ StoresTyped' /\ CooldownHolds' /\ (\A k \in Ids : WakeFact(k)')
      BY <1>2, <2>1, <3>1, <3>4
    <3> QED
      BY <3>1, <3>2, <3>3, <3>5, <3>6, JobMoves DEF To
  <2> QED
    BY <2>2, <2>3
<1> QED
  BY <1>3, <1>4

\* The three commits that turn an occurrence into a Run with a Session.
LEMMA StageKeepsTriggers ==
  ASSUME TriggerInv, NEW p \in Controls \union Replayers, StagesPrompt(p)
  PROVE  TriggerInv'
<1>1. job[p] \in Jobs /\ JobFact(job[p])
  BY DEF TriggerInv
<1>2. PICK i \in Fired : i = job[p].id
  BY <1>1 DEF StagesPrompt, JobFact, InHand
<1>3. /\ i \in Ids /\ occurrence[i] # Absent /\ job[p].pc = "stage" /\ job[p].text # "none"
      /\ UNCHANGED <<revisions, samples, occurrence, wake, runs, sessions, triggerClock>>
  BY <1>1, <1>2, TriggerBasics DEF StagesPrompt, JobFact, InHand
<1>4. PICK w \in Prompts : w = DecisionTriggerWakePrompt(p) /\ w.text = job[p].text
  <2>1. DecisionTriggerWakePrompt(p) \in Prompts
    BY <1>1 DEF DecisionTriggerWakePrompt, Jobs, Prompts
  <2>2. DecisionTriggerWakePrompt(p).text = job[p].text
    BY DEF DecisionTriggerWakePrompt
  <2> QED
    BY <2>1, <2>2
<1>5. w # NoPrompt
  BY <1>3, <1>4 DEF NoPrompt
<1>6. CASE UNCHANGED prompt /\ To(p, After(p))
  BY <1>3, <1>6, AfterTyped, QuietJob DEF To
<1>7. ASSUME prompt[i] \in {NoPrompt, w}, prompt' = [prompt EXCEPT ![i] = w],
             To(p, [job[p] EXCEPT !.pc = "admit"])
      PROVE  TriggerInv'
  <2>1. PICK r : r = [job[p] EXCEPT !.pc = "admit"]
    OBVIOUS
  <2>2. /\ r \in Jobs /\ r.pc = "admit" /\ r.id = i /\ r.text = job[p].text /\ r.revision = job[p].revision
        /\ r.path = job[p].path /\ r.frame = job[p].frame /\ r.todo = job[p].todo
    BY <1>1, <1>2, <2>1 DEF Jobs, InHand
  <2>3. prompt' \in [Ids -> Prompts] /\ prompt'[i] = w /\ \A k \in Ids : k # i => prompt'[k] = prompt[k]
    BY <1>3, <1>7 DEF TriggerInv, StoresTyped
  <2>4. Fired' = Fired
    BY <1>3 DEF Fired
  <2>5. Kept
    BY <1>3, <1>7, <2>3, <2>4 DEF Kept
  <2>6. StoresTyped' /\ CooldownHolds'
    BY <1>3, <2>3 DEF TriggerInv, StoresTyped, CooldownHolds
  <2>7. \A k \in Ids : WakeFact(k)'
    <3> SUFFICES ASSUME NEW k \in Ids PROVE WakeFact(k)'
      OBVIOUS
    <3>1. WakeFact(k) /\ (wake[k] # NoPrompt => prompt'[k] = prompt[k])
      BY <1>7, <2>3 DEF TriggerInv, WakeFact
    <3> QED
      BY <1>3, <2>4, <3>1 DEF WakeFact, Absent
  <2>8. prompt'[i] = [revision |-> r.revision, text |-> r.text]
    BY <1>4, <2>2, <2>3 DEF DecisionTriggerWakePrompt
  <2>9. JobFact(r)'
    BY <1>1, <1>2, <1>3, <2>2, <2>4, <2>8 DEF JobFact, InHand
  <2> QED
    BY <1>7, <2>1, <2>2, <2>5, <2>6, <2>7, <2>9, JobMoves DEF To
<1> QED
  BY <1>2, <1>4, <1>6, <1>7 DEF StagesPrompt

LEMMA AdmitKeepsTriggers ==
  ASSUME TriggerInv, NEW p \in Controls \union Replayers, AdmitDecisionTriggerWake(p)
  PROVE  TriggerInv'
<1>1. job[p] \in Jobs /\ JobFact(job[p]) /\ job[p].pc = "admit"
  BY DEF TriggerInv, AdmitDecisionTriggerWake
<1>2. PICK i \in Fired : i = job[p].id
  BY <1>1 DEF JobFact, InHand
<1>3. /\ i \in Ids /\ occurrence[i] # Absent /\ job[p].text # "none"
      /\ UNCHANGED <<revisions, samples, occurrence, prompt, sessions, triggerClock>>
  BY <1>1, <1>2, TriggerBasics DEF AdmitDecisionTriggerWake, JobFact, InHand
<1>4. PICK w \in Prompts : w = DecisionTriggerWakePrompt(p) /\ w.text = job[p].text
  <2>1. DecisionTriggerWakePrompt(p) \in Prompts
    BY <1>1 DEF DecisionTriggerWakePrompt, Jobs, Prompts
  <2>2. DecisionTriggerWakePrompt(p).text = job[p].text
    BY DEF DecisionTriggerWakePrompt
  <2> QED
    BY <2>1, <2>2
<1>5. w # NoPrompt /\ prompt[i] = w
  BY <1>1, <1>2, <1>3, <1>4 DEF NoPrompt, JobFact, DecisionTriggerWakePrompt
<1>6. PICK r : r = [job[p] EXCEPT !.pc = "prepare"]
  OBVIOUS
<1>7. /\ r \in Jobs /\ r.pc = "prepare" /\ r.id = i /\ r.text = job[p].text
      /\ r.path = job[p].path /\ r.frame = job[p].frame /\ r.todo = job[p].todo
  BY <1>1, <1>2, <1>6 DEF Jobs, InHand
<1>8. \/ Admissible(i) /\ wake' = [wake EXCEPT ![i] = w] /\ runs' = [runs EXCEPT ![i] = @ + 1] /\ To(p, r)
      \/ UNCHANGED <<wake, runs>> /\ Repeats(i, p) /\ To(p, r)
      \/ UNCHANGED <<wake, runs>> /\ To(p, After(p))
  BY <1>2, <1>4, <1>6 DEF AdmitDecisionTriggerWake
<1>9. ASSUME Admissible(i), wake' = [wake EXCEPT ![i] = w], runs' = [runs EXCEPT ![i] = @ + 1], To(p, r)
      PROVE  TriggerInv'
  <2>1. wake[i] = NoPrompt /\ runs[i] = 0
    BY <1>3, <1>9 DEF Admissible, TriggerInv, WakeFact
  <2>2. /\ wake' \in [Ids -> Prompts] /\ wake'[i] = w /\ \A k \in Ids : k # i => wake'[k] = wake[k]
        /\ runs' \in [Ids -> Nat] /\ runs'[i] = 1 /\ \A k \in Ids : k # i => runs'[k] = runs[k]
    BY <1>3, <1>9, <2>1 DEF TriggerInv, StoresTyped
  <2>3. Fired' = Fired
    BY <1>3 DEF Fired
  <2>4. Kept
    BY <1>3, <1>5, <2>2, <2>3 DEF Kept
  <2>5. StoresTyped' /\ CooldownHolds'
    BY <1>3, <2>2 DEF TriggerInv, StoresTyped, CooldownHolds
  <2>6. \A k \in Ids : WakeFact(k)'
    <3> SUFFICES ASSUME NEW k \in Ids PROVE WakeFact(k)'
      OBVIOUS
    <3>1. WakeFact(k)
      BY DEF TriggerInv
    <3>2. CASE k = i
      BY <1>2, <1>3, <1>5, <2>2, <2>3, <3>1, <3>2 DEF WakeFact, Absent
    <3>3. CASE k # i
      BY <1>3, <2>2, <2>3, <3>1, <3>3 DEF WakeFact, Absent
    <3> QED
      BY <3>2, <3>3
  <2>7. JobFact(r)'
    BY <1>1, <1>2, <1>3, <1>5, <1>7, <2>2, <2>3 DEF JobFact, InHand
  <2> QED
    BY <1>7, <1>9, <2>4, <2>5, <2>6, <2>7, JobMoves DEF To
<1>10. ASSUME UNCHANGED <<wake, runs>>, Repeats(i, p), To(p, r) PROVE TriggerInv'
  <2>1. wake[i] # NoPrompt
    BY <1>4, <1>5, <1>10 DEF Repeats
  <2>2. JobFact(r)
    BY <1>1, <1>2, <1>3, <1>7, <2>1 DEF JobFact, InHand
  <2> QED
    BY <1>3, <1>7, <1>10, <2>2, QuietJob DEF To
<1>11. ASSUME UNCHANGED <<wake, runs>>, To(p, After(p)) PROVE TriggerInv'
  BY <1>1, <1>3, <1>11, AfterTyped, QuietJob DEF To
<1> QED
  BY <1>8, <1>9, <1>10, <1>11

LEMMA PrepareKeepsTriggers ==
  ASSUME TriggerInv, NEW p \in Controls \union Replayers, PrepareDecisionTriggerWakeSession(p)
  PROVE  TriggerInv'
<1>1. job[p] \in Jobs /\ JobFact(job[p]) /\ job[p].pc = "prepare"
  BY DEF TriggerInv, PrepareDecisionTriggerWakeSession
<1>2. PICK i \in Fired : i = job[p].id
  BY <1>1 DEF JobFact, InHand
<1>3. /\ i \in Ids /\ wake[i] # NoPrompt /\ sessions' = sessions \union {i} /\ To(p, After(p))
      /\ UNCHANGED <<revisions, samples, occurrence, prompt, wake, runs, triggerClock>>
  BY <1>1, <1>2, TriggerBasics DEF PrepareDecisionTriggerWakeSession, JobFact
<1>4. Fired' = Fired /\ Kept
  BY <1>3 DEF Fired, Kept
<1>5. StoresTyped' /\ CooldownHolds'
  BY <1>3 DEF TriggerInv, StoresTyped, CooldownHolds
<1>6. \A k \in Ids : WakeFact(k)'
  BY <1>3, <1>4 DEF TriggerInv, WakeFact, Absent
<1>7. PICK r \in Jobs : r = After(p) /\ JobFact(r)
  BY <1>1, AfterTyped
<1>8. JobFact(r)'
  BY <1>4, <1>7, FactKept
<1> QED
  BY <1>3, <1>4, <1>5, <1>6, <1>7, <1>8, JobMoves DEF To

\* Revisions and the clock touch no row of a firing.
LEMMA OutsideKeepsTriggers ==
  ASSUME TriggerInv, Passes \/ \E r \in Revisions : RegisterDecisionTrigger(r)
  PROVE  TriggerInv'
<1>1. UNCHANGED <<samples, occurrence, prompt, wake, runs, sessions, job>> /\ Fired' = Fired /\ Kept
  BY DEF Passes, RegisterDecisionTrigger, Fired, Kept, Absent
<1>2. triggerClock' \in 0..ClockBound
  BY TriggerConstants DEF Passes, RegisterDecisionTrigger, TriggerInv, StoresTyped
<1>3. /\ revisions' \in Seq(Revisions) /\ Len(revisions') >= Len(revisions)
      /\ \A i \in 1..Len(revisions) : revisions'[i] = revisions[i]
  <2>1. revisions \in Seq(Revisions)
    BY DEF TriggerInv, StoresTyped
  <2>2. CASE Passes
    BY <2>1, <2>2 DEF Passes
  <2>3. CASE \E r \in Revisions : RegisterDecisionTrigger(r)
    <3>1. PICK r \in Revisions : revisions' = Append(revisions, r)
      BY <2>3 DEF RegisterDecisionTrigger
    <3> QED
      BY <2>1, <3>1
  <2> QED
    BY <2>2, <2>3
<1>4. StoresTyped' /\ CooldownHolds'
  <2>1. PICK n \in Nat, m \in Nat : n = Len(revisions) /\ m = Len(revisions') /\ n <= m
    BY <1>3 DEF TriggerInv, StoresTyped
  <2>2. ASSUME NEW i \in 1..Len(samples)
        PROVE  /\ samples[i].revision \in 1..m
               /\ revisions'[samples[i].revision] = revisions[samples[i].revision]
    BY <1>3, <2>1, <2>2 DEF TriggerInv, StoresTyped
  <2>3. StoresTyped'
    BY <1>1, <1>2, <1>3, <2>1, <2>2 DEF TriggerInv, StoresTyped
  <2>4. CooldownHolds'
    BY <1>1, <2>2 DEF TriggerInv, CooldownHolds
  <2> QED
    BY <2>3, <2>4
<1>5. \A i \in Ids : WakeFact(i)'
  BY <1>1 DEF TriggerInv, WakeFact, Absent
<1>6. ASSUME NEW q \in Controls \union Replayers PROVE JobFact(job[q])'
  <2>1. PICK j \in Jobs : j = job[q] /\ JobFact(j)
    BY DEF TriggerInv
  <2>2. JobFact(j)' /\ job'[q] = j
    BY <1>1, <2>1, FactKept
  <2> QED
    BY <2>2 DEF JobFact
<1>7. job' \in [Controls \union Replayers -> Jobs]
  BY <1>1 DEF TriggerInv
<1> QED
  BY <1>4, <1>5, <1>6, <1>7 DEF TriggerInv

LEMMA TriggersNextKeepsInv == TriggerInv /\ [TriggersNext]_triggerVars => TriggerInv'
<1> SUFFICES ASSUME TriggerInv, [TriggersNext]_triggerVars PROVE TriggerInv'
  OBVIOUS
<1>1. CASE UNCHANGED triggerVars
  BY <1>1 DEF triggerVars, TriggerInv, StoresTyped, CooldownHolds, WakeFact, JobFact, Fired
<1>2. ASSUME NEW p \in Controls \union Replayers, Chain(p) PROVE TriggerInv'
  BY <1>2, MaterializeKeepsTriggers, StageKeepsTriggers, AdmitKeepsTriggers, PrepareKeepsTriggers DEF Chain
<1>3. ASSUME NEW c \in Controls, Evaluates(c) PROVE TriggerInv'
  BY <1>2, <1>3, QuietStepsKeepTriggers, MaterializeKeepsTriggers, SamplesKeepTriggers DEF Evaluates
<1>4. ASSUME NEW r \in Replayers, RecordMoodyBluesReplaySample(r) \/ Chain(r) \/ \E f \in Frames : ReplayNext(r, f)
      PROVE  TriggerInv'
  BY <1>2, <1>4, QuietStepsKeepTriggers, SamplesKeepTriggers
<1> QED
  BY <1>1, <1>3, <1>4, QuietStepsKeepTriggers, OutsideKeepsTriggers DEF TriggersNext

\* However many processes, recovery passes and repeated replay frames drive a
\* sample, it gets one Run, admitted with the committed prompt, and firings are
\* a cooldown apart in market time, across revisions and whatever order the
\* observations are recorded in (record_cortex_decision_trigger_sample,
\* admit_cortex_decision_trigger_wake).
THEOREM WakesStaySpaced == TriggersSpec => []WakesAreSpaced
<1>1. TriggerInv => WakesAreSpaced
  <2> SUFFICES ASSUME TriggerInv PROVE WakesAreSpaced
    OBVIOUS
  <2>1. ASSUME NEW i \in Ids
        PROVE  /\ runs[i] <= 1
               /\ runs[i] = 1 => samples[i].fired /\ occurrence[i] # Absent /\ wake[i] = prompt[i]
               /\ i \in sessions => runs[i] = 1
    BY DEF TriggerInv, WakeFact, Fired
  <2> QED
    BY <2>1 DEF WakesAreSpaced, OneWakePerFiring, TriggerInv
<1> QED
  BY <1>1, TriggerInitInv, TriggersNextKeepsInv, PTL DEF TriggersSpec
=============================================================================
