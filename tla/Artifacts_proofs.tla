--------------------------- MODULE Artifacts_proofs ---------------------------
(***************************************************************************)
(* Proofs about Artifacts, for all sets of paths, contents, runs and       *)
(* workers, every batch size and any number of faults.                     *)
(***************************************************************************)
EXTENDS Artifacts, TLAPS

\* What a run knows of the paths it does not upload (any more).
PlanOK(r) ==
  /\ cli[r].pc = "check" =>
       \A p \in Path \ (cli[r].left \cup cli[r].todo) : project =>
         record[p] # {} /\ (~cli[r].clash => record[p] = {BuildOf[r][p]})
  /\ cli[r].pc \in {"upload", "sent"} =>
       \A p \in Path \ cli[r].todo : project => record[p] = {BuildOf[r][p]}
  /\ cli[r].pc = "done" => \A p \in Path : project => record[p] = {BuildOf[r][p]}

\* A run has one upload at a time.
UpOK(r) ==
  /\ up[r].pc = "idle" <=> up[r].at = {}
  /\ cli[r].pc \notin {"sent", "failed"} => up[r].pc = "idle"

\* The content of a run's upload, once it may be in the storage.
Sent(r) ==
  IF up[r].pc \in {"insert", "race", "undo"} THEN {BuildOf[r][p] : p \in up[r].at} ELSE {}

\* Deletions follow the end of the project, whose rows are all gone by then.
DeletionsOK ==
  /\ \A c \in Content : deletions[c] # "none" => ~project
  /\ ~project => \A p \in Path : record[p] = {}
  /\ removal # "idle" => project
  /\ removal = "artifacts" => doomed = Keys

\* A worker removes what is due, and what it has removed and finds again is an
\* upload's.
WorkersOK ==
  \A w \in Worker :
    /\ worker[w].todo \subseteq worker[w].hold
    /\ worker[w].gone \subseteq worker[w].hold
    /\ \A c \in worker[w].hold : deletions[c] # "none"
    /\ \A c \in worker[w].gone : c \in file => c \in stray \/ Uploading(c)

\* Files that rows rely on, or will.
FilesKept ==
  /\ Keys \subseteq file \cup undone
  /\ \A r \in Run : up[r].pc = "insert" /\ project =>
       \A p \in up[r].at : BuildOf[r][p] \in file \cup undone

\* Whom each file belongs to.
FilesOwned ==
  \A c \in file :
    \/ c \in stray
    \/ Uploading(c)
    \/ project /\ c \in Keys
    \/ ~project /\ deletions[c] = "pending"

IInv == /\ TypeOK
        /\ \A r \in Run : PlanOK(r) /\ UpOK(r)
        /\ DeletionsOK
        /\ WorkersOK
        /\ FilesKept
        /\ FilesOwned

-----------------------------------------------------------------------------
LEMMA KeysOf == \A c : c \in Keys <=> \E p \in Path : c \in record[p]
BY DEF Keys

LEMMA UploadingSent == \A c : Uploading(c) <=> \E r \in Run : c \in Sent(r)
BY DEF Uploading, Sent

LEMMA InitIInv == Init => IInv
<1> SUFFICES ASSUME Init PROVE IInv
  OBVIOUS
<1>1. NewRun \in CliState /\ NewRun.pc = "scan"
  BY DEF NewRun, CliState
<1>2. NoUpload \in UpState /\ NoUpload.pc = "idle" /\ NoUpload.at = {}
  BY DEF NoUpload, UpState
<1>3. /\ IdleWorker \in WorkerState
      /\ IdleWorker.hold = {} /\ IdleWorker.todo = {} /\ IdleWorker.gone = {}
  BY DEF IdleWorker, WorkerState
<1>4. TypeOK
  <2>1. record \in [Path -> {{}} \cup {{c} : c \in Content}]
    BY DEF Init
  <2>2. worker \in [Worker -> WorkerState] /\ cli \in [Run -> CliState] /\ up \in [Run -> UpState]
    BY <1>1, <1>2, <1>3 DEF Init
  <2>3. deletions \in [Content -> {"none", "pending", "done"}]
    BY DEF Init
  <2>4. faults \in 0..MaxFaults
    BY ConstantsAssumption DEF Init
  <2>5. QED
    BY <2>1, <2>2, <2>3, <2>4 DEF Init, TypeOK
<1>5. \A r \in Run : PlanOK(r) /\ UpOK(r)
  BY <1>1, <1>2 DEF Init, PlanOK, UpOK
<1>6. DeletionsOK /\ WorkersOK
  BY <1>3 DEF Init, DeletionsOK, WorkersOK
<1>7. FilesKept /\ FilesOwned
  BY <1>2, KeysOf DEF Init, FilesKept, FilesOwned
<1>8. QED
  BY <1>4, <1>5, <1>6, <1>7 DEF IInv

-----------------------------------------------------------------------------
\* A step of one run: rows are only added, and none while the release is
\* locked; no file is lost that a row relies on; what the upload leaves behind
\* belongs to a row, is recorded as stray, or is not in the storage.
LEMMA RunStep ==
  ASSUME IInv, NEW r \in Run,
         UNCHANGED <<project, deletions, removal, doomed, worker>>,
         TypeOK',
         \A q \in Run \ {r} : cli'[q] = cli[q] /\ up'[q] = up[q],
         PlanOK(r)', UpOK(r)',
         \A p \in Path : \/ record'[p] = record[p]
                         \/ record[p] = {} /\ project /\ ~ReleaseLocked,
         stray \subseteq stray',
         file \cup undone \subseteq file' \cup undone',
         file' \subseteq file \cup Sent(r)',
         \A c \in Keys' : c \in Keys \cup file' \cup undone',
         \A c \in Sent(r) : c \in Sent(r)' \/ c \in stray' \/ c \notin file' \/ c \in Keys',
         up'[r].pc = "insert" /\ project =>
           \A p \in up'[r].at : BuildOf[r][p] \in file' \cup undone'
  PROVE  IInv'
<1> USE DEF IInv
<1>1. \A q \in Run : PlanOK(q)' /\ UpOK(q)'
  <2> SUFFICES ASSUME NEW q \in Run \ {r} PROVE PlanOK(q)' /\ UpOK(q)'
    OBVIOUS
  <2>1. PlanOK(q) /\ UpOK(q) /\ cli'[q] = cli[q] /\ up'[q] = up[q]
    OBVIOUS
  <2>2. \A p \in Path : record[p] # {} => record'[p] = record[p]
    OBVIOUS
  <2>3. \A p \in Path : record[p] = {BuildOf[q][p]} => record'[p] = {BuildOf[q][p]}
    BY <2>2
  <2>4. PlanOK(q)'
    BY <2>1, <2>2, <2>3 DEF PlanOK
  <2>5. UpOK(q)'
    BY <2>1 DEF UpOK
  <2>6. QED
    BY <2>4, <2>5
<1>2. Keys \subseteq Keys'
  <2>1. \A p \in Path : record[p] \subseteq record'[p]
    OBVIOUS
  <2>2. QED
    BY <2>1 DEF Keys
<1>3. ~project => Keys' = {}
  BY DEF Keys, DeletionsOK
<1>4. \A c : Uploading(c) =>
        Uploading(c)' \/ c \in stray' \/ c \notin file' \/ c \in Keys'
  <2> SUFFICES ASSUME NEW c, Uploading(c)
               PROVE  Uploading(c)' \/ c \in stray' \/ c \notin file' \/ c \in Keys'
    OBVIOUS
  <2>1. PICK q \in Run : c \in Sent(q)
    BY UploadingSent
  <2>2. CASE q = r
    BY <2>1, <2>2 DEF Uploading, Sent
  <2>3. CASE q # r
    BY <2>1, <2>3 DEF Uploading, Sent
  <2>4. QED
    BY <2>2, <2>3
<1>5. \A c \in file' : c \in file \/ Uploading(c)'
  BY DEF Uploading, Sent
<1>6. DeletionsOK'
  <2>1. removal = "artifacts" => record' = record
    <3>1. removal = "artifacts" => \A p \in Path : record'[p] = record[p]
      BY DEF ReleaseLocked
    <3>2. QED
      BY <3>1 DEF TypeOK
  <2>2. ~project => \A p \in Path : record'[p] = {}
    BY DEF DeletionsOK
  <2>3. QED
    BY <2>1, <2>2 DEF DeletionsOK, Keys
<1>7. WorkersOK'
  <2> SUFFICES ASSUME NEW w \in Worker
               PROVE  /\ worker[w].todo \subseteq worker[w].hold
                      /\ worker[w].gone \subseteq worker[w].hold
                      /\ \A c \in worker[w].hold : deletions[c] # "none"
                      /\ \A c \in worker[w].gone :
                           c \in file' => c \in stray' \/ Uploading(c)'
    BY DEF WorkersOK
  <2>1. /\ worker[w].todo \subseteq worker[w].hold
        /\ worker[w].gone \subseteq worker[w].hold
        /\ \A c \in worker[w].hold : deletions[c] # "none"
        /\ \A c \in worker[w].gone : c \in file => c \in stray \/ Uploading(c)
    BY DEF WorkersOK
  <2>2. ASSUME NEW c \in worker[w].gone, c \in file' PROVE c \in stray' \/ Uploading(c)'
    <3>1. ~project
      BY <2>1, <2>2 DEF DeletionsOK, TypeOK, WorkerState
    <3>2. QED
      BY <2>1, <2>2, <3>1, <1>3, <1>4, <1>5
  <2>3. QED
    BY <2>1, <2>2
<1>8. FilesKept'
  <2>1. Keys' \subseteq file' \cup undone'
    BY DEF FilesKept
  <2>2. ASSUME NEW q \in Run, up'[q].pc = "insert", project, NEW p \in up'[q].at
        PROVE  BuildOf[q][p] \in file' \cup undone'
    BY <2>2 DEF FilesKept
  <2>3. QED
    BY <2>1, <2>2 DEF FilesKept
<1>9. FilesOwned'
  <2> SUFFICES ASSUME NEW c \in file'
               PROVE  \/ c \in stray'
                      \/ Uploading(c)'
                      \/ project /\ c \in Keys'
                      \/ ~project /\ deletions[c] = "pending"
    BY DEF FilesOwned
  <2>1. CASE Uploading(c)'
    BY <2>1
  <2>2. CASE ~Uploading(c)'
    <3>1. c \in file
      BY <2>2, <1>5
    <3>2. \/ c \in stray
          \/ Uploading(c)
          \/ project /\ c \in Keys
          \/ ~project /\ deletions[c] = "pending"
      BY <3>1 DEF FilesOwned
    <3>3. QED
      BY <3>2, <2>2, <1>2, <1>3, <1>4
  <2>3. QED
    BY <2>1, <2>2
<1>10. QED
  BY <1>1, <1>6, <1>7, <1>8, <1>9

-----------------------------------------------------------------------------
\* The runs of the CLI.

LEMMA CliStep ==
  ASSUME IInv, NEW r \in Run, NEW s \in CliState, cli' = [cli EXCEPT ![r] = s],
         UNCHANGED <<project, record, file, deletions, removal, doomed, worker, up, ghosts>>,
         release' \in BOOLEAN, faults' \in 0..MaxFaults, PlanOK(r)',
         s.pc \notin {"sent", "failed"} => up[r].pc = "idle"
  PROVE  IInv'
<1> USE DEF IInv, ghosts
<1>1. cli' \in [Run -> CliState] /\ cli'[r] = s
  BY DEF TypeOK
<1>2. TypeOK'
  BY <1>1 DEF TypeOK
<1>3. UpOK(r)'
  BY <1>1 DEF UpOK
<1>4. Sent(r)' = Sent(r)
  BY DEF Sent
<1>5. Keys' = Keys
  BY DEF Keys
<1>6. up[r].pc = "insert" /\ project => \A p \in up[r].at : BuildOf[r][p] \in file \cup undone
  BY DEF FilesKept
<1>7. \A q \in Run \ {r} : cli'[q] = cli[q] /\ up'[q] = up[q]
  BY DEF TypeOK
<1>8. QED
  BY <1>2, <1>3, <1>4, <1>5, <1>6, <1>7, RunStep

LEMMA CliActions ==
  ASSUME IInv, NEW r \in Run,
         \/ CreateOrConfirmRelease(r) \/ PlanUploads(r) \/ FinishRun(r) \/ CliTimeout(r)
         \/ \E p \in Path : CheckEntry(r, p)
  PROVE  IInv'
<1>1. /\ cli \in [Run -> CliState] /\ release \in BOOLEAN /\ faults \in 0..MaxFaults
      /\ record \in [Path -> {{}} \cup {{c} : c \in Content}]
      /\ PlanOK(r) /\ UpOK(r)
  BY DEF IInv, TypeOK
<1>2. /\ cli[r] \in CliState /\ cli[r].left \subseteq Path /\ cli[r].todo \subseteq Path
      /\ cli[r].clash \in BOOLEAN
  BY <1>1 DEF CliState
<1> DEFINE New(pc, left, todo, clash) ==
             [pc |-> pc, left |-> left, todo |-> todo, clash |-> clash]
<1>3. CASE CreateOrConfirmRelease(r)
  <2>1. CASE project
    <3>1. New("check", Path, {}, FALSE) \in CliState
      BY DEF CliState
    <3>2. cli' = [cli EXCEPT ![r] = New("check", Path, {}, FALSE)]
      BY <1>3, <2>1 DEF CreateOrConfirmRelease, Cli
    <3>3. PlanOK(r)'
      BY <3>2, <1>1 DEF PlanOK
    <3>4. QED
      BY <1>1, <1>3, <2>1, <3>1, <3>2, <3>3, CliStep DEF CreateOrConfirmRelease, UpOK
  <2>2. CASE ~project
    <3>1. New("failed", {}, {}, FALSE) \in CliState
      BY DEF CliState
    <3>2. cli' = [cli EXCEPT ![r] = New("failed", {}, {}, FALSE)]
      BY <1>3, <2>2 DEF CreateOrConfirmRelease, Cli
    <3>3. PlanOK(r)'
      BY <3>2, <1>1 DEF PlanOK
    <3>4. QED
      BY <1>1, <1>3, <2>2, <3>1, <3>2, <3>3, CliStep DEF CreateOrConfirmRelease
  <2>3. QED
    BY <2>1, <2>2
<1>4. CASE PlanUploads(r)
  <2>1. PICK pc \in {"failed", "upload"} :
          /\ pc = "upload" => ~cli[r].clash
          /\ cli' = [cli EXCEPT ![r] = New(pc, {}, cli[r].todo, FALSE)]
    BY <1>4 DEF PlanUploads, Cli
  <2>2. New(pc, {}, cli[r].todo, FALSE) \in CliState
    BY <1>2 DEF CliState
  <2>3. cli'[r] = New(pc, {}, cli[r].todo, FALSE) /\ UNCHANGED <<project, record>>
    BY <1>1, <1>4, <2>1 DEF PlanUploads, database
  <2>4. PlanOK(r)'
    BY <1>1, <1>4, <2>1, <2>3 DEF PlanOK, PlanUploads
  <2>5. QED
    BY <1>1, <1>4, <2>1, <2>2, <2>4, CliStep DEF PlanUploads, UpOK, database
<1>5. CASE FinishRun(r)
  <2>1. New("done", {}, {}, FALSE) \in CliState
    BY DEF CliState
  <2>2. cli' = [cli EXCEPT ![r] = New("done", {}, {}, FALSE)] /\ UNCHANGED <<project, record>>
    BY <1>5 DEF FinishRun, Cli, database
  <2>3. PlanOK(r)'
    BY <1>1, <1>5, <2>2 DEF PlanOK, FinishRun
  <2>4. QED
    BY <1>1, <1>5, <2>1, <2>2, <2>3, CliStep DEF FinishRun, UpOK, database
<1>6. CASE CliTimeout(r)
  <2>1. New("failed", {}, {}, FALSE) \in CliState
    BY DEF CliState
  <2>2. cli' = [cli EXCEPT ![r] = New("failed", {}, {}, FALSE)]
    BY <1>6 DEF CliTimeout, Cli
  <2>3. PlanOK(r)'
    BY <1>1, <2>2 DEF PlanOK
  <2>4. faults' \in 0..MaxFaults
    BY <1>1, <1>6, ConstantsAssumption DEF CliTimeout, Fault
  <2>5. QED
    BY <1>1, <1>6, <2>1, <2>2, <2>3, <2>4, CliStep DEF CliTimeout, database
<1>7. CASE \E p \in Path : CheckEntry(r, p)
  <2>1. PICK p \in Path : CheckEntry(r, p)
    BY <1>7
  <2> DEFINE todo == IF record[p] = {} THEN cli[r].todo \cup {p} ELSE cli[r].todo
             clash == cli[r].clash \/ record[p] \notin {{}, {BuildOf[r][p]}}
  <2>2. todo \subseteq Path /\ clash \in BOOLEAN
    BY <1>2
  <2>3. /\ record[p] = {} => p \in todo
        /\ cli[r].todo \subseteq todo
        /\ ~clash => ~cli[r].clash /\ record[p] \in {{}, {BuildOf[r][p]}}
    OBVIOUS
  <2>4. cli' = [cli EXCEPT ![r] = New("check", cli[r].left \ {p}, todo, clash)]
    BY <2>1 DEF CheckEntry, Cli
  <2>5. UNCHANGED <<project, record>>
    BY <2>1 DEF CheckEntry, database
  <2> HIDE DEF todo, clash
  <2>6. New("check", cli[r].left \ {p}, todo, clash) \in CliState
    BY <1>2, <2>2 DEF CliState
  <2>7. cli'[r] = New("check", cli[r].left \ {p}, todo, clash)
    BY <1>1, <2>4
  <2>8. PlanOK(r)'
    <3>1. ASSUME NEW q \in Path \ ((cli[r].left \ {p}) \cup todo), project
          PROVE  record[q] # {} /\ (~clash => record[q] = {BuildOf[r][q]})
      <4>1. CASE q = p
        BY <2>3, <3>1, <4>1
      <4>2. CASE q # p
        BY <1>1, <2>1, <2>3, <3>1, <4>2 DEF PlanOK, CheckEntry
      <4>3. QED
        BY <4>1, <4>2
    <3>2. QED
      BY <2>5, <2>7, <3>1 DEF PlanOK
  <2>9. QED
    BY <1>1, <2>1, <2>4, <2>6, <2>8, CliStep DEF CheckEntry, UpOK, database
<1>8. QED
  BY <1>3, <1>4, <1>5, <1>6, <1>7

-----------------------------------------------------------------------------
\* The API's handling of an upload: going on, and answering.

LEMMA UpFacts ==
  ASSUME IInv, NEW r \in Run, up[r].pc # "idle"
  PROVE  \E p \in Path : up[r].at = {p} /\ BuildOf[r][p] \in Content
<1>1. up[r] \in UpState /\ up[r].at # {}
  BY DEF IInv, TypeOK, UpOK
<1>2. PICK p \in Path : up[r].at = {p}
  BY <1>1 DEF UpState
<1>3. BuildOf[r][p] \in Content
  BY ConstantsAssumption
<1>4. QED
  BY <1>2, <1>3

LEMMA GoOn ==
  ASSUME IInv, NEW r \in Run, up[r].pc # "idle",
         NEW pc \in {"find", "put", "insert", "race", "undo"}, Goto(r, pc), UNCHANGED <<cli, project>>,
         \A p \in Path : record'[p] = record[p] \/ record[p] = {}
  PROVE  /\ cli' \in [Run -> CliState] /\ up' \in [Run -> UpState]
         /\ \A q \in Run \ {r} : cli'[q] = cli[q] /\ up'[q] = up[q]
         /\ PlanOK(r)' /\ UpOK(r)'
         /\ up'[r].pc = pc
         /\ up'[r].at = up[r].at
         /\ pc \in {"insert", "race", "undo"} => Sent(r)' = {BuildOf[r][p] : p \in up[r].at}
         /\ pc \in {"find", "put"} => Sent(r)' = {}
<1> USE DEF IInv
<1>1. /\ cli \in [Run -> CliState] /\ up \in [Run -> UpState]
      /\ PlanOK(r) /\ UpOK(r)
  BY DEF TypeOK
<1>2. up' = [up EXCEPT ![r] = [pc |-> pc, at |-> up[r].at]]
  BY <1>1 DEF Goto
<1>3. [pc |-> pc, at |-> up[r].at] \in UpState
  BY <1>1 DEF UpState
<1>4. up' \in [Run -> UpState] /\ up'[r] = [pc |-> pc, at |-> up[r].at]
  BY <1>1, <1>2, <1>3
<1>5. UpOK(r)'
  BY <1>1, <1>4 DEF UpOK
<1>6. PlanOK(r)'
  BY <1>1, <1>5 DEF PlanOK, UpOK
<1>7. Sent(r)' = IF pc \in {"insert", "race", "undo"}
                 THEN {BuildOf[r][p] : p \in up[r].at} ELSE {}
  BY <1>4 DEF Sent
<1>8. QED
  BY <1>1, <1>2, <1>4, <1>5, <1>6, <1>7

LEMMA Answer ==
  ASSUME IInv, NEW r \in Run, up[r].pc # "idle",
         NEW ok \in BOOLEAN, Reply(r, ok), UNCHANGED project,
         \A p \in Path : record'[p] = record[p] \/ record[p] = {},
         ok => \A p \in up[r].at : project => record'[p] = {BuildOf[r][p]}
  PROVE  /\ cli' \in [Run -> CliState] /\ up' \in [Run -> UpState]
         /\ \A q \in Run \ {r} : cli'[q] = cli[q] /\ up'[q] = up[q]
         /\ PlanOK(r)' /\ UpOK(r)'
         /\ up'[r].pc = "idle"
         /\ Sent(r)' = {}
<1> USE DEF IInv
<1>1. /\ cli \in [Run -> CliState] /\ up \in [Run -> UpState]
      /\ PlanOK(r) /\ UpOK(r) /\ cli[r] \in CliState
  BY DEF TypeOK
<1>2. NoUpload \in UpState /\ NoUpload.pc = "idle" /\ NoUpload.at = {}
  BY DEF NoUpload, UpState
<1>3. up' \in [Run -> UpState] /\ up'[r] = NoUpload
      /\ \A q \in Run \ {r} : up'[q] = up[q]
  BY <1>1, <1>2 DEF Reply
<1> DEFINE answered == [pc |-> IF ok THEN "upload" ELSE "failed", left |-> {},
                        todo |-> IF ok THEN cli[r].todo \ up[r].at ELSE {}, clash |-> FALSE]
<1>4. cli' = [cli EXCEPT ![r] = IF cli[r].pc # "sent" THEN cli[r] ELSE answered]
  BY <1>1 DEF Reply
<1>5. answered \in CliState
  BY <1>1 DEF CliState
<1>6. cli' \in [Run -> CliState] /\ \A q \in Run \ {r} : cli'[q] = cli[q]
  BY <1>1, <1>4, <1>5
<1>7. PlanOK(r)' /\ UpOK(r)'
  <2>1. CASE cli[r].pc # "sent"
    <3>1. cli'[r] = cli[r] /\ cli[r].pc = "failed"
      BY <1>1, <1>4, <2>1 DEF UpOK
    <3>2. QED
      BY <1>2, <1>3, <3>1 DEF PlanOK, UpOK
  <2>2. CASE cli[r].pc = "sent" /\ ~ok
    <3>1. cli'[r].pc = "failed"
      BY <1>1, <1>4, <2>2
    <3>2. QED
      BY <1>2, <1>3, <3>1 DEF PlanOK, UpOK
  <2>3. CASE cli[r].pc = "sent" /\ ok
    <3>1. cli'[r].pc = "upload" /\ cli'[r].todo = cli[r].todo \ up[r].at
      BY <1>1, <1>4, <2>3
    <3>2. ASSUME NEW p \in Path \ (cli[r].todo \ up[r].at), project
          PROVE  record'[p] = {BuildOf[r][p]}
      <4>1. CASE p \in up[r].at
        BY <2>3, <3>2, <4>1
      <4>2. CASE p \notin cli[r].todo
        BY <1>1, <2>3, <3>2, <4>2 DEF PlanOK
      <4>3. QED
        BY <3>2, <4>1, <4>2
    <3>3. QED
      BY <1>2, <1>3, <3>1, <3>2 DEF PlanOK, UpOK
  <2>4. QED
    BY <2>1, <2>2, <2>3
<1>8. Sent(r)' = {}
  BY <1>2, <1>3 DEF Sent
<1>9. QED
  BY <1>2, <1>3, <1>6, <1>7, <1>8

\* Steps that touch neither rows nor files.
LEMMA UploadBegins ==
  ASSUME IInv, NEW r \in Run,
         \/ \E p \in Path : SendUpload(r, p)
         \/ StageUpload(r) \/ FindByPath(r) \/ PutFails(r)
  PROVE  IInv'
<1> USE DEF IInv, database, ghosts
<1>1. TypeOK /\ PlanOK(r) /\ UpOK(r)
  OBVIOUS
<1>2. UNCHANGED <<project, release, record, file, deletions, removal, doomed, worker, undone, stray>>
  BY DEF SendUpload, StageUpload, FindByPath, PutFails
<1>3. Keys' = Keys
  BY <1>2 DEF Keys
<1>4. faults' \in 0..MaxFaults
  <2>1. faults' = faults \/ Fault
    BY DEF SendUpload, StageUpload, FindByPath, PutFails
  <2>2. QED
    BY <1>1, <2>1, ConstantsAssumption DEF Fault, TypeOK
<1> DEFINE Moved == /\ cli' \in [Run -> CliState] /\ up' \in [Run -> UpState]
                    /\ \A q \in Run \ {r} : cli'[q] = cli[q] /\ up'[q] = up[q]
                    /\ PlanOK(r)' /\ UpOK(r)'
                    /\ Sent(r) = {} /\ Sent(r)' = {} /\ up'[r].pc # "insert"
<1>5. SUFFICES Moved
  <2>1. TypeOK'
    BY <1>1, <1>2, <1>4, <1>5 DEF TypeOK
  <2>2. QED
    BY <1>2, <1>3, <1>5, <2>1, RunStep
<1>6. CASE \E p \in Path : SendUpload(r, p)
  <2>1. PICK p \in Path : SendUpload(r, p)
    BY <1>6
  <2>2. up[r].pc = "idle" /\ Sent(r) = {}
    BY <1>1, <2>1 DEF SendUpload, UpOK, Sent
  <2>3. CASE /\ cli' = [cli EXCEPT ![r] = [pc |-> "sent", left |-> {}, todo |-> cli[r].todo,
                                            clash |-> FALSE]]
             /\ up' = [up EXCEPT ![r] = [pc |-> "stage", at |-> {p}]]
    <3>1. /\ [pc |-> "sent", left |-> {}, todo |-> cli[r].todo, clash |-> FALSE] \in CliState
          /\ [pc |-> "stage", at |-> {p}] \in UpState
      BY <1>1 DEF TypeOK, CliState, UpState
    <3>2. /\ cli' \in [Run -> CliState] /\ up' \in [Run -> UpState]
          /\ cli'[r].pc = "sent" /\ cli'[r].todo = cli[r].todo
          /\ up'[r].pc = "stage" /\ up'[r].at = {p}
          /\ \A q \in Run \ {r} : cli'[q] = cli[q] /\ up'[q] = up[q]
      BY <1>1, <2>3, <3>1 DEF TypeOK
    <3>3. PlanOK(r)' /\ UpOK(r)'
      BY <1>1, <1>2, <2>1, <3>2 DEF PlanOK, UpOK, SendUpload
    <3>4. QED
      BY <2>2, <3>2, <3>3 DEF Sent
  <2>4. CASE /\ cli' = [cli EXCEPT ![r] = [pc |-> "failed", left |-> {}, todo |-> {},
                                            clash |-> FALSE]]
             /\ UNCHANGED up
    <3>1. [pc |-> "failed", left |-> {}, todo |-> {}, clash |-> FALSE] \in CliState
      BY DEF CliState
    <3>2. /\ cli' \in [Run -> CliState] /\ up' \in [Run -> UpState]
          /\ cli'[r].pc = "failed"
          /\ \A q \in Run \ {r} : cli'[q] = cli[q] /\ up'[q] = up[q]
      BY <1>1, <2>4, <3>1 DEF TypeOK
    <3>3. PlanOK(r)' /\ UpOK(r)'
      BY <1>1, <2>4, <3>2 DEF PlanOK, UpOK
    <3>4. QED
      BY <2>2, <2>4, <3>2, <3>3 DEF Sent
  <2>5. QED
    BY <2>1, <2>3, <2>4 DEF SendUpload, Cli
<1>7. CASE StageUpload(r) \/ FindByPath(r) \/ PutFails(r)
  <2>1. up[r].pc \in {"stage", "find", "put"}
    BY <1>7 DEF StageUpload, FindByPath, PutFails
  <2>2. Sent(r) = {}
    BY <2>1 DEF Sent
  <2>3. CASE \E pc \in {"find", "put"} : Goto(r, pc) /\ UNCHANGED cli
    BY <1>2, <2>1, <2>2, <2>3, GoOn
  <2>4. CASE Reply(r, FALSE)
    BY <1>2, <2>1, <2>2, <2>4, Answer
  <2>5. CASE Reply(r, TRUE) /\ \A p \in up[r].at : record[p] = {BuildOf[r][p]}
    BY <1>2, <2>1, <2>2, <2>5, Answer
  <2>6. QED
    <3>1. PICK p \in Path : up[r].at = {p}
      BY <2>1, UpFacts
    <3>2. QED
      BY <1>7, <2>3, <2>4, <2>5, <3>1 DEF StageUpload, FindByPath, PutFails
<1>8. QED
  BY <1>6, <1>7

LEMMA PutStep == ASSUME IInv, NEW r \in Run, PutToStorage(r) PROVE IInv'
<1> USE DEF IInv, database, ghosts
<1>1. TypeOK /\ up[r].pc = "put" /\ Sent(r) = {}
  BY DEF PutToStorage, Sent
<1>2. UNCHANGED <<project, release, record, deletions, removal, doomed, worker, cli, undone, stray,
                  faults>>
  BY DEF PutToStorage
<1>3. PICK p \in Path : up[r].at = {p} /\ BuildOf[r][p] \in Content
  BY <1>1, UpFacts
<1>4. file' = file \cup {BuildOf[r][p]}
  BY <1>3 DEF PutToStorage
<1>5. /\ up' \in [Run -> UpState]
      /\ \A q \in Run \ {r} : cli'[q] = cli[q] /\ up'[q] = up[q]
      /\ PlanOK(r)' /\ UpOK(r)'
      /\ up'[r].at = {p} /\ Sent(r)' = {BuildOf[r][p]}
  BY <1>1, <1>2, <1>3, GoOn DEF PutToStorage
<1>6. TypeOK'
  BY <1>1, <1>2, <1>3, <1>4, <1>5 DEF TypeOK
<1>7. Keys' = Keys
  BY <1>2 DEF Keys
<1>8. QED
  BY <1>1, <1>2, <1>3, <1>4, <1>5, <1>6, <1>7, RunStep

\* The row, at last: inserted, lost to another upload, or impossible.
LEMMA InsertStep ==
  ASSUME IInv, NEW r \in Run, InsertRecord(r) \/ InsertFails(r)
  PROVE  IInv'
<1> USE DEF IInv, database, ghosts
<1>1. TypeOK /\ up[r].pc = "insert" /\ ~ReleaseLocked
  BY DEF InsertRecord, InsertFails
<1>2. UNCHANGED <<project, release, file, deletions, removal, doomed, worker, undone, stray>>
  BY DEF InsertRecord, InsertFails
<1>3. PICK p \in Path : up[r].at = {p} /\ BuildOf[r][p] \in Content
  BY <1>1, UpFacts
<1> DEFINE content == BuildOf[r][p]
<1>4. Sent(r) = {content}
  BY <1>1, <1>3 DEF Sent
<1>5. faults' \in 0..MaxFaults
  <2>1. faults' = faults \/ Fault
    BY DEF InsertRecord, InsertFails
  <2>2. QED
    BY <1>1, <2>1, ConstantsAssumption DEF Fault, TypeOK
<1>6. project => content \in file \cup undone
  BY <1>1, <1>3 DEF FilesKept
<1>7. \/ /\ UNCHANGED record
         /\ UNCHANGED cli
         /\ \E pc \in {"race", "undo"} : Goto(r, pc)
      \/ /\ project /\ record[p] = {} /\ record' = [record EXCEPT ![p] = {content}]
         /\ \/ Reply(r, TRUE)
            \/ Goto(r, "undo") /\ UNCHANGED cli
  BY <1>3 DEF InsertRecord, InsertFails
<1>8. CASE UNCHANGED record /\ UNCHANGED cli /\ \E pc \in {"race", "undo"} : Goto(r, pc)
  <2>1. /\ up' \in [Run -> UpState]
        /\ \A q \in Run \ {r} : cli'[q] = cli[q] /\ up'[q] = up[q]
        /\ PlanOK(r)' /\ UpOK(r)'
        /\ up'[r].pc # "insert" /\ Sent(r)' = {content}
    BY <1>1, <1>2, <1>3, <1>8, GoOn
  <2>2. TypeOK'
    BY <1>1, <1>2, <1>5, <1>8, <2>1 DEF TypeOK
  <2>3. Keys' = Keys
    BY <1>8 DEF Keys
  <2>4. QED
    BY <1>2, <1>4, <1>8, <2>1, <2>2, <2>3, RunStep
<1>9. CASE /\ project /\ record[p] = {} /\ record' = [record EXCEPT ![p] = {content}]
           /\ \/ Reply(r, TRUE)
              \/ Goto(r, "undo") /\ UNCHANGED cli
  <2>1. /\ record' \in [Path -> {{}} \cup {{c} : c \in Content}]
        /\ record'[p] = {content}
        /\ \A q \in Path \ {p} : record'[q] = record[q]
    BY <1>1, <1>3, <1>9 DEF TypeOK
  <2>2. \A q \in Path : record'[q] = record[q] \/ record[q] = {}
    BY <1>9, <2>1
  <2>3. /\ cli' \in [Run -> CliState] /\ up' \in [Run -> UpState]
        /\ \A q \in Run \ {r} : cli'[q] = cli[q] /\ up'[q] = up[q]
        /\ PlanOK(r)' /\ UpOK(r)'
        /\ up'[r].pc # "insert" /\ Sent(r)' \subseteq {content}
    <3>1. CASE Reply(r, TRUE)
      BY <1>1, <1>2, <1>3, <2>1, <2>2, <3>1, Answer
    <3>2. CASE Goto(r, "undo") /\ UNCHANGED cli
      BY <1>1, <1>2, <1>3, <2>2, <3>2, GoOn
    <3>3. QED
      BY <1>9, <3>1, <3>2
  <2>4. TypeOK'
    BY <1>1, <1>2, <1>5, <2>1, <2>3 DEF TypeOK
  <2>5. content \in Keys' /\ \A c \in Keys' : c \in Keys \/ c = content
    BY <2>1 DEF Keys
  <2>6. QED
    BY <1>1, <1>2, <1>4, <1>6, <1>9, <2>1, <2>2, <2>3, <2>4, <2>5, RunStep
<1>10. QED
  BY <1>7, <1>8, <1>9

\* The upload ends without a row of its own.
LEMMA UploadEnds ==
  ASSUME IInv, NEW r \in Run, ResolveInsertRace(r) \/ Undo(r) \/ UploadAbandoned(r)
  PROVE  IInv'
<1> USE DEF IInv, database, ghosts
<1>1. TypeOK /\ up[r].pc # "idle"
  BY DEF ResolveInsertRace, Undo, UploadAbandoned
<1>2. UNCHANGED <<project, release, record, deletions, removal, doomed, worker>>
  BY DEF ResolveInsertRace, Undo, UploadAbandoned
<1>3. PICK p \in Path : up[r].at = {p} /\ BuildOf[r][p] \in Content
  BY <1>1, UpFacts
<1> DEFINE content == BuildOf[r][p]
<1>4. Sent(r) \subseteq {content}
  BY <1>1, <1>3 DEF Sent
<1>5. faults' \in 0..MaxFaults
  <2>1. faults' = faults \/ Fault
    BY DEF ResolveInsertRace, Undo, UploadAbandoned
  <2>2. QED
    BY <1>1, <2>1, ConstantsAssumption DEF Fault, TypeOK
<1>6. Keys' = Keys
  BY <1>2 DEF Keys
<1> DEFINE Moved == /\ cli' \in [Run -> CliState] /\ up' \in [Run -> UpState]
                    /\ \A q \in Run \ {r} : cli'[q] = cli[q] /\ up'[q] = up[q]
                    /\ PlanOK(r)' /\ UpOK(r)'
                    /\ up'[r].pc # "insert"
           Storage == /\ file' \subseteq file /\ undone' \subseteq Content /\ stray' \subseteq Content
                      /\ undone \subseteq undone' /\ stray \subseteq stray'
                      /\ file \cup undone \subseteq file' \cup undone'
           Left == \A c \in Sent(r) :
                     c \in Sent(r)' \/ c \in stray' \/ c \notin file' \/ c \in Keys
<1>7. SUFFICES Moved /\ Storage /\ Left
  <2>1. TypeOK'
    BY <1>1, <1>2, <1>5, <1>7 DEF TypeOK
  <2>2. QED
    BY <1>2, <1>6, <1>7, <2>1, RunStep
<1>8. CASE ResolveInsertRace(r)
  <2>1. file' = file /\ undone' = undone
    BY <1>8 DEF ResolveInsertRace
  <2>2. CASE record[p] = {content}
    <3>1. Reply(r, TRUE) /\ stray' = stray /\ content \in Keys
      BY <1>3, <1>8, <2>2 DEF ResolveInsertRace, Keys
    <3>2. Moved
      BY <1>1, <1>2, <1>3, <2>2, <3>1, Answer
    <3>3. QED
      BY <1>1, <1>4, <2>1, <3>1, <3>2 DEF TypeOK
  <2>3. CASE record[p] = {}
    <3>1. Reply(r, FALSE) /\ stray' = stray \cup {content}
      BY <1>3, <1>8, <2>3 DEF ResolveInsertRace
    <3>2. Moved
      BY <1>1, <1>2, <1>3, <3>1, Answer
    <3>3. QED
      BY <1>1, <1>3, <1>4, <2>1, <3>1, <3>2 DEF TypeOK
  <2>4. CASE record[p] \notin {{}, {content}}
    <3>1. Goto(r, "undo") /\ UNCHANGED <<cli, stray>>
      BY <1>3, <1>8, <2>4 DEF ResolveInsertRace
    <3>2. Moved /\ Sent(r)' = {content}
      BY <1>1, <1>2, <1>3, <3>1, GoOn
    <3>3. QED
      BY <1>1, <1>4, <2>1, <3>1, <3>2 DEF TypeOK
  <2>5. QED
    BY <2>2, <2>3, <2>4
<1>9. CASE Undo(r)
  <2>1. /\ file' = file \ {content} /\ undone' = undone \cup {content} /\ stray' = stray
        /\ Reply(r, FALSE)
    BY <1>3, <1>9 DEF Undo
  <2>2. Moved
    BY <1>1, <1>2, <2>1, Answer
  <2>3. QED
    BY <1>1, <1>3, <1>4, <2>1, <2>2 DEF TypeOK
<1>10. CASE UploadAbandoned(r)
  <2>1. file' = file /\ undone' = undone /\ Reply(r, FALSE)
    BY <1>10 DEF UploadAbandoned
  <2>2. Moved
    BY <1>1, <1>2, <2>1, Answer
  <2>3. stray' = stray \cup Sent(r)
    BY <1>10 DEF UploadAbandoned, Sent
  <2>4. QED
    BY <1>1, <1>3, <1>4, <2>1, <2>2, <2>3 DEF TypeOK
<1>11. QED
  BY <1>8, <1>9, <1>10

-----------------------------------------------------------------------------
\* The deletion of the project.

LEMMA RemovalStep ==
  ASSUME IInv, LockProject \/ LockReleases \/ LockArtifacts \/ DeletionRolledBack
  PROVE  IInv'
<1> USE DEF IInv, ghosts
<1>1. /\ UNCHANGED <<project, release, record, deletions, file, worker, cli, up, undone, stray>>
      /\ removal' \in {"idle", "project", "releases", "artifacts"}
      /\ removal' # "idle" => project
      /\ removal' = "artifacts" => doomed' = Keys
      /\ doomed' \in {doomed, Keys, {}}
  BY DEF LockProject, LockReleases, LockArtifacts, DeletionRolledBack, DeletionsOK
<1>2. faults' \in 0..MaxFaults
  <2>1. faults' = faults \/ Fault
    BY DEF LockProject, LockReleases, LockArtifacts, DeletionRolledBack
  <2>2. QED
    BY <2>1, ConstantsAssumption DEF Fault, TypeOK
<1>3. Keys \subseteq Content /\ Keys' = Keys
  BY <1>1 DEF Keys, TypeOK
<1>4. TypeOK'
  BY <1>1, <1>2, <1>3 DEF TypeOK
<1>5. \A r \in Run : PlanOK(r)' /\ UpOK(r)'
  BY <1>1 DEF PlanOK, UpOK
<1>6. \A c : Uploading(c)' <=> Uploading(c)
  BY <1>1 DEF Uploading
<1>7. DeletionsOK'
  BY <1>1, <1>3 DEF DeletionsOK
<1>8. WorkersOK'
  BY <1>1, <1>6 DEF WorkersOK
<1>9. FilesKept' /\ FilesOwned'
  BY <1>1, <1>3, <1>6 DEF FilesKept, FilesOwned
<1>10. QED
  BY <1>4, <1>5, <1>7, <1>8, <1>9

LEMMA DeleteProjectStep == ASSUME IInv, DeleteProject PROVE IInv'
<1> USE DEF IInv, ghosts
<1>1. /\ project /\ ~project' /\ release' = FALSE
      /\ record' = [p \in Path |-> {}]
      /\ removal' = "idle" /\ doomed' = {} /\ doomed = Keys
      /\ UNCHANGED <<file, worker, cli, up, undone, stray, faults>>
  BY DEF DeleteProject, DeletionsOK
<1>2. \A c \in Content : deletions[c] = "none"
  BY <1>1 DEF DeletionsOK, TypeOK
<1>3. /\ deletions' \in [Content -> {"none", "pending", "done"}]
      /\ \A c \in Content : deletions'[c] = IF c \in Keys THEN "pending" ELSE "none"
  BY <1>1, <1>2 DEF DeleteProject
<1>4. Keys' = {}
  BY <1>1 DEF Keys
<1>5. TypeOK'
  <2>1. record' \in [Path -> {{}} \cup {{c} : c \in Content}]
    BY <1>1
  <2>2. project' \in BOOLEAN /\ release' \in BOOLEAN
    BY DEF DeleteProject
  <2>3. QED
    BY <1>1, <1>3, <2>1, <2>2 DEF TypeOK
<1>6. \A r \in Run : PlanOK(r)' /\ UpOK(r)'
  BY <1>1 DEF PlanOK, UpOK
<1>7. \A c : Uploading(c)' <=> Uploading(c)
  BY <1>1 DEF Uploading
<1>8. DeletionsOK'
  BY <1>1, <1>3 DEF DeletionsOK
<1>9. WorkersOK'
  <2> SUFFICES ASSUME NEW w \in Worker
               PROVE  /\ worker[w].todo \subseteq worker[w].hold
                      /\ worker[w].gone \subseteq worker[w].hold
                      /\ worker[w].hold = {}
    BY <1>1 DEF WorkersOK
  <2>1. worker[w].hold \subseteq Content
    BY DEF TypeOK, WorkerState
  <2>2. QED
    BY <1>2, <2>1 DEF WorkersOK
<1>10. FilesKept'
  BY <1>1, <1>4 DEF FilesKept
<1>11. FilesOwned'
  BY <1>1, <1>3, <1>7 DEF FilesOwned, TypeOK
<1>12. QED
  BY <1>5, <1>6, <1>8, <1>9, <1>10, <1>11

-----------------------------------------------------------------------------
\* The deletion worker: no project, no rows.

LEMMA WorkerMoves ==
  ASSUME IInv, NEW w \in Worker, NEW s \in WorkerState, worker' = [worker EXCEPT ![w] = s],
         UNCHANGED <<project, release, record, removal, doomed, cli, up, ghosts>>,
         faults' \in 0..MaxFaults,
         deletions' \in [Content -> {"none", "pending", "done"}],
         \A c \in Content : deletions'[c] = "none" <=> deletions[c] = "none",
         \A c \in file' : deletions'[c] = deletions[c] \/ c \in stray \/ Uploading(c),
         file' \subseteq file, \A c \in file \ file' : ~project,
         s.todo \subseteq s.hold, s.gone \subseteq s.hold,
         \A c \in s.hold : deletions[c] # "none",
         \A c \in s.gone : c \in file' => c \in stray \/ Uploading(c)
  PROVE  IInv'
<1> USE DEF IInv, ghosts
<1>1. worker' \in [Worker -> WorkerState] /\ worker'[w] = s
      /\ \A v \in Worker \ {w} : worker'[v] = worker[v]
  BY DEF TypeOK
<1>2. TypeOK'
  BY <1>1 DEF TypeOK
<1>3. \A r \in Run : PlanOK(r)' /\ UpOK(r)'
  BY DEF PlanOK, UpOK
<1>4. \A c : Uploading(c)' <=> Uploading(c)
  BY DEF Uploading
<1>5. Keys' = Keys
  BY DEF Keys
<1>6. DeletionsOK'
  BY <1>5 DEF DeletionsOK
<1>7. WorkersOK'
  <2> SUFFICES ASSUME NEW v \in Worker
               PROVE  /\ worker'[v].todo \subseteq worker'[v].hold
                      /\ worker'[v].gone \subseteq worker'[v].hold
                      /\ \A c \in worker'[v].hold : deletions'[c] # "none"
                      /\ \A c \in worker'[v].gone : c \in file' => c \in stray \/ Uploading(c)
    BY <1>4 DEF WorkersOK
  <2>1. worker'[v].hold \subseteq Content
    BY <1>1 DEF WorkerState
  <2>2. CASE v = w
    BY <1>1, <2>1, <2>2
  <2>3. CASE v # w
    BY <1>1, <2>1, <2>3 DEF WorkersOK
  <2>4. QED
    BY <2>2, <2>3
<1>8. FilesKept'
  <2>1. ~project => Keys = {}
    BY DEF DeletionsOK, Keys
  <2>2. QED
    BY <1>5, <2>1 DEF FilesKept
<1>9. FilesOwned'
  BY <1>4, <1>5 DEF FilesOwned
<1>10. QED
  BY <1>2, <1>3, <1>6, <1>7, <1>8, <1>9

LEMMA WorkerStep ==
  ASSUME IInv, NEW w \in Worker,
         \/ ClaimBatch(w) \/ CommitBatch(w) \/ BatchRolledBack(w)
         \/ \E c \in Content : DeleteFile(w, c) \/ DeleteFails(w, c)
  PROVE  IInv'
<1> USE DEF IInv, database, ghosts
<1>1. /\ worker \in [Worker -> WorkerState] /\ file \subseteq Content
      /\ deletions \in [Content -> {"none", "pending", "done"}] /\ faults \in 0..MaxFaults
  BY DEF TypeOK
<1>2. /\ worker[w] \in WorkerState
      /\ worker[w].hold \subseteq Content
      /\ worker[w].todo \subseteq worker[w].hold /\ worker[w].gone \subseteq worker[w].hold
      /\ \A c \in worker[w].hold : deletions[c] # "none"
      /\ \A c \in worker[w].gone : c \in file => c \in stray \/ Uploading(c)
  BY <1>1 DEF WorkersOK, WorkerState
<1>3. /\ IdleWorker \in WorkerState
      /\ IdleWorker.hold = {} /\ IdleWorker.todo = {} /\ IdleWorker.gone = {}
  BY DEF IdleWorker, WorkerState
<1> DEFINE New(hold, todo, gone) == [hold |-> hold, todo |-> todo, gone |-> gone]
<1>4. CASE ClaimBatch(w)
  <2>1. PICK B \in Batch : worker' = [worker EXCEPT ![w] = New(B, B, {})]
    BY <1>4 DEF ClaimBatch
  <2>2. B \subseteq Unlocked
    BY DEF Batch
  <2>3. New(B, B, {}) \in WorkerState /\ \A c \in B : deletions[c] # "none"
    BY <2>2 DEF WorkerState, Unlocked
  <2>4. QED
    BY <1>1, <1>4, <2>1, <2>3, WorkerMoves DEF ClaimBatch
<1>5. CASE CommitBatch(w)
  <2>1. /\ \A c \in Content : deletions'[c] = IF c \in worker[w].gone THEN "done" ELSE deletions[c]
        /\ deletions' \in [Content -> {"none", "pending", "done"}]
    BY <1>1, <1>5 DEF CommitBatch
  <2>2. /\ \A c \in Content : deletions'[c] = "none" <=> deletions[c] = "none"
        /\ \A c \in file : deletions'[c] = deletions[c] \/ c \in stray \/ Uploading(c)
    BY <1>1, <1>2, <2>1
  <2>3. QED
    BY <1>1, <1>3, <1>5, <2>1, <2>2, WorkerMoves DEF CommitBatch
<1>6. CASE BatchRolledBack(w)
  <2>1. faults' \in 0..MaxFaults
    BY <1>1, <1>6, ConstantsAssumption DEF BatchRolledBack, Fault
  <2>2. QED
    BY <1>1, <1>3, <1>6, <2>1, WorkerMoves DEF BatchRolledBack
<1>7. ASSUME NEW c \in Content, DeleteFile(w, c) PROVE IInv'
  <2> DEFINE new == New(worker[w].hold, worker[w].todo \ {c}, worker[w].gone \cup {c})
  <2>1. worker' = [worker EXCEPT ![w] = new] /\ file' = file \ {c} /\ c \in worker[w].todo
    BY <1>1, <1>7 DEF DeleteFile
  <2>2. new \in WorkerState /\ new.gone \subseteq new.hold /\ new.todo \subseteq new.hold
    BY <1>2, <2>1 DEF WorkerState
  <2>3. ~project
    BY <1>2, <2>1 DEF DeletionsOK
  <2>4. \A d \in new.gone : d \in file' => d \in stray \/ Uploading(d)
    BY <1>2, <2>1
  <2>5. \A d \in new.hold : deletions[d] # "none"
    BY <1>2
  <2> HIDE DEF new
  <2>6. UNCHANGED <<project, release, record, deletions, removal, doomed, cli, up, undone, stray, faults>>
    BY <1>7 DEF DeleteFile
  <2>7. QED
    BY <1>1, <2>1, <2>2, <2>3, <2>4, <2>5, <2>6, WorkerMoves
<1>8. ASSUME NEW c \in Content, DeleteFails(w, c) PROVE IInv'
  <2> DEFINE new == New(worker[w].hold, worker[w].todo \ {c}, worker[w].gone)
  <2>1. worker' = [worker EXCEPT ![w] = new] /\ file' = file
    BY <1>1, <1>8 DEF DeleteFails
  <2>2. /\ new \in WorkerState /\ new.gone \subseteq new.hold /\ new.todo \subseteq new.hold
        /\ new.hold = worker[w].hold /\ new.gone = worker[w].gone
    BY <1>2 DEF WorkerState
  <2> HIDE DEF new
  <2>3. UNCHANGED <<project, release, record, deletions, removal, doomed, cli, up, undone, stray, faults>>
    BY <1>8 DEF DeleteFails
  <2>4. QED
    BY <1>1, <1>2, <2>1, <2>2, <2>3, WorkerMoves
<1>9. QED
  BY <1>4, <1>5, <1>6, <1>7, <1>8

-----------------------------------------------------------------------------
LEMMA NextIInv == IInv /\ [Next]_vars => IInv'
<1> SUFFICES ASSUME IInv, [Next]_vars PROVE IInv'
  OBVIOUS
<1>1. CASE Next
  BY <1>1, CliActions, UploadBegins, PutStep, InsertStep, UploadEnds, RemovalStep,
     DeleteProjectStep, WorkerStep DEF Next
<1>2. CASE UNCHANGED vars
  BY <1>2 DEF vars, IInv, TypeOK, PlanOK, UpOK, DeletionsOK, WorkersOK, FilesKept, FilesOwned,
              Keys, Uploading
<1>3. QED
  BY <1>1, <1>2

LEMMA Invariance == Spec => []IInv
<1>1. QED
  BY InitIInv, NextIInv, PTL DEF Spec

\* Rows, files, the deletion outbox, runs and passes have their shapes, with one
\* row for a path (the unique index of schema.ts on release and path).
THEOREM TypeCorrect == Spec => []TypeOK
<1>1. IInv => TypeOK
  BY DEF IInv
<1>2. QED
  BY <1>1, Invariance, PTL

\* A CLI run that ends well has its whole build in the release, and it stays
\* there while the project lives, for any number of runs and paths.
THEOREM SuccessStays == Spec => []SuccessMeansStored
<1>1. IInv => SuccessMeansStored
  BY DEF IInv, PlanOK, SuccessMeansStored
<1>2. QED
  BY <1>1, Invariance, PTL

\* Every artifact row has its file, but for contents a compensating delete has
\* removed (artifacts.ts:707).
THEOREM RowsKeepFiles == Spec => []RecordHasFile
<1>1. IInv => RecordHasFile
  BY DEF IInv, FilesKept, RecordHasFile
<1>2. QED
  BY <1>1, Invariance, PTL

\* After the deletion of a project each of its files is due for removal or an
\* upload's, whatever uploads the deletion overtakes (deletion.ts:76-118).
THEOREM FilesGoToo == Spec => []NoFileOutlivesProject
<1>1. IInv => NoFileOutlivesProject
  BY DEF IInv, FilesOwned, NoFileOutlivesProject
<1>2. QED
  BY <1>1, Invariance, PTL
=============================================================================
