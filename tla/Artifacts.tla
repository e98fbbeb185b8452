------------------------------- MODULE Artifacts -------------------------------
(***************************************************************************)
(* Source maps and bundles of one release: CLI runs that upload a build,   *)
(* the API's upload pipeline with its compensating deletes, the deletion   *)
(* of the project, and the worker that removes the files of deleted        *)
(* projects.                                                               *)
(*                                                                         *)
(* Database and storage share no transaction.  A storage key is            *)
(* <project>/<release>/<content hash>, so within the release a file is     *)
(* identified by its content, and two paths may share one.  Content stands *)
(* for bytes with their hash and size; a path for one that has passed      *)
(* canonicalization, with the artifact type its extension demands.         *)
(***************************************************************************)
EXTENDS Naturals, FiniteSets

CONSTANTS
  Path,      \* artifact paths of the release
  Content,   \* contents of files
  Run,       \* runs of `sourcemaps upload`
  BuildOf,   \* what each run finds in its build directory
  Worker,    \* artifact deletion loops
  BatchSize, \* rows one deletion pass claims
  MaxFaults  \* bound: crashes, timeouts and failing statements

ASSUME ConstantsAssumption ==
  /\ BuildOf \in [Run -> [Path -> Content]]
  /\ BatchSize \in Nat \ {0}
  /\ MaxFaults \in Nat

VARIABLES
  project,   \* the project row exists
  release,   \* the release row exists
  record,    \* the release's artifact rows: for each path {} or {content hash}
  file,      \* contents in the storage directory of the release
  deletions, \* artifact_deletion_outbox, by storage key
  removal,   \* the transaction that deletes the project
  doomed,    \* the storage keys it has read
  worker,    \* the deletion passes
  cli,       \* what each CLI run is doing
  up,        \* the API's handling of the upload a run has sent
  undone,    \* files a compensating delete has removed
  stray,     \* files an upload has left without compensation
  faults

vars == <<project, release, record, file, deletions, removal, doomed, worker, cli, up,
          undone, stray, faults>>
database == <<project, release, record, deletions, removal, doomed>>
ghosts   == <<undone, stray>>

CliState == [pc : {"scan", "check", "upload", "sent", "done", "failed"},
             left : SUBSET Path, todo : SUBSET Path, clash : BOOLEAN]
NewRun   == [pc |-> "scan", left |-> {}, todo |-> {}, clash |-> FALSE]

UpState  == [pc : {"idle", "stage", "find", "put", "insert", "race", "undo"},
             at : {{}} \cup {{p} : p \in Path}]
NoUpload == [pc |-> "idle", at |-> {}]

WorkerState == [hold : SUBSET Content, todo : SUBSET Content, gone : SUBSET Content]
IdleWorker  == [hold |-> {}, todo |-> {}, gone |-> {}]

Fault == faults < MaxFaults /\ faults' = faults + 1

Keys == UNION {record[p] : p \in Path}

\* The transaction that deletes the project holds the release row, which the
\* foreign key of an artifact row has to share.
ReleaseLocked == removal \in {"releases", "artifacts"}

\* The file a run's upload is about, once it may be in the storage.
Uploading(c) ==
  \E r \in Run : /\ up[r].pc \in {"insert", "race", "undo"}
                 /\ \E p \in up[r].at : BuildOf[r][p] = c

-----------------------------------------------------------------------------
Init ==
  /\ project = TRUE
  /\ release = FALSE
  /\ record = [p \in Path |-> {}]
  /\ file = {}
  /\ deletions = [c \in Content |-> "none"]
  /\ removal = "idle"
  /\ doomed = {}
  /\ worker = [w \in Worker |-> IdleWorker]
  /\ cli = [r \in Run |-> NewRun]
  /\ up = [r \in Run |-> NoUpload]
  /\ undone = {}
  /\ stray = {}
  /\ faults = 0

-----------------------------------------------------------------------------
\* A CLI run: create or confirm the release, check every path, upload what is
\* missing, one file after the other

Cli(r, pc, left, todo, clash) ==
  cli' = [cli EXCEPT ![r] = [pc |-> pc, left |-> left, todo |-> todo, clash |-> clash]]

\* An existing release is used as it is.  The insert waits for a transaction
\* that has locked the project.
CreateOrConfirmRelease(r) ==
  /\ cli[r].pc = "scan"
  /\ removal = "idle"
  /\ IF project THEN release' = TRUE /\ Cli(r, "check", Path, {}, FALSE)
     ELSE UNCHANGED release /\ Cli(r, "failed", {}, {}, FALSE)
  /\ UNCHANGED <<project, record, file, deletions, removal, doomed, worker, up, ghosts, faults>>

\* The preflight reads one row after the other; its verdicts are advisory.
CheckEntry(r, p) ==
  /\ cli[r].pc = "check"
  /\ p \in cli[r].left
  /\ Cli(r, "check", cli[r].left \ {p},
         IF record[p] = {} THEN cli[r].todo \cup {p} ELSE cli[r].todo,
         cli[r].clash \/ record[p] \notin {{}, {BuildOf[r][p]}})
  /\ UNCHANGED <<database, file, worker, up, ghosts, faults>>

\* One conflicting path and nothing is uploaded.
PlanUploads(r) ==
  /\ cli[r].pc = "check"
  /\ cli[r].left = {}
  /\ Cli(r, IF cli[r].clash THEN "failed" ELSE "upload", {}, cli[r].todo, FALSE)
  /\ UNCHANGED <<database, file, worker, up, ghosts, faults>>

\* The API authenticates the token and finds the release, or turns the run away.
SendUpload(r, p) ==
  /\ cli[r].pc = "upload"
  /\ p \in cli[r].todo
  /\ \/ /\ project /\ release
        /\ Cli(r, "sent", {}, cli[r].todo, FALSE)
        /\ up' = [up EXCEPT ![r] = [pc |-> "stage", at |-> {p}]]
     \/ Cli(r, "failed", {}, {}, FALSE) /\ UNCHANGED up
  /\ UNCHANGED <<database, file, worker, ghosts, faults>>

FinishRun(r) ==
  /\ cli[r].pc = "upload"
  /\ cli[r].todo = {}
  /\ Cli(r, "done", {}, {}, FALSE)
  /\ UNCHANGED <<database, file, worker, up, ghosts, faults>>

\* The run gives up after 120 s; the API goes on with what it has staged.
CliTimeout(r) ==
  /\ cli[r].pc = "sent"
  /\ Fault
  /\ Cli(r, "failed", {}, {}, FALSE)
  /\ UNCHANGED <<database, file, worker, up, ghosts>>

-----------------------------------------------------------------------------
\* finalizeArtifactUpload

Goto(r, pc) == up' = [up EXCEPT ![r] = [pc |-> pc, at |-> @.at]]

\* The answer reaches the run if it still waits; the first error ends it.
Reply(r, ok) ==
  /\ up' = [up EXCEPT ![r] = NoUpload]
  /\ cli' = [cli EXCEPT ![r] =
       IF @.pc # "sent" THEN @
       ELSE [pc |-> IF ok THEN "upload" ELSE "failed", left |-> {},
             todo |-> IF ok THEN @.todo \ up[r].at ELSE {}, clash |-> FALSE]]

\* The body is staged in a temporary file, hashed and validated.  A client that
\* goes away before the body is complete aborts it.
StageUpload(r) ==
  /\ up[r].pc = "stage"
  /\ \/ Goto(r, "find") /\ UNCHANGED cli
     \/ Reply(r, FALSE)
  /\ UNCHANGED <<database, file, worker, ghosts, faults>>

\* Mutant of FindByPath: whatever is stored for the path will do.
FindByPathOnly(r) ==
  /\ up[r].pc = "find"
  /\ \E p \in up[r].at :
       \/ record[p] = {} /\ Goto(r, "put") /\ UNCHANGED cli
       \/ record[p] # {} /\ Reply(r, TRUE)
  /\ UNCHANGED <<database, file, worker, ghosts, faults>>

\* The same content is an idempotent hit, another one a conflict.
FindByPath(r) ==
  /\ up[r].pc = "find"
  /\ \E p \in up[r].at :
       \/ record[p] = {} /\ Goto(r, "put") /\ UNCHANGED cli
       \/ record[p] = {BuildOf[r][p]} /\ Reply(r, TRUE)
       \/ record[p] \notin {{}, {BuildOf[r][p]}} /\ Reply(r, FALSE)
  /\ UNCHANGED <<database, file, worker, ghosts, faults>>

\* Written to a temporary file beside its target, synced and renamed.
PutToStorage(r) ==
  /\ up[r].pc = "put"
  /\ \E p \in up[r].at : file' = file \cup {BuildOf[r][p]}
  /\ Goto(r, "insert")
  /\ UNCHANGED <<database, worker, cli, ghosts, faults>>

\* Mutant of PutFails: the error is swallowed.
PutFailsSilently(r) ==
  /\ up[r].pc = "put"
  /\ Fault
  /\ Goto(r, "insert")
  /\ UNCHANGED <<database, file, worker, cli, ghosts>>

PutFails(r) ==
  /\ up[r].pc = "put"
  /\ Fault
  /\ Reply(r, FALSE)
  /\ UNCHANGED <<database, file, worker, ghosts>>

\* Mutants of InsertRecord: no unique index on release and path, and no
\* foreign-key lock to wait for.
InsertRecordAgain(r) ==
  /\ up[r].pc = "insert"
  /\ ~ReleaseLocked
  /\ \E p \in up[r].at :
       record' = [record EXCEPT ![p] = IF project THEN @ \cup {BuildOf[r][p]} ELSE @]
  /\ IF project THEN Reply(r, TRUE) ELSE Goto(r, "undo") /\ UNCHANGED cli
  /\ UNCHANGED <<project, release, file, deletions, removal, doomed, worker, ghosts, faults>>

InsertRecordUnlocked(r) ==
  /\ up[r].pc = "insert"
  /\ \E p \in up[r].at :
       \/ /\ project /\ record[p] = {}
          /\ record' = [record EXCEPT ![p] = {BuildOf[r][p]}]
          /\ Reply(r, TRUE)
       \/ /\ project /\ record[p] # {}
          /\ Goto(r, "race")
          /\ UNCHANGED <<record, cli>>
       \/ ~project /\ Goto(r, "undo") /\ UNCHANGED <<record, cli>>
  /\ UNCHANGED <<project, release, file, deletions, removal, doomed, worker, ghosts, faults>>

\* The insert waits while the release is locked, and fails once it is gone.
InsertRecord(r) ==
  /\ up[r].pc = "insert"
  /\ ~ReleaseLocked
  /\ \E p \in up[r].at :
       \/ /\ project /\ record[p] = {}
          /\ record' = [record EXCEPT ![p] = {BuildOf[r][p]}]
          /\ Reply(r, TRUE)
       \/ /\ project /\ record[p] # {}
          /\ Goto(r, "race")
          /\ UNCHANGED <<record, cli>>
       \/ ~project /\ Goto(r, "undo") /\ UNCHANGED <<record, cli>>
  /\ UNCHANGED <<project, release, file, deletions, removal, doomed, worker, ghosts, faults>>

\* The connection fails: the row may be committed all the same.
InsertFails(r) ==
  /\ up[r].pc = "insert"
  /\ ~ReleaseLocked
  /\ Fault
  /\ \E p \in up[r].at :
       \/ UNCHANGED record
       \/ project /\ record[p] = {}
          /\ record' = [record EXCEPT ![p] = {BuildOf[r][p]}]
  /\ Goto(r, "undo")
  /\ UNCHANGED <<project, release, file, deletions, removal, doomed, worker, cli, ghosts>>

\* The unique index refused the row.  If the winner has vanished with the
\* project since, the original error is thrown and the file stays.
ResolveInsertRace(r) ==
  /\ up[r].pc = "race"
  /\ \E p \in up[r].at :
       \/ record[p] = {BuildOf[r][p]} /\ Reply(r, TRUE) /\ UNCHANGED stray
       \/ /\ record[p] \notin {{}, {BuildOf[r][p]}}
          /\ Goto(r, "undo")
          /\ UNCHANGED <<cli, stray>>
       \/ /\ record[p] = {}
          /\ Reply(r, FALSE)
          /\ stray' = stray \cup {BuildOf[r][p]}
  /\ UNCHANGED <<database, file, worker, undone, faults>>

\* The compensating delete; the answer is an error either way.
Undo(r) ==
  /\ up[r].pc = "undo"
  /\ \E p \in up[r].at :
       /\ file' = file \ {BuildOf[r][p]}
       /\ undone' = undone \cup {BuildOf[r][p]}
  /\ Reply(r, FALSE)
  /\ UNCHANGED <<database, worker, stray, faults>>

\* A failing compensation is ignored, and a crash compensates nothing.
UploadAbandoned(r) ==
  /\ up[r].pc # "idle"
  /\ Fault
  /\ stray' = IF up[r].pc \in {"insert", "race", "undo"}
              THEN stray \cup {BuildOf[r][p] : p \in up[r].at} ELSE stray
  /\ Reply(r, FALSE)
  /\ UNCHANGED <<database, file, worker, undone>>

-----------------------------------------------------------------------------
\* deleteProjectWithArtifacts, and deleteWorkspaceWithArtifacts for every project of
\* the workspace: workspace, memberships and projects are locked, then the releases,
\* then their artifacts, whose keys are enqueued

LockProject ==
  /\ project
  /\ removal = "idle"
  /\ removal' = "project"
  /\ UNCHANGED <<project, release, record, deletions, doomed, file, worker, cli, up, ghosts, faults>>

LockReleases ==
  /\ removal = "project"
  /\ removal' = "releases"
  /\ UNCHANGED <<project, release, record, deletions, doomed, file, worker, cli, up, ghosts, faults>>

LockArtifacts ==
  /\ removal = "releases"
  /\ removal' = "artifacts"
  /\ doomed' = Keys
  /\ UNCHANGED <<project, release, record, deletions, file, worker, cli, up, ghosts, faults>>

\* Keys, audit rows and the cascade of the project row commit together.
DeleteProject ==
  /\ removal = "artifacts"
  /\ deletions' = [c \in Content |->
       IF c \in doomed /\ deletions[c] = "none" THEN "pending" ELSE deletions[c]]
  /\ project' = FALSE
  /\ release' = FALSE
  /\ record' = [p \in Path |-> {}]
  /\ removal' = "idle"
  /\ doomed' = {}
  /\ UNCHANGED <<file, worker, cli, up, ghosts, faults>>

DeletionRolledBack ==
  /\ removal # "idle"
  /\ Fault
  /\ removal' = "idle"
  /\ doomed' = {}
  /\ UNCHANGED <<project, release, record, deletions, file, worker, cli, up, ghosts>>

-----------------------------------------------------------------------------
\* runArtifactDeletionBatch: one transaction, its row locks held while files
\* are removed

Held == UNION {worker[w].hold : w \in Worker}
Unlocked == {c \in Content : deletions[c] = "pending"} \ Held

Batch ==
  IF Cardinality(Unlocked) <= BatchSize THEN {Unlocked}
  ELSE {B \in SUBSET Unlocked : Cardinality(B) = BatchSize}

ClaimBatch(w) ==
  /\ worker[w] = IdleWorker
  /\ \E B \in Batch :
       /\ B # {}
       /\ worker' = [worker EXCEPT ![w] = [hold |-> B, todo |-> B, gone |-> {}]]
  /\ UNCHANGED <<database, file, cli, up, ghosts, faults>>

\* Mutant of DeleteFile: a missing file is not a success.
DeleteExistingFile(w, c) ==
  /\ c \in worker[w].todo
  /\ file' = file \ {c}
  /\ worker' = [worker EXCEPT ![w] =
       [hold |-> @.hold, todo |-> @.todo \ {c},
        gone |-> IF c \in file THEN @.gone \cup {c} ELSE @.gone]]
  /\ UNCHANGED <<database, cli, up, ghosts, faults>>

\* A file that is missing already counts as removed.
DeleteFile(w, c) ==
  /\ c \in worker[w].todo
  /\ file' = file \ {c}
  /\ worker' = [worker EXCEPT ![w] =
       [hold |-> @.hold, todo |-> @.todo \ {c}, gone |-> @.gone \cup {c}]]
  /\ UNCHANGED <<database, cli, up, ghosts, faults>>

\* The storage is unavailable: the failure is recorded, the row stays pending.
DeleteFails(w, c) ==
  /\ c \in worker[w].todo
  /\ worker' = [worker EXCEPT ![w] =
       [hold |-> @.hold, todo |-> @.todo \ {c}, gone |-> @.gone]]
  /\ UNCHANGED <<database, file, cli, up, ghosts, faults>>

CommitBatch(w) ==
  /\ worker[w].hold # {}
  /\ worker[w].todo = {}
  /\ deletions' = [c \in Content |->
       IF c \in worker[w].gone THEN "done" ELSE deletions[c]]
  /\ worker' = [worker EXCEPT ![w] = IdleWorker]
  /\ UNCHANGED <<project, release, record, removal, doomed, file, cli, up, ghosts, faults>>

\* The worker dies or its commit fails: files are gone, the rows still pending.
BatchRolledBack(w) ==
  /\ worker[w].hold # {}
  /\ Fault
  /\ worker' = [worker EXCEPT ![w] = IdleWorker]
  /\ UNCHANGED <<database, file, cli, up, ghosts>>

-----------------------------------------------------------------------------
Next ==
  \/ \E r \in Run : \/ CreateOrConfirmRelease(r) \/ PlanUploads(r)
                    \/ FinishRun(r) \/ CliTimeout(r) \/ StageUpload(r)
                    \/ \E p \in Path : CheckEntry(r, p) \/ SendUpload(r, p)
                    \/ FindByPath(r) \/ PutToStorage(r) \/ PutFails(r)
                    \/ InsertRecord(r) \/ InsertFails(r) \/ ResolveInsertRace(r)
                    \/ Undo(r) \/ UploadAbandoned(r)
  \/ LockProject \/ LockReleases \/ LockArtifacts \/ DeleteProject \/ DeletionRolledBack
  \/ \E w \in Worker : \/ ClaimBatch(w) \/ CommitBatch(w) \/ BatchRolledBack(w)
                       \/ \E c \in Content : DeleteFile(w, c) \/ DeleteFails(w, c)

Spec == Init /\ [][Next]_vars

\* The deletion loop re-arms its timer after every pass and a pass ends; the
\* storage is not unavailable for ever.  Nobody has to upload or delete.
Fairness ==
  \A w \in Worker :
    /\ WF_vars(\/ ClaimBatch(w) \/ CommitBatch(w)
               \/ \E c \in Content : DeleteFile(w, c) \/ DeleteFails(w, c))
    /\ \A c \in Content : SF_vars(DeleteFile(w, c))

FairSpec == Spec /\ Fairness

-----------------------------------------------------------------------------
\* Every variable has the shape of the rows and local states above.
TypeOK ==
  /\ project \in BOOLEAN
  /\ release \in BOOLEAN
  /\ record \in [Path -> {{}} \cup {{c} : c \in Content}]
  /\ file \subseteq Content
  /\ deletions \in [Content -> {"none", "pending", "done"}]
  /\ removal \in {"idle", "project", "releases", "artifacts"}
  /\ doomed \subseteq Content
  /\ worker \in [Worker -> WorkerState]
  /\ cli \in [Run -> CliState]
  /\ up \in [Run -> UpState]
  /\ undone \subseteq Content
  /\ stray \subseteq Content
  /\ faults \in 0..MaxFaults

\* A run that reports success has its build in the release, whatever other
\* runs upload to the same paths, and keeps it there while the project lives.
SuccessMeansStored ==
  \A r \in Run : cli[r].pc = "done" /\ project =>
    \A p \in Path : record[p] = {BuildOf[r][p]}

\* The file of an artifact row exists.  Compensation is the exception: its
\* delete does not look whether another row shares the content.
RecordHasFile ==
  Keys \subseteq file \cup undone

\* Once a project is deleted, each of its files is due for removal or belongs
\* to an upload still in flight.  The exceptions are uploads cut short between
\* file and row, and one that lost its race to a row the deletion then took.
NoFileOutlivesProject ==
  ~project => \A c \in file :
    deletions[c] = "pending" \/ Uploading(c) \/ c \in stray

\* What is due for removal is removed, through crashes and storage outages.
EveryDeletionEnds ==
  \A c \in Content : deletions[c] = "pending" ~> deletions[c] = "done"

\* An artifact row never lacks its file, an outage included.
RowsHaveFiles ==
  Keys \subseteq file
=============================================================================
