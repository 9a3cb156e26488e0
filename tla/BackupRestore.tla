---------------------------- MODULE BackupRestore ----------------------------
(* Backups: chunked uploads (web/upload), staging data/backup.zip and the     *)
(* exit that follows (web/backup, web/api/admin, the installation wizard of   *)
(* web/install), and the restore at the next start (database/dbcore).         *)
(* Requests, the exit timer and crashes interleave.                           *)
EXTENDS Naturals, FiniteSets

CONSTANTS Uploads,   \* one upload session each
          BrokenUploads, \* uploads whose archive does not validate
          UploadChunks, \* chunks of an upload
          DataEntries, \* what data/ holds besides backup/ and backup.zip
          MaxRestoreFaults, MaxStarts   \* bounds
VARIABLES upload,    \* per upload: its directory and chunks
          req,        \* per upload: how far its merge request is
          wizard,     \* the upload handler is that of the installation wizard
          lock,       \* restoreMutex
          zip,        \* data/backup.zip: none or an upload
          exiting,    \* the goroutines that end the process: the uploads they follow
          boot,       \* where the process is: serving, or a step of its start
          live,       \* data/: per entry its content
          snapshots,  \* data/backup/pre-restore-*: complete ones
          stopped,    \* data/ when the service last stopped
          restoreFaults, starts
bvars == <<upload, req, wizard, lock, zip, exiting, boot, live, snapshots, stopped, restoreFaults, starts>>

None == "none"
Gone == "gone"
Current == "current"     \* what the service itself wrote
NoSession == [dir |-> FALSE, chunks |-> {}]
Whole(version) == [e \in DataEntries |-> version]
Serving == boot.pc = "serving"

RestoreInit == /\ upload = [u \in Uploads |-> NoSession] /\ req = [u \in Uploads |-> "none"]
               /\ wizard \in BOOLEAN /\ lock = None /\ zip = None /\ exiting = {}
               /\ boot = [pc |-> "serving", snap |-> None, left |-> {}] /\ live = Whole(Current)
               /\ snapshots = {} /\ stopped = Whole(Current) /\ restoreFaults = 0 /\ starts = 0

Request(u, pc) == req' = [req EXCEPT ![u] = pc]
Drop(u) == upload' = [upload EXCEPT ![u] = NoSession]
Keep == UNCHANGED <<wizard, boot, live, snapshots, stopped, starts>>

----------------------------------------------------------------------------
\* The upload session.
InitUpload(u) == /\ Serving /\ ~upload[u].dir /\ req[u] = "none"
                 /\ upload' = [upload EXCEPT ![u] = [dir |-> TRUE, chunks |-> {}]]
                 /\ UNCHANGED <<req, lock, zip, exiting, restoreFaults>> /\ Keep
\* A chunk is published by removing the one it replaces and renaming.
SaveChunk(u, i) == /\ Serving /\ upload[u].dir /\ i \notin upload[u].chunks
                   /\ upload' = [upload EXCEPT ![u].chunks = @ \cup {i}]
                   /\ UNCHANGED <<req, lock, zip, exiting, restoreFaults>> /\ Keep
ReplaceChunk(u, i) == /\ Serving /\ i \in upload[u].chunks
                      /\ upload' = [upload EXCEPT ![u].chunks = @ \ {i}]
                      /\ UNCHANGED <<req, lock, zip, exiting, restoreFaults>> /\ Keep
Cancel(u) == /\ Serving /\ upload[u].dir /\ Drop(u)
             /\ UNCHANGED <<req, lock, zip, exiting, restoreFaults>> /\ Keep
\* Merge copies the chunks in order; one that is missing cancels the upload.
Merge(u) == /\ Serving /\ req[u] = "none" /\ upload[u].dir
            /\ Request(u, "merging")
            /\ UNCHANGED <<upload, lock, zip, exiting, restoreFaults>> /\ Keep
Merged(u) == /\ Serving /\ req[u] = "merging"
             /\ IF upload[u].dir /\ upload[u].chunks = 1..UploadChunks
                THEN Request(u, "merged") /\ UNCHANGED upload
                ELSE Request(u, "none") /\ Drop(u)
             /\ UNCHANGED <<lock, zip, exiting, restoreFaults>> /\ Keep

----------------------------------------------------------------------------
\* The finalizer of a backup: SaveUploadedBackup under the restore lock.
Refuse(u) == Request(u, "none") /\ Drop(u)
Acquire(u) == /\ Serving /\ req[u] = "merged"
              /\ IF lock = None THEN lock' = u /\ Request(u, "staging") /\ UNCHANGED upload
                 ELSE Refuse(u) /\ UNCHANGED lock
              /\ UNCHANGED <<zip, exiting, restoreFaults>> /\ Keep
Validate(u) == /\ Serving /\ req[u] = "staging"
               /\ IF u \in BrokenUploads
                  THEN lock' = None /\ Refuse(u) /\ UNCHANGED zip
                  ELSE zip' = None /\ Request(u, "publishing") /\ UNCHANGED <<upload, lock>>
               /\ UNCHANGED <<exiting, restoreFaults>> /\ Keep
\* The admin page keeps the lock until its timer fires, the wizard does not.
Publish(u) == /\ Serving /\ req[u] = "publishing"
              /\ zip' = u /\ exiting' = exiting \cup {u} /\ Refuse(u)
              /\ lock' = IF wizard THEN None ELSE lock
              /\ UNCHANGED restoreFaults /\ Keep
\* Two seconds later: release the lock, then os.Exit.
ReleaseLock(u) == /\ Serving /\ u \in exiting /\ lock = u /\ lock' = None
                  /\ UNCHANGED <<upload, req, zip, exiting, restoreFaults>> /\ Keep
Stop == /\ req' = [u \in Uploads |-> "none"] /\ lock' = None /\ exiting' = {}
        /\ boot' = [pc |-> "off", snap |-> None, left |-> {}]
ExitAfter(u) == /\ Serving /\ u \in exiting /\ lock # u /\ Stop /\ stopped' = live
                /\ UNCHANGED <<upload, wizard, zip, live, snapshots, restoreFaults, starts>>
Restart == /\ Serving /\ starts < MaxStarts /\ Stop /\ stopped' = live
           /\ UNCHANGED <<upload, wizard, zip, live, snapshots, restoreFaults, starts>>

----------------------------------------------------------------------------
\* The start of the process: restoreBackupArchive, then the database.
At(pc) == boot.pc = pc
Go(pc) == boot' = [boot EXCEPT !.pc = pc]
StartKeeps == UNCHANGED <<upload, req, wizard, lock, exiting, stopped, starts>>
Fault == restoreFaults < MaxRestoreFaults /\ restoreFaults' = restoreFaults + 1
Start == /\ At("off") /\ starts < MaxStarts /\ starts' = starts + 1
         /\ Go(IF zip = None THEN "opening" ELSE "stage")
         /\ UNCHANGED <<upload, req, wizard, lock, zip, exiting, live, snapshots, stopped, restoreFaults>>
Stage == /\ At("stage") /\ Go("snapshot")
         /\ UNCHANGED <<zip, live, snapshots, restoreFaults>> /\ StartKeeps
Snapshot == /\ At("snapshot") /\ snapshots' = snapshots \cup {live}
            /\ boot' = [pc |-> "clear", snap |-> live, left |-> {}]
            /\ UNCHANGED <<zip, live, restoreFaults>> /\ StartKeeps
\* Faulty variant: a snapshot that cannot be written does not end the restore.
AbortLate == /\ (At("stage") \/ At("snapshot")) /\ Fault
             /\ Go(IF At("stage") THEN "opening" ELSE "clear")
             /\ UNCHANGED <<zip, live, snapshots>> /\ StartKeeps
\* Nothing has been touched: the start goes on with the data as it is.
Abort == /\ (At("stage") \/ At("snapshot")) /\ Fault /\ Go("opening")
         /\ UNCHANGED <<zip, live, snapshots>> /\ StartKeeps
Clear(e) == /\ At("clear") /\ live[e] # Gone /\ live' = [live EXCEPT ![e] = Gone]
            /\ UNCHANGED <<zip, boot, snapshots, restoreFaults>> /\ StartKeeps
Cleared == /\ At("clear") /\ live = Whole(Gone) /\ boot' = [boot EXCEPT !.pc = "move", !.left = DataEntries]
           /\ UNCHANGED <<zip, live, snapshots, restoreFaults>> /\ StartKeeps
Move(e) == /\ At("move") /\ e \in boot.left
           /\ boot' = [boot EXCEPT !.left = @ \ {e}] /\ live' = [live EXCEPT ![e] = zip]
           /\ UNCHANGED <<zip, snapshots, restoreFaults>> /\ StartKeeps
Undo == /\ (At("clear") \/ At("move")) /\ Fault /\ Go("rollback")
        /\ UNCHANGED <<zip, live, snapshots>> /\ StartKeeps
Rollback == /\ At("rollback") /\ live' = boot.snap /\ Go("opening")
            /\ UNCHANGED <<zip, snapshots, restoreFaults>> /\ StartKeeps
RollbackFails == /\ At("rollback") /\ Fault /\ Go("opening")
                 /\ \E kept \in SUBSET DataEntries :
                        live' = [e \in DataEntries |-> IF e \in kept THEN boot.snap[e] ELSE Gone]
                 /\ UNCHANGED <<zip, snapshots>> /\ StartKeeps
\* The archive is renamed away, removed, or stays when nothing works.
Consume == /\ At("move") /\ boot.left = {} /\ Go("opening")
           /\ \/ zip' = None /\ UNCHANGED restoreFaults
              \/ Fault /\ UNCHANGED zip
           /\ UNCHANGED <<live, snapshots>> /\ StartKeeps
\* The database is opened, and created when there is none.
Open == /\ At("opening") /\ Go("serving")
        /\ live' = [e \in DataEntries |-> IF live[e] = Gone THEN "empty" ELSE live[e]]
        /\ UNCHANGED <<zip, snapshots, restoreFaults>> /\ StartKeeps
Crash == /\ boot.pc \notin {"serving", "off"} /\ Fault
         /\ boot' = [pc |-> "off", snap |-> None, left |-> {}]
         /\ UNCHANGED <<zip, live, snapshots>> /\ StartKeeps

RestoreNext == \/ \E u \in Uploads : \/ InitUpload(u) \/ Cancel(u) \/ Merge(u) \/ Merged(u) \/ Acquire(u)
                                     \/ Validate(u) \/ Publish(u) \/ ReleaseLock(u) \/ ExitAfter(u)
                                     \/ \E i \in 1..UploadChunks : SaveChunk(u, i) \/ ReplaceChunk(u, i)
               \/ Restart \/ Start \/ Stage \/ Snapshot \/ Abort \/ Cleared \/ Undo \/ Rollback
               \/ RollbackFails \/ Consume \/ Open \/ Crash
               \/ \E e \in DataEntries : Clear(e) \/ Move(e)

RestoreSpec == RestoreInit /\ [][RestoreNext]_bvars

----------------------------------------------------------------------------
(* Whatever fails and wherever a start crashes, even several times, the data *)
(* the service stopped with are still in place or complete in a snapshot.    *)
OriginalRecoverable == ~Serving => (live = stopped \/ stopped \in snapshots)

(* Between starts, what is served is one whole: the data as they were, or a  *)
(* backup.  (dbcore.go calls the restore transactional.)                     *)
RestoreIsTransactional == Serving => live = stopped \/ \E u \in Uploads : live = Whole(u)

(* restore.go: a staged backup is not replaced before the process restarts.  *)
StagedBackupHeld == [][\A u \in exiting : zip = u /\ Serving => zip' = u]_bvars
==============================================================================
