-------------------------------- MODULE Sync --------------------------------
(***************************************************************************)
(* Concurrent runs of `dashsync sync` on one output file: RunE of          *)
(* internal/cli/sync.go, acquireLock of internal/cli/lock.go and           *)
(* writeAtomic, taken apart at every system call that another process, a   *)
(* human at an editor, a kill or a power cut can get in front of.          *)
(*                                                                         *)
(* A run is one-shot: parse the flags (Start), lock the sidecar file,      *)
(* discover, read, merge, and then, by its kind,                           *)
(*   "write"    replace the file: stat, back up, temp file, rename;        *)
(*   "check"    exit 0 or 2;           "preview"  exit 0 (--dry-run);      *)
(*   "stdout"   no --output-path: no lock, nothing but standard output.    *)
(* exitCode is -1 until the exit code is decided.                          *)
(*                                                                         *)
(* A file is [data, mode, safe]: safe once its data was fsynced.  A file   *)
(* being written holds Torn.  What a merge computes is left to the         *)
(* constants Merged, Refuses and Pending (module Merge gives them).        *)
(***************************************************************************)
EXTENDS Integers

CONSTANTS
  Runs,          \* the processes
  Contents,      \* the documents an output file may hold
  Views,         \* the sets of services a discovery may return
  Modes,         \* permission bits of files humans and dashsync make
  DefaultMode,   \* defaultFileMode
  TempMode,      \* what os.CreateTemp gives a temp file
  NoFile, Torn, NoView,
  Merged(_, _),  \* the document a merge of a content (or NoFile) and a view gives
  Refuses(_, _), \* that merge is an error
  Pending(_, _), \* that merge has something to report
  FlockWorks,    \* flock excludes (lock.go); FALSE: lock_other.go, or virtiofs
  HumanWaits     \* humans do not touch the file while a run is working on it

ASSUME SyncAssumption ==
  /\ DefaultMode \in Modes /\ TempMode \notin Modes
  /\ Torn \notin Contents
  /\ NoFile \notin [data : Contents \cup {Torn}, mode : Modes \cup {TempMode}, safe : BOOLEAN]
  /\ NoFile \notin [data : Contents, mode : Modes]
  /\ FlockWorks \in BOOLEAN /\ HumanWaits \in BOOLEAN
  /\ \A c \in Contents \cup {NoFile}, v \in Views :
       ~Refuses(c, v) => Merged(c, v) \in Contents

VARIABLES
  \* the file system, and Docker
  path, older, bak, lockFile, inodes, docker, shown,
  \* the runs
  pc, kind, exitCode, fd, held, want, seen, keep, copy, tmp

disk == <<path, older, bak, tmp>>
locks == <<lockFile, inodes, fd, held>>
world == <<docker, shown>>
locals == <<kind, want, seen, keep, copy>>
vars == <<disk, locks, world, locals, pc, exitCode>>

Kinds == {"write", "check", "preview", "stdout"}

Files == [data : Contents \cup {Torn}, mode : Modes \cup {TempMode}, safe : BOOLEAN]

Data(f) == IF f = NoFile THEN NoFile ELSE f.data

Ended == {"idle", "done", "killed"}

\* Between reading the output file and dropping the lock.
Working == {"merge", "stat", "copy", "truncate", "backup", "create", "fill", "fsync",
            "chmod", "rename", "clean", "release"}

Init ==
  /\ path \in {NoFile} \cup [data : Contents, mode : Modes, safe : {TRUE}]
  /\ older = path
  /\ bak = NoFile /\ lockFile = 0 /\ inodes = 0
  /\ docker \in Views /\ shown = {docker}
  /\ pc = [r \in Runs |-> "idle"]
  /\ kind = [r \in Runs |-> "stdout"]
  /\ exitCode = [r \in Runs |-> -1]
  /\ fd = [r \in Runs |-> 0]
  /\ held = [r \in Runs |-> "none"]
  /\ want = [r \in Runs |-> NoView]
  /\ seen = [r \in Runs |-> NoFile]
  /\ keep = [r \in Runs |-> DefaultMode]
  /\ copy = [r \in Runs |-> NoFile]
  /\ tmp = [r \in Runs |-> NoFile]

-----------------------------------------------------------------------------
Goto(r, from, to) == pc[r] = from /\ pc' = [pc EXCEPT ![r] = to]

Exit(r, code) == exitCode' = [exitCode EXCEPT ![r] = code]

\* The memory of the processes in R is gone with them.
Forget(R) ==
  /\ want' = [r \in Runs |-> IF r \in R THEN NoView ELSE want[r]]
  /\ seen' = [r \in Runs |-> IF r \in R THEN NoFile ELSE seen[r]]
  /\ keep' = [r \in Runs |-> IF r \in R THEN DefaultMode ELSE keep[r]]
  /\ copy' = [r \in Runs |-> IF r \in R THEN NoFile ELSE copy[r]]

\* --check wins over --dry-run; flags that do not fit together end the run here.
Start(r) ==
  \E k \in Kinds :
    /\ Goto(r, "idle", IF k = "stdout" THEN "discover" ELSE "open")
    /\ kind' = [kind EXCEPT ![r] = k]
    /\ UNCHANGED <<disk, locks, world, want, seen, keep, copy, exitCode>>

(***************************************************************************)
(* acquireLock.  The lock lives on the inode the sidecar had when it was   *)
(* opened; O_CREATE makes one only if there is none.                       *)
(***************************************************************************)
OpenLock(r) ==
  /\ Goto(r, "open", "flock")
  /\ IF lockFile = 0
     THEN inodes' = inodes + 1 /\ lockFile' = inodes'
     ELSE UNCHANGED <<inodes, lockFile>>
  /\ fd' = [fd EXCEPT ![r] = lockFile']
  /\ UNCHANGED <<disk, world, locals, held, exitCode>>

LockMode(r) == IF kind[r] = "write" THEN "exclusive" ELSE "shared"

\* Mutant: a shared lock is granted whatever is held.
GrantableToReaders(r) ==
  FlockWorks /\ LockMode(r) = "exclusive" => \A q \in Runs : fd[q] = fd[r] => held[q] = "none"

\* Mutant: writers exclude writers only.
GrantableBesideReaders(r) ==
  FlockWorks /\ LockMode(r) = "exclusive" =>
    \A q \in Runs : fd[q] = fd[r] => held[q] # "exclusive"

Grantable(r) ==
  FlockWorks => \A q \in Runs : fd[q] = fd[r] /\ held[q] # "none" =>
                  held[q] = "shared" /\ LockMode(r) = "shared"

Lock(r) ==
  /\ Goto(r, "flock", "discover")
  /\ Grantable(r)
  /\ held' = [held EXCEPT ![r] = LockMode(r)]
  /\ UNCHANGED <<disk, world, locals, lockFile, inodes, fd, exitCode>>

\* Mutant: no LOCK_NB, so that a run waits for the lock.
LockWaits(r) == FALSE

\* EWOULDBLOCK: "locked by another dashsync sync writing to it right now".
LockRefused(r) ==
  /\ Goto(r, "flock", "done")
  /\ ~Grantable(r)
  /\ fd' = [fd EXCEPT ![r] = 0]
  /\ Exit(r, 1)
  /\ UNCHANGED <<disk, world, locals, lockFile, inodes, held>>

(***************************************************************************)
(* RunE.                                                                   *)
(***************************************************************************)
\* The lock, if there is one, is held meanwhile.
Discover(r) ==
  /\ Goto(r, "discover", IF kind[r] = "stdout" THEN "print" ELSE "read")
  /\ want' = [want EXCEPT ![r] = docker]
  /\ UNCHANGED <<disk, locks, world, kind, seen, keep, copy, exitCode>>

WriteStdout(r) ==
  /\ Goto(r, "print", "done")
  /\ Exit(r, 0)
  /\ UNCHANGED <<disk, locks, world, locals>>

Read(r) ==
  /\ Goto(r, "read", "merge")
  /\ seen' = [seen EXCEPT ![r] = path]
  /\ UNCHANGED <<disk, locks, world, kind, want, keep, copy, exitCode>>

MergeRejected(r) ==
  /\ Goto(r, "merge", "release")
  /\ Refuses(Data(seen[r]), want[r])
  /\ Exit(r, 1)
  /\ UNCHANGED <<disk, locks, world, locals>>

\* Mutant: the exit code is the number of changes.
VerdictCounts(r) == IF Pending(Data(seen[r]), want[r]) THEN 3 ELSE 0

Verdict(r) == IF Pending(Data(seen[r]), want[r]) THEN 2 ELSE 0

\* The diff is printed; a check or a preview goes no further.
Preview(r) ==
  /\ Goto(r, "merge", "release")
  /\ kind[r] \in {"check", "preview"}
  /\ ~Refuses(Data(seen[r]), want[r])
  /\ Exit(r, IF kind[r] = "check" THEN Verdict(r) ELSE 0)
  /\ UNCHANGED <<disk, locks, world, locals>>

Proceed(r) ==
  /\ Goto(r, "merge", "stat")
  /\ kind[r] = "write"
  /\ ~Refuses(Data(seen[r]), want[r])
  /\ UNCHANGED <<disk, locks, world, locals, exitCode>>

(***************************************************************************)
(* writeAtomic.                                                            *)
(***************************************************************************)
\* Mutant: no backup.
StatOnly(r) ==
  /\ Goto(r, "stat", "create")
  /\ keep' = [keep EXCEPT ![r] = IF path = NoFile THEN DefaultMode ELSE path.mode]
  /\ UNCHANGED <<disk, locks, world, kind, want, seen, copy, exitCode>>

Stat(r) ==
  /\ Goto(r, "stat", IF path = NoFile THEN "create" ELSE "copy")
  /\ keep' = [keep EXCEPT ![r] = IF path = NoFile THEN DefaultMode ELSE path.mode]
  /\ UNCHANGED <<disk, locks, world, kind, want, seen, copy, exitCode>>

ReadForBackup(r) ==
  /\ Goto(r, "copy", "truncate")
  /\ path # NoFile
  /\ copy' = [copy EXCEPT ![r] = path.data]
  /\ UNCHANGED <<disk, locks, world, kind, want, seen, keep, exitCode>>

\* Somebody deleted the file since it was found: "read ... for backup" fails.
BackupSourceGone(r) ==
  /\ Goto(r, "copy", "release")
  /\ path = NoFile
  /\ Exit(r, 1)
  /\ UNCHANGED <<disk, locks, world, locals>>

\* os.WriteFile(path+".bak"): opened with O_TRUNC, then written.  The mode it is
\* given counts only if the backup is new.
TruncateBackup(r) ==
  /\ Goto(r, "truncate", "backup")
  /\ bak' = [data |-> Torn, mode |-> IF bak = NoFile THEN keep[r] ELSE bak.mode, safe |-> FALSE]
  /\ UNCHANGED <<path, older, tmp, locks, world, locals, exitCode>>

\* Mutant: what was read for the merge is backed up, not what is there now.
WriteBackupOfSeen(r) ==
  /\ Goto(r, "backup", "create")
  /\ bak' = [bak EXCEPT !.data = Data(seen[r])]
  /\ UNCHANGED <<path, older, tmp, locks, world, locals, exitCode>>

\* If somebody else wrote it since it was truncated the two may be mixed up.
WriteBackup(r) ==
  /\ Goto(r, "backup", "create")
  /\ \E d \in {copy[r]} \cup (IF bak.data = Torn THEN {} ELSE {Torn}) :
       bak' = [bak EXCEPT !.data = d]
  /\ UNCHANGED <<path, older, tmp, locks, world, locals, exitCode>>

SetTmp(r, f) == tmp' = [tmp EXCEPT ![r] = f]

CreateTemp(r) ==
  /\ Goto(r, "create", "fill")
  /\ SetTmp(r, [data |-> Torn, mode |-> TempMode, safe |-> FALSE])
  /\ UNCHANGED <<path, older, bak, locks, world, locals, exitCode>>

FillTemp(r) ==
  /\ Goto(r, "fill", "fsync")
  /\ SetTmp(r, [tmp[r] EXCEPT !.data = Merged(Data(seen[r]), want[r])])
  /\ UNCHANGED <<path, older, bak, locks, world, locals, exitCode>>

\* Mutant: renamed without an fsync.
FsyncForgotten(r) ==
  /\ Goto(r, "fsync", "chmod")
  /\ UNCHANGED <<disk, locks, world, locals, exitCode>>

FsyncTemp(r) ==
  /\ Goto(r, "fsync", "chmod")
  /\ SetTmp(r, [tmp[r] EXCEPT !.safe = TRUE])
  /\ UNCHANGED <<path, older, bak, locks, world, locals, exitCode>>

\* Mutant: the file's permissions are not kept.
ChmodDefault(r) ==
  /\ Goto(r, "chmod", "rename")
  /\ SetTmp(r, [tmp[r] EXCEPT !.mode = DefaultMode])
  /\ UNCHANGED <<path, older, bak, locks, world, locals, exitCode>>

ChmodTemp(r) ==
  /\ Goto(r, "chmod", "rename")
  /\ SetTmp(r, [tmp[r] EXCEPT !.mode = keep[r]])
  /\ UNCHANGED <<path, older, bak, locks, world, locals, exitCode>>

\* The directory is not fsynced: until it is on disk, a power cut brings the
\* old file back.
Rename(r) ==
  /\ Goto(r, "rename", "clean")
  /\ path' = tmp[r]
  /\ older' = path
  /\ SetTmp(r, NoFile)
  /\ Exit(r, 0)
  /\ UNCHANGED <<bak, locks, world, locals>>

(***************************************************************************)
(* The way out: the deferred os.Remove(tmpPath), then the deferred         *)
(* release, on success and after an error at any system call before.       *)
(***************************************************************************)
\* Mutant: the temporary file is left to the rename.
RemoveForgotten(r) ==
  /\ Goto(r, "clean", "release")
  /\ UNCHANGED <<disk, locks, world, locals, exitCode>>

RemoveTemp(r) ==
  /\ Goto(r, "clean", "release")
  /\ SetTmp(r, NoFile)
  /\ UNCHANGED <<path, older, bak, locks, world, locals, exitCode>>

\* Mutant: the sidecar is removed with the lock.
ReleaseAndUnlink(r) ==
  /\ Goto(r, "release", "done")
  /\ held' = [held EXCEPT ![r] = "none"]
  /\ fd' = [fd EXCEPT ![r] = 0]
  /\ lockFile' = 0
  /\ Forget({r})
  /\ UNCHANGED <<disk, inodes, world, kind, exitCode>>

Release(r) ==
  /\ Goto(r, "release", "done")
  /\ held' = [held EXCEPT ![r] = "none"]
  /\ fd' = [fd EXCEPT ![r] = 0]
  /\ Forget({r})
  /\ UNCHANGED <<disk, lockFile, inodes, world, kind, exitCode>>

Unwound(r) ==
  IF pc[r] \in {"fill", "fsync", "chmod", "rename"} THEN "clean"
  ELSE IF held[r] # "none" THEN "release"
  ELSE "done"

\* The system call the run is at fails (Docker down, disk full, no permission).
Fails(r) ==
  /\ pc[r] \notin Ended \cup {"clean", "release"}
  /\ pc' = [pc EXCEPT ![r] = Unwound(r)]
  /\ Exit(r, 1)
  /\ fd' = [fd EXCEPT ![r] = IF Unwound(r) = "done" THEN 0 ELSE @]
  /\ UNCHANGED <<disk, lockFile, inodes, held, world, locals>>

(***************************************************************************)
(* Crashes.  The kernel closes the descriptor and so drops the flock; no   *)
(* deferred call runs.                                                     *)
(***************************************************************************)
\* Mutant: the lock is the sidecar's existence, and a killed run leaves it.
KillLeavesLock(r) ==
  /\ pc[r] \notin Ended
  /\ pc' = [pc EXCEPT ![r] = "killed"]
  /\ Exit(r, -1)
  /\ Forget({r})
  /\ UNCHANGED <<disk, locks, world, kind>>

Kill(r) ==
  /\ pc[r] \notin Ended
  /\ pc' = [pc EXCEPT ![r] = "killed"]
  /\ held' = [held EXCEPT ![r] = "none"]
  /\ fd' = [fd EXCEPT ![r] = 0]
  /\ Exit(r, -1)
  /\ Forget({r})
  /\ UNCHANGED <<disk, lockFile, inodes, world, kind>>

\* Data that was not fsynced may be lost; so may the last rename.
AfterPowerLoss(f) ==
  IF f = NoFile \/ f.safe THEN {f} ELSE {f, [f EXCEPT !.data = Torn]}

PowerLoss ==
  /\ path' \in AfterPowerLoss(path) \cup AfterPowerLoss(older)
  /\ older' = path'
  /\ bak' \in AfterPowerLoss(bak)
  /\ pc' = [r \in Runs |-> IF pc[r] \in Ended THEN pc[r] ELSE "killed"]
  /\ held' = [r \in Runs |-> "none"]
  /\ fd' = [r \in Runs |-> 0]
  /\ exitCode' = [r \in Runs |-> IF pc[r] \in Ended THEN exitCode[r] ELSE -1]
  /\ Forget(Runs)
  /\ UNCHANGED <<tmp, lockFile, inodes, world, kind>>

(***************************************************************************)
(* The rest of the world.                                                  *)
(***************************************************************************)
\* A human saves another version, or the same one with other permissions, or
\* deletes the file.
HumanEdits ==
  /\ HumanWaits => \A r \in Runs : pc[r] \notin Working
  /\ path' \in {NoFile} \cup [data : Contents, mode : Modes, safe : {TRUE}]
  /\ path' # path
  /\ older' = path'
  /\ UNCHANGED <<bak, tmp, locks, world, locals, pc, exitCode>>

\* What a discovery would return changes: containers, labels, hosts going down.
DockerChanges ==
  /\ docker' \in Views \ {docker}
  /\ shown' = shown \cup {docker'}
  /\ UNCHANGED <<disk, locks, locals, pc, exitCode>>

Step(r) ==
  \/ OpenLock(r) \/ Lock(r) \/ LockRefused(r)
  \/ Discover(r) \/ WriteStdout(r) \/ Read(r)
  \/ MergeRejected(r) \/ Preview(r) \/ Proceed(r)
  \/ Stat(r) \/ ReadForBackup(r) \/ BackupSourceGone(r)
  \/ TruncateBackup(r) \/ WriteBackup(r)
  \/ CreateTemp(r) \/ FillTemp(r) \/ FsyncTemp(r) \/ ChmodTemp(r) \/ Rename(r)
  \/ RemoveTemp(r) \/ Release(r)

Next ==
  \/ \E r \in Runs : Start(r) \/ Step(r) \/ Fails(r) \/ Kill(r)
  \/ PowerLoss \/ HumanEdits \/ DockerChanges

\* A run that is not killed goes on: every system call returns.  Discovery need not,
\* dockerCallTimeout or not: over ssh it may stay in cmd.Wait (module SshConn).
Spec ==
  /\ Init /\ [][Next]_vars
  /\ \A r \in Runs : WF_vars(pc[r] # "discover" /\ Step(r))

-----------------------------------------------------------------------------
(***************************************************************************)
(* Properties.                                                             *)
(***************************************************************************)
TypeOK ==
  /\ path \in {NoFile} \cup Files /\ older \in {NoFile} \cup Files
  /\ bak \in {NoFile} \cup Files
  /\ lockFile \in Nat /\ inodes \in Nat
  /\ docker \in Views /\ shown \in SUBSET Views
  /\ pc \in [Runs -> Ended \cup Working \cup {"open", "flock", "discover", "print", "read"}]
  /\ kind \in [Runs -> Kinds]
  /\ exitCode \in [Runs -> {-1, 0, 1, 2}]
  /\ fd \in [Runs -> Nat]
  /\ held \in [Runs -> {"none", "shared", "exclusive"}]
  /\ want \in [Runs -> Views \cup {NoView}]
  /\ seen \in [Runs -> {NoFile} \cup Files]
  /\ keep \in [Runs -> Modes \cup {TempMode}]
  /\ copy \in [Runs -> {NoFile, Torn} \cup Contents]
  /\ tmp \in [Runs -> {NoFile} \cup Files]

\* lock.go: while one run may write, no other run holds the lock at all.
WriterAlone ==
  FlockWorks =>
    \A r, q \in Runs : r # q /\ held[r] = "exclusive" => held[q] = "none"

\* writeAtomic "without ever leaving it in a half-written state": whoever looks
\* at the output file, at any moment and after any crash, locks or no locks,
\* sees no file or a whole document with the permissions of a real one.
PathWhole ==
  path # NoFile => path.data \in Contents /\ path.mode \in Modes

\* ADR 008: what a writer merges is what it replaces.  From reading the file to
\* renaming over it, the file is the one the run read.
FreshSnapshot ==
  FlockWorks /\ HumanWaits =>
    \A r \in Runs :
      kind[r] = "write" /\ pc[r] \in Working \ {"clean", "release"} => path = seen[r]

\* --check's verdict is about the file that is there when it exits: nobody can
\* have written between the answer and the exit code.
CheckVerdict ==
  FlockWorks /\ HumanWaits =>
    \A r \in Runs :
      kind[r] = "check" /\ pc[r] = "release" /\ exitCode[r] \in {0, 2} =>
        exitCode[r] = IF Pending(Data(path), want[r]) THEN 2 ELSE 0

\* writeAtomic "enough to undo a sync gone wrong": at every moment of a live
\* write run the content it found is in the output file or in the backup, and
\* once the run succeeded it is in the backup.
NothingLost ==
  FlockWorks /\ HumanWaits =>
    \A r \in Runs :
      kind[r] = "write" /\ pc[r] \in Working /\ seen[r] # NoFile =>
        \/ bak # NoFile /\ bak.data = seen[r].data
        \/ pc[r] \notin {"clean", "release"} /\ path = seen[r]
        \/ exitCode[r] = 1 /\ path = seen[r]

\* writeAtomic reads the file a second time for its backup.  Humans who save
\* while a run is at work, the lock means nothing to them: what they had saved
\* when the backup was taken is in it, whole, until the run is over.  What is
\* saved after that, and before the rename, is lost.
SavedBeforeBackupSurvives ==
  FlockWorks =>
    \A r \in Runs :
      /\ pc[r] \in {"create", "fill", "fsync", "chmod", "rename", "clean", "release"}
      /\ copy[r] # NoFile /\ exitCode[r] # 1
      => bak # NoFile /\ bak.data = copy[r]

\* The deferred cleanup: a run that was not killed leaves no temp file behind.
NoLitter == \A r \in Runs : pc[r] \in {"idle", "done"} => tmp[r] = NoFile

\* ADR 008, "flock releases automatically": no lock outlives its run.
NoStaleLock == \A r \in Runs : held[r] # "none" => pc[r] \notin Ended

\* lock.go, "non-blocking rather than waiting": a run whose own discovery returns ends,
\* whatever the other runs do.  They take the lock before they discover, and one of them
\* may hold it in a discovery that never returns.
RunsEnd ==
  \A r \in Runs :
    (pc[r] = "discover" ~> pc[r] # "discover")
      => (pc[r] \notin Ended ~> pc[r] \in {"done", "killed"})

Plain(f) == IF f = NoFile THEN NoFile ELSE [data |-> f.data, mode |-> f.mode]

Atomic == INSTANCE AtomicSync WITH path <- Plain(path), older <- Plain(older)

\* With a lock that excludes and humans who wait, any number of overlapping,
\* failing and crashing runs replace the file as if each had done it in one step.
ImplementsAtomicSync == Atomic!Spec

-----------------------------------------------------------------------------
(***************************************************************************)
(* What a comment or a message says and the code does not do.              *)
(***************************************************************************)
\* writeAtomic: the content is copied to path+".bak" at the same permissions.
BackupKeepsMode ==
  \A r \in Runs : pc[r] = "rename" /\ path # NoFile /\ bak # NoFile => bak.mode = keep[r]
=============================================================================
