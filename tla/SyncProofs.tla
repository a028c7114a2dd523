----------------------------- MODULE SyncProofs -----------------------------
(***************************************************************************)
(* Proofs about module Sync, for any number of runs, any documents, views  *)
(* and permissions, and whatever a merge computes.                         *)
(*                                                                         *)
(* The inductive invariant IInv has four parts, each of which needs the    *)
(* ones before it:                                                         *)
(*   TypeOK                                                                *)
(*   RunInv    what a run has in hand at each line of RunE and writeAtomic *)
(*   LockInv   which run has the sidecar open and locked, at which line    *)
(*   FreshInv  with a lock that excludes and humans who wait: the output   *)
(*             file is still the one each working run read                 *)
(* A fifth, SavedInv, takes the place of FreshInv where humans do not      *)
(* wait.                                                                   *)
(***************************************************************************)
EXTENDS Sync, TLAPS

Whole == [data : Contents, mode : Modes, safe : {TRUE}]

Writing == {"stat", "copy", "truncate", "backup", "create", "fill", "fsync", "chmod", "rename"}

Tempted == {"fill", "fsync", "chmod", "rename"}

RunInv ==
  /\ path \in {NoFile} \cup Whole
  /\ older \in {NoFile} \cup Whole
  /\ docker \in shown
  /\ \A r \in Runs : pc[r] = "backup" => bak # NoFile
  /\ \A r \in Runs :
       /\ seen[r] \in {NoFile} \cup Whole
       /\ keep[r] \in Modes
       /\ pc[r] \in {"truncate", "backup"} => copy[r] \in Contents
       /\ pc[r] \in {"read", "merge"} \cup Writing => want[r] \in shown
       /\ pc[r] \in Writing => ~Refuses(Data(seen[r]), want[r])
       /\ pc[r] \in Tempted => tmp[r] \in Files
       /\ pc[r] \in {"fsync", "chmod", "rename"} =>
            tmp[r].data = Merged(Data(seen[r]), want[r])
       /\ pc[r] \in {"chmod", "rename"} => tmp[r].safe = TRUE
       /\ pc[r] = "rename" => tmp[r].mode = keep[r]
       /\ pc[r] \notin Tempted \cup {"clean", "killed"} => tmp[r] = NoFile

-----------------------------------------------------------------------------
\* The initial states are of their types.
LEMMA InitTypeOK == Init => TypeOK
<1>. SUFFICES ASSUME Init PROVE TypeOK
  OBVIOUS
<1>1. path \in {NoFile} \cup Files /\ older \in {NoFile} \cup Files
  BY DEF Init, Files
<1>. QED
  BY <1>1, SyncAssumption DEF Init, TypeOK, Kinds, Ended, Working

\* No run has anything in hand yet.
LEMMA InitRunInv == Init => RunInv
  BY SyncAssumption DEF Init, RunInv, Whole, Writing, Tempted

\* Every step keeps the types.
LEMMA TypeOKStep == TypeOK /\ RunInv /\ [Next]_vars => TypeOK'
<1>. SUFFICES ASSUME TypeOK, RunInv, [Next]_vars
              PROVE  TypeOK'
  OBVIOUS
<1>. USE DEF TypeOK, Goto, Exit, Forget, disk, locks, world, locals
<1>1. ASSUME NEW r \in Runs, Start(r) PROVE TypeOK'
  BY <1>1 DEF Start, Kinds, Ended, Working
<1>2. ASSUME NEW r \in Runs, OpenLock(r) PROVE TypeOK'
  BY <1>2 DEF OpenLock, Ended, Working
<1>3. ASSUME NEW r \in Runs, Lock(r) PROVE TypeOK'
  BY <1>3 DEF Lock, LockMode, Ended, Working
<1>4. ASSUME NEW r \in Runs, LockRefused(r) PROVE TypeOK'
  BY <1>4 DEF LockRefused, Ended, Working
<1>5. ASSUME NEW r \in Runs, Discover(r) PROVE TypeOK'
  BY <1>5 DEF Discover, Ended, Working
<1>6. ASSUME NEW r \in Runs, WriteStdout(r) PROVE TypeOK'
  BY <1>6 DEF WriteStdout, Ended, Working
<1>7. ASSUME NEW r \in Runs, Read(r) PROVE TypeOK'
  BY <1>7 DEF Read, Ended, Working
<1>8. ASSUME NEW r \in Runs, MergeRejected(r) PROVE TypeOK'
  BY <1>8 DEF MergeRejected, Ended, Working
<1>9. ASSUME NEW r \in Runs, Preview(r) PROVE TypeOK'
  BY <1>9 DEF Preview, Verdict, Ended, Working
<1>10. ASSUME NEW r \in Runs, Proceed(r) PROVE TypeOK'
  BY <1>10 DEF Proceed, Ended, Working
<1>11. ASSUME NEW r \in Runs, Stat(r) PROVE TypeOK'
  BY <1>11, SyncAssumption DEF Stat, Files, Ended, Working
<1>12. ASSUME NEW r \in Runs, ReadForBackup(r) PROVE TypeOK'
  BY <1>12 DEF ReadForBackup, Files, Ended, Working
<1>13. ASSUME NEW r \in Runs, BackupSourceGone(r) PROVE TypeOK'
  BY <1>13 DEF BackupSourceGone, Ended, Working
<1>14. ASSUME NEW r \in Runs, TruncateBackup(r) PROVE TypeOK'
  BY <1>14 DEF TruncateBackup, Files, Ended, Working
<1>15. ASSUME NEW r \in Runs, WriteBackup(r) PROVE TypeOK'
  <2>1. bak \in Files
    BY <1>15 DEF WriteBackup, RunInv
  <2>2. PICK d \in {copy[r], Torn} : bak' = [bak EXCEPT !.data = d]
    BY <1>15 DEF WriteBackup
  <2>3. d \in Contents \cup {Torn}
    BY <1>15, <2>2 DEF WriteBackup, RunInv
  <2>4. bak' \in Files
    BY <2>1, <2>2, <2>3 DEF Files
  <2>. QED
    BY <1>15, <2>4 DEF WriteBackup, Ended, Working
<1>16. ASSUME NEW r \in Runs, CreateTemp(r) PROVE TypeOK'
  BY <1>16 DEF CreateTemp, SetTmp, Files, Ended, Working
<1>17. ASSUME NEW r \in Runs, FillTemp(r) PROVE TypeOK'
  <2>1. tmp[r] \in Files
    BY <1>17 DEF FillTemp, RunInv, Tempted
  <2>2. Merged(Data(seen[r]), want[r]) \in Contents
    <3>1. want[r] \in Views /\ ~Refuses(Data(seen[r]), want[r])
      BY <1>17 DEF FillTemp, RunInv, Writing
    <3>2. Data(seen[r]) \in Contents \cup {NoFile}
      BY DEF RunInv, Data, Whole
    <3>. QED
      BY <3>1, <3>2, SyncAssumption
  <2>3. [tmp[r] EXCEPT !.data = Merged(Data(seen[r]), want[r])] \in Files
    BY <2>1, <2>2 DEF Files
  <2>. QED
    BY <1>17, <2>3 DEF FillTemp, SetTmp, Ended, Working
<1>18. ASSUME NEW r \in Runs, FsyncTemp(r) PROVE TypeOK'
  <2>1. tmp[r] \in Files
    BY <1>18 DEF FsyncTemp, RunInv, Tempted
  <2>2. [tmp[r] EXCEPT !.safe = TRUE] \in Files
    BY <2>1 DEF Files
  <2>. QED
    BY <1>18, <2>2 DEF FsyncTemp, SetTmp, Ended, Working
<1>19. ASSUME NEW r \in Runs, ChmodTemp(r) PROVE TypeOK'
  <2>1. tmp[r] \in Files
    BY <1>19 DEF ChmodTemp, RunInv, Tempted
  <2>2. [tmp[r] EXCEPT !.mode = keep[r]] \in Files
    BY <2>1 DEF Files
  <2>. QED
    BY <1>19, <2>2 DEF ChmodTemp, SetTmp, Ended, Working
<1>20. ASSUME NEW r \in Runs, Rename(r) PROVE TypeOK'
  BY <1>20 DEF Rename, SetTmp, Ended, Working
<1>21. ASSUME NEW r \in Runs, RemoveTemp(r) PROVE TypeOK'
  BY <1>21 DEF RemoveTemp, SetTmp, Ended, Working
<1>22. ASSUME NEW r \in Runs, Release(r) PROVE TypeOK'
  BY <1>22, SyncAssumption DEF Release, Ended, Working
<1>23. ASSUME NEW r \in Runs, Fails(r) PROVE TypeOK'
  BY <1>23 DEF Fails, Unwound, Ended, Working
<1>24. ASSUME NEW r \in Runs, Kill(r) PROVE TypeOK'
  BY <1>24, SyncAssumption DEF Kill, Ended, Working
<1>25. CASE PowerLoss
  BY <1>25, SyncAssumption DEF PowerLoss, AfterPowerLoss, Files, Ended, Working
<1>26. CASE HumanEdits
  BY <1>26 DEF HumanEdits, Files
<1>27. CASE DockerChanges
  BY <1>27 DEF DockerChanges
<1>28. CASE UNCHANGED vars
  BY <1>28 DEF vars
<1>. QED
  BY <1>1, <1>2, <1>3, <1>4, <1>5, <1>6, <1>7, <1>8, <1>9, <1>10, <1>11, <1>12, <1>13,
     <1>14, <1>15, <1>16, <1>17, <1>18, <1>19, <1>20, <1>21, <1>22, <1>23, <1>24, <1>25,
     <1>26, <1>27, <1>28
  DEF Next, Step

\* Every line of RunE and writeAtomic leaves a run with what the next line takes for granted.
LEMMA RunInvStep == TypeOK /\ RunInv /\ [Next]_vars => RunInv'
<1>. SUFFICES ASSUME TypeOK, RunInv, [Next]_vars
              PROVE  RunInv'
  OBVIOUS
<1>. USE DEF RunInv, TypeOK, Goto, Exit, Forget, SetTmp, disk, locks, world, locals,
             Writing, Tempted, Ended, Working
<1>1. ASSUME NEW r \in Runs, Start(r) PROVE RunInv'
  BY <1>1, SyncAssumption DEF Start
<1>2. ASSUME NEW r \in Runs, OpenLock(r) PROVE RunInv'
  BY <1>2, SyncAssumption DEF OpenLock
<1>3. ASSUME NEW r \in Runs, Lock(r) PROVE RunInv'
  BY <1>3, SyncAssumption DEF Lock
<1>4. ASSUME NEW r \in Runs, LockRefused(r) PROVE RunInv'
  BY <1>4, SyncAssumption DEF LockRefused
<1>5. ASSUME NEW r \in Runs, Discover(r) PROVE RunInv'
  BY <1>5, SyncAssumption DEF Discover
<1>6. ASSUME NEW r \in Runs, WriteStdout(r) PROVE RunInv'
  BY <1>6, SyncAssumption DEF WriteStdout
<1>7. ASSUME NEW r \in Runs, Read(r) PROVE RunInv'
  BY <1>7, SyncAssumption DEF Read
<1>8. ASSUME NEW r \in Runs, MergeRejected(r) PROVE RunInv'
  BY <1>8, SyncAssumption DEF MergeRejected
<1>9. ASSUME NEW r \in Runs, Preview(r) PROVE RunInv'
  BY <1>9, SyncAssumption DEF Preview
<1>10. ASSUME NEW r \in Runs, Proceed(r) PROVE RunInv'
  BY <1>10, SyncAssumption DEF Proceed
<1>11. ASSUME NEW r \in Runs, Stat(r) PROVE RunInv'
  <2> DEFINE k == IF path = NoFile THEN DefaultMode ELSE path.mode
  <2>1. k \in Modes
    BY SyncAssumption DEF Whole
  <2>2. /\ pc' = [pc EXCEPT ![r] = IF path = NoFile THEN "create" ELSE "copy"]
        /\ pc[r] = "stat"
        /\ keep' = [keep EXCEPT ![r] = k]
        /\ UNCHANGED <<path, older, bak, tmp, docker, shown, seen, copy, want>>
    BY <1>11 DEF Stat
  <2> HIDE DEF k
  <2>. QED
    BY <2>1, <2>2
<1>12. ASSUME NEW r \in Runs, ReadForBackup(r) PROVE RunInv'
  BY <1>12, SyncAssumption, ZenonT(40) DEF ReadForBackup, Whole
<1>13. ASSUME NEW r \in Runs, BackupSourceGone(r) PROVE RunInv'
  BY <1>13, SyncAssumption DEF BackupSourceGone
<1>14. ASSUME NEW r \in Runs, TruncateBackup(r) PROVE RunInv'
  <2>1. bak' \in Files
    BY <1>14, SyncAssumption DEF TruncateBackup, Files
  <2>2. bak' # NoFile
    BY <2>1, SyncAssumption DEF Files
  <2>. QED
    BY <1>14, <2>2 DEF TruncateBackup
<1>15. ASSUME NEW r \in Runs, WriteBackup(r) PROVE RunInv'
  <2>1. bak \in Files
    BY <1>15 DEF WriteBackup
  <2>2. PICK d \in {copy[r], Torn} : bak' = [bak EXCEPT !.data = d]
    BY <1>15 DEF WriteBackup
  <2>3. d \in Contents \cup {Torn}
    BY <1>15, <2>2 DEF WriteBackup
  <2>4. bak' \in Files
    BY <2>1, <2>2, <2>3 DEF Files
  <2>5. bak' # NoFile
    BY <2>4, SyncAssumption DEF Files
  <2>. QED
    BY <1>15, <2>5 DEF WriteBackup
<1>16. ASSUME NEW r \in Runs, CreateTemp(r) PROVE RunInv'
  BY <1>16, SyncAssumption DEF CreateTemp, Files
<1>17. ASSUME NEW r \in Runs, FillTemp(r) PROVE RunInv'
  <2> DEFINE doc == Merged(Data(seen[r]), want[r])
             new == [tmp[r] EXCEPT !.data = doc]
  <2>1. tmp[r] \in Files
    BY <1>17 DEF FillTemp
  <2>2. doc \in Contents
    <3>1. want[r] \in Views /\ ~Refuses(Data(seen[r]), want[r])
      BY <1>17 DEF FillTemp
    <3>2. Data(seen[r]) \in Contents \cup {NoFile}
      BY DEF Data, Whole
    <3>. QED
      BY <3>1, <3>2, SyncAssumption
  <2>3. new \in Files /\ new.data = doc
    BY <2>1, <2>2 DEF Files
  <2>4. /\ pc' = [pc EXCEPT ![r] = "fsync"] /\ pc[r] = "fill"
        /\ tmp' = [tmp EXCEPT ![r] = new]
        /\ UNCHANGED <<path, older, bak, docker, shown, seen, keep, copy, want>>
    BY <1>17 DEF FillTemp
  <2> HIDE DEF new
  <2>. QED
    BY <2>3, <2>4 DEF Data
<1>18. ASSUME NEW r \in Runs, FsyncTemp(r) PROVE RunInv'
  <2> DEFINE new == [tmp[r] EXCEPT !.safe = TRUE]
  <2>1. tmp[r] \in Files
    BY <1>18 DEF FsyncTemp
  <2>2. new \in Files /\ new.data = tmp[r].data /\ new.safe = TRUE
    BY <2>1 DEF Files
  <2>3. /\ pc' = [pc EXCEPT ![r] = "chmod"] /\ pc[r] = "fsync"
        /\ tmp' = [tmp EXCEPT ![r] = new]
        /\ UNCHANGED <<path, older, bak, docker, shown, seen, keep, copy, want>>
    BY <1>18 DEF FsyncTemp
  <2> HIDE DEF new
  <2>. QED
    BY <2>2, <2>3
<1>19. ASSUME NEW r \in Runs, ChmodTemp(r) PROVE RunInv'
  BY <1>19, SyncAssumption DEF ChmodTemp, Files
<1>20. ASSUME NEW r \in Runs, Rename(r) PROVE RunInv'
  <2>1. want[r] \in Views /\ ~Refuses(Data(seen[r]), want[r])
    BY <1>20 DEF Rename
  <2>2. Data(seen[r]) \in Contents \cup {NoFile}
    BY DEF Data, Whole
  <2>3. Merged(Data(seen[r]), want[r]) \in Contents
    BY <2>1, <2>2, SyncAssumption
  <2>4. tmp[r] \in Whole
    BY <1>20, <2>3 DEF Rename, Files, Whole
  <2>5. path' \in Whole /\ older' = path
    BY <1>20, <2>4 DEF Rename
  <2>. QED
    BY <1>20, <2>5 DEF Rename
<1>21. ASSUME NEW r \in Runs, RemoveTemp(r) PROVE RunInv'
  BY <1>21, SyncAssumption DEF RemoveTemp
<1>22. ASSUME NEW r \in Runs, Release(r) PROVE RunInv'
  BY <1>22, SyncAssumption DEF Release
<1>23. ASSUME NEW r \in Runs, Fails(r) PROVE RunInv'
  BY <1>23, SyncAssumption DEF Fails, Unwound
<1>24. ASSUME NEW r \in Runs, Kill(r) PROVE RunInv'
  BY <1>24, SyncAssumption DEF Kill
<1>25. CASE PowerLoss
  BY <1>25, SyncAssumption DEF PowerLoss, AfterPowerLoss, Whole
<1>26. CASE HumanEdits
  BY <1>26 DEF HumanEdits, Whole
<1>27. CASE DockerChanges
  BY <1>27 DEF DockerChanges
<1>28. CASE UNCHANGED vars
  BY <1>28 DEF vars
<1>. QED
  BY <1>1, <1>2, <1>3, <1>4, <1>5, <1>6, <1>7, <1>8, <1>9, <1>10, <1>11, <1>12, <1>13,
     <1>14, <1>15, <1>16, <1>17, <1>18, <1>19, <1>20, <1>21, <1>22, <1>23, <1>24, <1>25,
     <1>26, <1>27, <1>28
  DEF Next, Step

-----------------------------------------------------------------------------
\* Every variable keeps its type.
THEOREM TypeCorrect == Spec => []TypeOK
<1>1. Init => TypeOK /\ RunInv
  BY InitTypeOK, InitRunInv
<1>2. TypeOK /\ RunInv /\ [Next]_vars => (TypeOK /\ RunInv)'
  BY TypeOKStep, RunInvStep
<1>. QED
  BY <1>1, <1>2, PTL DEF Spec

\* Whatever runs overlap, fail and crash, and with or without a lock that works,
\* the output file is never seen half-written (writeAtomic).
THEOREM NeverHalfWritten == Spec => []PathWhole
<1>1. Init => TypeOK /\ RunInv
  BY InitTypeOK, InitRunInv
<1>2. TypeOK /\ RunInv /\ [Next]_vars => (TypeOK /\ RunInv)'
  BY TypeOKStep, RunInvStep
<1>3. RunInv => PathWhole
  BY DEF RunInv, PathWhole, Whole
<1>. QED
  BY <1>1, <1>2, <1>3, PTL DEF Spec

\* A run that was not killed leaves no temporary file (the deferred os.Remove).
THEOREM NoTempFileLeft == Spec => []NoLitter
<1>1. Init => TypeOK /\ RunInv
  BY InitTypeOK, InitRunInv
<1>2. TypeOK /\ RunInv /\ [Next]_vars => (TypeOK /\ RunInv)'
  BY TypeOKStep, RunInvStep
<1>3. RunInv => NoLitter
  BY DEF RunInv, NoLitter, Tempted
<1>. QED
  BY <1>1, <1>2, <1>3, PTL DEF Spec

-----------------------------------------------------------------------------
(***************************************************************************)
(* The lock.  LockInv says which run has the sidecar open and locked at    *)
(* each line of RunE; that all of them opened the same inode (nobody       *)
(* removes the sidecar) is what makes WriterAlone inductive.               *)
(***************************************************************************)

Inside == {"discover", "read"} \cup Working

LockInv ==
  /\ \A r \in Runs :
       /\ fd[r] # 0 => fd[r] = lockFile
       /\ held[r] # "none" => fd[r] # 0
       /\ pc[r] = "flock" => fd[r] # 0
       /\ pc[r] \in {"open", "flock", "read"} \cup Working => kind[r] # "stdout"
       /\ pc[r] = "print" => kind[r] = "stdout"
       /\ pc[r] \in Writing \cup {"clean"} => kind[r] = "write"
       /\ held[r] = IF kind[r] # "stdout" /\ pc[r] \in Inside THEN LockMode(r) ELSE "none"
  /\ FlockWorks =>
       \A r, q \in Runs : r # q /\ held[r] = "exclusive" => held[q] = "none"

\* Nobody has the sidecar open.
LEMMA InitLockInv == Init => LockInv
  BY DEF Init, LockInv, Inside, Working, Writing, LockMode

\* Every step, a kill and a power cut included, keeps who holds what.
LEMMA LockInvStep == TypeOK /\ LockInv /\ [Next]_vars => LockInv'
<1>. SUFFICES ASSUME TypeOK, LockInv, [Next]_vars
              PROVE  LockInv'
  OBVIOUS
<1>. USE DEF LockInv, Inside, TypeOK, Goto, Exit, Forget, disk, locks, world, locals,
             LockMode, Writing, Ended, Working, Kinds
<1>1. ASSUME NEW r \in Runs, Start(r) PROVE LockInv'
  BY <1>1 DEF Start
<1>2. ASSUME NEW r \in Runs, OpenLock(r) PROVE LockInv'
  BY <1>2 DEF OpenLock
<1>3. ASSUME NEW r \in Runs, Lock(r) PROVE LockInv'
  BY <1>3 DEF Lock, Grantable
<1>4. ASSUME NEW r \in Runs, LockRefused(r) PROVE LockInv'
  BY <1>4 DEF LockRefused
<1>5. ASSUME NEW r \in Runs, Discover(r) PROVE LockInv'
  BY <1>5 DEF Discover
<1>6. ASSUME NEW r \in Runs, WriteStdout(r) PROVE LockInv'
  BY <1>6 DEF WriteStdout
<1>7. ASSUME NEW r \in Runs, Read(r) PROVE LockInv'
  BY <1>7 DEF Read
<1>8. ASSUME NEW r \in Runs, MergeRejected(r) PROVE LockInv'
  BY <1>8 DEF MergeRejected
<1>9. ASSUME NEW r \in Runs, Preview(r) PROVE LockInv'
  BY <1>9 DEF Preview
<1>10. ASSUME NEW r \in Runs, Proceed(r) PROVE LockInv'
  BY <1>10 DEF Proceed
<1>11. ASSUME NEW r \in Runs, Stat(r) PROVE LockInv'
  BY <1>11 DEF Stat
<1>12. ASSUME NEW r \in Runs, ReadForBackup(r) PROVE LockInv'
  BY <1>12 DEF ReadForBackup
<1>13. ASSUME NEW r \in Runs, BackupSourceGone(r) PROVE LockInv'
  BY <1>13 DEF BackupSourceGone
<1>14. ASSUME NEW r \in Runs, TruncateBackup(r) PROVE LockInv'
  BY <1>14 DEF TruncateBackup
<1>15. ASSUME NEW r \in Runs, WriteBackup(r) PROVE LockInv'
  BY <1>15 DEF WriteBackup
<1>16. ASSUME NEW r \in Runs, CreateTemp(r) PROVE LockInv'
  BY <1>16 DEF CreateTemp, SetTmp
<1>17. ASSUME NEW r \in Runs, FillTemp(r) PROVE LockInv'
  BY <1>17 DEF FillTemp, SetTmp
<1>18. ASSUME NEW r \in Runs, FsyncTemp(r) PROVE LockInv'
  BY <1>18 DEF FsyncTemp, SetTmp
<1>19. ASSUME NEW r \in Runs, ChmodTemp(r) PROVE LockInv'
  BY <1>19 DEF ChmodTemp, SetTmp
<1>20. ASSUME NEW r \in Runs, Rename(r) PROVE LockInv'
  BY <1>20 DEF Rename, SetTmp
<1>21. ASSUME NEW r \in Runs, RemoveTemp(r) PROVE LockInv'
  BY <1>21 DEF RemoveTemp, SetTmp
<1>22. ASSUME NEW r \in Runs, Release(r) PROVE LockInv'
  BY <1>22 DEF Release
<1>23. ASSUME NEW r \in Runs, Fails(r) PROVE LockInv'
  BY <1>23 DEF Fails, Unwound
<1>24. ASSUME NEW r \in Runs, Kill(r) PROVE LockInv'
  BY <1>24 DEF Kill
<1>25. CASE PowerLoss
  BY <1>25 DEF PowerLoss
<1>26. CASE HumanEdits
  BY <1>26 DEF HumanEdits
<1>27. CASE DockerChanges
  BY <1>27 DEF DockerChanges
<1>28. CASE UNCHANGED vars
  BY <1>28 DEF vars
<1>. QED
  BY <1>1, <1>2, <1>3, <1>4, <1>5, <1>6, <1>7, <1>8, <1>9, <1>10, <1>11, <1>12, <1>13,
     <1>14, <1>15, <1>16, <1>17, <1>18, <1>19, <1>20, <1>21, <1>22, <1>23, <1>24, <1>25,
     <1>26, <1>27, <1>28
  DEF Next, Step

-----------------------------------------------------------------------------
(***************************************************************************)
(* What the lock buys: with a lock that excludes and humans who wait, the  *)
(* output file stays the one a run read until the run itself replaces it,  *)
(* and the run knows what it needs to know about it.  FreshInv is that,    *)
(* line by line of writeAtomic; with TypeOK, RunInv and LockInv it is      *)
(* inductive, and it gives four properties below and the refinement of     *)
(* AtomicSync.                                                             *)
(***************************************************************************)

Disciplined == FlockWorks /\ HumanWaits

BackedUp(r) == bak # NoFile /\ bak.data = seen[r].data

RunFresh(r) ==
  /\ pc[r] \in {"idle", "open", "flock", "discover", "read"} => seen[r] = NoFile
  /\ pc[r] \in Working \ {"clean", "release"} => path = seen[r]
  /\ pc[r] \in {"copy", "truncate", "backup"} => seen[r] # NoFile
  /\ pc[r] \in {"truncate", "backup"} => copy[r] = seen[r].data
  /\ pc[r] = "backup" => bak.data = Torn
  /\ pc[r] \in {"create"} \cup Tempted /\ seen[r] # NoFile => BackedUp(r)
  /\ pc[r] \in Writing \ {"stat"} =>
       keep[r] = IF seen[r] = NoFile THEN DefaultMode ELSE seen[r].mode
  /\ pc[r] \in {"clean", "release"} /\ kind[r] = "write" /\ seen[r] # NoFile =>
       IF exitCode[r] = 1 THEN path = seen[r] ELSE BackedUp(r)
  /\ pc[r] = "release" /\ kind[r] = "check" /\ exitCode[r] \in {0, 2} =>
       path = seen[r] /\ exitCode[r] = Verdict(r)

FreshInv == Disciplined => \A r \in Runs : RunFresh(r)

IInv == TypeOK /\ RunInv /\ LockInv /\ FreshInv

\* While one run is past its reading and may write, no other is working.
LEMMA AloneInside ==
  ASSUME TypeOK, LockInv, FlockWorks, NEW r \in Runs, NEW q \in Runs, q # r,
         kind[r] = "write", pc[r] \in Working
  PROVE  pc[q] \notin Working /\ pc[q] # "read"
<1>1. held[r] = "exclusive"
  BY DEF LockInv, LockMode, Inside
<1>2. held[q] = "none"
  BY <1>1 DEF LockInv
<1>3. pc[q] \in {"read"} \cup Working => kind[q] # "stdout" /\ held[q] = LockMode(q)
  BY DEF LockInv, Inside
<1>. QED
  BY <1>2, <1>3 DEF LockMode

\* Nobody has read anything.
LEMMA InitFreshInv == Init => FreshInv
  BY ZenonT(40) DEF Init, FreshInv, RunFresh, Working, Writing, Tempted

\* No step of another run gets between the reading and the replacing of a writer.
LEMMA FreshInvStep == IInv /\ [Next]_vars => FreshInv'
<1>. SUFFICES ASSUME TypeOK, RunInv, LockInv, \A r \in Runs : RunFresh(r), Disciplined,
                     [Next]_vars
              PROVE  \A r \in Runs : RunFresh(r)'
  BY DEF FreshInv, IInv, Disciplined
<1>. USE DEF RunFresh, TypeOK, Goto, Exit, Forget, SetTmp, disk, locks, world, locals,
             Writing, Tempted, Ended, Working, BackedUp, Verdict
<1>1. ASSUME NEW r \in Runs, Start(r) PROVE \A q \in Runs : RunFresh(q)'
  BY <1>1 DEF Start
<1>2. ASSUME NEW r \in Runs, OpenLock(r) PROVE \A q \in Runs : RunFresh(q)'
  BY <1>2 DEF OpenLock
<1>3. ASSUME NEW r \in Runs, Lock(r) PROVE \A q \in Runs : RunFresh(q)'
  BY <1>3 DEF Lock
<1>4. ASSUME NEW r \in Runs, LockRefused(r) PROVE \A q \in Runs : RunFresh(q)'
  BY <1>4 DEF LockRefused
<1>5. ASSUME NEW r \in Runs, Discover(r) PROVE \A q \in Runs : RunFresh(q)'
  BY <1>5 DEF Discover
<1>6. ASSUME NEW r \in Runs, WriteStdout(r) PROVE \A q \in Runs : RunFresh(q)'
  BY <1>6 DEF WriteStdout
<1>7. ASSUME NEW r \in Runs, Read(r) PROVE \A q \in Runs : RunFresh(q)'
  BY <1>7, SyncAssumption DEF Read
<1>8. ASSUME NEW r \in Runs, MergeRejected(r) PROVE \A q \in Runs : RunFresh(q)'
  BY <1>8 DEF MergeRejected, LockInv
<1>9. ASSUME NEW r \in Runs, Preview(r) PROVE \A q \in Runs : RunFresh(q)'
  BY <1>9 DEF Preview, LockInv
<1>10. ASSUME NEW r \in Runs, Proceed(r) PROVE \A q \in Runs : RunFresh(q)'
  BY <1>10 DEF Proceed
<1>11. ASSUME NEW r \in Runs, Stat(r) PROVE \A q \in Runs : RunFresh(q)'
  BY <1>11 DEF Stat
<1>12. ASSUME NEW r \in Runs, ReadForBackup(r) PROVE \A q \in Runs : RunFresh(q)'
  BY <1>12 DEF ReadForBackup
<1>13. ASSUME NEW r \in Runs, BackupSourceGone(r) PROVE \A q \in Runs : RunFresh(q)'
  BY <1>13 DEF BackupSourceGone
<1>14. ASSUME NEW r \in Runs, TruncateBackup(r) PROVE \A q \in Runs : RunFresh(q)'
  <2>1. kind[r] = "write" /\ pc[r] \in Working
    BY <1>14 DEF TruncateBackup, LockInv
  <2>2. \A q \in Runs : q # r => pc[q] \notin Working /\ pc[q] # "read"
    BY <2>1, AloneInside DEF Disciplined
  <2>. QED
    BY <1>14, <2>2 DEF TruncateBackup, RunInv, Files
<1>15. ASSUME NEW r \in Runs, WriteBackup(r) PROVE \A q \in Runs : RunFresh(q)'
  <2>1. kind[r] = "write" /\ pc[r] \in Working
    BY <1>15 DEF WriteBackup, LockInv
  <2>2. \A q \in Runs : q # r => pc[q] \notin Working /\ pc[q] # "read"
    BY <2>1, AloneInside DEF Disciplined
  <2>3. bak' = [bak EXCEPT !.data = copy[r]]
    BY <1>15 DEF WriteBackup
  <2>4. bak \in Files /\ copy[r] \in Contents
    BY <1>15 DEF WriteBackup, RunInv
  <2>5. bak' \in Files /\ bak'.data = copy[r]
    BY <2>3, <2>4 DEF Files
  <2>6. bak' # NoFile
    BY <2>5, SyncAssumption DEF Files
  <2>. QED
    BY <1>15, <2>2, <2>5, <2>6 DEF WriteBackup
<1>16. ASSUME NEW r \in Runs, CreateTemp(r) PROVE \A q \in Runs : RunFresh(q)'
  BY <1>16 DEF CreateTemp
<1>17. ASSUME NEW r \in Runs, FillTemp(r) PROVE \A q \in Runs : RunFresh(q)'
  BY <1>17 DEF FillTemp
<1>18. ASSUME NEW r \in Runs, FsyncTemp(r) PROVE \A q \in Runs : RunFresh(q)'
  BY <1>18 DEF FsyncTemp
<1>19. ASSUME NEW r \in Runs, ChmodTemp(r) PROVE \A q \in Runs : RunFresh(q)'
  BY <1>19 DEF ChmodTemp
<1>20. ASSUME NEW r \in Runs, Rename(r) PROVE \A q \in Runs : RunFresh(q)'
  <2>1. kind[r] = "write" /\ pc[r] \in Working
    BY <1>20 DEF Rename, LockInv
  <2>2. \A q \in Runs : q # r => pc[q] \notin Working /\ pc[q] # "read"
    BY <2>1, AloneInside DEF Disciplined
  <2>. QED
    BY <1>20, <2>2 DEF Rename, RunInv, Files
<1>21. ASSUME NEW r \in Runs, RemoveTemp(r) PROVE \A q \in Runs : RunFresh(q)'
  BY <1>21 DEF RemoveTemp, LockInv
<1>22. ASSUME NEW r \in Runs, Release(r) PROVE \A q \in Runs : RunFresh(q)'
  BY <1>22 DEF Release
<1>23. ASSUME NEW r \in Runs, Fails(r) PROVE \A q \in Runs : RunFresh(q)'
  BY <1>23 DEF Fails, Unwound, LockInv
<1>24. ASSUME NEW r \in Runs, Kill(r) PROVE \A q \in Runs : RunFresh(q)'
  BY <1>24 DEF Kill
<1>25. CASE PowerLoss
  BY <1>25 DEF PowerLoss, Disciplined
<1>26. CASE HumanEdits
  BY <1>26 DEF HumanEdits, Disciplined
<1>27. CASE DockerChanges
  BY <1>27 DEF DockerChanges, Disciplined
<1>28. CASE UNCHANGED vars
  BY <1>28 DEF vars
<1>. QED
  BY <1>1, <1>2, <1>3, <1>4, <1>5, <1>6, <1>7, <1>8, <1>9, <1>10, <1>11, <1>12, <1>13,
     <1>14, <1>15, <1>16, <1>17, <1>18, <1>19, <1>20, <1>21, <1>22, <1>23, <1>24, <1>25,
     <1>26, <1>27, <1>28
  DEF Next, Step

-----------------------------------------------------------------------------
\* The four parts together are inductive.
LEMMA Inductive == Spec => []IInv
<1>1. Init => IInv
  BY InitTypeOK, InitRunInv, InitLockInv, InitFreshInv DEF IInv
<1>2. IInv /\ [Next]_vars => IInv'
  BY TypeOKStep, RunInvStep, LockInvStep, FreshInvStep DEF IInv
<1>. QED
  BY <1>1, <1>2, PTL DEF Spec

\* acquireLock: a run that may write excludes every other.
THEOREM WritersExclude == Spec => []WriterAlone
<1>1. IInv => WriterAlone
  BY DEF IInv, LockInv, WriterAlone
<1>. QED
  BY <1>1, Inductive, PTL

\* ADR 008: no lock outlives the run that took it, however the run ended.
THEOREM LocksDie == Spec => []NoStaleLock
<1>1. IInv => NoStaleLock
  BY DEF IInv, LockInv, NoStaleLock, Inside, Working, Ended
<1>. QED
  BY <1>1, Inductive, PTL

\* ADR 008: a writer merges the content it replaces.
THEOREM WritersSeeFresh == Spec => []FreshSnapshot
<1>1. IInv => FreshSnapshot
  BY DEF IInv, FreshInv, RunFresh, FreshSnapshot, Disciplined, Working
<1>. QED
  BY <1>1, Inductive, PTL

\* --check answers about the file that is still there when it exits.
THEOREM ChecksAreRight == Spec => []CheckVerdict
<1>1. IInv => CheckVerdict
  BY DEF IInv, FreshInv, RunFresh, CheckVerdict, Disciplined, Verdict
<1>. QED
  BY <1>1, Inductive, PTL

\* writeAtomic: the replaced content can be had back from the backup.
THEOREM BackupHoldsTheOld == Spec => []NothingLost
<1>1. IInv => NothingLost
  BY DEF IInv, FreshInv, RunFresh, NothingLost, Disciplined, Working, BackedUp
<1>. QED
  BY <1>1, Inductive, PTL

-----------------------------------------------------------------------------
(***************************************************************************)
(* Humans who do not wait.  Of the four parts only FreshInv needs them to; *)
(* what a run knows of its own backup, SavedInv, needs the lock alone.     *)
(***************************************************************************)
Copied == {"truncate", "backup", "create", "clean", "release"} \cup Tempted

RunSaved(r) ==
  /\ pc[r] \notin Copied => copy[r] = NoFile
  /\ pc[r] = "backup" => bak.data = Torn
  /\ pc[r] \in Copied \ {"truncate", "backup"} /\ copy[r] # NoFile =>
       (pc[r] \in {"clean", "release"} /\ exitCode[r] = 1) \/ (bak # NoFile /\ bak.data = copy[r])

SavedInv == FlockWorks => \A r \in Runs : RunSaved(r)

\* No run has read anything for a backup.
LEMMA InitSavedInv == Init => SavedInv
  BY DEF Init, SavedInv, RunSaved, Copied, Tempted

\* No other run touches the backup between a run's copy and its exit, whatever
\* happens to the file meanwhile.
LEMMA SavedInvStep == TypeOK /\ RunInv /\ LockInv /\ SavedInv /\ [Next]_vars => SavedInv'
<1>. SUFFICES ASSUME TypeOK, RunInv, LockInv, \A r \in Runs : RunSaved(r), FlockWorks,
                     [Next]_vars
              PROVE  \A r \in Runs : RunSaved(r)'
  BY DEF SavedInv
<1>. USE DEF RunSaved, TypeOK, Goto, Exit, Forget, SetTmp, disk, locks, world, locals,
             Copied, Tempted, Ended, Working
<1>1. ASSUME NEW r \in Runs, Start(r) PROVE \A q \in Runs : RunSaved(q)'
  BY <1>1 DEF Start
<1>2. ASSUME NEW r \in Runs, OpenLock(r) PROVE \A q \in Runs : RunSaved(q)'
  BY <1>2 DEF OpenLock
<1>3. ASSUME NEW r \in Runs, Lock(r) PROVE \A q \in Runs : RunSaved(q)'
  BY <1>3 DEF Lock
<1>4. ASSUME NEW r \in Runs, LockRefused(r) PROVE \A q \in Runs : RunSaved(q)'
  BY <1>4 DEF LockRefused
<1>5. ASSUME NEW r \in Runs, Discover(r) PROVE \A q \in Runs : RunSaved(q)'
  BY <1>5 DEF Discover
<1>6. ASSUME NEW r \in Runs, WriteStdout(r) PROVE \A q \in Runs : RunSaved(q)'
  BY <1>6 DEF WriteStdout
<1>7. ASSUME NEW r \in Runs, Read(r) PROVE \A q \in Runs : RunSaved(q)'
  BY <1>7 DEF Read
<1>8. ASSUME NEW r \in Runs, MergeRejected(r) PROVE \A q \in Runs : RunSaved(q)'
  BY <1>8 DEF MergeRejected
<1>9. ASSUME NEW r \in Runs, Preview(r) PROVE \A q \in Runs : RunSaved(q)'
  BY <1>9 DEF Preview
<1>10. ASSUME NEW r \in Runs, Proceed(r) PROVE \A q \in Runs : RunSaved(q)'
  BY <1>10 DEF Proceed
<1>11. ASSUME NEW r \in Runs, Stat(r) PROVE \A q \in Runs : RunSaved(q)'
  BY <1>11 DEF Stat
<1>12. ASSUME NEW r \in Runs, ReadForBackup(r) PROVE \A q \in Runs : RunSaved(q)'
  BY <1>12 DEF ReadForBackup
<1>13. ASSUME NEW r \in Runs, BackupSourceGone(r) PROVE \A q \in Runs : RunSaved(q)'
  BY <1>13 DEF BackupSourceGone
<1>14. ASSUME NEW r \in Runs, TruncateBackup(r) PROVE \A q \in Runs : RunSaved(q)'
  <2>1. kind[r] = "write" /\ pc[r] \in Working
    BY <1>14 DEF TruncateBackup, LockInv, Writing
  <2>2. \A q \in Runs : q # r => pc[q] \notin Working
    BY <2>1, AloneInside
  <2>. QED
    BY <1>14, <2>2 DEF TruncateBackup
<1>15. ASSUME NEW r \in Runs, WriteBackup(r) PROVE \A q \in Runs : RunSaved(q)'
  <2>1. kind[r] = "write" /\ pc[r] \in Working
    BY <1>15 DEF WriteBackup, LockInv, Writing
  <2>2. \A q \in Runs : q # r => pc[q] \notin Working
    BY <2>1, AloneInside
  <2>3. bak' = [bak EXCEPT !.data = copy[r]]
    BY <1>15 DEF WriteBackup
  <2>4. bak \in Files /\ copy[r] \in Contents
    BY <1>15 DEF WriteBackup, RunInv
  <2>5. bak' \in Files /\ bak'.data = copy[r]
    BY <2>3, <2>4 DEF Files
  <2>6. bak' # NoFile
    BY <2>5, SyncAssumption DEF Files
  <2>. QED
    BY <1>15, <2>2, <2>5, <2>6 DEF WriteBackup
<1>16. ASSUME NEW r \in Runs, CreateTemp(r) PROVE \A q \in Runs : RunSaved(q)'
  BY <1>16 DEF CreateTemp
<1>17. ASSUME NEW r \in Runs, FillTemp(r) PROVE \A q \in Runs : RunSaved(q)'
  BY <1>17 DEF FillTemp
<1>18. ASSUME NEW r \in Runs, FsyncTemp(r) PROVE \A q \in Runs : RunSaved(q)'
  BY <1>18 DEF FsyncTemp
<1>19. ASSUME NEW r \in Runs, ChmodTemp(r) PROVE \A q \in Runs : RunSaved(q)'
  BY <1>19 DEF ChmodTemp
<1>20. ASSUME NEW r \in Runs, Rename(r) PROVE \A q \in Runs : RunSaved(q)'
  BY <1>20 DEF Rename
<1>21. ASSUME NEW r \in Runs, RemoveTemp(r) PROVE \A q \in Runs : RunSaved(q)'
  BY <1>21 DEF RemoveTemp
<1>22. ASSUME NEW r \in Runs, Release(r) PROVE \A q \in Runs : RunSaved(q)'
  BY <1>22 DEF Release
<1>23. ASSUME NEW r \in Runs, Fails(r) PROVE \A q \in Runs : RunSaved(q)'
  BY <1>23 DEF Fails, Unwound, LockInv, LockMode, Inside, Writing
<1>24. ASSUME NEW r \in Runs, Kill(r) PROVE \A q \in Runs : RunSaved(q)'
  BY <1>24 DEF Kill
<1>25. CASE PowerLoss
  BY <1>25 DEF PowerLoss
<1>26. CASE HumanEdits
  BY <1>26 DEF HumanEdits
<1>27. CASE DockerChanges
  BY <1>27 DEF DockerChanges
<1>28. CASE UNCHANGED vars
  BY <1>28 DEF vars
<1>. QED
  BY <1>1, <1>2, <1>3, <1>4, <1>5, <1>6, <1>7, <1>8, <1>9, <1>10, <1>11, <1>12, <1>13, <1>14, <1>15, <1>16, <1>17, <1>18, <1>19, <1>20, <1>21, <1>22, <1>23, <1>24, <1>25, <1>26, <1>27, <1>28
  DEF Next, Step

\* writeAtomic: what humans had saved when the backup was taken is in it until the
\* run is over, though they never wait.
THEOREM SavedIsKept == Spec => []SavedBeforeBackupSurvives
<1>1. Init => SavedInv
  BY InitSavedInv
<1>2. IInv /\ SavedInv /\ [Next]_vars => SavedInv'
  BY SavedInvStep DEF IInv
<1>3. SavedInv => SavedBeforeBackupSurvives
  BY DEF SavedInv, RunSaved, SavedBeforeBackupSurvives, Copied, Tempted
<1>. QED
  BY <1>1, <1>2, <1>3, Inductive, PTL DEF Spec

-----------------------------------------------------------------------------
\* What the refinement mapping makes of a file: no file of no file, and a plain one of a whole one.
LEMMA PlainOfNone ==
  ASSUME NEW f \in {NoFile} \cup Whole
  PROVE  /\ Plain(f) \in {NoFile} \cup [data : Contents, mode : Modes]
         /\ Plain(f) = NoFile <=> f = NoFile
<1>1. CASE f = NoFile
  BY <1>1 DEF Plain
<1>2. CASE f # NoFile
  <2>1. f.data \in Contents /\ f.mode \in Modes
    BY <1>2 DEF Whole
  <2>2. [data |-> f.data, mode |-> f.mode] \in [data : Contents, mode : Modes]
    BY <2>1
  <2>. QED
    BY <1>2, <2>2, SyncAssumption DEF Plain
<1>. QED
  BY <1>1, <1>2

\* The step that counts: a rename replaces the file that is there by the merge of
\* what that file holds, and keeps its permissions.
LEMMA RenameReplaces ==
  ASSUME IInv, Disciplined, NEW r \in Runs, Rename(r)
  PROVE  Atomic!Replace
<1>1. /\ pc[r] = "rename" /\ path' = tmp[r] /\ older' = path
      /\ docker' = docker /\ shown' = shown
  BY DEF Rename, Goto, locks, world
<1>2. path = seen[r] /\ keep[r] = IF path = NoFile THEN DefaultMode ELSE path.mode
  BY <1>1 DEF IInv, FreshInv, RunFresh, Writing, Working
<1>3. /\ want[r] \in shown /\ ~Refuses(Data(path), want[r])
      /\ tmp[r] \in Files /\ tmp[r].data = Merged(Data(path), want[r])
      /\ tmp[r].mode = keep[r]
  BY <1>1, <1>2 DEF IInv, RunInv, Writing, Tempted
<1>4. path \in {NoFile} \cup Whole
  BY DEF IInv, RunInv
<1>5. Atomic!Before = Data(path)
  BY <1>4, PlainOfNone DEF Atomic!Before, Data, Plain
<1>6. keep[r] = IF Plain(path) = NoFile THEN DefaultMode ELSE Plain(path).mode
  BY <1>2, <1>4, PlainOfNone DEF Plain
<1>7. Plain(path') = [data |-> Merged(Data(path), want[r]), mode |-> keep[r]]
  BY <1>1, <1>3, SyncAssumption DEF Plain, Files
<1>8. Plain(older') = Plain(path)
  BY <1>1
<1>9. /\ ~Refuses(Atomic!Before, want[r])
      /\ Plain(path') = [data |-> Merged(Atomic!Before, want[r]),
                         mode |-> IF Plain(path) = NoFile THEN DefaultMode ELSE Plain(path).mode]
  BY <1>3, <1>5, <1>6, <1>7
<1>. QED
  BY <1>1, <1>3, <1>8, <1>9 DEF Atomic!Replace, Plain

\* A power cut leaves the file as it is or takes the last rename back.
LEMMA PowerLossTakesBack ==
  ASSUME IInv, PowerLoss
  PROVE  Atomic!PowerCut
<1>1. path \in {NoFile} \cup Whole /\ older \in {NoFile} \cup Whole
  BY DEF IInv, RunInv
<1>2. path' \in {path, older} /\ older' = path'
  BY <1>1 DEF PowerLoss, AfterPowerLoss, Whole
<1>. QED
  BY <1>2 DEF PowerLoss, world, Atomic!PowerCut, Plain

\* Every step of the runs is a step of AtomicSync or none at all.
LEMMA StepRefines ==
  ASSUME IInv, IInv', Disciplined, [Next]_vars
  PROVE  [Atomic!Next]_(Atomic!vars)
<1>. USE DEF disk, locks, world, locals, SetTmp, Goto
<1>1. ASSUME NEW r \in Runs, Start(r) \/ Step(r) \/ Fails(r) \/ Kill(r), ~Rename(r)
      PROVE  UNCHANGED <<path, older, docker, shown>>
  BY <1>1 DEF Start, Step, Fails, Kill, OpenLock, Lock, LockRefused, Discover, WriteStdout, Read,
     MergeRejected, Preview, Proceed, Stat, ReadForBackup, BackupSourceGone, TruncateBackup,
     WriteBackup, CreateTemp, FillTemp, FsyncTemp, ChmodTemp, RemoveTemp, Release
<1>2. ASSUME UNCHANGED <<path, older, docker, shown>> PROVE UNCHANGED Atomic!vars
  BY <1>2 DEF Atomic!vars, Plain
<1>3. ASSUME NEW r \in Runs, Rename(r) PROVE Atomic!Next
  BY <1>3, RenameReplaces DEF Atomic!Next
<1>4. CASE PowerLoss
  BY <1>4, PowerLossTakesBack DEF Atomic!Next
<1>5. CASE HumanEdits
  <2>1. path' \in {NoFile} \cup Whole /\ older' = path' /\ UNCHANGED <<docker, shown>>
    BY <1>5 DEF HumanEdits, Whole
  <2>2. Plain(path') \in {NoFile} \cup [data : Contents, mode : Modes]
    BY <2>1, PlainOfNone
  <2>. QED
    BY <2>1, <2>2 DEF Atomic!Next, Atomic!HumanEdits, Atomic!Files, Plain
<1>6. CASE DockerChanges
  BY <1>6 DEF DockerChanges, Atomic!Next, Atomic!DockerChanges, Plain
<1>7. CASE UNCHANGED vars
  BY <1>7, <1>2 DEF vars
<1>. QED
  BY <1>1, <1>2, <1>3, <1>4, <1>5, <1>6, <1>7 DEF Next

\* The file is a whole one to begin with.
LEMMA InitRefines == Init => Atomic!Init
<1>. SUFFICES ASSUME Init PROVE Atomic!Init
  OBVIOUS
<1>1. path \in {NoFile} \cup Whole /\ older = path
  BY DEF Init, Whole
<1>2. Plain(path) \in {NoFile} \cup [data : Contents, mode : Modes]
  BY <1>1, PlainOfNone
<1>. QED
  BY <1>1, <1>2 DEF Init, Atomic!Init, Atomic!Files, Plain

\* With a lock that excludes and humans who wait, overlapping, failing and crashing
\* runs of `sync` replace the output file as if each had done it in one step.
THEOREM SyncIsAtomic ==
  ASSUME Disciplined
  PROVE  Spec => ImplementsAtomicSync
<1>1. Init => Atomic!Init
  BY InitRefines
<1>2. IInv /\ IInv' /\ [Next]_vars => [Atomic!Next]_(Atomic!vars)
  BY StepRefines
<1>. QED
  BY <1>1, <1>2, Inductive, PTL DEF Spec, ImplementsAtomicSync, Atomic!Spec
=============================================================================
