---------------------------- MODULE RunnerProofs ----------------------------
(***************************************************************************)
(* What lets a native program run alone and end cleanly.                   *)
(*                                                                         *)
(* The lock guards of a model exclude each other, for any number of        *)
(* processes and any file system: LockInv is inductive and implies the     *)
(* mutual exclusion of writers, the exclusive ownership of a run and the   *)
(* visibility of the owner's lock file; with it every step of the guards   *)
(* is a step of ModelOwnership.                                            *)
(*                                                                         *)
(* The hand-over, the cancellation and the reports of a detached job are   *)
(* right however many requests try to cancel it: JobInv relates the next   *)
(* step of the worker to the markers that must be there, to the processes  *)
(* and overrides that can exist, and to what run_plan's locals know of     *)
(* them; every step preserves it.                                          *)
(*                                                                         *)
(* A control file is given back whatever a user edits meanwhile:           *)
(* ControlInv says of every value who wrote it and what the runner knows   *)
(* of it, at each of the steps a user's edit can fall between.             *)
(*                                                                         *)
(* The archives keep what they promise: ArchivesInv says what every        *)
(* operation has captured, moved, staged or found to compact so far, and   *)
(* that each input somebody wants has a copy that the operation will not   *)
(* remove.                                                                 *)
(***************************************************************************)
EXTENDS ModelLocks, DetachedJob, TemporaryControls, Archives, TLAPS

(* Two clients cannot both hold a validated write lock, or have a native
   child that inherited one: both locks are on the inode the name refers to. *)
LEMMA HolderUnique ==
    ASSUME LockInv, NEW c \in Clients, NEW d \in Clients, Holder(c), Holder(d)
    PROVE  c = d
<1>1. /\ HoldsWriteEx(c, dentry["write"])
      /\ HoldsWriteEx(d, dentry["write"])
      /\ dentry["write"] \in Inodes
  BY DEF LockInv, GuardsCurrent, Holder, Guarded, HoldsWriteEx, TypeOK, Names
<1> QED  BY <1>1 DEF LockInv, WriteLocksExclusive

(* The initial states satisfy the invariant: nothing is open. *)
LEMMA InitLockInv == Init => LockInv
<1> SUFFICES ASSUME Init PROVE LockInv
  OBVIOUS
<1> USE DEF Init
<1>1. TypeOK
  BY DEF TypeOK, Names, Steps, Ops, Phases
<1>2. Shape
  BY LockAssumption DEF Shape, ShapeOf, Inspecting
<1>3. WriteLocksExclusive /\ RunLocksExclusive
  BY LockAssumption DEF WriteLocksExclusive, RunLocksExclusive, HoldsWriteEx,
     HoldsWriteSh, HoldsRunEx, HoldsRunSh
<1>4. GuardsCurrent /\ ReservationsCurrent /\ ProbesCurrent /\ CheckedExcludesOwners
  BY DEF GuardsCurrent, ReservationsCurrent, ProbesCurrent, CheckedExcludesOwners,
     Guarded, Reserved, Checked
<1>5. CopiesWatched
  BY DEF CopiesWatched, CopyWatched
<1> QED  BY <1>1, <1>2, <1>3, <1>4, <1>5 DEF LockInv

(* Every step keeps the types. *)
LEMMA TypeStep == TypeOK /\ [Next]_vars => TypeOK'
<1> SUFFICES ASSUME TypeOK, [Next]_vars PROVE TypeOK'
  OBVIOUS
<1> USE DEF TypeOK, Names, Steps, Ops, Phases, Goto, Inspect, Release, Note, locks
<1>1. ASSUME NEW c \in Clients, NEW o \in Ops, Begin(c, o) PROVE TypeOK'
  BY <1>1 DEF Begin
<1>2. ASSUME NEW c \in Clients, Activity(c) PROVE TypeOK'
  <2>1. ASSUME ProbeOpen(c) PROVE TypeOK'
    BY <2>1 DEF ProbeOpen
  <2>2. ASSUME ProbeLock(c) \/ ProbeClose(c) PROVE TypeOK'
    BY <2>2 DEF ProbeLock, ProbeClose
  <2>3. ASSUME Scan(c) PROVE TypeOK'
    BY <2>3 DEF Scan, Proceed, EnterBody, EnterCopy
  <2> QED  BY <1>2, <2>1, <2>2, <2>3 DEF Activity
<1>3. ASSUME NEW c \in Clients, Guard(c) PROVE TypeOK'
  BY <1>3 DEF Guard, OpenWrite, LockWrite, ValidateWrite, FreeInodes
<1>4. ASSUME NEW c \in Clients, Body(c) PROVE TypeOK'
  BY <1>4 DEF Body, EndEdit, RemoveEntries, UnlinkWriteLock
<1>5. ASSUME NEW c \in Clients, Run(c) PROVE TypeOK'
  BY <1>5 DEF Run, OpenRun, LockRun, ValidateRun, BeginStage, SpawnNative,
     NativeExit, EndStage, EndRun, FreeInodes
<1>6. ASSUME NEW c \in Clients, Read(c) PROVE TypeOK'
  BY <1>6 DEF Read, EndCopy, RecheckCopy, EndRead
<1>7. ASSUME NEW c \in Clients, GiveUp(c) \/ Crash(c) \/ Restart(c) PROVE TypeOK'
  BY <1>7 DEF GiveUp, Crash, Restart
<1>8. ASSUME External \/ UNCHANGED vars PROVE TypeOK'
  BY <1>8 DEF External, vars
<1> QED  BY <1>1, <1>2, <1>3, <1>4, <1>5, <1>6, <1>7, <1>8 DEF Next

(* Every step keeps the relation between a client's step and its descriptors. *)
LEMMA ShapeStep == LockInv /\ [Next]_vars => Shape'
<1> SUFFICES ASSUME LockInv, [Next]_vars, NEW d \in Clients PROVE ShapeOf(d)'
  BY DEF Shape
<1>0. TypeOK /\ ShapeOf(d)
  BY DEF LockInv, Shape
<1> USE <1>0, LockAssumption
<1> USE DEF ShapeOf, TypeOK, Names, Steps, Ops, Phases, Inspecting, Goto, Inspect, Release, locks
<1>1. ASSUME NEW c \in Clients, NEW o \in Ops, Begin(c, o) PROVE ShapeOf(d)'
  BY <1>1 DEF Begin
<1>2. ASSUME NEW c \in Clients, Activity(c) PROVE ShapeOf(d)'
  <2>1. ASSUME ProbeOpen(c) PROVE ShapeOf(d)'
    BY <2>1 DEF ProbeOpen, SkipsProbe, Reserved
  <2>2. ASSUME ProbeLock(c) PROVE ShapeOf(d)'
    BY <2>2 DEF ProbeLock
  <2>3. ASSUME ProbeClose(c) PROVE ShapeOf(d)'
    BY <2>3 DEF ProbeClose
  <2>4. ASSUME Scan(c) PROVE ShapeOf(d)'
    BY <2>4 DEF Scan, Proceed, EnterBody, EnterCopy, Reserved
  <2> QED  BY <1>2, <2>1, <2>2, <2>3, <2>4 DEF Activity
<1>3. ASSUME NEW c \in Clients, Guard(c) PROVE ShapeOf(d)'
  <2>1. ASSUME OpenWrite(c) PROVE ShapeOf(d)'
    BY <2>1 DEF OpenWrite, FreeInodes
  <2>2. ASSUME LockWrite(c) PROVE ShapeOf(d)'
    BY <2>2 DEF LockWrite
  <2>3. ASSUME ValidateWrite(c) PROVE ShapeOf(d)'
    BY <2>3 DEF ValidateWrite
  <2> QED  BY <1>3, <2>1, <2>2, <2>3 DEF Guard
<1>4. ASSUME NEW c \in Clients, Body(c) PROVE ShapeOf(d)'
  <2>1. ASSUME EndEdit(c) PROVE ShapeOf(d)'
    BY <2>1 DEF EndEdit
  <2>2. ASSUME RemoveEntries(c) PROVE ShapeOf(d)'
    BY <2>2 DEF RemoveEntries
  <2>3. ASSUME UnlinkWriteLock(c) PROVE ShapeOf(d)'
    BY <2>3 DEF UnlinkWriteLock
  <2> QED  BY <1>4, <2>1, <2>2, <2>3 DEF Body
<1>5. ASSUME NEW c \in Clients, Run(c) PROVE ShapeOf(d)'
  <2>1. ASSUME OpenRun(c) PROVE ShapeOf(d)'
    BY <2>1 DEF OpenRun, FreeInodes
  <2>2. ASSUME LockRun(c) PROVE ShapeOf(d)'
    BY <2>2 DEF LockRun
  <2>3. ASSUME ValidateRun(c) PROVE ShapeOf(d)'
    BY <2>3 DEF ValidateRun
  <2>4. ASSUME BeginStage(c) PROVE ShapeOf(d)'
    BY <2>4 DEF BeginStage
  <2>5. ASSUME SpawnNative(c) PROVE ShapeOf(d)'
    BY <2>5 DEF SpawnNative
  <2>6. ASSUME NativeExit(c) PROVE ShapeOf(d)'
    BY <2>6 DEF NativeExit
  <2>7. ASSUME EndStage(c) PROVE ShapeOf(d)'
    BY <2>7 DEF EndStage
  <2>8. ASSUME EndRun(c) PROVE ShapeOf(d)'
    BY <2>8 DEF EndRun
  <2> QED  BY <1>5, <2>1, <2>2, <2>3, <2>4, <2>5, <2>6, <2>7, <2>8 DEF Run
<1>6. ASSUME NEW c \in Clients, Read(c) PROVE ShapeOf(d)'
  BY <1>6 DEF Read, EndCopy, RecheckCopy, EndRead
<1>7. ASSUME NEW c \in Clients, GiveUp(c) \/ Crash(c) \/ Restart(c) PROVE ShapeOf(d)'
  <2>1. ASSUME GiveUp(c) PROVE ShapeOf(d)'
    BY <2>1 DEF GiveUp, Refused, MayRaise, Reserved
  <2>2. ASSUME Crash(c) \/ Restart(c) PROVE ShapeOf(d)'
    BY <2>2 DEF Crash, Restart
  <2> QED  BY <1>7, <2>1, <2>2
<1>8. ASSUME External \/ UNCHANGED vars PROVE ShapeOf(d)'
  BY <1>8 DEF External, vars
<1> QED  BY <1>1, <1>2, <1>3, <1>4, <1>5, <1>6, <1>7, <1>8 DEF Next

(* flock keeps the write locks of one inode exclusive. *)
LEMMA WriteExclusiveStep == LockInv /\ [Next]_vars => WriteLocksExclusive'
<1> SUFFICES ASSUME LockInv, [Next]_vars, NEW a \in Clients, NEW b \in Clients, NEW i \in Inodes,
                    HoldsWriteEx(a, i)', (HoldsWriteEx(b, i) \/ HoldsWriteSh(b, i))'
             PROVE  a = b
  BY DEF WriteLocksExclusive
<1>0. /\ TypeOK /\ ShapeOf(a) /\ ShapeOf(b)
      /\ HoldsWriteEx(a, i) /\ (HoldsWriteEx(b, i) \/ HoldsWriteSh(b, i)) => a = b
      /\ HoldsWriteEx(b, i) /\ (HoldsWriteEx(a, i) \/ HoldsWriteSh(a, i)) => a = b
  BY DEF LockInv, Shape, WriteLocksExclusive
<1> USE <1>0, LockAssumption
<1> USE DEF ShapeOf, TypeOK, Names, Inspecting, Goto, Inspect, Release, locks, HoldsWriteEx, HoldsWriteSh
<1>1. ASSUME NEW c \in Clients, NEW o \in Ops, Begin(c, o) PROVE a = b
  BY <1>1 DEF Begin
<1>2. ASSUME NEW c \in Clients, Activity(c) PROVE a = b
  <2>1. ASSUME ProbeOpen(c) PROVE a = b
    BY <2>1 DEF ProbeOpen, SkipsProbe
  <2>2. ASSUME ProbeLock(c) PROVE a = b
    BY <2>2 DEF ProbeLock
  <2>3. ASSUME ProbeClose(c) PROVE a = b
    BY <2>3 DEF ProbeClose
  <2>4. ASSUME Scan(c) PROVE a = b
    BY <2>4 DEF Scan, Proceed, EnterBody, EnterCopy
  <2> QED  BY <1>2, <2>1, <2>2, <2>3, <2>4 DEF Activity
<1>3. ASSUME NEW c \in Clients, Guard(c) PROVE a = b
  <2>1. ASSUME OpenWrite(c) PROVE a = b
    BY <2>1 DEF OpenWrite, FreeInodes, OpenInodes
  <2>2. ASSUME LockWrite(c) PROVE a = b
    BY <2>2 DEF LockWrite, LockFree
  <2>3. ASSUME ValidateWrite(c) PROVE a = b
    BY <2>3 DEF ValidateWrite, SameInode
  <2> QED  BY <1>3, <2>1, <2>2, <2>3 DEF Guard
<1>4. ASSUME NEW c \in Clients, Body(c) PROVE a = b
  <2>1. ASSUME EndEdit(c) PROVE a = b
    BY <2>1 DEF EndEdit
  <2>2. ASSUME RemoveEntries(c) PROVE a = b
    BY <2>2 DEF RemoveEntries
  <2>3. ASSUME UnlinkWriteLock(c) PROVE a = b
    BY <2>3 DEF UnlinkWriteLock
  <2> QED  BY <1>4, <2>1, <2>2, <2>3 DEF Body
<1>5. ASSUME NEW c \in Clients, Run(c) PROVE a = b
  <2>1. ASSUME OpenRun(c) PROVE a = b
    BY <2>1 DEF OpenRun, FreeInodes, OpenInodes
  <2>2. ASSUME LockRun(c) PROVE a = b
    BY <2>2 DEF LockRun, RunLockFree
  <2>3. ASSUME ValidateRun(c) PROVE a = b
    BY <2>3 DEF ValidateRun
  <2>4. ASSUME BeginStage(c) PROVE a = b
    BY <2>4 DEF BeginStage
  <2>5. ASSUME SpawnNative(c) PROVE a = b
    BY <2>5 DEF SpawnNative
  <2>6. ASSUME NativeExit(c) PROVE a = b
    BY <2>6 DEF NativeExit
  <2>7. ASSUME EndStage(c) PROVE a = b
    BY <2>7 DEF EndStage
  <2>8. ASSUME EndRun(c) PROVE a = b
    BY <2>8 DEF EndRun
  <2> QED  BY <1>5, <2>1, <2>2, <2>3, <2>4, <2>5, <2>6, <2>7, <2>8 DEF Run
<1>6. ASSUME NEW c \in Clients, Read(c) PROVE a = b
  <2>1. ASSUME EndCopy(c) PROVE a = b
    BY <2>1 DEF EndCopy
  <2>2. ASSUME RecheckCopy(c) PROVE a = b
    BY <2>2 DEF RecheckCopy
  <2>3. ASSUME EndRead(c) PROVE a = b
    BY <2>3 DEF EndRead
  <2> QED  BY <1>6, <2>1, <2>2, <2>3 DEF Read
<1>7. ASSUME NEW c \in Clients, GiveUp(c) \/ Crash(c) \/ Restart(c) PROVE a = b
  <2>1. ASSUME GiveUp(c) PROVE a = b
    BY <2>1 DEF GiveUp, Refused, MayRaise
  <2>2. ASSUME Crash(c) \/ Restart(c) PROVE a = b
    BY <2>2 DEF Crash, Restart
  <2> QED  BY <1>7, <2>1, <2>2
<1>8. ASSUME External \/ UNCHANGED vars PROVE a = b
  BY <1>8 DEF External, vars
<1> QED  BY <1>1, <1>2, <1>3, <1>4, <1>5, <1>6, <1>7, <1>8 DEF Next

(* The name of the write lock leaves a guarded inode only by the last step of
   the cleanup that holds it. *)
LEMMA GuardsCurrentStep == LockInv /\ [Next]_vars => GuardsCurrent'
<1> SUFFICES ASSUME LockInv, [Next]_vars, NEW a \in Clients
             PROVE  /\ Guarded(a)' => wfd[a]' = dentry["write"]'
                    /\ child[a]' # None => child[a]' = dentry["write"]'
  BY DEF GuardsCurrent
<1>0. /\ TypeOK /\ ShapeOf(a)
      /\ Guarded(a) => wfd[a] = dentry["write"]
      /\ child[a] # None => child[a] = dentry["write"]
      /\ \A c \in Clients : ShapeOf(c)
      /\ \A c \in Clients : Holder(c) /\ Holder(a) => a = c
  BY HolderUnique DEF LockInv, Shape, GuardsCurrent
<1> USE <1>0, LockAssumption
<1> USE DEF ShapeOf, TypeOK, Names, Inspecting, Goto, Inspect, Release, locks, Guarded, Holder
<1>1. ASSUME NEW c \in Clients, NEW o \in Ops, Begin(c, o) PROVE (Guarded(a)' => wfd[a]' = dentry["write"]') /\ (child[a]' # None => child[a]' = dentry["write"]')
  BY <1>1 DEF Begin
<1>2. ASSUME NEW c \in Clients, Activity(c) PROVE (Guarded(a)' => wfd[a]' = dentry["write"]') /\ (child[a]' # None => child[a]' = dentry["write"]')
  <2>1. ASSUME ProbeOpen(c) PROVE (Guarded(a)' => wfd[a]' = dentry["write"]') /\ (child[a]' # None => child[a]' = dentry["write"]')
    BY <2>1 DEF ProbeOpen, SkipsProbe
  <2>2. ASSUME ProbeLock(c) PROVE (Guarded(a)' => wfd[a]' = dentry["write"]') /\ (child[a]' # None => child[a]' = dentry["write"]')
    BY <2>2 DEF ProbeLock
  <2>3. ASSUME ProbeClose(c) PROVE (Guarded(a)' => wfd[a]' = dentry["write"]') /\ (child[a]' # None => child[a]' = dentry["write"]')
    BY <2>3 DEF ProbeClose
  <2>4. ASSUME Scan(c) PROVE (Guarded(a)' => wfd[a]' = dentry["write"]') /\ (child[a]' # None => child[a]' = dentry["write"]')
    BY <2>4 DEF Scan, Proceed, EnterBody, EnterCopy
  <2> QED  BY <1>2, <2>1, <2>2, <2>3, <2>4 DEF Activity
<1>3. ASSUME NEW c \in Clients, Guard(c) PROVE (Guarded(a)' => wfd[a]' = dentry["write"]') /\ (child[a]' # None => child[a]' = dentry["write"]')
  <2>1. ASSUME OpenWrite(c) PROVE (Guarded(a)' => wfd[a]' = dentry["write"]') /\ (child[a]' # None => child[a]' = dentry["write"]')
    BY <2>1 DEF OpenWrite, FreeInodes, OpenInodes
  <2>2. ASSUME LockWrite(c) PROVE (Guarded(a)' => wfd[a]' = dentry["write"]') /\ (child[a]' # None => child[a]' = dentry["write"]')
    BY <2>2 DEF LockWrite, LockFree
  <2>3. ASSUME ValidateWrite(c) PROVE (Guarded(a)' => wfd[a]' = dentry["write"]') /\ (child[a]' # None => child[a]' = dentry["write"]')
    BY <2>3 DEF ValidateWrite, SameInode
  <2> QED  BY <1>3, <2>1, <2>2, <2>3 DEF Guard
<1>4. ASSUME NEW c \in Clients, Body(c) PROVE (Guarded(a)' => wfd[a]' = dentry["write"]') /\ (child[a]' # None => child[a]' = dentry["write"]')
  <2>1. ASSUME EndEdit(c) PROVE (Guarded(a)' => wfd[a]' = dentry["write"]') /\ (child[a]' # None => child[a]' = dentry["write"]')
    BY <2>1 DEF EndEdit
  <2>2. ASSUME RemoveEntries(c) PROVE (Guarded(a)' => wfd[a]' = dentry["write"]') /\ (child[a]' # None => child[a]' = dentry["write"]')
    BY <2>2 DEF RemoveEntries
  <2>3. ASSUME UnlinkWriteLock(c) PROVE (Guarded(a)' => wfd[a]' = dentry["write"]') /\ (child[a]' # None => child[a]' = dentry["write"]')
    BY <2>3 DEF UnlinkWriteLock
  <2> QED  BY <1>4, <2>1, <2>2, <2>3 DEF Body
<1>5. ASSUME NEW c \in Clients, Run(c) PROVE (Guarded(a)' => wfd[a]' = dentry["write"]') /\ (child[a]' # None => child[a]' = dentry["write"]')
  <2>1. ASSUME OpenRun(c) PROVE (Guarded(a)' => wfd[a]' = dentry["write"]') /\ (child[a]' # None => child[a]' = dentry["write"]')
    BY <2>1 DEF OpenRun, FreeInodes, OpenInodes
  <2>2. ASSUME LockRun(c) PROVE (Guarded(a)' => wfd[a]' = dentry["write"]') /\ (child[a]' # None => child[a]' = dentry["write"]')
    BY <2>2 DEF LockRun, RunLockFree
  <2>3. ASSUME ValidateRun(c) PROVE (Guarded(a)' => wfd[a]' = dentry["write"]') /\ (child[a]' # None => child[a]' = dentry["write"]')
    BY <2>3 DEF ValidateRun
  <2>4. ASSUME BeginStage(c) PROVE (Guarded(a)' => wfd[a]' = dentry["write"]') /\ (child[a]' # None => child[a]' = dentry["write"]')
    BY <2>4 DEF BeginStage
  <2>5. ASSUME SpawnNative(c) PROVE (Guarded(a)' => wfd[a]' = dentry["write"]') /\ (child[a]' # None => child[a]' = dentry["write"]')
    BY <2>5 DEF SpawnNative
  <2>6. ASSUME NativeExit(c) PROVE (Guarded(a)' => wfd[a]' = dentry["write"]') /\ (child[a]' # None => child[a]' = dentry["write"]')
    BY <2>6 DEF NativeExit
  <2>7. ASSUME EndStage(c) PROVE (Guarded(a)' => wfd[a]' = dentry["write"]') /\ (child[a]' # None => child[a]' = dentry["write"]')
    BY <2>7 DEF EndStage
  <2>8. ASSUME EndRun(c) PROVE (Guarded(a)' => wfd[a]' = dentry["write"]') /\ (child[a]' # None => child[a]' = dentry["write"]')
    BY <2>8 DEF EndRun
  <2> QED  BY <1>5, <2>1, <2>2, <2>3, <2>4, <2>5, <2>6, <2>7, <2>8 DEF Run
<1>6. ASSUME NEW c \in Clients, Read(c) PROVE (Guarded(a)' => wfd[a]' = dentry["write"]') /\ (child[a]' # None => child[a]' = dentry["write"]')
  <2>1. ASSUME EndCopy(c) PROVE (Guarded(a)' => wfd[a]' = dentry["write"]') /\ (child[a]' # None => child[a]' = dentry["write"]')
    BY <2>1 DEF EndCopy
  <2>2. ASSUME RecheckCopy(c) PROVE (Guarded(a)' => wfd[a]' = dentry["write"]') /\ (child[a]' # None => child[a]' = dentry["write"]')
    BY <2>2 DEF RecheckCopy
  <2>3. ASSUME EndRead(c) PROVE (Guarded(a)' => wfd[a]' = dentry["write"]') /\ (child[a]' # None => child[a]' = dentry["write"]')
    BY <2>3 DEF EndRead
  <2> QED  BY <1>6, <2>1, <2>2, <2>3 DEF Read
<1>7. ASSUME NEW c \in Clients, GiveUp(c) \/ Crash(c) \/ Restart(c) PROVE (Guarded(a)' => wfd[a]' = dentry["write"]') /\ (child[a]' # None => child[a]' = dentry["write"]')
  <2>1. ASSUME GiveUp(c) PROVE (Guarded(a)' => wfd[a]' = dentry["write"]') /\ (child[a]' # None => child[a]' = dentry["write"]')
    BY <2>1 DEF GiveUp, Refused, MayRaise
  <2>2. ASSUME Crash(c) \/ Restart(c) PROVE (Guarded(a)' => wfd[a]' = dentry["write"]') /\ (child[a]' # None => child[a]' = dentry["write"]')
    BY <2>2 DEF Crash, Restart
  <2> QED  BY <1>7, <2>1, <2>2
<1>8. ASSUME External \/ UNCHANGED vars PROVE (Guarded(a)' => wfd[a]' = dentry["write"]') /\ (child[a]' # None => child[a]' = dentry["write"]')
  BY <1>8 DEF External, vars
<1> QED  BY <1>1, <1>2, <1>3, <1>4, <1>5, <1>6, <1>7, <1>8 DEF Next

(* flock keeps the run locks of one inode exclusive, against probes too. *)
LEMMA RunExclusiveStep == LockInv /\ [Next]_vars => RunLocksExclusive'
<1> SUFFICES ASSUME LockInv, [Next]_vars, NEW a \in Clients, NEW b \in Clients, NEW i \in Inodes,
                    HoldsRunEx(a, i)'
             PROVE  ~HoldsRunSh(b, i)' /\ (HoldsRunEx(b, i)' => a = b)
  BY DEF RunLocksExclusive
<1>0. /\ TypeOK /\ ShapeOf(a) /\ ShapeOf(b)
      /\ HoldsRunEx(a, i) => ~HoldsRunSh(b, i) /\ (HoldsRunEx(b, i) => a = b)
      /\ HoldsRunEx(b, i) => ~HoldsRunSh(a, i) /\ (HoldsRunEx(a, i) => a = b)
  BY DEF LockInv, Shape, RunLocksExclusive
<1> USE <1>0, LockAssumption
<1> USE DEF ShapeOf, TypeOK, Names, Inspecting, Goto, Inspect, Release, locks, HoldsRunEx, HoldsRunSh, Reserved
<1>1. ASSUME NEW c \in Clients, NEW o \in Ops, Begin(c, o) PROVE ~HoldsRunSh(b, i)' /\ (HoldsRunEx(b, i)' => a = b)
  BY <1>1 DEF Begin
<1>2. ASSUME NEW c \in Clients, Activity(c) PROVE ~HoldsRunSh(b, i)' /\ (HoldsRunEx(b, i)' => a = b)
  <2>1. ASSUME ProbeOpen(c) PROVE ~HoldsRunSh(b, i)' /\ (HoldsRunEx(b, i)' => a = b)
    BY <2>1 DEF ProbeOpen, SkipsProbe
  <2>2. ASSUME ProbeLock(c) PROVE ~HoldsRunSh(b, i)' /\ (HoldsRunEx(b, i)' => a = b)
    BY <2>2 DEF ProbeLock
  <2>3. ASSUME ProbeClose(c) PROVE ~HoldsRunSh(b, i)' /\ (HoldsRunEx(b, i)' => a = b)
    BY <2>3 DEF ProbeClose
  <2>4. ASSUME Scan(c) PROVE ~HoldsRunSh(b, i)' /\ (HoldsRunEx(b, i)' => a = b)
    BY <2>4 DEF Scan, Proceed, EnterBody, EnterCopy
  <2> QED  BY <1>2, <2>1, <2>2, <2>3, <2>4 DEF Activity
<1>3. ASSUME NEW c \in Clients, Guard(c) PROVE ~HoldsRunSh(b, i)' /\ (HoldsRunEx(b, i)' => a = b)
  <2>1. ASSUME OpenWrite(c) PROVE ~HoldsRunSh(b, i)' /\ (HoldsRunEx(b, i)' => a = b)
    BY <2>1 DEF OpenWrite, FreeInodes, OpenInodes
  <2>2. ASSUME LockWrite(c) PROVE ~HoldsRunSh(b, i)' /\ (HoldsRunEx(b, i)' => a = b)
    BY <2>2 DEF LockWrite, LockFree
  <2>3. ASSUME ValidateWrite(c) PROVE ~HoldsRunSh(b, i)' /\ (HoldsRunEx(b, i)' => a = b)
    BY <2>3 DEF ValidateWrite, SameInode
  <2> QED  BY <1>3, <2>1, <2>2, <2>3 DEF Guard
<1>4. ASSUME NEW c \in Clients, Body(c) PROVE ~HoldsRunSh(b, i)' /\ (HoldsRunEx(b, i)' => a = b)
  <2>1. ASSUME EndEdit(c) PROVE ~HoldsRunSh(b, i)' /\ (HoldsRunEx(b, i)' => a = b)
    BY <2>1 DEF EndEdit
  <2>2. ASSUME RemoveEntries(c) PROVE ~HoldsRunSh(b, i)' /\ (HoldsRunEx(b, i)' => a = b)
    BY <2>2 DEF RemoveEntries
  <2>3. ASSUME UnlinkWriteLock(c) PROVE ~HoldsRunSh(b, i)' /\ (HoldsRunEx(b, i)' => a = b)
    BY <2>3 DEF UnlinkWriteLock
  <2> QED  BY <1>4, <2>1, <2>2, <2>3 DEF Body
<1>5. ASSUME NEW c \in Clients, Run(c) PROVE ~HoldsRunSh(b, i)' /\ (HoldsRunEx(b, i)' => a = b)
  <2>1. ASSUME OpenRun(c) PROVE ~HoldsRunSh(b, i)' /\ (HoldsRunEx(b, i)' => a = b)
    BY <2>1 DEF OpenRun, FreeInodes, OpenInodes
  <2>2. ASSUME LockRun(c) PROVE ~HoldsRunSh(b, i)' /\ (HoldsRunEx(b, i)' => a = b)
    BY <2>2 DEF LockRun, RunLockFree
  <2>3. ASSUME ValidateRun(c) PROVE ~HoldsRunSh(b, i)' /\ (HoldsRunEx(b, i)' => a = b)
    BY <2>3 DEF ValidateRun
  <2>4. ASSUME BeginStage(c) PROVE ~HoldsRunSh(b, i)' /\ (HoldsRunEx(b, i)' => a = b)
    BY <2>4 DEF BeginStage
  <2>5. ASSUME SpawnNative(c) PROVE ~HoldsRunSh(b, i)' /\ (HoldsRunEx(b, i)' => a = b)
    BY <2>5 DEF SpawnNative
  <2>6. ASSUME NativeExit(c) PROVE ~HoldsRunSh(b, i)' /\ (HoldsRunEx(b, i)' => a = b)
    BY <2>6 DEF NativeExit
  <2>7. ASSUME EndStage(c) PROVE ~HoldsRunSh(b, i)' /\ (HoldsRunEx(b, i)' => a = b)
    BY <2>7 DEF EndStage
  <2>8. ASSUME EndRun(c) PROVE ~HoldsRunSh(b, i)' /\ (HoldsRunEx(b, i)' => a = b)
    BY <2>8 DEF EndRun
  <2> QED  BY <1>5, <2>1, <2>2, <2>3, <2>4, <2>5, <2>6, <2>7, <2>8 DEF Run
<1>6. ASSUME NEW c \in Clients, Read(c) PROVE ~HoldsRunSh(b, i)' /\ (HoldsRunEx(b, i)' => a = b)
  <2>1. ASSUME EndCopy(c) PROVE ~HoldsRunSh(b, i)' /\ (HoldsRunEx(b, i)' => a = b)
    BY <2>1 DEF EndCopy
  <2>2. ASSUME RecheckCopy(c) PROVE ~HoldsRunSh(b, i)' /\ (HoldsRunEx(b, i)' => a = b)
    BY <2>2 DEF RecheckCopy
  <2>3. ASSUME EndRead(c) PROVE ~HoldsRunSh(b, i)' /\ (HoldsRunEx(b, i)' => a = b)
    BY <2>3 DEF EndRead
  <2> QED  BY <1>6, <2>1, <2>2, <2>3 DEF Read
<1>7. ASSUME NEW c \in Clients, GiveUp(c) \/ Crash(c) \/ Restart(c) PROVE ~HoldsRunSh(b, i)' /\ (HoldsRunEx(b, i)' => a = b)
  <2>1. ASSUME GiveUp(c) PROVE ~HoldsRunSh(b, i)' /\ (HoldsRunEx(b, i)' => a = b)
    BY <2>1 DEF GiveUp, Refused, MayRaise
  <2>2. ASSUME Crash(c) \/ Restart(c) PROVE ~HoldsRunSh(b, i)' /\ (HoldsRunEx(b, i)' => a = b)
    BY <2>2 DEF Crash, Restart
  <2> QED  BY <1>7, <2>1, <2>2
<1>8. ASSUME External \/ UNCHANGED vars PROVE ~HoldsRunSh(b, i)' /\ (HoldsRunEx(b, i)' => a = b)
  BY <1>8 DEF External, vars
<1> QED  BY <1>1, <1>2, <1>3, <1>4, <1>5, <1>6, <1>7, <1>8 DEF Next

(* Full cleanup removes the run lock file only when nobody holds it. *)
LEMMA ReservationsCurrentStep == LockInv /\ [Next]_vars => ReservationsCurrent'
<1> SUFFICES ASSUME LockInv, [Next]_vars, NEW a \in Clients, rfd[a]' # None
             PROVE  rfd[a]' = dentry["run"]'
  BY DEF ReservationsCurrent
<1>0. /\ TypeOK /\ ShapeOf(a)
      /\ rfd[a] # None => rfd[a] = dentry["run"]
      /\ \A c \in Clients : ShapeOf(c)
      /\ \A c \in Clients : Holder(c) /\ Holder(a) => a = c
      /\ \A c \in Clients : Checked(c) /\ Reserved(a) => c = a
  BY HolderUnique DEF LockInv, Shape, ReservationsCurrent, CheckedExcludesOwners
<1> USE <1>0, LockAssumption
<1> USE DEF ShapeOf, TypeOK, Names, Inspecting, Goto, Inspect, Release, locks, Guarded, Holder, Checked, Reserved
<1>1. ASSUME NEW c \in Clients, NEW o \in Ops, Begin(c, o) PROVE rfd[a]' = dentry["run"]'
  BY <1>1 DEF Begin
<1>2. ASSUME NEW c \in Clients, Activity(c) PROVE rfd[a]' = dentry["run"]'
  <2>1. ASSUME ProbeOpen(c) PROVE rfd[a]' = dentry["run"]'
    BY <2>1 DEF ProbeOpen, SkipsProbe
  <2>2. ASSUME ProbeLock(c) PROVE rfd[a]' = dentry["run"]'
    BY <2>2 DEF ProbeLock
  <2>3. ASSUME ProbeClose(c) PROVE rfd[a]' = dentry["run"]'
    BY <2>3 DEF ProbeClose
  <2>4. ASSUME Scan(c) PROVE rfd[a]' = dentry["run"]'
    BY <2>4 DEF Scan, Proceed, EnterBody, EnterCopy
  <2> QED  BY <1>2, <2>1, <2>2, <2>3, <2>4 DEF Activity
<1>3. ASSUME NEW c \in Clients, Guard(c) PROVE rfd[a]' = dentry["run"]'
  <2>1. ASSUME OpenWrite(c) PROVE rfd[a]' = dentry["run"]'
    BY <2>1 DEF OpenWrite, FreeInodes, OpenInodes
  <2>2. ASSUME LockWrite(c) PROVE rfd[a]' = dentry["run"]'
    BY <2>2 DEF LockWrite, LockFree
  <2>3. ASSUME ValidateWrite(c) PROVE rfd[a]' = dentry["run"]'
    BY <2>3 DEF ValidateWrite, SameInode
  <2> QED  BY <1>3, <2>1, <2>2, <2>3 DEF Guard
<1>4. ASSUME NEW c \in Clients, Body(c) PROVE rfd[a]' = dentry["run"]'
  <2>1. ASSUME EndEdit(c) PROVE rfd[a]' = dentry["run"]'
    BY <2>1 DEF EndEdit
  <2>2. ASSUME RemoveEntries(c) PROVE rfd[a]' = dentry["run"]'
    BY <2>2 DEF RemoveEntries
  <2>3. ASSUME UnlinkWriteLock(c) PROVE rfd[a]' = dentry["run"]'
    BY <2>3 DEF UnlinkWriteLock
  <2> QED  BY <1>4, <2>1, <2>2, <2>3 DEF Body
<1>5. ASSUME NEW c \in Clients, Run(c) PROVE rfd[a]' = dentry["run"]'
  <2>1. ASSUME OpenRun(c) PROVE rfd[a]' = dentry["run"]'
    BY <2>1 DEF OpenRun, FreeInodes, OpenInodes
  <2>2. ASSUME LockRun(c) PROVE rfd[a]' = dentry["run"]'
    BY <2>2 DEF LockRun, RunLockFree
  <2>3. ASSUME ValidateRun(c) PROVE rfd[a]' = dentry["run"]'
    BY <2>3 DEF ValidateRun
  <2>4. ASSUME BeginStage(c) PROVE rfd[a]' = dentry["run"]'
    BY <2>4 DEF BeginStage
  <2>5. ASSUME SpawnNative(c) PROVE rfd[a]' = dentry["run"]'
    BY <2>5 DEF SpawnNative
  <2>6. ASSUME NativeExit(c) PROVE rfd[a]' = dentry["run"]'
    BY <2>6 DEF NativeExit
  <2>7. ASSUME EndStage(c) PROVE rfd[a]' = dentry["run"]'
    BY <2>7 DEF EndStage
  <2>8. ASSUME EndRun(c) PROVE rfd[a]' = dentry["run"]'
    BY <2>8 DEF EndRun
  <2> QED  BY <1>5, <2>1, <2>2, <2>3, <2>4, <2>5, <2>6, <2>7, <2>8 DEF Run
<1>6. ASSUME NEW c \in Clients, Read(c) PROVE rfd[a]' = dentry["run"]'
  <2>1. ASSUME EndCopy(c) PROVE rfd[a]' = dentry["run"]'
    BY <2>1 DEF EndCopy
  <2>2. ASSUME RecheckCopy(c) PROVE rfd[a]' = dentry["run"]'
    BY <2>2 DEF RecheckCopy
  <2>3. ASSUME EndRead(c) PROVE rfd[a]' = dentry["run"]'
    BY <2>3 DEF EndRead
  <2> QED  BY <1>6, <2>1, <2>2, <2>3 DEF Read
<1>7. ASSUME NEW c \in Clients, GiveUp(c) \/ Crash(c) \/ Restart(c) PROVE rfd[a]' = dentry["run"]'
  <2>1. ASSUME GiveUp(c) PROVE rfd[a]' = dentry["run"]'
    BY <2>1 DEF GiveUp, Refused, MayRaise
  <2>2. ASSUME Crash(c) \/ Restart(c) PROVE rfd[a]' = dentry["run"]'
    BY <2>2 DEF Crash, Restart
  <2> QED  BY <1>7, <2>1, <2>2
<1>8. ASSUME External \/ UNCHANGED vars PROVE rfd[a]' = dentry["run"]'
  BY <1>8 DEF External, vars
<1> QED  BY <1>1, <1>2, <1>3, <1>4, <1>5, <1>6, <1>7, <1>8 DEF Next

(* Under the write guard an opened run lock file cannot be replaced. *)
LEMMA ProbesCurrentStep == LockInv /\ [Next]_vars => ProbesCurrent'
<1> SUFFICES ASSUME LockInv, [Next]_vars, NEW a \in Clients, Guarded(a)', pc[a]' = "probeLock"
             PROVE  pfd[a]' = dentry["run"]'
  BY DEF ProbesCurrent
<1>0. /\ TypeOK /\ ShapeOf(a)
      /\ Guarded(a) /\ pc[a] = "probeLock" => pfd[a] = dentry["run"]
      /\ \A c \in Clients : ShapeOf(c)
      /\ \A c \in Clients : Holder(c) /\ Holder(a) => a = c
  BY HolderUnique DEF LockInv, Shape, ProbesCurrent
<1> USE <1>0, LockAssumption
<1> USE DEF ShapeOf, TypeOK, Names, Inspecting, Goto, Inspect, Release, locks, Guarded, Holder
<1>1. ASSUME NEW c \in Clients, NEW o \in Ops, Begin(c, o) PROVE pfd[a]' = dentry["run"]'
  BY <1>1 DEF Begin
<1>2. ASSUME NEW c \in Clients, Activity(c) PROVE pfd[a]' = dentry["run"]'
  <2>1. ASSUME ProbeOpen(c) PROVE pfd[a]' = dentry["run"]'
    BY <2>1 DEF ProbeOpen, SkipsProbe
  <2>2. ASSUME ProbeLock(c) PROVE pfd[a]' = dentry["run"]'
    BY <2>2 DEF ProbeLock
  <2>3. ASSUME ProbeClose(c) PROVE pfd[a]' = dentry["run"]'
    BY <2>3 DEF ProbeClose
  <2>4. ASSUME Scan(c) PROVE pfd[a]' = dentry["run"]'
    BY <2>4 DEF Scan, Proceed, EnterBody, EnterCopy
  <2> QED  BY <1>2, <2>1, <2>2, <2>3, <2>4 DEF Activity
<1>3. ASSUME NEW c \in Clients, Guard(c) PROVE pfd[a]' = dentry["run"]'
  <2>1. ASSUME OpenWrite(c) PROVE pfd[a]' = dentry["run"]'
    BY <2>1 DEF OpenWrite, FreeInodes, OpenInodes
  <2>2. ASSUME LockWrite(c) PROVE pfd[a]' = dentry["run"]'
    BY <2>2 DEF LockWrite, LockFree
  <2>3. ASSUME ValidateWrite(c) PROVE pfd[a]' = dentry["run"]'
    BY <2>3 DEF ValidateWrite, SameInode
  <2> QED  BY <1>3, <2>1, <2>2, <2>3 DEF Guard
<1>4. ASSUME NEW c \in Clients, Body(c) PROVE pfd[a]' = dentry["run"]'
  <2>1. ASSUME EndEdit(c) PROVE pfd[a]' = dentry["run"]'
    BY <2>1 DEF EndEdit
  <2>2. ASSUME RemoveEntries(c) PROVE pfd[a]' = dentry["run"]'
    BY <2>2 DEF RemoveEntries
  <2>3. ASSUME UnlinkWriteLock(c) PROVE pfd[a]' = dentry["run"]'
    BY <2>3 DEF UnlinkWriteLock
  <2> QED  BY <1>4, <2>1, <2>2, <2>3 DEF Body
<1>5. ASSUME NEW c \in Clients, Run(c) PROVE pfd[a]' = dentry["run"]'
  <2>1. ASSUME OpenRun(c) PROVE pfd[a]' = dentry["run"]'
    BY <2>1 DEF OpenRun, FreeInodes, OpenInodes
  <2>2. ASSUME LockRun(c) PROVE pfd[a]' = dentry["run"]'
    BY <2>2 DEF LockRun, RunLockFree
  <2>3. ASSUME ValidateRun(c) PROVE pfd[a]' = dentry["run"]'
    BY <2>3 DEF ValidateRun
  <2>4. ASSUME BeginStage(c) PROVE pfd[a]' = dentry["run"]'
    BY <2>4 DEF BeginStage
  <2>5. ASSUME SpawnNative(c) PROVE pfd[a]' = dentry["run"]'
    BY <2>5 DEF SpawnNative
  <2>6. ASSUME NativeExit(c) PROVE pfd[a]' = dentry["run"]'
    BY <2>6 DEF NativeExit
  <2>7. ASSUME EndStage(c) PROVE pfd[a]' = dentry["run"]'
    BY <2>7 DEF EndStage
  <2>8. ASSUME EndRun(c) PROVE pfd[a]' = dentry["run"]'
    BY <2>8 DEF EndRun
  <2> QED  BY <1>5, <2>1, <2>2, <2>3, <2>4, <2>5, <2>6, <2>7, <2>8 DEF Run
<1>6. ASSUME NEW c \in Clients, Read(c) PROVE pfd[a]' = dentry["run"]'
  <2>1. ASSUME EndCopy(c) PROVE pfd[a]' = dentry["run"]'
    BY <2>1 DEF EndCopy
  <2>2. ASSUME RecheckCopy(c) PROVE pfd[a]' = dentry["run"]'
    BY <2>2 DEF RecheckCopy
  <2>3. ASSUME EndRead(c) PROVE pfd[a]' = dentry["run"]'
    BY <2>3 DEF EndRead
  <2> QED  BY <1>6, <2>1, <2>2, <2>3 DEF Read
<1>7. ASSUME NEW c \in Clients, GiveUp(c) \/ Crash(c) \/ Restart(c) PROVE pfd[a]' = dentry["run"]'
  <2>1. ASSUME GiveUp(c) PROVE pfd[a]' = dentry["run"]'
    BY <2>1 DEF GiveUp, Refused, MayRaise
  <2>2. ASSUME Crash(c) \/ Restart(c) PROVE pfd[a]' = dentry["run"]'
    BY <2>2 DEF Crash, Restart
  <2> QED  BY <1>7, <2>1, <2>2
<1>8. ASSUME External \/ UNCHANGED vars PROVE pfd[a]' = dentry["run"]'
  BY <1>8 DEF External, vars
<1> QED  BY <1>1, <1>2, <1>3, <1>4, <1>5, <1>6, <1>7, <1>8 DEF Next

(* Nobody reserves the model between the second inspection of a guarded client
   and the end of its mutation. *)
LEMMA CheckedStep == LockInv /\ [Next]_vars => CheckedExcludesOwners'
<1> SUFFICES ASSUME LockInv, [Next]_vars, NEW a \in Clients, NEW b \in Clients,
                    Checked(a)', Reserved(b)'
             PROVE  a = b
  BY DEF CheckedExcludesOwners
<1>0. /\ TypeOK /\ ShapeOf(a) /\ ShapeOf(b)
      /\ Checked(a) /\ Reserved(b) => a = b
      /\ Holder(a) /\ Holder(b) => a = b
      /\ Reserved(b) => HoldsRunEx(b, dentry["run"]) /\ dentry["run"] \in Inodes
      /\ Reserved(a) /\ Reserved(b) => a = b
      /\ Guarded(a) /\ pc[a] = "probeLock" => pfd[a] = dentry["run"]
  <2>1. \A c \in Clients : Reserved(c) => HoldsRunEx(c, dentry["run"]) /\ dentry["run"] \in Inodes
    BY DEF LockInv, ReservationsCurrent, Reserved, HoldsRunEx, TypeOK, Names
  <2> QED  BY <2>1, HolderUnique DEF LockInv, Shape, CheckedExcludesOwners, RunLocksExclusive, ProbesCurrent
<1> USE <1>0, LockAssumption
<1> USE DEF ShapeOf, TypeOK, Names, Inspecting, Goto, Inspect, Release, locks, Guarded, Holder, Checked, Reserved
<1>1. ASSUME NEW c \in Clients, NEW o \in Ops, Begin(c, o) PROVE a = b
  BY <1>1 DEF Begin
<1>2. ASSUME NEW c \in Clients, Activity(c) PROVE a = b
  <2>1. ASSUME ProbeOpen(c) PROVE a = b
    BY <2>1 DEF ProbeOpen, SkipsProbe
  <2>2. ASSUME ProbeLock(c) PROVE a = b
    BY <2>2 DEF ProbeLock
  <2>3. ASSUME ProbeClose(c) PROVE a = b
    BY <2>3 DEF ProbeClose
  <2>4. ASSUME Scan(c) PROVE a = b
    BY <2>4 DEF Scan, Proceed, EnterBody, EnterCopy
  <2> QED  BY <1>2, <2>1, <2>2, <2>3, <2>4 DEF Activity
<1>3. ASSUME NEW c \in Clients, Guard(c) PROVE a = b
  <2>1. ASSUME OpenWrite(c) PROVE a = b
    BY <2>1 DEF OpenWrite, FreeInodes, OpenInodes
  <2>2. ASSUME LockWrite(c) PROVE a = b
    BY <2>2 DEF LockWrite, LockFree
  <2>3. ASSUME ValidateWrite(c) PROVE a = b
    BY <2>3 DEF ValidateWrite, SameInode
  <2> QED  BY <1>3, <2>1, <2>2, <2>3 DEF Guard
<1>4. ASSUME NEW c \in Clients, Body(c) PROVE a = b
  <2>1. ASSUME EndEdit(c) PROVE a = b
    BY <2>1 DEF EndEdit
  <2>2. ASSUME RemoveEntries(c) PROVE a = b
    BY <2>2 DEF RemoveEntries
  <2>3. ASSUME UnlinkWriteLock(c) PROVE a = b
    BY <2>3 DEF UnlinkWriteLock
  <2> QED  BY <1>4, <2>1, <2>2, <2>3 DEF Body
<1>5. ASSUME NEW c \in Clients, Run(c) PROVE a = b
  <2>1. ASSUME OpenRun(c) PROVE a = b
    BY <2>1 DEF OpenRun, FreeInodes, OpenInodes
  <2>2. ASSUME LockRun(c) PROVE a = b
    BY <2>2 DEF LockRun, RunLockFree
  <2>3. ASSUME ValidateRun(c) PROVE a = b
    BY <2>3 DEF ValidateRun
  <2>4. ASSUME BeginStage(c) PROVE a = b
    BY <2>4 DEF BeginStage
  <2>5. ASSUME SpawnNative(c) PROVE a = b
    BY <2>5 DEF SpawnNative
  <2>6. ASSUME NativeExit(c) PROVE a = b
    BY <2>6 DEF NativeExit
  <2>7. ASSUME EndStage(c) PROVE a = b
    BY <2>7 DEF EndStage
  <2>8. ASSUME EndRun(c) PROVE a = b
    BY <2>8 DEF EndRun
  <2> QED  BY <1>5, <2>1, <2>2, <2>3, <2>4, <2>5, <2>6, <2>7, <2>8 DEF Run
<1>6. ASSUME NEW c \in Clients, Read(c) PROVE a = b
  <2>1. ASSUME EndCopy(c) PROVE a = b
    BY <2>1 DEF EndCopy
  <2>2. ASSUME RecheckCopy(c) PROVE a = b
    BY <2>2 DEF RecheckCopy
  <2>3. ASSUME EndRead(c) PROVE a = b
    BY <2>3 DEF EndRead
  <2> QED  BY <1>6, <2>1, <2>2, <2>3 DEF Read
<1>7. ASSUME NEW c \in Clients, GiveUp(c) \/ Crash(c) \/ Restart(c) PROVE a = b
  <2>1. ASSUME GiveUp(c) PROVE a = b
    BY <2>1 DEF GiveUp, Refused, MayRaise
  <2>2. ASSUME Crash(c) \/ Restart(c) PROVE a = b
    BY <2>2 DEF Crash, Restart
  <2> QED  BY <1>7, <2>1, <2>2
<1>8. ASSUME External \/ UNCHANGED vars PROVE a = b
  BY <1>8 DEF External, vars
<1> QED  BY <1>1, <1>2, <1>3, <1>4, <1>5, <1>6, <1>7, <1>8 DEF Next

(* A validated shared lock keeps every holder of the write lock away. *)
LEMMA ReaderExcludes ==
    ASSUME LockInv, NEW a \in Clients, NEW c \in Clients,
           op[a] = "read", wfd[a] # None, pc[a] \notin {"lock", "validate"}
    PROVE  ~Holder(c)
<1> SUFFICES ASSUME Holder(c) PROVE FALSE
  OBVIOUS
<1> USE LockAssumption DEF LockInv
<1>1. HoldsWriteSh(a, dentry["write"]) /\ dentry["write"] \in Inodes
  BY DEF CopiesWatched, CopyWatched, HoldsWriteSh, TypeOK, Names
<1>2. HoldsWriteEx(c, dentry["write"])
  BY DEF GuardsCurrent, Holder, Guarded, HoldsWriteEx
<1>3. c = a
  BY <1>1, <1>2 DEF WriteLocksExclusive
<1> QED  BY <1>3 DEF Shape, ShapeOf, Holder, Guarded

(* A reader under a shared lock witnesses no mutation; one without a lock sees the name of
   the lock file that a mutation leaves, or has witnessed its removal. *)
LEMMA CopiesStep == LockInv /\ [Next]_vars => CopiesWatched'
<1> SUFFICES ASSUME LockInv, [Next]_vars, NEW a \in Clients PROVE CopyWatched(a)'
  BY DEF CopiesWatched
<1>0. /\ TypeOK /\ ShapeOf(a) /\ CopyWatched(a)
      /\ \A c \in Clients : ShapeOf(c)
      /\ \A c \in Clients : Guarded(c) => wfd[c] = dentry["write"]
      /\ \A c \in Clients : child[c] # None => child[c] = dentry["write"]
  BY DEF LockInv, Shape, GuardsCurrent, CopiesWatched
<1>00. op[a] = "read" /\ wfd[a] # None /\ pc[a] \notin {"lock", "validate"}
          => \A c \in Clients : ~Guarded(c) /\ child[c] = None
  BY ReaderExcludes DEF Holder
<1> USE <1>0, <1>00, LockAssumption
<1> USE DEF CopyWatched, ShapeOf, TypeOK, Names, Inspecting, Goto, Inspect, Release, locks, Guarded
<1>1. ASSUME NEW c \in Clients, NEW o \in Ops, Begin(c, o) PROVE CopyWatched(a)'
  BY <1>1 DEF Begin
<1>2. ASSUME NEW c \in Clients, Activity(c) PROVE CopyWatched(a)'
  <2>1. ASSUME ProbeOpen(c) PROVE CopyWatched(a)'
    BY <2>1 DEF ProbeOpen, SkipsProbe
  <2>2. ASSUME ProbeLock(c) PROVE CopyWatched(a)'
    BY <2>2 DEF ProbeLock
  <2>3. ASSUME ProbeClose(c) PROVE CopyWatched(a)'
    BY <2>3 DEF ProbeClose
  <2>4. ASSUME Scan(c) PROVE CopyWatched(a)'
    BY <2>4 DEF Scan, Proceed, EnterBody, EnterCopy, Note, Readers, Writing
  <2> QED  BY <1>2, <2>1, <2>2, <2>3, <2>4 DEF Activity
<1>3. ASSUME NEW c \in Clients, Guard(c) PROVE CopyWatched(a)'
  <2>1. ASSUME OpenWrite(c) PROVE CopyWatched(a)'
    BY <2>1 DEF OpenWrite, FreeInodes, OpenInodes
  <2>2. ASSUME LockWrite(c) PROVE CopyWatched(a)'
    BY <2>2 DEF LockWrite, LockFree
  <2>3. ASSUME ValidateWrite(c) PROVE CopyWatched(a)'
    BY <2>3 DEF ValidateWrite, SameInode
  <2> QED  BY <1>3, <2>1, <2>2, <2>3 DEF Guard
<1>4. ASSUME NEW c \in Clients, Body(c) PROVE CopyWatched(a)'
  <2>1. ASSUME EndEdit(c) PROVE CopyWatched(a)'
    BY <2>1 DEF EndEdit
  <2>2. ASSUME RemoveEntries(c) PROVE CopyWatched(a)'
    BY <2>2 DEF RemoveEntries
  <2>3. ASSUME UnlinkWriteLock(c) PROVE CopyWatched(a)'
    BY <2>3 DEF UnlinkWriteLock, Note, Readers
  <2> QED  BY <1>4, <2>1, <2>2, <2>3 DEF Body
<1>5. ASSUME NEW c \in Clients, Run(c) PROVE CopyWatched(a)'
  <2>1. ASSUME OpenRun(c) PROVE CopyWatched(a)'
    BY <2>1 DEF OpenRun, FreeInodes, OpenInodes
  <2>2. ASSUME LockRun(c) PROVE CopyWatched(a)'
    BY <2>2 DEF LockRun, RunLockFree
  <2>3. ASSUME ValidateRun(c) PROVE CopyWatched(a)'
    BY <2>3 DEF ValidateRun
  <2>4. ASSUME BeginStage(c) PROVE CopyWatched(a)'
    BY <2>4 DEF BeginStage
  <2>5. ASSUME SpawnNative(c) PROVE CopyWatched(a)'
    BY <2>5 DEF SpawnNative
  <2>6. ASSUME NativeExit(c) PROVE CopyWatched(a)'
    BY <2>6 DEF NativeExit
  <2>7. ASSUME EndStage(c) PROVE CopyWatched(a)'
    BY <2>7 DEF EndStage
  <2>8. ASSUME EndRun(c) PROVE CopyWatched(a)'
    BY <2>8 DEF EndRun
  <2> QED  BY <1>5, <2>1, <2>2, <2>3, <2>4, <2>5, <2>6, <2>7, <2>8 DEF Run
<1>6. ASSUME NEW c \in Clients, Read(c) PROVE CopyWatched(a)'
  <2>1. ASSUME EndCopy(c) PROVE CopyWatched(a)'
    BY <2>1 DEF EndCopy
  <2>2. ASSUME RecheckCopy(c) PROVE CopyWatched(a)'
    BY <2>2 DEF RecheckCopy, CopyUndisturbed
  <2>3. ASSUME EndRead(c) PROVE CopyWatched(a)'
    BY <2>3 DEF EndRead
  <2> QED  BY <1>6, <2>1, <2>2, <2>3 DEF Read
<1>7. ASSUME NEW c \in Clients, GiveUp(c) \/ Crash(c) \/ Restart(c) PROVE CopyWatched(a)'
  <2>1. ASSUME GiveUp(c) PROVE CopyWatched(a)'
    BY <2>1 DEF GiveUp, Refused, MayRaise
  <2>2. ASSUME Crash(c) \/ Restart(c) PROVE CopyWatched(a)'
    BY <2>2 DEF Crash, Restart
  <2> QED  BY <1>7, <2>1, <2>2
<1>8. ASSUME External \/ UNCHANGED vars PROVE CopyWatched(a)'
  BY <1>8 DEF External, vars
<1> QED  BY <1>1, <1>2, <1>3, <1>4, <1>5, <1>6, <1>7, <1>8 DEF Next

(* Every state of the guards satisfies the invariant. *)
THEOREM LockInvariant == Spec => []LockInv
<1>1. Init => LockInv
  BY InitLockInv
<1>2. LockInv /\ [Next]_vars => LockInv'
  <2> SUFFICES ASSUME LockInv, [Next]_vars PROVE LockInv'
    OBVIOUS
  <2>1. TypeOK'
    BY TypeStep DEF LockInv
  <2>2. Shape' /\ WriteLocksExclusive' /\ GuardsCurrent'
    BY ShapeStep, WriteExclusiveStep, GuardsCurrentStep
  <2>3. RunLocksExclusive' /\ ReservationsCurrent' /\ ProbesCurrent'
    BY RunExclusiveStep, ReservationsCurrentStep, ProbesCurrentStep
  <2>4. CheckedExcludesOwners' /\ CopiesWatched'
    BY CheckedStep, CopiesStep
  <2> QED  BY <2>1, <2>2, <2>3, <2>4 DEF LockInv
<1> QED  BY <1>1, <1>2, PTL DEF Spec

(* Whoever changes the model holds it; its second inspection found no owner. *)
LEMMA WritingChecked ==
    ASSUME LockInv, NEW c \in Clients, Writing(c)
    PROVE  Holder(c) /\ Checked(c)
BY DEF LockInv, Shape, ShapeOf, Writing, Holder, Guarded, Checked

(* At most one process owns a run. *)
LEMMA OwnerUnique ==
    ASSUME LockInv, NEW c \in Clients, NEW d \in Clients, Reserved(c), Reserved(d)
    PROVE  c = d
BY DEF LockInv, TypeOK, Names, ReservationsCurrent, RunLocksExclusive, Reserved, HoldsRunEx

(* The invariant implies the three exclusion properties. *)
LEMMA LockInvSafe == LockInv => MutualExclusion /\ RunExclusive /\ OwnerVisible
<1> SUFFICES ASSUME LockInv PROVE MutualExclusion /\ RunExclusive /\ OwnerVisible
  OBVIOUS
<1>1. MutualExclusion
  BY WritingChecked, HolderUnique DEF MutualExclusion
<1>2. RunExclusive
  BY WritingChecked, OwnerUnique DEF RunExclusive, LockInv, CheckedExcludesOwners
<1>3. OwnerVisible
  BY DEF OwnerVisible, LockInv, ReservationsCurrent, Reserved
<1> QED  BY <1>1, <1>2, <1>3

(* Type correctness of the guards. *)
THEOREM TypeCorrect == Spec => []TypeOK
<1>1. LockInv => TypeOK
  BY DEF LockInv
<1> QED  BY <1>1, LockInvariant, PTL

(* At most one party changes a model's files, whatever the number of processes
   and however inode numbers are reused (model_mutation_guard, run_plan). *)
THEOREM WritersExclude == Spec => []MutualExclusion
BY LockInvariant, LockInvSafe, PTL

(* A reserved run excludes other writers and other runs (model_run_reservation). *)
THEOREM RunsExclude == Spec => []RunExclusive
BY LockInvariant, LockInvSafe, PTL

(* The lock file of a live owner stays in place (run_full_cleanup). *)
THEOREM OwnerStaysVisible == Spec => []OwnerVisible
BY LockInvariant, LockInvSafe, PTL

(* A copy the read guard accepts overlaps no mutation, unless the reader had no lock file and
   a full cleanup removed the one a writer made meanwhile (model_read_guard). *)
THEOREM AcceptedCopiesAreStable == Spec => []AcceptedCopyStable
<1>1. LockInv => AcceptedCopyStable
  <2> SUFFICES ASSUME LockInv, NEW c \in Clients, pc[c] = "accepted", "mutation" \in seen[c]
               PROVE  wfd[c] = None /\ "unlink" \in seen[c]
    BY DEF AcceptedCopyStable
  <2> QED  BY DEF LockInv, CopiesWatched, CopyWatched
<1> QED  BY <1>1, LockInvariant, PTL

-----------------------------------------------------------------------------
(* What a step means for the parties that write and own.                   *)

Same(d) == (Writing(d)' <=> Writing(d)) /\ (Reserved(d)' <=> Reserved(d))
Starts(c) == /\ ~Writing(c) /\ Writing(c)' /\ (Reserved(c)' <=> Reserved(c))
             /\ \A d \in Clients \ {c} : Same(d)
Reserves(c) == /\ ~Reserved(c) /\ Reserved(c)' /\ ~Writing(c) /\ ~Writing(c)'
               /\ \A d \in Clients \ {c} : Same(d)
Shrinks == \A d \in Clients : (Writing(d)' => Writing(d)) /\ (Reserved(d)' => Reserved(d))
Effect == Shrinks \/ \E c \in Clients : Starts(c) \/ Reserves(c)

(* A step starts one mutation, completes one reservation, or only gives up. *)
LEMMA StepEffect == LockInv /\ [Next]_vars => Effect
<1> SUFFICES ASSUME LockInv, [Next]_vars PROVE Effect
  OBVIOUS
<1>0. TypeOK /\ \A c \in Clients : ShapeOf(c)
  BY DEF LockInv, Shape
<1> USE <1>0, LockAssumption
<1> USE DEF ShapeOf, TypeOK, Names, Inspecting, Goto, Inspect, Release, locks, Writing, Reserved
<1>1. ASSUME NEW c \in Clients, NEW o \in Ops, Begin(c, o) PROVE Effect
  BY <1>1 DEF Begin, Effect, Shrinks
<1>2. ASSUME NEW c \in Clients, Activity(c) PROVE Effect
  <2>1. ASSUME ProbeOpen(c) PROVE Effect
    BY <2>1 DEF ProbeOpen, SkipsProbe, Effect, Shrinks
  <2>2. ASSUME ProbeLock(c) PROVE Effect
    BY <2>2 DEF ProbeLock, Effect, Shrinks
  <2>3. ASSUME ProbeClose(c) PROVE Effect
    BY <2>3 DEF ProbeClose, Effect, Shrinks
  <2>4. ASSUME Scan(c) PROVE Effect
    <3>1. Shrinks \/ Starts(c)
      BY <2>4 DEF Scan, Proceed, EnterBody, EnterCopy, Shrinks, Starts, Same
    <3> QED  BY <3>1 DEF Effect
  <2> QED  BY <1>2, <2>1, <2>2, <2>3, <2>4 DEF Activity
<1>3. ASSUME NEW c \in Clients, Guard(c) PROVE Effect
  <2>1. ASSUME OpenWrite(c) PROVE Effect
    BY <2>1 DEF OpenWrite, FreeInodes, OpenInodes, Effect, Shrinks
  <2>2. ASSUME LockWrite(c) PROVE Effect
    BY <2>2 DEF LockWrite, LockFree, Effect, Shrinks
  <2>3. ASSUME ValidateWrite(c) PROVE Effect
    BY <2>3 DEF ValidateWrite, SameInode, Effect, Shrinks
  <2> QED  BY <1>3, <2>1, <2>2, <2>3 DEF Guard
<1>4. ASSUME NEW c \in Clients, Body(c) PROVE Effect
  <2>1. ASSUME EndEdit(c) PROVE Effect
    BY <2>1 DEF EndEdit, Effect, Shrinks
  <2>2. ASSUME RemoveEntries(c) PROVE Effect
    BY <2>2 DEF RemoveEntries, Effect, Shrinks
  <2>3. ASSUME UnlinkWriteLock(c) PROVE Effect
    BY <2>3 DEF UnlinkWriteLock, Effect, Shrinks
  <2> QED  BY <1>4, <2>1, <2>2, <2>3 DEF Body
<1>5. ASSUME NEW c \in Clients, Run(c) PROVE Effect
  <2>1. ASSUME OpenRun(c) PROVE Effect
    BY <2>1 DEF OpenRun, FreeInodes, OpenInodes, Effect, Shrinks
  <2>2. ASSUME LockRun(c) PROVE Effect
    BY <2>2 DEF LockRun, RunLockFree, Effect, Shrinks
  <2>3. ASSUME ValidateRun(c) PROVE Effect
    <3>1. Reserves(c)
      BY <2>3 DEF ValidateRun, Reserves, Same
    <3> QED  BY <3>1 DEF Effect
  <2>4. ASSUME BeginStage(c) PROVE Effect
    BY <2>4 DEF BeginStage, Effect, Shrinks
  <2>5. ASSUME SpawnNative(c) PROVE Effect
    BY <2>5 DEF SpawnNative, Effect, Shrinks
  <2>6. ASSUME NativeExit(c) PROVE Effect
    BY <2>6 DEF NativeExit, Effect, Shrinks
  <2>7. ASSUME EndStage(c) PROVE Effect
    BY <2>7 DEF EndStage, Effect, Shrinks
  <2>8. ASSUME EndRun(c) PROVE Effect
    BY <2>8 DEF EndRun, Effect, Shrinks
  <2> QED  BY <1>5, <2>1, <2>2, <2>3, <2>4, <2>5, <2>6, <2>7, <2>8 DEF Run
<1>6. ASSUME NEW c \in Clients, Read(c) PROVE Effect
  <2>1. ASSUME EndCopy(c) PROVE Effect
    BY <2>1 DEF EndCopy, Effect, Shrinks
  <2>2. ASSUME RecheckCopy(c) PROVE Effect
    BY <2>2 DEF RecheckCopy, Effect, Shrinks
  <2>3. ASSUME EndRead(c) PROVE Effect
    BY <2>3 DEF EndRead, Effect, Shrinks
  <2> QED  BY <1>6, <2>1, <2>2, <2>3 DEF Read
<1>7. ASSUME NEW c \in Clients, GiveUp(c) \/ Crash(c) \/ Restart(c) PROVE Effect
  <2>1. ASSUME GiveUp(c) PROVE Effect
    BY <2>1 DEF GiveUp, Refused, MayRaise, Effect, Shrinks
  <2>2. ASSUME Crash(c) \/ Restart(c) PROVE Effect
    BY <2>2 DEF Crash, Restart, Effect, Shrinks
  <2> QED  BY <1>7, <2>1, <2>2
<1>8. ASSUME External \/ UNCHANGED vars PROVE Effect
  BY <1>8 DEF External, vars, Effect, Shrinks
<1> QED  BY <1>1, <1>2, <1>3, <1>4, <1>5, <1>6, <1>7, <1>8 DEF Next

(* The refinement mapping picks the only writer and the only owner. *)
Picked == /\ \A c \in Clients : Writing(c) => Writer = c
          /\ (\A c \in Clients : ~Writing(c)) => Writer = None
          /\ \A c \in Clients : Reserved(c) => Owner = c
          /\ (\A c \in Clients : ~Reserved(c)) => Owner = None

LEMMA Parties == LockInv => Picked
<1> SUFFICES ASSUME LockInv PROVE Picked
  OBVIOUS
<1>1. \A c, d \in Clients : Writing(c) /\ Writing(d) => c = d
  BY LockInvSafe DEF MutualExclusion
<1>2. \A c, d \in Clients : Reserved(c) /\ Reserved(d) => c = d
  BY OwnerUnique
<1> QED  BY <1>1, <1>2 DEF Picked, Writer, Owner

(* Every step of the guards is a step of exclusive ownership, or no step of it. *)
LEMMA StepRefines ==
    LockInv /\ LockInv' /\ [Next]_vars => [Ownership!Next]_<<Writer, Owner>>
<1>a. LockInv' => Picked' /\ MutualExclusion' /\ RunExclusive'
  BY Parties, LockInvSafe, PTL
<1> SUFFICES ASSUME LockInv, LockInv', [Next]_vars
             PROVE  [Ownership!Next]_<<Writer, Owner>>
  OBVIOUS
<1>1. Picked
  BY Parties
<1>2. Picked'
  BY <1>a
<1>3. /\ \A c, d \in Clients : Writing(c)' /\ Writing(d)' => c = d
      /\ \A c, d \in Clients : Reserved(c)' /\ (Writing(d)' \/ Reserved(d)') => c = d
  BY <1>a DEF MutualExclusion, RunExclusive
<1>4. Effect
  BY StepEffect
<1>5. CASE Shrinks
  <2>1. Writer' \in {Writer, None} /\ Owner' \in {Owner, None}
    BY <1>1, <1>2, <1>5 DEF Shrinks, Picked
  <2> QED  BY <2>1 DEF Ownership!Next, Ownership!StopWriting, Ownership!EndRun
<1>6. ASSUME NEW c \in Clients, Starts(c) PROVE Ownership!Next
  <2>1. \A d \in Clients : ~Writing(d) /\ (Reserved(d) => d = c)
    BY <1>3, <1>6 DEF Starts, Same
  <2>2. Writer = None /\ Owner \in {None, c} /\ Writer' = c /\ Owner' = Owner
    BY <1>1, <1>2, <1>6, <2>1 DEF Starts, Same, Picked
  <2> QED  BY <2>2 DEF Ownership!Next, Ownership!StartWriting
<1>7. ASSUME NEW c \in Clients, Reserves(c) PROVE Ownership!Next
  <2>1. \A d \in Clients : ~Writing(d) /\ ~Writing(d)' /\ ~Reserved(d)
    BY <1>3, <1>7 DEF Reserves, Same
  <2>2. Writer = None /\ Writer' = None /\ Owner = None /\ Owner' = c
    BY <1>1, <1>2, <1>7, <2>1 DEF Reserves, Picked
  <2> QED  BY <2>2 DEF Ownership!Next, Ownership!Reserve
<1> QED  BY <1>4, <1>5, <1>6, <1>7 DEF Effect

(* The guards of a model implement exclusive ownership of it. *)
THEOREM GuardsImplementOwnership == Spec => ImplementsOwnership
<1>1. Init => Ownership!Init
  <2> SUFFICES ASSUME Init PROVE Ownership!Init
    OBVIOUS
  <2>1. \A c \in Clients : ~Writing(c) /\ ~Reserved(c)
    BY DEF Init, Writing, Reserved
  <2> QED  BY <2>1 DEF Ownership!Init, Writer, Owner
<1> QED  BY <1>1, StepRefines, LockInvariant, PTL DEF Spec, ImplementsOwnership, Ownership!Spec

-----------------------------------------------------------------------------
(* The detached job.                                                       *)

(* The type invariant in parts. *)
StepsOK ==
    /\ launcher \in {"idle", "guarded", "requested", "spawned", "identified",
                     "released", "done", "stopping", "failed", "dead"}
    /\ worker \in {"none"} \cup Alive \cup Gone
    /\ native \in {"none", "running", "gone"}
    /\ control \in {"original", "override"}
    /\ sigterm \in BOOLEAN
StatusOK ==
    /\ state \in {"none"} \cup Active \cup Final
    /\ result \in {"none"} \cup Final
    /\ status \in {"none"} \cup Final
    /\ outcome \in {"none"} \cup Final
SetsOK ==
    /\ files \subseteq {"request", "process", "start", "cancel", "stop"}
    /\ known \subseteq {"solver", "override"}
ViewersOK ==
    canceller \in [Viewers -> {"idle", "checked", "touch", "touched", "signal",
                              "noted", "signalled", "done", "dead"}]
Reports == {"none", "starting", "running", "stopping", "finishing", "orphaned",
            "interrupted", "unknown"} \cup Final
MonitorOK ==
    monitor \in [at: {"idle", "identity", "process", "scan"},
                 state: {"none"} \cup Active, identity: BOOLEAN, report: Reports]
TypeParts == StepsOK /\ StatusOK /\ SetsOK /\ ViewersOK /\ MonitorOK

Early == {"none", "boot", "handler", "waiting"}   \* the start marker was not seen
Late == {"final", "close"} \cup Gone               \* the plan is over, or never began

\* The worker appears after the request, and passes the hand-over only after the start
\* marker, which is the last thing a launcher does.
HandedOver ==
    /\ launcher \in {"idle", "guarded", "requested"} => worker = "none"
    /\ launcher \in {"spawned", "identified", "released", "done"} => worker # "none"
    /\ "start" \in files => launcher = "done"
    /\ worker \notin Early \cup Late \/ native # "none" => "start" \in files
    /\ "process" \in files => worker # "none"

\* While there is no state.json the worker has no handlers or is over, and nothing has
\* happened; whatever is in state.json stays until a final state replaces it.
StateTells ==
    /\ state = "none" => worker \in {"none", "boot", "handler"} \cup Late /\ native = "none"
    /\ state # "none" => worker \notin {"none", "boot", "handler"}
    /\ state \in Final => worker \in {"close"} \cup Gone
    /\ worker = "final" => status \in Final
    /\ worker \in {"cleanup", "restore", "journal", "returned", "stored"} => outcome \in Final

\* A request that goes on to signal has seen a state, so the handlers are there; one that
\* leaves only the marker leaves it to a worker that still has to look for it.
CancelsKnown ==
    /\ worker = "none" => ~sigterm
    /\ \A v \in Viewers :
        /\ worker = "none" => canceller[v] \in {"idle", "done"}
        /\ canceller[v] \in {"touched", "signal", "noted", "signalled"} => "cancel" \in files
        /\ canceller[v] \in {"signal", "signalled"} => state # "none"
        /\ canceller[v] = "noted" =>
              native = "none" /\ worker \in Early \cup {"check"} \cup Late
    /\ CancelSparesBoot

\* An override in the control file and a running solver are known to run_plan wherever it
\* may end by its own course, and its clean-up removes what it knows.
OverrideKnown == control = "override" => "override" \in known
SolverKnown == native = "running" => "solver" \in known
Clean == control = "original" /\ native # "running"
CleansUp ==
    /\ worker \in Early \cup {"check", "begin", "guard", "prepare"} => control = "original"
    /\ worker \in {"fork", "forked", "poll", "finish"} => OverrideKnown
    /\ worker \in {"poll", "poked", "finish"} => "solver" \in known
    /\ worker \in Early \cup {"check", "begin", "guard", "prepare", "applied", "fork"}
          => native = "none"
    /\ worker = "cleanup" /\ outcome \in Ended => OverrideKnown /\ SolverKnown
    /\ worker = "restore" /\ outcome \in Ended => OverrideKnown /\ native # "running"
    /\ worker \in {"journal", "returned", "stored"} /\ outcome \in Ended => Clean
    /\ worker = "final" /\ status \in Ended => Clean
    /\ state \in Ended => Clean

\* A monitor that knows the worker looks for solvers only after the worker has gone.
ReportsTrue ==
    /\ monitor.identity => "process" \in files
    /\ monitor.at # "idle" => monitor.report = "none"
    /\ monitor.at = "scan" /\ monitor.identity => worker \in Gone
    /\ monitor.report = "interrupted" /\ monitor.identity =>
          worker \in Gone /\ native # "running"

(* What every step of launcher, worker, viewers and monitor preserves. *)
JobInv == TypeParts /\ HandedOver /\ StateTells /\ CancelsKnown /\ CleansUp /\ ReportsTrue

-----------------------------------------------------------------------------
(* The initial state satisfies the invariant: there is no job yet. *)
LEMMA InitJobInv == JobInit => JobInv
<1> SUFFICES ASSUME JobInit PROVE JobInv
  OBVIOUS
<1> USE DEF JobInit, Unread, Early, Late, Ended, Final, Active, Gone
<1>1. TypeParts
  BY DEF Reports, TypeParts, StepsOK, StatusOK, SetsOK, ViewersOK, MonitorOK, Alive, Starting, Staging, Cleaning
<1>2. HandedOver /\ StateTells
  BY DEF HandedOver, StateTells
<1>3. CancelsKnown
  BY DEF CancelsKnown, CancelSparesBoot
<1>4. CleansUp /\ ReportsTrue
  BY DEF CleansUp, ReportsTrue
<1> QED  BY <1>1, <1>2, <1>3, <1>4 DEF JobInv

(* Every step keeps the types of the processes. *)
LEMMA StepsStep == JobInv /\ [JobNext]_jobVars => StepsOK'
<1> SUFFICES ASSUME JobInv, [JobNext]_jobVars PROVE StepsOK'
  OBVIOUS
<1> USE DEF JobInv, TypeParts, StepsOK, Reports, Ended, Final, Active, Gone, Starting, Staging, Cleaning, Alive, lvars, wvars, Unread
<1>1. ASSUME LauncherStep PROVE StepsOK'
  <2>1. ASSUME Reserve \/ WriteRequest PROVE StepsOK'
    BY <2>1 DEF Reserve, WriteRequest, Launch
  <2>2. ASSUME Spawn PROVE StepsOK'
    BY <2>2 DEF Spawn, Launch
  <2>3. ASSUME WriteIdentity PROVE StepsOK'
    BY <2>3 DEF WriteIdentity, Launch
  <2>4. ASSUME ReleaseGuard \/ TouchStart \/ ChildWaited PROVE StepsOK'
    BY <2>4 DEF ReleaseGuard, TouchStart, ChildWaited, Launch
  <2> QED  BY <1>1, <2>1, <2>2, <2>3, <2>4 DEF LauncherStep
<1>2. ASSUME LaunchFails \/ LauncherDies PROVE StepsOK'
  <2>1. ASSUME LaunchFails PROVE StepsOK'
    BY <2>1 DEF LaunchFails
  <2>2. ASSUME LauncherDies PROVE StepsOK'
    BY <2>2 DEF LauncherDies, LauncherGuards
  <2> QED  BY <1>2, <2>1, <2>2
<1>3. ASSUME WorkerStep PROVE StepsOK'
  <2>1. ASSUME InstallHandlers \/ WriteStarting \/ SeeStart PROVE StepsOK'
    BY <2>1 DEF InstallHandlers, WriteStarting, SeeStart, StartSeen, Step, Others
  <2>2. ASSUME HandoffTimeout \/ CheckCancel PROVE StepsOK'
    BY <2>2 DEF HandoffTimeout, CheckCancel, CancelSeen, EndWith, Step, Others
  <2>3. ASSUME WriteRunning \/ EnterStage PROVE StepsOK'
    BY <2>3 DEF WriteRunning, EnterStage, EndWith, Step, Others
  <2>4. ASSUME ApplyControls \/ OwnControls PROVE StepsOK'
    BY <2>4 DEF ApplyControls, OwnControls, Override, Own, Result, Step, Others
  <2>5. ASSUME Fork \/ Bind PROVE StepsOK'
    BY <2>5 DEF Fork, Bind, Step, Others
  <2>6. ASSUME NoticeStop \/ OwnStop PROVE StepsOK'
    BY <2>6 DEF NoticeStop, OwnStop, Override, Own, Result, Step, Others
  <2>7. ASSUME SeeExit PROVE StepsOK'
    BY <2>7 DEF SeeExit, Result, Others
  <2>8. ASSUME StopNative \/ Restore \/ CloseJournal PROVE StepsOK'
    BY <2>8 DEF StopNative, Restore, CloseJournal, Step, Others
  <2>9. ASSUME WriteResult \/ TakeStatus PROVE StepsOK'
    BY <2>9 DEF WriteResult, TakeStatus, Step, Others
  <2>10. ASSUME WriteFinal \/ CloseLock PROVE StepsOK'
    BY <2>10 DEF WriteFinal, CloseLock, Step, Others
  <2> QED  BY <1>3, <2>1, <2>2, <2>3, <2>4, <2>5, <2>6, <2>7, <2>8, <2>9, <2>10 DEF WorkerStep
<1>4. ASSUME Deadline \/ NativeEnds PROVE StepsOK'
  <2>1. ASSUME Deadline PROVE StepsOK'
    BY <2>1 DEF Deadline, Result, Others
  <2>2. ASSUME NativeEnds PROVE StepsOK'
    BY <2>2 DEF NativeEnds
  <2> QED  BY <1>4, <2>1, <2>2
<1>5. ASSUME Interrupt \/ Kill PROVE StepsOK'
  <2>1. ASSUME Interrupt PROVE StepsOK'
    BY <2>1 DEF Interrupt, Unhandled, Uncaught, CaughtByPlan, CaughtByWorker
  <2>2. ASSUME Kill PROVE StepsOK'
    BY <2>2 DEF Kill
  <2> QED  BY <1>5, <2>1, <2>2
<1>6. ASSUME NEW v \in Viewers, CancelStep(v) \/ ViewerDies(v) PROVE StepsOK'
  <2>1. ASSUME CheckJob(v) \/ LookForMarker(v) PROVE StepsOK'
    BY <2>1 DEF CheckJob, LookForMarker, Request, Quiet
  <2>2. ASSUME TouchCancel(v) PROVE StepsOK'
    BY <2>2 DEF TouchCancel, Request, Quiet
  <2>3. ASSUME LookForState(v) PROVE StepsOK'
    BY <2>3 DEF LookForState, NeedsSignal, Request, Quiet
  <2>4. ASSUME Signal(v) PROVE StepsOK'
    BY <2>4 DEF Signal, Request, Quiet
  <2>5. ASSUME ViewerDies(v) PROVE StepsOK'
    BY <2>5 DEF ViewerDies, Request, Quiet
  <2> QED  BY <1>6, <2>1, <2>2, <2>3, <2>4, <2>5 DEF CancelStep
<1>7. ASSUME RequestStop PROVE StepsOK'
  BY <1>7 DEF RequestStop
<1>8. ASSUME MonitorStep PROVE StepsOK'
  <2>1. ASSUME ReadState PROVE StepsOK'
    BY <2>1 DEF ReadState, Watch
  <2>2. ASSUME ReadIdentity PROVE StepsOK'
    BY <2>2 DEF ReadIdentity, Watch
  <2>3. ASSUME FindWorker PROVE StepsOK'
    BY <2>3 DEF FindWorker, WorkerFound, Report, Watch
  <2>4. ASSUME ScanNatives PROVE StepsOK'
    BY <2>4 DEF ScanNatives, Report, Watch
  <2> QED  BY <1>8, <2>1, <2>2, <2>3, <2>4 DEF MonitorStep
<1>9. ASSUME UNCHANGED jobVars PROVE StepsOK'
  BY <1>9 DEF jobVars
<1> QED  BY <1>1, <1>2, <1>3, <1>4, <1>5, <1>6, <1>7, <1>8, <1>9 DEF JobNext

(* Every step keeps the types of what is recorded of the job. *)
LEMMA StatusStep == JobInv /\ [JobNext]_jobVars => StatusOK'
<1> SUFFICES ASSUME JobInv, [JobNext]_jobVars PROVE StatusOK'
  OBVIOUS
<1> USE DEF JobInv, TypeParts, StateTells, StatusOK, Final, Ended, Active, lvars, wvars, Unread
<1>1. ASSUME LauncherStep PROVE StatusOK'
  <2>1. ASSUME Reserve \/ WriteRequest PROVE StatusOK'
    BY <2>1 DEF Reserve, WriteRequest, Launch
  <2>2. ASSUME Spawn PROVE StatusOK'
    BY <2>2 DEF Spawn, Launch
  <2>3. ASSUME WriteIdentity PROVE StatusOK'
    BY <2>3 DEF WriteIdentity, Launch
  <2>4. ASSUME ReleaseGuard \/ TouchStart \/ ChildWaited PROVE StatusOK'
    BY <2>4 DEF ReleaseGuard, TouchStart, ChildWaited, Launch
  <2> QED  BY <1>1, <2>1, <2>2, <2>3, <2>4 DEF LauncherStep
<1>2. ASSUME LaunchFails \/ LauncherDies PROVE StatusOK'
  <2>1. ASSUME LaunchFails PROVE StatusOK'
    BY <2>1 DEF LaunchFails
  <2>2. ASSUME LauncherDies PROVE StatusOK'
    BY <2>2 DEF LauncherDies, LauncherGuards
  <2> QED  BY <1>2, <2>1, <2>2
<1>3. ASSUME WorkerStep PROVE StatusOK'
  <2>1. ASSUME InstallHandlers \/ WriteStarting \/ SeeStart PROVE StatusOK'
    BY <2>1 DEF InstallHandlers, WriteStarting, SeeStart, StartSeen, Step, Others
  <2>2. ASSUME HandoffTimeout \/ CheckCancel PROVE StatusOK'
    BY <2>2 DEF HandoffTimeout, CheckCancel, CancelSeen, EndWith, Step, Others
  <2>3. ASSUME WriteRunning \/ EnterStage PROVE StatusOK'
    BY <2>3 DEF WriteRunning, EnterStage, EndWith, Step, Others
  <2>4. ASSUME ApplyControls \/ OwnControls PROVE StatusOK'
    BY <2>4 DEF ApplyControls, OwnControls, Override, Own, Result, Step, Others
  <2>5. ASSUME Fork \/ Bind PROVE StatusOK'
    BY <2>5 DEF Fork, Bind, Step, Others
  <2>6. ASSUME NoticeStop \/ OwnStop PROVE StatusOK'
    BY <2>6 DEF NoticeStop, OwnStop, Override, Own, Result, Step, Others
  <2>7. ASSUME SeeExit PROVE StatusOK'
    BY <2>7 DEF SeeExit, Result, Others
  <2>8. ASSUME StopNative \/ Restore \/ CloseJournal PROVE StatusOK'
    BY <2>8 DEF StopNative, Restore, CloseJournal, Step, Others
  <2>9. ASSUME WriteResult \/ TakeStatus PROVE StatusOK'
    BY <2>9 DEF WriteResult, TakeStatus, Step, Others
  <2>10. ASSUME WriteFinal \/ CloseLock PROVE StatusOK'
    BY <2>10 DEF WriteFinal, CloseLock, Step, Others
  <2> QED  BY <1>3, <2>1, <2>2, <2>3, <2>4, <2>5, <2>6, <2>7, <2>8, <2>9, <2>10 DEF WorkerStep
<1>4. ASSUME Deadline \/ NativeEnds PROVE StatusOK'
  <2>1. ASSUME Deadline PROVE StatusOK'
    BY <2>1 DEF Deadline, Result, Others
  <2>2. ASSUME NativeEnds PROVE StatusOK'
    BY <2>2 DEF NativeEnds
  <2> QED  BY <1>4, <2>1, <2>2
<1>5. ASSUME Interrupt \/ Kill PROVE StatusOK'
  <2>1. ASSUME Interrupt PROVE StatusOK'
    BY <2>1 DEF Interrupt, Unhandled, Uncaught, CaughtByPlan, CaughtByWorker
  <2>2. ASSUME Kill PROVE StatusOK'
    BY <2>2 DEF Kill
  <2> QED  BY <1>5, <2>1, <2>2
<1>6. ASSUME NEW v \in Viewers, CancelStep(v) \/ ViewerDies(v) PROVE StatusOK'
  <2>1. ASSUME CheckJob(v) \/ LookForMarker(v) PROVE StatusOK'
    BY <2>1 DEF CheckJob, LookForMarker, Request, Quiet
  <2>2. ASSUME TouchCancel(v) PROVE StatusOK'
    BY <2>2 DEF TouchCancel, Request, Quiet
  <2>3. ASSUME LookForState(v) PROVE StatusOK'
    BY <2>3 DEF LookForState, NeedsSignal, Request, Quiet
  <2>4. ASSUME Signal(v) PROVE StatusOK'
    BY <2>4 DEF Signal, Request, Quiet
  <2>5. ASSUME ViewerDies(v) PROVE StatusOK'
    BY <2>5 DEF ViewerDies, Request, Quiet
  <2> QED  BY <1>6, <2>1, <2>2, <2>3, <2>4, <2>5 DEF CancelStep
<1>7. ASSUME RequestStop PROVE StatusOK'
  BY <1>7 DEF RequestStop
<1>8. ASSUME MonitorStep PROVE StatusOK'
  <2>1. ASSUME ReadState PROVE StatusOK'
    BY <2>1 DEF ReadState, Watch
  <2>2. ASSUME ReadIdentity PROVE StatusOK'
    BY <2>2 DEF ReadIdentity, Watch
  <2>3. ASSUME FindWorker PROVE StatusOK'
    BY <2>3 DEF FindWorker, WorkerFound, Report, Watch
  <2>4. ASSUME ScanNatives PROVE StatusOK'
    BY <2>4 DEF ScanNatives, Report, Watch
  <2> QED  BY <1>8, <2>1, <2>2, <2>3, <2>4 DEF MonitorStep
<1>9. ASSUME UNCHANGED jobVars PROVE StatusOK'
  BY <1>9 DEF jobVars
<1> QED  BY <1>1, <1>2, <1>3, <1>4, <1>5, <1>6, <1>7, <1>8, <1>9 DEF JobNext

(* Every step keeps the types of the markers and of what run_plan knows. *)
LEMMA SetsStep == JobInv /\ [JobNext]_jobVars => SetsOK'
<1> SUFFICES ASSUME JobInv, [JobNext]_jobVars PROVE SetsOK'
  OBVIOUS
<1> USE DEF JobInv, TypeParts, SetsOK, lvars, wvars, Unread
<1>1. ASSUME LauncherStep PROVE SetsOK'
  <2>1. ASSUME Reserve \/ WriteRequest PROVE SetsOK'
    BY <2>1 DEF Reserve, WriteRequest, Launch
  <2>2. ASSUME Spawn PROVE SetsOK'
    BY <2>2 DEF Spawn, Launch
  <2>3. ASSUME WriteIdentity PROVE SetsOK'
    BY <2>3 DEF WriteIdentity, Launch
  <2>4. ASSUME ReleaseGuard \/ TouchStart \/ ChildWaited PROVE SetsOK'
    BY <2>4 DEF ReleaseGuard, TouchStart, ChildWaited, Launch
  <2> QED  BY <1>1, <2>1, <2>2, <2>3, <2>4 DEF LauncherStep
<1>2. ASSUME LaunchFails \/ LauncherDies PROVE SetsOK'
  <2>1. ASSUME LaunchFails PROVE SetsOK'
    BY <2>1 DEF LaunchFails
  <2>2. ASSUME LauncherDies PROVE SetsOK'
    BY <2>2 DEF LauncherDies, LauncherGuards
  <2> QED  BY <1>2, <2>1, <2>2
<1>3. ASSUME WorkerStep PROVE SetsOK'
  <2>1. ASSUME InstallHandlers \/ WriteStarting \/ SeeStart PROVE SetsOK'
    BY <2>1 DEF InstallHandlers, WriteStarting, SeeStart, StartSeen, Step, Others
  <2>2. ASSUME HandoffTimeout \/ CheckCancel PROVE SetsOK'
    BY <2>2 DEF HandoffTimeout, CheckCancel, CancelSeen, EndWith, Step, Others
  <2>3. ASSUME WriteRunning \/ EnterStage PROVE SetsOK'
    BY <2>3 DEF WriteRunning, EnterStage, EndWith, Step, Others
  <2>4. ASSUME ApplyControls \/ OwnControls PROVE SetsOK'
    BY <2>4 DEF ApplyControls, OwnControls, Override, Own, Result, Step, Others
  <2>5. ASSUME Fork \/ Bind PROVE SetsOK'
    BY <2>5 DEF Fork, Bind, Step, Others
  <2>6. ASSUME NoticeStop \/ OwnStop PROVE SetsOK'
    BY <2>6 DEF NoticeStop, OwnStop, Override, Own, Result, Step, Others
  <2>7. ASSUME SeeExit PROVE SetsOK'
    BY <2>7 DEF SeeExit, Result, Others
  <2>8. ASSUME StopNative \/ Restore \/ CloseJournal PROVE SetsOK'
    BY <2>8 DEF StopNative, Restore, CloseJournal, Step, Others
  <2>9. ASSUME WriteResult \/ TakeStatus PROVE SetsOK'
    BY <2>9 DEF WriteResult, TakeStatus, Step, Others
  <2>10. ASSUME WriteFinal \/ CloseLock PROVE SetsOK'
    BY <2>10 DEF WriteFinal, CloseLock, Step, Others
  <2> QED  BY <1>3, <2>1, <2>2, <2>3, <2>4, <2>5, <2>6, <2>7, <2>8, <2>9, <2>10 DEF WorkerStep
<1>4. ASSUME Deadline \/ NativeEnds PROVE SetsOK'
  <2>1. ASSUME Deadline PROVE SetsOK'
    BY <2>1 DEF Deadline, Result, Others
  <2>2. ASSUME NativeEnds PROVE SetsOK'
    BY <2>2 DEF NativeEnds
  <2> QED  BY <1>4, <2>1, <2>2
<1>5. ASSUME Interrupt \/ Kill PROVE SetsOK'
  <2>1. ASSUME Interrupt PROVE SetsOK'
    BY <2>1 DEF Interrupt, Unhandled, Uncaught, CaughtByPlan, CaughtByWorker
  <2>2. ASSUME Kill PROVE SetsOK'
    BY <2>2 DEF Kill
  <2> QED  BY <1>5, <2>1, <2>2
<1>6. ASSUME NEW v \in Viewers, CancelStep(v) \/ ViewerDies(v) PROVE SetsOK'
  <2>1. ASSUME CheckJob(v) \/ LookForMarker(v) PROVE SetsOK'
    BY <2>1 DEF CheckJob, LookForMarker, Request, Quiet
  <2>2. ASSUME TouchCancel(v) PROVE SetsOK'
    BY <2>2 DEF TouchCancel, Request, Quiet
  <2>3. ASSUME LookForState(v) PROVE SetsOK'
    BY <2>3 DEF LookForState, NeedsSignal, Request, Quiet
  <2>4. ASSUME Signal(v) PROVE SetsOK'
    BY <2>4 DEF Signal, Request, Quiet
  <2>5. ASSUME ViewerDies(v) PROVE SetsOK'
    BY <2>5 DEF ViewerDies, Request, Quiet
  <2> QED  BY <1>6, <2>1, <2>2, <2>3, <2>4, <2>5 DEF CancelStep
<1>7. ASSUME RequestStop PROVE SetsOK'
  BY <1>7 DEF RequestStop
<1>8. ASSUME MonitorStep PROVE SetsOK'
  <2>1. ASSUME ReadState PROVE SetsOK'
    BY <2>1 DEF ReadState, Watch
  <2>2. ASSUME ReadIdentity PROVE SetsOK'
    BY <2>2 DEF ReadIdentity, Watch
  <2>3. ASSUME FindWorker PROVE SetsOK'
    BY <2>3 DEF FindWorker, WorkerFound, Report, Watch
  <2>4. ASSUME ScanNatives PROVE SetsOK'
    BY <2>4 DEF ScanNatives, Report, Watch
  <2> QED  BY <1>8, <2>1, <2>2, <2>3, <2>4 DEF MonitorStep
<1>9. ASSUME UNCHANGED jobVars PROVE SetsOK'
  BY <1>9 DEF jobVars
<1> QED  BY <1>1, <1>2, <1>3, <1>4, <1>5, <1>6, <1>7, <1>8, <1>9 DEF JobNext

(* Every step keeps the type of the viewers. *)
LEMMA ViewersStep == JobInv /\ [JobNext]_jobVars => ViewersOK'
<1> SUFFICES ASSUME JobInv, [JobNext]_jobVars PROVE ViewersOK'
  OBVIOUS
<1> USE DEF JobInv, TypeParts, ViewersOK, lvars, wvars, Unread
<1>1. ASSUME LauncherStep PROVE ViewersOK'
  <2>1. ASSUME Reserve \/ WriteRequest PROVE ViewersOK'
    BY <2>1 DEF Reserve, WriteRequest, Launch
  <2>2. ASSUME Spawn PROVE ViewersOK'
    BY <2>2 DEF Spawn, Launch
  <2>3. ASSUME WriteIdentity PROVE ViewersOK'
    BY <2>3 DEF WriteIdentity, Launch
  <2>4. ASSUME ReleaseGuard \/ TouchStart \/ ChildWaited PROVE ViewersOK'
    BY <2>4 DEF ReleaseGuard, TouchStart, ChildWaited, Launch
  <2> QED  BY <1>1, <2>1, <2>2, <2>3, <2>4 DEF LauncherStep
<1>2. ASSUME LaunchFails \/ LauncherDies PROVE ViewersOK'
  <2>1. ASSUME LaunchFails PROVE ViewersOK'
    BY <2>1 DEF LaunchFails
  <2>2. ASSUME LauncherDies PROVE ViewersOK'
    BY <2>2 DEF LauncherDies, LauncherGuards
  <2> QED  BY <1>2, <2>1, <2>2
<1>3. ASSUME WorkerStep PROVE ViewersOK'
  <2>1. ASSUME InstallHandlers \/ WriteStarting \/ SeeStart PROVE ViewersOK'
    BY <2>1 DEF InstallHandlers, WriteStarting, SeeStart, StartSeen, Step, Others
  <2>2. ASSUME HandoffTimeout \/ CheckCancel PROVE ViewersOK'
    BY <2>2 DEF HandoffTimeout, CheckCancel, CancelSeen, EndWith, Step, Others
  <2>3. ASSUME WriteRunning \/ EnterStage PROVE ViewersOK'
    BY <2>3 DEF WriteRunning, EnterStage, EndWith, Step, Others
  <2>4. ASSUME ApplyControls \/ OwnControls PROVE ViewersOK'
    BY <2>4 DEF ApplyControls, OwnControls, Override, Own, Result, Step, Others
  <2>5. ASSUME Fork \/ Bind PROVE ViewersOK'
    BY <2>5 DEF Fork, Bind, Step, Others
  <2>6. ASSUME NoticeStop \/ OwnStop PROVE ViewersOK'
    BY <2>6 DEF NoticeStop, OwnStop, Override, Own, Result, Step, Others
  <2>7. ASSUME SeeExit PROVE ViewersOK'
    BY <2>7 DEF SeeExit, Result, Others
  <2>8. ASSUME StopNative \/ Restore \/ CloseJournal PROVE ViewersOK'
    BY <2>8 DEF StopNative, Restore, CloseJournal, Step, Others
  <2>9. ASSUME WriteResult \/ TakeStatus PROVE ViewersOK'
    BY <2>9 DEF WriteResult, TakeStatus, Step, Others
  <2>10. ASSUME WriteFinal \/ CloseLock PROVE ViewersOK'
    BY <2>10 DEF WriteFinal, CloseLock, Step, Others
  <2> QED  BY <1>3, <2>1, <2>2, <2>3, <2>4, <2>5, <2>6, <2>7, <2>8, <2>9, <2>10 DEF WorkerStep
<1>4. ASSUME Deadline \/ NativeEnds PROVE ViewersOK'
  <2>1. ASSUME Deadline PROVE ViewersOK'
    BY <2>1 DEF Deadline, Result, Others
  <2>2. ASSUME NativeEnds PROVE ViewersOK'
    BY <2>2 DEF NativeEnds
  <2> QED  BY <1>4, <2>1, <2>2
<1>5. ASSUME Interrupt \/ Kill PROVE ViewersOK'
  <2>1. ASSUME Interrupt PROVE ViewersOK'
    BY <2>1 DEF Interrupt, Unhandled, Uncaught, CaughtByPlan, CaughtByWorker
  <2>2. ASSUME Kill PROVE ViewersOK'
    BY <2>2 DEF Kill
  <2> QED  BY <1>5, <2>1, <2>2
<1>6. ASSUME NEW v \in Viewers, CancelStep(v) \/ ViewerDies(v) PROVE ViewersOK'
  <2>1. ASSUME CheckJob(v) \/ LookForMarker(v) PROVE ViewersOK'
    BY <2>1 DEF CheckJob, LookForMarker, Request, Quiet
  <2>2. ASSUME TouchCancel(v) PROVE ViewersOK'
    BY <2>2 DEF TouchCancel, Request, Quiet
  <2>3. ASSUME LookForState(v) PROVE ViewersOK'
    BY <2>3 DEF LookForState, NeedsSignal, Request, Quiet
  <2>4. ASSUME Signal(v) PROVE ViewersOK'
    BY <2>4 DEF Signal, Request, Quiet
  <2>5. ASSUME ViewerDies(v) PROVE ViewersOK'
    BY <2>5 DEF ViewerDies, Request, Quiet
  <2> QED  BY <1>6, <2>1, <2>2, <2>3, <2>4, <2>5 DEF CancelStep
<1>7. ASSUME RequestStop PROVE ViewersOK'
  BY <1>7 DEF RequestStop
<1>8. ASSUME MonitorStep PROVE ViewersOK'
  <2>1. ASSUME ReadState PROVE ViewersOK'
    BY <2>1 DEF ReadState, Watch
  <2>2. ASSUME ReadIdentity PROVE ViewersOK'
    BY <2>2 DEF ReadIdentity, Watch
  <2>3. ASSUME FindWorker PROVE ViewersOK'
    BY <2>3 DEF FindWorker, WorkerFound, Report, Watch
  <2>4. ASSUME ScanNatives PROVE ViewersOK'
    BY <2>4 DEF ScanNatives, Report, Watch
  <2> QED  BY <1>8, <2>1, <2>2, <2>3, <2>4 DEF MonitorStep
<1>9. ASSUME UNCHANGED jobVars PROVE ViewersOK'
  BY <1>9 DEF jobVars
<1> QED  BY <1>1, <1>2, <1>3, <1>4, <1>5, <1>6, <1>7, <1>8, <1>9 DEF JobNext

(* Every step keeps the type of the monitor. *)
LEMMA MonitorTypeStep == JobInv /\ [JobNext]_jobVars => MonitorOK'
<1> SUFFICES ASSUME JobInv, [JobNext]_jobVars PROVE MonitorOK'
  OBVIOUS
<1> USE DEF JobInv, TypeParts, StatusOK, MonitorOK, Reports, Ended, Final, Active, Gone, Starting, Staging, Cleaning, Alive, lvars, wvars, Unread
<1>1. ASSUME LauncherStep PROVE MonitorOK'
  <2>1. ASSUME Reserve \/ WriteRequest PROVE MonitorOK'
    BY <2>1 DEF Reserve, WriteRequest, Launch
  <2>2. ASSUME Spawn PROVE MonitorOK'
    BY <2>2 DEF Spawn, Launch
  <2>3. ASSUME WriteIdentity PROVE MonitorOK'
    BY <2>3 DEF WriteIdentity, Launch
  <2>4. ASSUME ReleaseGuard \/ TouchStart \/ ChildWaited PROVE MonitorOK'
    BY <2>4 DEF ReleaseGuard, TouchStart, ChildWaited, Launch
  <2> QED  BY <1>1, <2>1, <2>2, <2>3, <2>4 DEF LauncherStep
<1>2. ASSUME LaunchFails \/ LauncherDies PROVE MonitorOK'
  <2>1. ASSUME LaunchFails PROVE MonitorOK'
    BY <2>1 DEF LaunchFails
  <2>2. ASSUME LauncherDies PROVE MonitorOK'
    BY <2>2 DEF LauncherDies, LauncherGuards
  <2> QED  BY <1>2, <2>1, <2>2
<1>3. ASSUME WorkerStep PROVE MonitorOK'
  <2>1. ASSUME InstallHandlers \/ WriteStarting \/ SeeStart PROVE MonitorOK'
    BY <2>1 DEF InstallHandlers, WriteStarting, SeeStart, StartSeen, Step, Others
  <2>2. ASSUME HandoffTimeout \/ CheckCancel PROVE MonitorOK'
    BY <2>2 DEF HandoffTimeout, CheckCancel, CancelSeen, EndWith, Step, Others
  <2>3. ASSUME WriteRunning \/ EnterStage PROVE MonitorOK'
    BY <2>3 DEF WriteRunning, EnterStage, EndWith, Step, Others
  <2>4. ASSUME ApplyControls \/ OwnControls PROVE MonitorOK'
    BY <2>4 DEF ApplyControls, OwnControls, Override, Own, Result, Step, Others
  <2>5. ASSUME Fork \/ Bind PROVE MonitorOK'
    BY <2>5 DEF Fork, Bind, Step, Others
  <2>6. ASSUME NoticeStop \/ OwnStop PROVE MonitorOK'
    BY <2>6 DEF NoticeStop, OwnStop, Override, Own, Result, Step, Others
  <2>7. ASSUME SeeExit PROVE MonitorOK'
    BY <2>7 DEF SeeExit, Result, Others
  <2>8. ASSUME StopNative \/ Restore \/ CloseJournal PROVE MonitorOK'
    BY <2>8 DEF StopNative, Restore, CloseJournal, Step, Others
  <2>9. ASSUME WriteResult \/ TakeStatus PROVE MonitorOK'
    BY <2>9 DEF WriteResult, TakeStatus, Step, Others
  <2>10. ASSUME WriteFinal \/ CloseLock PROVE MonitorOK'
    BY <2>10 DEF WriteFinal, CloseLock, Step, Others
  <2> QED  BY <1>3, <2>1, <2>2, <2>3, <2>4, <2>5, <2>6, <2>7, <2>8, <2>9, <2>10 DEF WorkerStep
<1>4. ASSUME Deadline \/ NativeEnds PROVE MonitorOK'
  <2>1. ASSUME Deadline PROVE MonitorOK'
    BY <2>1 DEF Deadline, Result, Others
  <2>2. ASSUME NativeEnds PROVE MonitorOK'
    BY <2>2 DEF NativeEnds
  <2> QED  BY <1>4, <2>1, <2>2
<1>5. ASSUME Interrupt \/ Kill PROVE MonitorOK'
  <2>1. ASSUME Interrupt PROVE MonitorOK'
    BY <2>1 DEF Interrupt, Unhandled, Uncaught, CaughtByPlan, CaughtByWorker
  <2>2. ASSUME Kill PROVE MonitorOK'
    BY <2>2 DEF Kill
  <2> QED  BY <1>5, <2>1, <2>2
<1>6. ASSUME NEW v \in Viewers, CancelStep(v) \/ ViewerDies(v) PROVE MonitorOK'
  <2>1. ASSUME CheckJob(v) \/ LookForMarker(v) PROVE MonitorOK'
    BY <2>1 DEF CheckJob, LookForMarker, Request, Quiet
  <2>2. ASSUME TouchCancel(v) PROVE MonitorOK'
    BY <2>2 DEF TouchCancel, Request, Quiet
  <2>3. ASSUME LookForState(v) PROVE MonitorOK'
    BY <2>3 DEF LookForState, NeedsSignal, Request, Quiet
  <2>4. ASSUME Signal(v) PROVE MonitorOK'
    BY <2>4 DEF Signal, Request, Quiet
  <2>5. ASSUME ViewerDies(v) PROVE MonitorOK'
    BY <2>5 DEF ViewerDies, Request, Quiet
  <2> QED  BY <1>6, <2>1, <2>2, <2>3, <2>4, <2>5 DEF CancelStep
<1>7. ASSUME RequestStop PROVE MonitorOK'
  BY <1>7 DEF RequestStop
<1>8. ASSUME MonitorStep PROVE MonitorOK'
  <2>1. ASSUME ReadState PROVE MonitorOK'
    <3>1. monitor' \in {[Unread EXCEPT !.report = state],
                       [Unread EXCEPT !.at = "identity", !.state = "starting"],
                       [Unread EXCEPT !.at = "identity", !.state = state]}
      BY <2>1 DEF ReadState, Watch
    <3>2. state \in Final \/ (monitor'.report = "none" /\ (state \in {"none"} \cup Active))
      BY <2>1 DEF ReadState, Watch
    <3> QED  BY <2>1, <3>1, <3>2 DEF ReadState, Watch
  <2>2. ASSUME ReadIdentity PROVE MonitorOK'
    <3>1. monitor' = [at |-> "process", state |-> monitor.state,
                      identity |-> ("process" \in files), report |-> monitor.report]
      BY <2>2 DEF ReadIdentity, Watch
    <3>2. ("process" \in files) \in BOOLEAN
      OBVIOUS
    <3> QED  BY <3>1, <3>2
  <2>3. ASSUME FindWorker PROVE MonitorOK'
    BY <2>3 DEF FindWorker, WorkerFound, Report, Watch
  <2>4. ASSUME ScanNatives PROVE MonitorOK'
    BY <2>4 DEF ScanNatives, Report, Watch
  <2> QED  BY <1>8, <2>1, <2>2, <2>3, <2>4 DEF MonitorStep
<1>9. ASSUME UNCHANGED jobVars PROVE MonitorOK'
  BY <1>9 DEF jobVars
<1> QED  BY <1>1, <1>2, <1>3, <1>4, <1>5, <1>6, <1>7, <1>8, <1>9 DEF JobNext

(* The hand-over happens in its order. *)
LEMMA HandedOverStep == JobInv /\ [JobNext]_jobVars => HandedOver'
<1> SUFFICES ASSUME JobInv, [JobNext]_jobVars PROVE HandedOver'
  OBVIOUS
<1> USE DEF JobInv, HandedOver, StepsOK, StatusOK, SetsOK, TypeParts, Early, Late, Reports, Ended, Final, Active, Gone, Starting, Staging, Cleaning, Alive, lvars, wvars, Unread
<1>1. ASSUME LauncherStep PROVE HandedOver'
  <2>1. ASSUME Reserve \/ WriteRequest PROVE HandedOver'
    BY <2>1 DEF Reserve, WriteRequest, Launch
  <2>2. ASSUME Spawn PROVE HandedOver'
    BY <2>2 DEF Spawn, Launch
  <2>3. ASSUME WriteIdentity PROVE HandedOver'
    BY <2>3 DEF WriteIdentity, Launch
  <2>4. ASSUME ReleaseGuard \/ TouchStart \/ ChildWaited PROVE HandedOver'
    BY <2>4 DEF ReleaseGuard, TouchStart, ChildWaited, Launch
  <2> QED  BY <1>1, <2>1, <2>2, <2>3, <2>4 DEF LauncherStep
<1>2. ASSUME LaunchFails \/ LauncherDies PROVE HandedOver'
  <2>1. ASSUME LaunchFails PROVE HandedOver'
    BY <2>1 DEF LaunchFails
  <2>2. ASSUME LauncherDies PROVE HandedOver'
    BY <2>2 DEF LauncherDies, LauncherGuards
  <2> QED  BY <1>2, <2>1, <2>2
<1>3. ASSUME WorkerStep PROVE HandedOver'
  <2>1. ASSUME InstallHandlers \/ WriteStarting \/ SeeStart PROVE HandedOver'
    BY <2>1 DEF InstallHandlers, WriteStarting, SeeStart, StartSeen, Step, Others
  <2>2. ASSUME HandoffTimeout \/ CheckCancel PROVE HandedOver'
    BY <2>2 DEF HandoffTimeout, CheckCancel, CancelSeen, EndWith, Step, Others
  <2>3. ASSUME WriteRunning \/ EnterStage PROVE HandedOver'
    BY <2>3 DEF WriteRunning, EnterStage, EndWith, Step, Others
  <2>4. ASSUME ApplyControls \/ OwnControls PROVE HandedOver'
    BY <2>4 DEF ApplyControls, OwnControls, Override, Own, Result, Step, Others
  <2>5. ASSUME Fork \/ Bind PROVE HandedOver'
    BY <2>5 DEF Fork, Bind, Step, Others
  <2>6. ASSUME NoticeStop \/ OwnStop PROVE HandedOver'
    BY <2>6 DEF NoticeStop, OwnStop, Override, Own, Result, Step, Others
  <2>7. ASSUME SeeExit PROVE HandedOver'
    BY <2>7 DEF SeeExit, Result, Others
  <2>8. ASSUME StopNative \/ Restore \/ CloseJournal PROVE HandedOver'
    BY <2>8 DEF StopNative, Restore, CloseJournal, Step, Others
  <2>9. ASSUME WriteResult \/ TakeStatus PROVE HandedOver'
    BY <2>9 DEF WriteResult, TakeStatus, Step, Others
  <2>10. ASSUME WriteFinal \/ CloseLock PROVE HandedOver'
    BY <2>10 DEF WriteFinal, CloseLock, Step, Others
  <2> QED  BY <1>3, <2>1, <2>2, <2>3, <2>4, <2>5, <2>6, <2>7, <2>8, <2>9, <2>10 DEF WorkerStep
<1>4. ASSUME Deadline \/ NativeEnds PROVE HandedOver'
  <2>1. ASSUME Deadline PROVE HandedOver'
    BY <2>1 DEF Deadline, Result, Others
  <2>2. ASSUME NativeEnds PROVE HandedOver'
    BY <2>2 DEF NativeEnds
  <2> QED  BY <1>4, <2>1, <2>2
<1>5. ASSUME Interrupt \/ Kill PROVE HandedOver'
  <2>1. ASSUME Interrupt PROVE HandedOver'
    BY <2>1 DEF Interrupt, Unhandled, Uncaught, CaughtByPlan, CaughtByWorker
  <2>2. ASSUME Kill PROVE HandedOver'
    BY <2>2 DEF Kill
  <2> QED  BY <1>5, <2>1, <2>2
<1>6. ASSUME NEW v \in Viewers, CancelStep(v) \/ ViewerDies(v) PROVE HandedOver'
  <2>1. ASSUME CheckJob(v) \/ LookForMarker(v) PROVE HandedOver'
    BY <2>1 DEF CheckJob, LookForMarker, Request, Quiet
  <2>2. ASSUME TouchCancel(v) PROVE HandedOver'
    BY <2>2 DEF TouchCancel, Request, Quiet
  <2>3. ASSUME LookForState(v) PROVE HandedOver'
    BY <2>3 DEF LookForState, NeedsSignal, Request, Quiet
  <2>4. ASSUME Signal(v) PROVE HandedOver'
    BY <2>4 DEF Signal, Request, Quiet
  <2>5. ASSUME ViewerDies(v) PROVE HandedOver'
    BY <2>5 DEF ViewerDies, Request, Quiet
  <2> QED  BY <1>6, <2>1, <2>2, <2>3, <2>4, <2>5 DEF CancelStep
<1>7. ASSUME RequestStop PROVE HandedOver'
  BY <1>7 DEF RequestStop
<1>8. ASSUME MonitorStep PROVE HandedOver'
  <2>1. ASSUME ReadState PROVE HandedOver'
    BY <2>1 DEF ReadState, Watch
  <2>2. ASSUME ReadIdentity PROVE HandedOver'
    BY <2>2 DEF ReadIdentity, Watch
  <2>3. ASSUME FindWorker PROVE HandedOver'
    BY <2>3 DEF FindWorker, WorkerFound, Report, Watch
  <2>4. ASSUME ScanNatives PROVE HandedOver'
    BY <2>4 DEF ScanNatives, Report, Watch
  <2> QED  BY <1>8, <2>1, <2>2, <2>3, <2>4 DEF MonitorStep
<1>9. ASSUME UNCHANGED jobVars PROVE HandedOver'
  BY <1>9 DEF jobVars
<1> QED  BY <1>1, <1>2, <1>3, <1>4, <1>5, <1>6, <1>7, <1>8, <1>9 DEF JobNext

(* What state.json says fits the step of the worker. *)
LEMMA StateTellsStep == JobInv /\ [JobNext]_jobVars => StateTells'
<1> SUFFICES ASSUME JobInv, [JobNext]_jobVars PROVE StateTells'
  OBVIOUS
<1> USE DEF JobInv, HandedOver, StateTells, CleansUp, StepsOK, StatusOK, SetsOK, TypeParts, Early, Late, Reports, Ended, Final, Active, Gone, Starting, Staging, Cleaning, Alive, lvars, wvars, Unread
<1>1. ASSUME LauncherStep PROVE StateTells'
  <2>1. ASSUME Reserve \/ WriteRequest PROVE StateTells'
    BY <2>1 DEF Reserve, WriteRequest, Launch
  <2>2. ASSUME Spawn PROVE StateTells'
    BY <2>2 DEF Spawn, Launch
  <2>3. ASSUME WriteIdentity PROVE StateTells'
    BY <2>3 DEF WriteIdentity, Launch
  <2>4. ASSUME ReleaseGuard \/ TouchStart \/ ChildWaited PROVE StateTells'
    BY <2>4 DEF ReleaseGuard, TouchStart, ChildWaited, Launch
  <2> QED  BY <1>1, <2>1, <2>2, <2>3, <2>4 DEF LauncherStep
<1>2. ASSUME LaunchFails \/ LauncherDies PROVE StateTells'
  <2>1. ASSUME LaunchFails PROVE StateTells'
    BY <2>1 DEF LaunchFails
  <2>2. ASSUME LauncherDies PROVE StateTells'
    BY <2>2 DEF LauncherDies, LauncherGuards
  <2> QED  BY <1>2, <2>1, <2>2
<1>3. ASSUME WorkerStep PROVE StateTells'
  <2>1. ASSUME InstallHandlers \/ WriteStarting \/ SeeStart PROVE StateTells'
    BY <2>1 DEF InstallHandlers, WriteStarting, SeeStart, StartSeen, Step, Others
  <2>2. ASSUME HandoffTimeout \/ CheckCancel PROVE StateTells'
    BY <2>2 DEF HandoffTimeout, CheckCancel, CancelSeen, EndWith, Step, Others
  <2>3. ASSUME WriteRunning \/ EnterStage PROVE StateTells'
    BY <2>3 DEF WriteRunning, EnterStage, EndWith, Step, Others
  <2>4. ASSUME ApplyControls \/ OwnControls PROVE StateTells'
    BY <2>4 DEF ApplyControls, OwnControls, Override, Own, Result, Step, Others
  <2>5. ASSUME Fork \/ Bind PROVE StateTells'
    BY <2>5 DEF Fork, Bind, Step, Others
  <2>6. ASSUME NoticeStop \/ OwnStop PROVE StateTells'
    BY <2>6 DEF NoticeStop, OwnStop, Override, Own, Result, Step, Others
  <2>7. ASSUME SeeExit PROVE StateTells'
    BY <2>7 DEF SeeExit, Result, Others
  <2>8. ASSUME StopNative \/ Restore \/ CloseJournal PROVE StateTells'
    BY <2>8 DEF StopNative, Restore, CloseJournal, Step, Others
  <2>9. ASSUME WriteResult \/ TakeStatus PROVE StateTells'
    BY <2>9 DEF WriteResult, TakeStatus, Step, Others
  <2>10. ASSUME WriteFinal \/ CloseLock PROVE StateTells'
    BY <2>10 DEF WriteFinal, CloseLock, Step, Others
  <2> QED  BY <1>3, <2>1, <2>2, <2>3, <2>4, <2>5, <2>6, <2>7, <2>8, <2>9, <2>10 DEF WorkerStep
<1>4. ASSUME Deadline \/ NativeEnds PROVE StateTells'
  <2>1. ASSUME Deadline PROVE StateTells'
    BY <2>1 DEF Deadline, Result, Others
  <2>2. ASSUME NativeEnds PROVE StateTells'
    BY <2>2 DEF NativeEnds
  <2> QED  BY <1>4, <2>1, <2>2
<1>5. ASSUME Interrupt \/ Kill PROVE StateTells'
  <2>1. ASSUME Interrupt PROVE StateTells'
    BY <2>1 DEF Interrupt, Unhandled, Uncaught, CaughtByPlan, CaughtByWorker
  <2>2. ASSUME Kill PROVE StateTells'
    BY <2>2 DEF Kill
  <2> QED  BY <1>5, <2>1, <2>2
<1>6. ASSUME NEW v \in Viewers, CancelStep(v) \/ ViewerDies(v) PROVE StateTells'
  <2>1. ASSUME CheckJob(v) \/ LookForMarker(v) PROVE StateTells'
    BY <2>1 DEF CheckJob, LookForMarker, Request, Quiet
  <2>2. ASSUME TouchCancel(v) PROVE StateTells'
    BY <2>2 DEF TouchCancel, Request, Quiet
  <2>3. ASSUME LookForState(v) PROVE StateTells'
    BY <2>3 DEF LookForState, NeedsSignal, Request, Quiet
  <2>4. ASSUME Signal(v) PROVE StateTells'
    BY <2>4 DEF Signal, Request, Quiet
  <2>5. ASSUME ViewerDies(v) PROVE StateTells'
    BY <2>5 DEF ViewerDies, Request, Quiet
  <2> QED  BY <1>6, <2>1, <2>2, <2>3, <2>4, <2>5 DEF CancelStep
<1>7. ASSUME RequestStop PROVE StateTells'
  BY <1>7 DEF RequestStop
<1>8. ASSUME MonitorStep PROVE StateTells'
  <2>1. ASSUME ReadState PROVE StateTells'
    BY <2>1 DEF ReadState, Watch
  <2>2. ASSUME ReadIdentity PROVE StateTells'
    BY <2>2 DEF ReadIdentity, Watch
  <2>3. ASSUME FindWorker PROVE StateTells'
    BY <2>3 DEF FindWorker, WorkerFound, Report, Watch
  <2>4. ASSUME ScanNatives PROVE StateTells'
    BY <2>4 DEF ScanNatives, Report, Watch
  <2> QED  BY <1>8, <2>1, <2>2, <2>3, <2>4 DEF MonitorStep
<1>9. ASSUME UNCHANGED jobVars PROVE StateTells'
  BY <1>9 DEF jobVars
<1> QED  BY <1>1, <1>2, <1>3, <1>4, <1>5, <1>6, <1>7, <1>8, <1>9 DEF JobNext

(* A cancel request is seen by its marker or comes by a signal the worker can handle. *)
LEMMA CancelsKnownStep == JobInv /\ [JobNext]_jobVars => CancelsKnown'
<1> SUFFICES ASSUME JobInv, [JobNext]_jobVars PROVE CancelsKnown'
  OBVIOUS
<1> USE DEF JobInv, HandedOver, StateTells, CancelsKnown, CancelSparesBoot, CleansUp, StepsOK, StatusOK, SetsOK, ViewersOK, TypeParts, Early, Late, Reports, Ended, Final, Active, Gone, Starting, Staging, Cleaning, Alive, lvars, wvars, Unread
<1>1. ASSUME LauncherStep PROVE CancelsKnown'
  <2>1. ASSUME Reserve \/ WriteRequest PROVE CancelsKnown'
    BY <2>1 DEF Reserve, WriteRequest, Launch
  <2>2. ASSUME Spawn PROVE CancelsKnown'
    BY <2>2 DEF Spawn, Launch
  <2>3. ASSUME WriteIdentity PROVE CancelsKnown'
    BY <2>3 DEF WriteIdentity, Launch
  <2>4. ASSUME ReleaseGuard \/ TouchStart \/ ChildWaited PROVE CancelsKnown'
    BY <2>4 DEF ReleaseGuard, TouchStart, ChildWaited, Launch
  <2> QED  BY <1>1, <2>1, <2>2, <2>3, <2>4 DEF LauncherStep
<1>2. ASSUME LaunchFails \/ LauncherDies PROVE CancelsKnown'
  <2>1. ASSUME LaunchFails PROVE CancelsKnown'
    BY <2>1 DEF LaunchFails
  <2>2. ASSUME LauncherDies PROVE CancelsKnown'
    BY <2>2 DEF LauncherDies, LauncherGuards
  <2> QED  BY <1>2, <2>1, <2>2
<1>3. ASSUME WorkerStep PROVE CancelsKnown'
  <2>1. ASSUME InstallHandlers \/ WriteStarting \/ SeeStart PROVE CancelsKnown'
    BY <2>1 DEF InstallHandlers, WriteStarting, SeeStart, StartSeen, Step, Others
  <2>2. ASSUME HandoffTimeout \/ CheckCancel PROVE CancelsKnown'
    BY <2>2 DEF HandoffTimeout, CheckCancel, CancelSeen, EndWith, Step, Others
  <2>3. ASSUME WriteRunning \/ EnterStage PROVE CancelsKnown'
    BY <2>3 DEF WriteRunning, EnterStage, EndWith, Step, Others
  <2>4. ASSUME ApplyControls \/ OwnControls PROVE CancelsKnown'
    BY <2>4 DEF ApplyControls, OwnControls, Override, Own, Result, Step, Others
  <2>5. ASSUME Fork \/ Bind PROVE CancelsKnown'
    BY <2>5 DEF Fork, Bind, Step, Others
  <2>6. ASSUME NoticeStop \/ OwnStop PROVE CancelsKnown'
    BY <2>6 DEF NoticeStop, OwnStop, Override, Own, Result, Step, Others
  <2>7. ASSUME SeeExit PROVE CancelsKnown'
    BY <2>7 DEF SeeExit, Result, Others
  <2>8. ASSUME StopNative \/ Restore \/ CloseJournal PROVE CancelsKnown'
    BY <2>8 DEF StopNative, Restore, CloseJournal, Step, Others
  <2>9. ASSUME WriteResult \/ TakeStatus PROVE CancelsKnown'
    BY <2>9 DEF WriteResult, TakeStatus, Step, Others
  <2>10. ASSUME WriteFinal \/ CloseLock PROVE CancelsKnown'
    BY <2>10 DEF WriteFinal, CloseLock, Step, Others
  <2> QED  BY <1>3, <2>1, <2>2, <2>3, <2>4, <2>5, <2>6, <2>7, <2>8, <2>9, <2>10 DEF WorkerStep
<1>4. ASSUME Deadline \/ NativeEnds PROVE CancelsKnown'
  <2>1. ASSUME Deadline PROVE CancelsKnown'
    BY <2>1 DEF Deadline, Result, Others
  <2>2. ASSUME NativeEnds PROVE CancelsKnown'
    BY <2>2 DEF NativeEnds
  <2> QED  BY <1>4, <2>1, <2>2
<1>5. ASSUME Interrupt \/ Kill PROVE CancelsKnown'
  <2>1. ASSUME Interrupt PROVE CancelsKnown'
    BY <2>1 DEF Interrupt, Unhandled, Uncaught, CaughtByPlan, CaughtByWorker
  <2>2. ASSUME Kill PROVE CancelsKnown'
    BY <2>2 DEF Kill
  <2> QED  BY <1>5, <2>1, <2>2
<1>6. ASSUME NEW v \in Viewers, CancelStep(v) \/ ViewerDies(v) PROVE CancelsKnown'
  <2>1. ASSUME CheckJob(v) \/ LookForMarker(v) PROVE CancelsKnown'
    <3>1. CASE CheckJob(v)
      BY <3>1 DEF CheckJob, Request, Quiet
    <3>2. CASE LookForMarker(v)
      BY <3>2 DEF LookForMarker, Request, Quiet
    <3> QED  BY <2>1, <3>1, <3>2
  <2>2. ASSUME TouchCancel(v) PROVE CancelsKnown'
    BY <2>2 DEF TouchCancel, Request, Quiet
  <2>3. ASSUME LookForState(v) PROVE CancelsKnown'
    BY <2>3 DEF LookForState, NeedsSignal, Request, Quiet
  <2>4. ASSUME Signal(v) PROVE CancelsKnown'
    BY <2>4 DEF Signal, Request, Quiet
  <2>5. ASSUME ViewerDies(v) PROVE CancelsKnown'
    BY <2>5 DEF ViewerDies, Request, Quiet
  <2> QED  BY <1>6, <2>1, <2>2, <2>3, <2>4, <2>5 DEF CancelStep
<1>7. ASSUME RequestStop PROVE CancelsKnown'
  BY <1>7 DEF RequestStop
<1>8. ASSUME MonitorStep PROVE CancelsKnown'
  <2>1. ASSUME ReadState PROVE CancelsKnown'
    BY <2>1 DEF ReadState, Watch
  <2>2. ASSUME ReadIdentity PROVE CancelsKnown'
    BY <2>2 DEF ReadIdentity, Watch
  <2>3. ASSUME FindWorker PROVE CancelsKnown'
    BY <2>3 DEF FindWorker, WorkerFound, Report, Watch
  <2>4. ASSUME ScanNatives PROVE CancelsKnown'
    BY <2>4 DEF ScanNatives, Report, Watch
  <2> QED  BY <1>8, <2>1, <2>2, <2>3, <2>4 DEF MonitorStep
<1>9. ASSUME UNCHANGED jobVars PROVE CancelsKnown'
  BY <1>9 DEF jobVars
<1> QED  BY <1>1, <1>2, <1>3, <1>4, <1>5, <1>6, <1>7, <1>8, <1>9 DEF JobNext

(* Whatever runs or is overridden at an end of its own course is known and cleaned up. *)
LEMMA CleansUpStep == JobInv /\ [JobNext]_jobVars => CleansUp'
<1> SUFFICES ASSUME JobInv, [JobNext]_jobVars PROVE CleansUp'
  OBVIOUS
<1> USE DEF JobInv, HandedOver, StateTells, CleansUp, OverrideKnown, SolverKnown, Clean, StepsOK, StatusOK, SetsOK, TypeParts, Early, Late, Reports, Ended, Final, Active, Gone, Starting, Staging, Cleaning, Alive, lvars, wvars, Unread
<1>1. ASSUME LauncherStep PROVE CleansUp'
  <2>1. ASSUME Reserve \/ WriteRequest PROVE CleansUp'
    BY <2>1 DEF Reserve, WriteRequest, Launch
  <2>2. ASSUME Spawn PROVE CleansUp'
    BY <2>2 DEF Spawn, Launch
  <2>3. ASSUME WriteIdentity PROVE CleansUp'
    BY <2>3 DEF WriteIdentity, Launch
  <2>4. ASSUME ReleaseGuard \/ TouchStart \/ ChildWaited PROVE CleansUp'
    BY <2>4 DEF ReleaseGuard, TouchStart, ChildWaited, Launch
  <2> QED  BY <1>1, <2>1, <2>2, <2>3, <2>4 DEF LauncherStep
<1>2. ASSUME LaunchFails \/ LauncherDies PROVE CleansUp'
  <2>1. ASSUME LaunchFails PROVE CleansUp'
    BY <2>1 DEF LaunchFails
  <2>2. ASSUME LauncherDies PROVE CleansUp'
    BY <2>2 DEF LauncherDies, LauncherGuards
  <2> QED  BY <1>2, <2>1, <2>2
<1>3. ASSUME WorkerStep PROVE CleansUp'
  <2>1. ASSUME InstallHandlers \/ WriteStarting \/ SeeStart PROVE CleansUp'
    BY <2>1 DEF InstallHandlers, WriteStarting, SeeStart, StartSeen, Step, Others
  <2>2. ASSUME HandoffTimeout \/ CheckCancel PROVE CleansUp'
    BY <2>2 DEF HandoffTimeout, CheckCancel, CancelSeen, EndWith, Step, Others
  <2>3. ASSUME WriteRunning \/ EnterStage PROVE CleansUp'
    BY <2>3 DEF WriteRunning, EnterStage, EndWith, Step, Others
  <2>4. ASSUME ApplyControls \/ OwnControls PROVE CleansUp'
    BY <2>4 DEF ApplyControls, OwnControls, Override, Own, Result, Step, Others
  <2>5. ASSUME Fork \/ Bind PROVE CleansUp'
    BY <2>5 DEF Fork, Bind, Step, Others
  <2>6. ASSUME NoticeStop \/ OwnStop PROVE CleansUp'
    BY <2>6 DEF NoticeStop, OwnStop, Override, Own, Result, Step, Others
  <2>7. ASSUME SeeExit PROVE CleansUp'
    BY <2>7 DEF SeeExit, Result, Others
  <2>8. ASSUME StopNative \/ Restore \/ CloseJournal PROVE CleansUp'
    BY <2>8 DEF StopNative, Restore, CloseJournal, Step, Others
  <2>9. ASSUME WriteResult \/ TakeStatus PROVE CleansUp'
    BY <2>9 DEF WriteResult, TakeStatus, Step, Others
  <2>10. ASSUME WriteFinal \/ CloseLock PROVE CleansUp'
    BY <2>10 DEF WriteFinal, CloseLock, Step, Others
  <2> QED  BY <1>3, <2>1, <2>2, <2>3, <2>4, <2>5, <2>6, <2>7, <2>8, <2>9, <2>10 DEF WorkerStep
<1>4. ASSUME Deadline \/ NativeEnds PROVE CleansUp'
  <2>1. ASSUME Deadline PROVE CleansUp'
    BY <2>1 DEF Deadline, Result, Others
  <2>2. ASSUME NativeEnds PROVE CleansUp'
    BY <2>2 DEF NativeEnds
  <2> QED  BY <1>4, <2>1, <2>2
<1>5. ASSUME Interrupt \/ Kill PROVE CleansUp'
  <2>1. ASSUME Interrupt PROVE CleansUp'
    BY <2>1 DEF Interrupt, Unhandled, Uncaught, CaughtByPlan, CaughtByWorker
  <2>2. ASSUME Kill PROVE CleansUp'
    BY <2>2 DEF Kill
  <2> QED  BY <1>5, <2>1, <2>2
<1>6. ASSUME NEW v \in Viewers, CancelStep(v) \/ ViewerDies(v) PROVE CleansUp'
  <2>1. ASSUME CheckJob(v) \/ LookForMarker(v) PROVE CleansUp'
    BY <2>1 DEF CheckJob, LookForMarker, Request, Quiet
  <2>2. ASSUME TouchCancel(v) PROVE CleansUp'
    BY <2>2 DEF TouchCancel, Request, Quiet
  <2>3. ASSUME LookForState(v) PROVE CleansUp'
    BY <2>3 DEF LookForState, NeedsSignal, Request, Quiet
  <2>4. ASSUME Signal(v) PROVE CleansUp'
    BY <2>4 DEF Signal, Request, Quiet
  <2>5. ASSUME ViewerDies(v) PROVE CleansUp'
    BY <2>5 DEF ViewerDies, Request, Quiet
  <2> QED  BY <1>6, <2>1, <2>2, <2>3, <2>4, <2>5 DEF CancelStep
<1>7. ASSUME RequestStop PROVE CleansUp'
  BY <1>7 DEF RequestStop
<1>8. ASSUME MonitorStep PROVE CleansUp'
  <2>1. ASSUME ReadState PROVE CleansUp'
    BY <2>1 DEF ReadState, Watch
  <2>2. ASSUME ReadIdentity PROVE CleansUp'
    BY <2>2 DEF ReadIdentity, Watch
  <2>3. ASSUME FindWorker PROVE CleansUp'
    BY <2>3 DEF FindWorker, WorkerFound, Report, Watch
  <2>4. ASSUME ScanNatives PROVE CleansUp'
    BY <2>4 DEF ScanNatives, Report, Watch
  <2> QED  BY <1>8, <2>1, <2>2, <2>3, <2>4 DEF MonitorStep
<1>9. ASSUME UNCHANGED jobVars PROVE CleansUp'
  BY <1>9 DEF jobVars
<1> QED  BY <1>1, <1>2, <1>3, <1>4, <1>5, <1>6, <1>7, <1>8, <1>9 DEF JobNext

(* A report of an interrupted job stays true. *)
LEMMA ReportsTrueStep == JobInv /\ [JobNext]_jobVars => ReportsTrue'
<1> SUFFICES ASSUME JobInv, [JobNext]_jobVars PROVE ReportsTrue'
  OBVIOUS
<1> USE DEF JobInv, TypeParts, HandedOver, CleansUp, ReportsTrue, StepsOK, StatusOK, SetsOK, MonitorOK, Early, Late, Reports, Ended, Final, Active, Gone, Starting, Staging, Cleaning, Alive, lvars, wvars, Unread
<1>1. ASSUME LauncherStep PROVE ReportsTrue'
  <2>1. ASSUME Reserve \/ WriteRequest PROVE ReportsTrue'
    BY <2>1 DEF Reserve, WriteRequest, Launch
  <2>2. ASSUME Spawn PROVE ReportsTrue'
    BY <2>2 DEF Spawn, Launch
  <2>3. ASSUME WriteIdentity PROVE ReportsTrue'
    BY <2>3 DEF WriteIdentity, Launch
  <2>4. ASSUME ReleaseGuard \/ TouchStart \/ ChildWaited PROVE ReportsTrue'
    BY <2>4 DEF ReleaseGuard, TouchStart, ChildWaited, Launch
  <2> QED  BY <1>1, <2>1, <2>2, <2>3, <2>4 DEF LauncherStep
<1>2. ASSUME LaunchFails \/ LauncherDies PROVE ReportsTrue'
  <2>1. ASSUME LaunchFails PROVE ReportsTrue'
    BY <2>1 DEF LaunchFails
  <2>2. ASSUME LauncherDies PROVE ReportsTrue'
    BY <2>2 DEF LauncherDies, LauncherGuards
  <2> QED  BY <1>2, <2>1, <2>2
<1>3. ASSUME WorkerStep PROVE ReportsTrue'
  <2>1. ASSUME InstallHandlers \/ WriteStarting \/ SeeStart PROVE ReportsTrue'
    BY <2>1 DEF InstallHandlers, WriteStarting, SeeStart, StartSeen, Step, Others
  <2>2. ASSUME HandoffTimeout \/ CheckCancel PROVE ReportsTrue'
    BY <2>2 DEF HandoffTimeout, CheckCancel, CancelSeen, EndWith, Step, Others
  <2>3. ASSUME WriteRunning \/ EnterStage PROVE ReportsTrue'
    BY <2>3 DEF WriteRunning, EnterStage, EndWith, Step, Others
  <2>4. ASSUME ApplyControls \/ OwnControls PROVE ReportsTrue'
    BY <2>4 DEF ApplyControls, OwnControls, Override, Own, Result, Step, Others
  <2>5. ASSUME Fork \/ Bind PROVE ReportsTrue'
    BY <2>5 DEF Fork, Bind, Step, Others
  <2>6. ASSUME NoticeStop \/ OwnStop PROVE ReportsTrue'
    BY <2>6 DEF NoticeStop, OwnStop, Override, Own, Result, Step, Others
  <2>7. ASSUME SeeExit PROVE ReportsTrue'
    BY <2>7 DEF SeeExit, Result, Others
  <2>8. ASSUME StopNative \/ Restore \/ CloseJournal PROVE ReportsTrue'
    BY <2>8 DEF StopNative, Restore, CloseJournal, Step, Others
  <2>9. ASSUME WriteResult \/ TakeStatus PROVE ReportsTrue'
    BY <2>9 DEF WriteResult, TakeStatus, Step, Others
  <2>10. ASSUME WriteFinal \/ CloseLock PROVE ReportsTrue'
    BY <2>10 DEF WriteFinal, CloseLock, Step, Others
  <2> QED  BY <1>3, <2>1, <2>2, <2>3, <2>4, <2>5, <2>6, <2>7, <2>8, <2>9, <2>10 DEF WorkerStep
<1>4. ASSUME Deadline \/ NativeEnds PROVE ReportsTrue'
  <2>1. ASSUME Deadline PROVE ReportsTrue'
    BY <2>1 DEF Deadline, Result, Others
  <2>2. ASSUME NativeEnds PROVE ReportsTrue'
    BY <2>2 DEF NativeEnds
  <2> QED  BY <1>4, <2>1, <2>2
<1>5. ASSUME Interrupt \/ Kill PROVE ReportsTrue'
  <2>1. ASSUME Interrupt PROVE ReportsTrue'
    BY <2>1 DEF Interrupt, Unhandled, Uncaught, CaughtByPlan, CaughtByWorker
  <2>2. ASSUME Kill PROVE ReportsTrue'
    BY <2>2 DEF Kill
  <2> QED  BY <1>5, <2>1, <2>2
<1>6. ASSUME NEW v \in Viewers, CancelStep(v) \/ ViewerDies(v) PROVE ReportsTrue'
  <2>1. ASSUME CheckJob(v) \/ LookForMarker(v) PROVE ReportsTrue'
    BY <2>1 DEF CheckJob, LookForMarker, Request, Quiet
  <2>2. ASSUME TouchCancel(v) PROVE ReportsTrue'
    BY <2>2 DEF TouchCancel, Request, Quiet
  <2>3. ASSUME LookForState(v) PROVE ReportsTrue'
    BY <2>3 DEF LookForState, NeedsSignal, Request, Quiet
  <2>4. ASSUME Signal(v) PROVE ReportsTrue'
    BY <2>4 DEF Signal, Request, Quiet
  <2>5. ASSUME ViewerDies(v) PROVE ReportsTrue'
    BY <2>5 DEF ViewerDies, Request, Quiet
  <2> QED  BY <1>6, <2>1, <2>2, <2>3, <2>4, <2>5 DEF CancelStep
<1>7. ASSUME RequestStop PROVE ReportsTrue'
  BY <1>7 DEF RequestStop
<1>8. ASSUME MonitorStep PROVE ReportsTrue'
  <2>1. ASSUME ReadState PROVE ReportsTrue'
    BY <2>1 DEF ReadState, Watch
  <2>2. ASSUME ReadIdentity PROVE ReportsTrue'
    <3>1. monitor' = [at |-> "process", state |-> monitor.state,
                      identity |-> ("process" \in files), report |-> monitor.report]
      BY <2>2 DEF ReadIdentity, Watch
    <3>2. /\ monitor'.at = "process" /\ monitor'.report = monitor.report
          /\ monitor'.identity = ("process" \in files)
      BY <3>1
    <3>3. monitor.report = "none" /\ files' = files /\ worker' = worker /\ native' = native
      BY <2>2 DEF ReadIdentity, Watch
    <3>4. CASE "process" \in files
      BY <3>2, <3>3, <3>4
    <3>5. CASE "process" \notin files
      BY <3>2, <3>3, <3>5
    <3> QED  BY <3>4, <3>5
  <2>3. ASSUME FindWorker PROVE ReportsTrue'
    BY <2>3 DEF FindWorker, WorkerFound, Report, Watch
  <2>4. ASSUME ScanNatives PROVE ReportsTrue'
    BY <2>4 DEF ScanNatives, Report, Watch
  <2> QED  BY <1>8, <2>1, <2>2, <2>3, <2>4 DEF MonitorStep
<1>9. ASSUME UNCHANGED jobVars PROVE ReportsTrue'
  BY <1>9 DEF jobVars
<1> QED  BY <1>1, <1>2, <1>3, <1>4, <1>5, <1>6, <1>7, <1>8, <1>9 DEF JobNext

(* The invariant holds for any set of viewers. *)
THEOREM JobInvariant == JobSpec => []JobInv
<1>1. JobInv /\ [JobNext]_jobVars => JobInv'
  BY StepsStep, StatusStep, SetsStep, ViewersStep, MonitorTypeStep, HandedOverStep, StateTellsStep, CancelsKnownStep, CleansUpStep,
     ReportsTrueStep DEF JobInv, TypeParts
<1> QED  BY InitJobInv, <1>1, PTL DEF JobSpec

(* A job that failed to launch, or was cancelled before it had a state, never starts the
   solver, and a worker meets no launcher at its guard (launch_job, cancel_job). *)
THEOREM FailedLaunchesNeverRun == JobSpec => []LaunchSafe
<1>1. JobInv => LaunchSafe
  <2> SUFFICES ASSUME JobInv PROVE LaunchSafe
    OBVIOUS
  <2> USE DEF JobInv, HandedOver
  <2>1. EarlyCancelHolds
    BY DEF EarlyCancelHolds, CancelsKnown
  <2>2. worker = "guard" => ~LauncherGuards
    BY DEF LauncherGuards, Early, Late, Gone
  <2>3. JobTypeOK
    BY DEF TypeParts, StepsOK, StatusOK, SetsOK, ViewersOK, MonitorOK, JobTypeOK, Reports
  <2> QED  BY <2>1, <2>2, <2>3 DEF LaunchSafe
<1> QED  BY <1>1, JobInvariant, PTL

(* No cancel request kills a worker that has no handlers yet (cancel_job). *)
THEOREM CancelsSpareBoot == JobSpec => []CancelSparesBoot
<1>1. JobInv => CancelSparesBoot
  BY DEF JobInv, CancelsKnown
<1> QED  BY <1>1, JobInvariant, PTL

(* A job shown as succeeded, stopped, failed or timed out has left neither override nor
   solver, and one shown as interrupted is gone (run_plan, snapshot_job).  Nothing is said
   of cancelled jobs and runner errors. *)
THEOREM EndedJobsAreClean == JobSpec => []EndedIsClean
<1>1. JobInv => EndedIsClean
  BY DEF JobInv, CleansUp, Clean, ReportsTrue, EndedIsClean
<1> QED  BY <1>1, JobInvariant, PTL

-----------------------------------------------------------------------------
(* Temporary overrides: what a control file holds. *)

LEMMA TextIs ==
    /\ \A f \in Files : Text(f) \in [Keys -> Values] /\ (f # NoFile => Text(f) = f)
    /\ \A k \in Keys : Text(NoFile)[k] = Unset
    /\ \A f, v : Patched(f, v) = [k \in Keys |-> IF k \in DOMAIN v THEN v[k] ELSE Text(f)[k]]
BY DEF Text, Files, Empty, Values, Unset, Patched

(* A text the runner computes is a file, and one that exists if it sets anything. *)
LEMMA PatchedIs ==
    ASSUME NEW f \in Files, NEW S \in SUBSET Keys, NEW v \in [S -> Values]
    PROVE  /\ Patched(f, v) \in [Keys -> Values]
           /\ Keys # {} => Patched(f, v) # NoFile
           /\ \A k \in Keys : Text(Patched(f, v))[k] = IF k \in S THEN v[k] ELSE Text(f)[k]
<1>1. Patched(f, v) \in [Keys -> Values]
  BY TextIs
<1>2. Keys # {} => Patched(f, v) # NoFile
  BY <1>1 DEF NoFile, Values, Unset
<1>3. Text(Patched(f, v)) = Patched(f, v)
  <2>1. CASE Keys = {}
    BY <1>1, <2>1 DEF Text, Empty
  <2>2. CASE Keys # {}
    BY <1>1, <1>2, <2>2 DEF Text
  <2> QED  BY <2>1, <2>2
<1> QED  BY <1>1, <1>2, <1>3, TextIs

(* What a user has edited and what an override sets, as functions. *)
LEMMA MarksAre ==
    ControlTypes =>
        /\ DOMAIN edited \subseteq Keys
        /\ \A k \in DOMAIN edited : edited[k] \in {Unset, "user", "twice"}
        /\ asked \in [DOMAIN asked -> {Unset, "own", "set", "set again"}]
        /\ DOMAIN asked \subseteq Keys
<1> SUFFICES ASSUME ControlTypes
             PROVE  /\ DOMAIN edited \subseteq Keys
                    /\ \A k \in DOMAIN edited : edited[k] \in {Unset, "user", "twice"}
                    /\ asked \in [DOMAIN asked -> {Unset, "own", "set", "set again"}]
                    /\ DOMAIN asked \subseteq Keys
  OBVIOUS
<1>1. PICK S \in SUBSET Keys : edited \in [S -> {Unset, "user", "twice"}]
  BY DEF ControlTypes
<1>2. PICK R \in SUBSET Keys : asked \in [R -> {Unset, "own", "set", "set again"}]
  BY DEF ControlTypes
<1> QED  BY <1>1, <1>2

LEMMA InitControl == ControlInit => ControlInv
<1> SUFFICES ASSUME ControlInit PROVE ControlInv
  OBVIOUS
<1> USE DEF ControlInit
<1>1. file \in [Keys -> {"own", Unset}] \cup {NoFile} /\ edited = <<>> /\ asked = <<>>
  OBVIOUS
<1>2. ControlTypes
  <2>1. file \in Files /\ NoFile \in Files
    BY DEF Files, Values
  <2>2. <<>> \in [{} -> {Unset, "user", "twice"}] /\ <<>> \in [{} -> {Unset, "own", "set", "set again"}]
    OBVIOUS
  <2>3. /\ edited \in UNION {[S -> {Unset, "user", "twice"}] : S \in SUBSET Keys}
        /\ asked \in UNION {[S -> {Unset, "own", "set", "set again"}] : S \in SUBSET Keys}
    <3>1. {} \in SUBSET Keys
      OBVIOUS
    <3> QED  BY <1>1, <2>2, <3>1
  <2>4. {file, original, effective, read, text} \subseteq Files
    BY <2>1
  <2>5. applied \in 0..MaxApplied /\ edits \in 0..MaxEdits
    BY ControlAssumption
  <2> QED  BY <2>3, <2>4, <2>5 DEF ControlTypes
<1>3. \A k \in Keys : Text(file)[k] \notin Set
  BY <1>1, TextIs DEF Text, Set, Unset, Empty
<1>4. Held = {} /\ Left = file
  BY DEF Held, Left
<1>5. LeftTrue
  BY <1>1, <1>4 DEF LeftTrue
<1>6. AskedTrue
  BY <1>4 DEF AskedTrue
<1>7. FileTrue
  BY <1>1, <1>3, <1>4 DEF FileTrue
<1> QED  BY <1>2, <1>5, <1>6, <1>7 DEF ControlInv, ControlsReturned, EditsKept, OverridesGone

-----------------------------------------------------------------------------
(* Every step keeps the types. *)

LEMMA ControlTypesStep == ControlInv /\ [ControlNext]_controlVars => ControlTypes'
<1> SUFFICES ASSUME ControlInv, [ControlNext]_controlVars PROVE ControlTypes'
  OBVIOUS
<1>0. ControlTypes /\ AskedTrue
  BY DEF ControlInv, ControlsReturned, EditsKept
<1>m. NoFile \in Files /\ MaxApplied \in Nat /\ MaxEdits \in Nat
  BY ControlAssumption DEF Files
<1>t. applied \in 0..MaxApplied /\ edits \in 0..MaxEdits
  BY <1>0 DEF ControlTypes
<1>r. raced \in BOOLEAN /\ cut \in BOOLEAN
  BY <1>0 DEF ControlTypes
<1>1. CASE Edit
  <2> USE DEF Edit
  <2>1. UNCHANGED <<step, fields, local, conflicts, applied, cut>> /\ edits' \in 0..MaxEdits /\ raced' \in BOOLEAN
    <3>1. UNCHANGED <<step, fields, local, conflicts, applied, cut>>
      BY <1>1
    <3>2. edits' \in 0..MaxEdits
      <4>1. edits < MaxEdits /\ edits' = edits + 1
        BY <1>1
      <4> QED  BY <1>t, <1>m, <4>1
    <3>3. raced' \in BOOLEAN
      BY <1>1, Zenon
    <3> QED  BY <3>1, <3>2, <3>3
  <2>2. file' \in Files /\ edited' \in UNION {[S -> {Unset, "user", "twice"}] : S \in SUBSET Keys}
    <3>1. CASE file' = NoFile /\ edited' = Empty
      <4>1. Empty \in [Keys -> {Unset, "user", "twice"}] /\ Keys \in SUBSET Keys
        BY DEF Empty
      <4> QED  BY <3>1, <4>1, <1>m
    <3>2. CASE \E k \in Keys, v \in {Unset, "user", "twice"} :
            file' = [file EXCEPT ![k] = v] /\ edited' = [j \in DOMAIN edited \cup {k} |-> IF j = k THEN v ELSE edited[j]]
      <4>1. PICK k \in Keys, v \in {Unset, "user", "twice"} :
              file' = [file EXCEPT ![k] = v] /\ edited' = [j \in DOMAIN edited \cup {k} |-> IF j = k THEN v ELSE edited[j]]
        BY <3>2
      <4>2. file' \in Files
        BY <1>0, <1>1, <4>1 DEF ControlTypes, Files, Values
      <4>3. PICK S \in SUBSET Keys : edited \in [S -> {Unset, "user", "twice"}]
        BY <1>0 DEF ControlTypes
      <4>4. edited' = [j \in {k} \cup S |-> IF j = k THEN v ELSE edited[j]]
        BY <4>1, <4>3
      <4>5. edited' \in [{k} \cup S -> {Unset, "user", "twice"}] /\ {k} \cup S \in SUBSET Keys
        BY <4>3, <4>4
      <4> QED  BY <4>2, <4>5
    <3> QED  BY <1>1, <3>1, <3>2
  <2>3. overridden' \subseteq Keys
    BY <1>0, <1>1 DEF ControlTypes
  <2> QED  BY <1>0, <2>1, <2>2, <2>3 DEF ControlTypes, fields, local
<1>2. CASE BeginApply
  <2>1. asked' \in UNION {[R -> {Unset, "own", "set", "set again"}] : R \in SUBSET Keys}
    <3>1. PICK S \in SUBSET Keys, v \in {"set", "set again"}, back \in {owned, {}} :
            asked' = [k \in S \cup back |-> IF k \in S THEN v ELSE Text(original)[k]]
      BY <1>0, <1>2 DEF BeginApply, ControlTypes
    <3>2. \A k \in Keys : Text(original)[k] \in {"own", Unset}
      BY <1>0, TextIs DEF ControlInv, LeftTrue, Text, Empty
    <3>3. asked' \in [S \cup back -> {Unset, "own", "set", "set again"}] /\ S \cup back \in SUBSET Keys
      BY <1>0, <3>1, <3>2 DEF ControlTypes
    <3> QED  BY <3>3
  <2>2. applied < MaxApplied /\ applied' = applied + 1 /\ step' = "applying"
    BY <1>2 DEF BeginApply
  <2>3. applied' \in 0..MaxApplied
    BY <1>t, <1>m, <2>2
  <2>4. UNCHANGED <<file, fields, read, text, conflicts, edits, marks>>
    BY <1>2 DEF BeginApply
  <2> QED  BY <1>0, <2>1, <2>2, <2>3, <2>4 DEF ControlTypes, fields, marks
<1>3. CASE ReadFile
  <2>1. Patched(file, asked) \in Files
    <3>1. PICK S \in SUBSET Keys : asked \in [S -> {Unset, "own", "set", "set again"}]
      BY <1>0 DEF ControlTypes
    <3>2. asked \in [S -> Values] /\ file \in Files
      BY <1>0, <3>1 DEF Values, ControlTypes
    <3>3. Patched(file, asked) \in [Keys -> Values]
      BY <3>2, PatchedIs
    <3> QED  BY <3>3 DEF Files
  <2>2. text' \in Files /\ read' \in Files /\ step' \in {"idle", "writing"} /\ applied' \in 0..MaxApplied
    <3>1. /\ read' = file /\ step' \in {"idle", "writing"}
          /\ text' \in {text, Patched(file, asked)} /\ applied' \in {applied, MaxApplied}
      BY <1>3 DEF ReadFile
    <3>2. text \in Files /\ file \in Files
      BY <1>0 DEF ControlTypes
    <3> QED  BY <1>t, <1>m, <2>1, <3>1, <3>2
  <2>3. UNCHANGED <<file, fields, asked, conflicts, edits, marks>>
    BY <1>3 DEF ReadFile
  <2> QED  BY <1>0, <2>2, <2>3 DEF ControlTypes, fields, marks
<1>4. CASE WriteFile
  <2>1. overridden' \subseteq Keys
    BY <1>0, <1>4, MarksAre DEF WriteFile, Taken, ControlTypes
  <2> QED  BY <1>0, <1>4, <2>1 DEF WriteFile, ControlTypes, local
<1>5. CASE Remember
  <2>1. owned' \subseteq Keys
    BY <1>0, <1>5, MarksAre DEF Remember, Owned, ControlTypes
  <2> QED  BY <1>0, <1>5, <2>1 DEF Remember, ControlTypes, local, marks
<1>6. CASE CutShort
  <2>1. cut' \in BOOLEAN
    BY <1>6, Zenon DEF CutShort
  <2>2. /\ step' = "idle" /\ applied' = MaxApplied
        /\ UNCHANGED <<file, fields, local, conflicts, edits, edited, overridden, raced>>
    BY <1>6 DEF CutShort
  <2>3. applied' \in 0..MaxApplied /\ edits' \in 0..MaxEdits
    BY <1>t, <1>m, <2>2
  <2>4. UNCHANGED <<file, original, effective, owned, external, read, text, asked, conflicts, edited, overridden, raced>>
    BY <2>2 DEF fields, local
  <2> QED  BY <1>0, <2>1, <2>2, <2>3, <2>4 DEF ControlTypes
<1>7. CASE BeginRestore
  <2> DEFINE bad == {k \in owned : Disputed(file, k)}
             back == [k \in owned \ bad |-> Value(original, k)]
  <2>1. original \in [Keys -> {"own", Unset}] \cup {NoFile}
    BY DEF ControlInv, LeftTrue
  <2>2. \A k \in Keys : Value(original, k) \in Values
    BY <2>1, TextIs DEF Value, Values, Text, Empty, Unset
  <2>3. Patched(file, back) \in Files /\ bad \subseteq Keys
    <3>1. back \in [owned \ bad -> Values] /\ owned \ bad \in SUBSET Keys
      BY <1>0, <2>2 DEF ControlTypes
    <3>2. Patched(file, back) \in [Keys -> Values]
      <4> HIDE DEF back, bad
      <4> QED  BY <1>0, <3>1, PatchedIs DEF ControlTypes
    <3> QED  BY <1>0, <3>2 DEF Files, ControlTypes
  <2>4. /\ step' \in {"done", "undoing"} /\ conflicts' \in {{}, {"file"}, bad}
        /\ text' \in {text, original, Patched(file, back)} /\ read' \in {read, file}
    BY <1>7 DEF BeginRestore, Finish
  <2>5. UNCHANGED <<file, fields, asked, applied, edits, marks>>
    BY <1>7 DEF BeginRestore
  <2> HIDE DEF bad, back
  <2>6. conflicts' \subseteq Keys \cup {"file"} /\ text' \in Files /\ read' \in Files
    BY <1>0, <2>3, <2>4 DEF ControlTypes
  <2> QED  BY <1>0, <2>4, <2>5, <2>6 DEF ControlTypes, fields, marks
<1>8. CASE GiveBack
  BY <1>0, <1>8 DEF GiveBack, ControlTypes, local, fields, marks
<1>9. CASE RestoreFails
  BY <1>0, <1>9 DEF RestoreFails, ControlTypes, local, fields
<1>10. CASE UNCHANGED controlVars
  BY <1>0, <1>10 DEF controlVars, ControlTypes, local, fields, marks
<1> QED
  BY <1>1, <1>2, <1>3, <1>4, <1>5, <1>6, <1>7, <1>8, <1>9, <1>10 DEF ControlNext

-----------------------------------------------------------------------------
(* Every step keeps the rest of the invariant: one lemma per action. *)

Rest == LeftTrue /\ AskedTrue /\ FileTrue /\ (step # "done" \/ (EditsKept /\ OverridesGone))

(* What the invariant says of the values. *)
LEMMA ValuesAre ==
    ControlInv =>
        /\ \A k \in Keys : Text(original)[k] \in {"own", Unset}
        /\ \A k \in Keys : Text(effective)[k] \in Values /\ Text(file)[k] \in Values
        /\ owned \subseteq Keys /\ ControlTypes
<1> SUFFICES ASSUME ControlInv
             PROVE  /\ \A k \in Keys : Text(original)[k] \in {"own", Unset}
                    /\ \A k \in Keys : Text(effective)[k] \in Values /\ Text(file)[k] \in Values
                    /\ owned \subseteq Keys /\ ControlTypes
  OBVIOUS
<1>1. ControlTypes /\ LeftTrue
  BY DEF ControlInv, ControlsReturned, EditsKept
<1>2. \A k \in Keys : Text(original)[k] \in {"own", Unset}
  BY <1>1, TextIs DEF LeftTrue, Text, Empty
<1>3. effective \in Files /\ file \in Files /\ owned \subseteq Keys
  BY <1>1 DEF ControlTypes
<1> QED  BY <1>1, <1>2, <1>3, TextIs

LEMMA EditStep == ControlInv /\ Edit => Rest'
<1> SUFFICES ASSUME ControlInv, Edit PROVE Rest'
  OBVIOUS
<1>0. LeftTrue /\ AskedTrue /\ FileTrue /\ ControlTypes
  BY ValuesAre DEF ControlInv
<1>1. UNCHANGED <<step, original, effective, owned, external, read, text, asked, conflicts, applied, cut>>
  BY DEF Edit, fields, local
<1>2. /\ step # "done" /\ file # NoFile /\ file \in [Keys -> Values]
      /\ raced' <=> (raced \/ step \in {"writing", "undoing"})
  BY <1>0 DEF Edit, ControlTypes, Files
<1>3. Left' = Left /\ Held' = Held
  BY <1>1 DEF Left, Held
<1>4. /\ edited' # <<>>
      /\ \A k \in Keys : Text(file')[k] \in Set => Text(file)[k] = Text(file')[k]
      /\ file' # NoFile => \A k \in DOMAIN edited' :
            \/ file'[k] = edited'[k]
            \/ /\ k \in DOMAIN edited /\ edited'[k] = edited[k] /\ file'[k] = file[k]
               /\ Text(file')[k] = Text(file)[k] /\ (k \in overridden' <=> k \in overridden)
  <2>1. CASE file' = NoFile /\ edited' = Empty /\ overridden' = {}
    <3>1. Keys # {}
      BY <1>2 DEF NoFile
    <3>2. Empty # <<>>
      BY <3>1 DEF Empty
    <3> QED  BY <2>1, <3>2, TextIs DEF Set, Unset
  <2>2. CASE \E k \in Keys, v \in {Unset, "user", "twice"} :
             /\ file' = [file EXCEPT ![k] = v] /\ overridden' = overridden \ {k}
             /\ edited' = [j \in DOMAIN edited \cup {k} |-> IF j = k THEN v ELSE edited[j]]
    <3>1. PICK k \in Keys, v \in {Unset, "user", "twice"} :
             /\ file' = [file EXCEPT ![k] = v] /\ overridden' = overridden \ {k}
             /\ edited' = [j \in DOMAIN edited \cup {k} |-> IF j = k THEN v ELSE edited[j]]
      BY <2>2
    <3>2. file' \in [Keys -> Values]
      BY <1>2, <3>1 DEF Values
    <3>3. file' # NoFile
      BY <3>2 DEF NoFile, Values, Unset
    <3>4. Text(file') = file' /\ Text(file) = file
      BY <1>2, <3>3 DEF Text
    <3>5. v \notin Set
      BY DEF Set, Unset
    <3>6. DOMAIN edited \subseteq Keys
      BY <1>0, MarksAre
    <3>7. \A j \in Keys : file'[j] = IF j = k THEN v ELSE file[j]
      BY <1>2, <3>1
    <3>8. edited' # <<>>
      BY <3>1
    <3>9. \A j \in DOMAIN edited' :
            \/ file'[j] = edited'[j]
            \/ /\ j \in DOMAIN edited /\ edited'[j] = edited[j] /\ file'[j] = file[j]
               /\ (j \in overridden' <=> j \in overridden)
      BY <3>1, <3>6, <3>7
    <3> QED  BY <3>4, <3>5, <3>7, <3>8, <3>9
  <2> QED  BY <2>1, <2>2 DEF Edit
<1>5. LeftTrue'
  BY <1>0, <1>1, <1>3 DEF LeftTrue
<1>6. AskedTrue'
  <2>1. ~raced' => step # "writing"
    BY <1>2
  <2> QED  BY <1>0, <1>1, <1>3, <2>1 DEF AskedTrue, KeysChecked, Disputed, Value
<1>7. FileTrue'
  <2>1. ASSUME ~cut, step \notin {"undoing", "done"}
        PROVE  /\ \A k \in Keys : Text(file')[k] \in Set => k \in Held /\ Text(file')[k] = Text(Left)[k]
               /\ Left # NoFile
               /\ ~raced' /\ file' # NoFile => \A k \in DOMAIN edited' \ overridden' :
                    \/ file'[k] = edited'[k]
                    \/ /\ k \in Held /\ Text(file')[k] = Text(Left)[k]
                       /\ edited'[k] = Unset /\ Text(original)[k] = Unset
    BY <1>0, <1>2, <1>4, <2>1 DEF FileTrue
  <2>2. ASSUME ~cut, step = "undoing"
        PROVE  raced' /\ \A k \in Keys : Text(text)[k] \notin Set
    BY <1>0, <1>2, <2>2 DEF FileTrue
  <2> QED  BY <1>1, <1>3, <1>4, <2>1, <2>2 DEF FileTrue
<1> QED  BY <1>1, <1>2, <1>5, <1>6, <1>7 DEF Rest

LEMMA BeginApplyStep == ControlInv /\ BeginApply => Rest'
<1> SUFFICES ASSUME ControlInv, BeginApply PROVE Rest'
  OBVIOUS
<1>0. LeftTrue /\ AskedTrue /\ FileTrue /\ ControlTypes
  BY ValuesAre DEF ControlInv
<1>1. UNCHANGED <<file, original, effective, owned, external, read, text, conflicts, edits, edited, overridden, raced, cut>>
  BY DEF BeginApply, fields, marks
<1>2. step = "idle" /\ step' = "applying" /\ applied' = applied + 1
  BY DEF BeginApply
<1>3. Left' = Left /\ Held' = Held
  BY <1>1, <1>2 DEF Left, Held
<1>4. PICK S \in SUBSET Keys, v \in Set, back \in SUBSET owned :
        S # {} /\ asked' = [k \in S \cup back |-> IF k \in S THEN v ELSE Text(original)[k]]
  BY DEF BeginApply, Set
<1>5. DOMAIN asked' # {} /\ \A k \in DOMAIN asked' : asked'[k] \in Set \cup {Text(original)[k]}
  BY <1>4
<1>7. applied' # 0
  <2>1. applied \in 0..MaxApplied /\ MaxApplied \in Nat
    BY <1>0, ControlAssumption DEF ControlTypes
  <2> QED  BY <1>2, <2>1
<1>8. AskedTrue'
  BY <1>1, <1>2, <1>5, <1>7 DEF AskedTrue
<1>9. LeftTrue' /\ FileTrue'
  BY <1>0, <1>1, <1>2, <1>3 DEF LeftTrue, FileTrue
<1> QED  BY <1>2, <1>8, <1>9 DEF Rest

LEMMA ReadFileStep == ControlInv /\ ReadFile => Rest'
<1> SUFFICES ASSUME ControlInv, ReadFile PROVE Rest'
  OBVIOUS
<1>0. LeftTrue /\ AskedTrue /\ FileTrue /\ ControlTypes
  BY ValuesAre DEF ControlInv
<1>1. UNCHANGED <<file, original, effective, owned, external, asked, conflicts, edits, edited, overridden, raced, cut>>
  BY DEF ReadFile, fields, marks
<1>2. step = "applying" /\ step' \in {"idle", "writing"} /\ read' = file
  BY DEF ReadFile
<1>3. Left' = Left /\ Held' = Held /\ Left = effective /\ Held = owned
  BY <1>1, <1>2 DEF Left, Held
<1>4. LeftTrue' /\ FileTrue'
  BY <1>0, <1>1, <1>2, <1>3 DEF LeftTrue, FileTrue
<1>5. applied # 0 /\ applied' # 0
  <2>1. applied # 0
    BY <1>0, <1>2 DEF AskedTrue
  <2>2. applied \in 0..MaxApplied /\ MaxApplied \in Nat
    BY <1>0, ControlAssumption DEF ControlTypes
  <2>3. MaxApplied # 0
    BY <2>1, <2>2
  <2>4. applied' \in {applied, MaxApplied}
    BY DEF ReadFile
  <2> QED  BY <2>1, <2>3, <2>4
<1>6. ASSUME step' = "writing"
      PROVE  /\ text' = Patched(file, asked) /\ (file = NoFile => effective = NoFile)
             /\ \A k \in KeysChecked : ~Disputed(file, k)
  BY <1>2, <1>6 DEF ReadFile
<1>7. ~cut => \A k \in Keys : Text(file)[k] \in Set => k \in owned
  BY <1>0, <1>2, <1>3 DEF FileTrue
<1>8. KeysChecked' = KeysChecked /\ \A k : Disputed(read, k)' <=> Disputed(file, k)
  BY <1>1, <1>2 DEF KeysChecked, Disputed, Value
<1>9. DOMAIN asked # {} /\ \A k \in DOMAIN asked : asked[k] \in Set \cup {Text(original)[k]}
  BY <1>0, <1>2 DEF AskedTrue
<1>10. AskedTrue'
  BY <1>1, <1>2, <1>5, <1>6, <1>7, <1>8, <1>9 DEF AskedTrue
<1> QED  BY <1>2, <1>4, <1>10 DEF Rest

LEMMA WriteFileStep == ControlInv /\ WriteFile => Rest'
<1> SUFFICES ASSUME ControlInv, WriteFile PROVE Rest'
  OBVIOUS
<1>0. LeftTrue /\ AskedTrue /\ FileTrue /\ ControlTypes
  BY ValuesAre DEF ControlInv
<1>1. UNCHANGED <<original, effective, owned, read, text, asked, conflicts, applied, edits, edited, raced, cut>>
  BY DEF WriteFile, local
<1>2. /\ step = "writing" /\ step' = "applied" /\ file' = text /\ (external' <=> (external \/ read # effective))
      /\ overridden' = overridden \cup Taken
  BY DEF WriteFile
<1>3. Left' = text /\ Held' = owned \cup DOMAIN asked /\ Left = effective /\ Held = owned
  BY <1>1, <1>2 DEF Left, Held
<1>4. /\ DOMAIN asked # {} /\ \A k \in DOMAIN asked : asked[k] \in Set \cup {Text(original)[k]}
      /\ text = Patched(read, asked) /\ (read = NoFile => effective = NoFile)
      /\ \A k \in owned \cup DOMAIN asked : ~Disputed(read, k)
      /\ ~raced => file = read
      /\ ~cut => \A k \in Keys : Text(read)[k] \in Set => k \in owned
  BY <1>0, <1>2 DEF AskedTrue, KeysChecked
<1>5. /\ DOMAIN asked \subseteq Keys /\ DOMAIN edited \subseteq Keys
      /\ asked \in [DOMAIN asked -> {Unset, "own", "set", "set again"}]
      /\ \A k \in DOMAIN edited : edited[k] \in {Unset, "user", "twice"}
  BY <1>0, MarksAre
<1>6. /\ text # NoFile
      /\ \A k \in Keys : Text(text)[k] = IF k \in DOMAIN asked THEN asked[k] ELSE Text(read)[k]
  <2>1. asked \in [DOMAIN asked -> Values] /\ DOMAIN asked \in SUBSET Keys /\ read \in Files /\ Keys # {}
    BY <1>0, <1>4, <1>5 DEF Values, ControlTypes
  <2> QED  BY <1>4, <2>1, PatchedIs
<1>7. \A k \in Keys : Text(original)[k] \in {"own", Unset}
  BY ValuesAre
<1>8. \A k \in owned \cup DOMAIN asked : Text(read)[k] # "twice" /\ Text(read)[k] = Value(effective, k)
  BY <1>4 DEF Disputed, Value
<1>9. ASSUME ~cut
      PROVE  /\ \A k \in owned : Text(effective)[k] \in Set \cup {Text(original)[k]}
             /\ ~external => \A k \in Keys \ owned : Text(effective)[k] = Text(original)[k]
  BY <1>0, <1>3, <1>9 DEF LeftTrue
<1>10. ASSUME ~cut, NEW k \in owned \cup DOMAIN asked, k \notin Taken
       PROVE  Text(read)[k] = Text(effective)[k]
  <2>1. Text(effective)[k] # "twice"
    BY <1>0, <1>5, <1>7, <1>9, <1>10 DEF ControlTypes, Set, Unset, Taken
  <2> QED  BY <1>8, <2>1 DEF Value
<1>11. LeftTrue'
  <2>1. original' \in [Keys -> {"own", Unset}] \cup {NoFile}
    BY <1>0, <1>1 DEF LeftTrue
  <2>2. ASSUME ~cut, NEW k \in owned \cup DOMAIN asked
        PROVE  Text(text)[k] \in Set \cup {Text(original)[k]}
    <3>1. CASE k \in DOMAIN asked
      BY <1>4, <1>5, <1>6, <3>1
    <3>2. CASE k \notin DOMAIN asked
      BY <1>0, <1>6, <1>9, <1>10, <2>2, <3>2 DEF ControlTypes, Taken
    <3> QED  BY <3>1, <3>2
  <2>3. ASSUME ~cut, ~external', NEW k \in Keys \ (owned \cup DOMAIN asked)
        PROVE  Text(text)[k] = Text(original)[k]
    BY <1>2, <1>6, <1>9, <2>3
  <2> QED  BY <1>1, <1>3, <1>4, <1>6, <2>1, <2>2, <2>3 DEF LeftTrue, Text
<1>12. applied # 0 /\ AskedTrue'
  <2>1. applied # 0
    BY <1>0, <1>2 DEF AskedTrue
  <2> QED  BY <1>1, <1>2, <1>4, <2>1 DEF AskedTrue, Text
<1>13. FileTrue'
  <2>1. edited = <<>> => ~raced
    BY <1>0 DEF FileTrue
  <2>2. ASSUME ~cut, NEW k \in Keys, Text(text)[k] \in Set
        PROVE  k \in owned \cup DOMAIN asked
    BY <1>4, <1>6, <2>2
  <2>3. ASSUME ~cut
        PROVE  /\ edited = <<>> => file = effective /\ ~external
               /\ effective = NoFile => edited = <<>>
               /\ ~raced /\ file # NoFile => \A k \in DOMAIN edited \ overridden :
                    \/ file[k] = edited[k]
                    \/ k \in owned /\ edited[k] = Unset /\ Text(original)[k] = Unset
    BY <1>0, <1>2, <1>3, <2>3 DEF FileTrue
  <2>4. ASSUME ~cut, edited = <<>> PROVE ~external'
    BY <1>2, <1>4, <2>1, <2>3, <2>4
  <2>5. ASSUME ~cut, ~raced, NEW k \in DOMAIN edited \ overridden'
        PROVE  \/ text[k] = edited[k]
               \/ k \in owned \cup DOMAIN asked /\ edited[k] = Unset /\ Text(original)[k] = Unset
    <3>1. file = read /\ file # NoFile /\ k \in Keys
      <4>1. edited # <<>>
        <5>1. DOMAIN <<>> = {}
          OBVIOUS
        <5> QED  BY <2>5, <5>1
      <4>2. file = read /\ k \in Keys
        BY <1>4, <1>5, <2>5
      <4>3. effective # NoFile
        BY <2>3, <2>5, <4>1
      <4> QED  BY <1>4, <4>2, <4>3
    <3>2. Text(read) = read /\ Text(text) = text
      BY <1>6, <3>1 DEF Text
    <3>3. CASE file[k] = edited[k] /\ k \notin DOMAIN asked
      BY <1>6, <3>1, <3>2, <3>3
    <3>4. CASE file[k] = edited[k] /\ k \in DOMAIN asked
      <4>1. k \notin Taken
        BY <1>2, <2>5
      <4>2. Text(effective)[k] = edited[k]
        BY <1>10, <2>5, <3>1, <3>2, <3>4, <4>1
      <4>3. Text(effective)[k] \in Set \cup {Text(original)[k]}
        BY <1>9, <2>5, <3>1, <3>4, <4>1 DEF Taken
      <4>4. edited[k] \in {Unset, "user", "twice"} /\ Text(original)[k] \in {"own", Unset}
        BY <1>5, <1>7, <3>1
      <4> QED  BY <3>4, <4>2, <4>3, <4>4 DEF Set, Unset
    <3>5. CASE k \in owned /\ edited[k] = Unset /\ Text(original)[k] = Unset
      BY <3>5
    <3> QED  BY <1>2, <2>3, <2>5, <3>1, <3>3, <3>4, <3>5
  <2> QED  BY <1>1, <1>2, <1>3, <1>6, <2>1, <2>2, <2>4, <2>5 DEF FileTrue, Text
<1> QED  BY <1>2, <1>11, <1>12, <1>13 DEF Rest

LEMMA RememberStep == ControlInv /\ Remember => Rest'
<1> SUFFICES ASSUME ControlInv, Remember PROVE Rest'
  OBVIOUS
<1>0. LeftTrue /\ AskedTrue /\ FileTrue
  BY DEF ControlInv
<1>1. /\ UNCHANGED <<file, original, external, read, text, asked, conflicts, applied, edits, edited, overridden, raced, cut>>
      /\ step = "applied" /\ step' = "idle" /\ effective' = text /\ owned' = owned \cup DOMAIN asked
  BY DEF Remember, Owned, local, marks
<1>2. Left' = Left /\ Held' = Held
  BY <1>1 DEF Left, Held
<1>3. applied # 0
  BY <1>0, <1>1 DEF AskedTrue
<1>4. LeftTrue' /\ FileTrue'
  BY <1>0, <1>1, <1>2 DEF LeftTrue, FileTrue, Text
<1>5. AskedTrue'
  BY <1>1, <1>3 DEF AskedTrue
<1> QED  BY <1>1, <1>4, <1>5 DEF Rest

LEMMA CutShortStep == ControlInv /\ CutShort => Rest'
<1> SUFFICES ASSUME ControlInv, CutShort PROVE Rest'
  OBVIOUS
<1>0. LeftTrue /\ AskedTrue /\ FileTrue /\ ControlTypes
  BY ValuesAre DEF ControlInv
<1>1. /\ UNCHANGED <<file, original, effective, owned, external, read, text, asked, conflicts, edits, edited, overridden, raced>>
      /\ step \in {"applying", "writing", "applied"} /\ step' = "idle" /\ applied' = MaxApplied
      /\ cut' <=> (cut \/ step = "applied")
  BY DEF CutShort, fields, local
<1>2. applied' # 0
  <2>1. applied # 0
    BY <1>0, <1>1 DEF AskedTrue
  <2>2. applied \in 0..MaxApplied /\ MaxApplied \in Nat
    BY <1>0, ControlAssumption DEF ControlTypes
  <2> QED  BY <1>1, <2>1, <2>2
<1>3. ~cut' => Left' = Left /\ Held' = Held /\ ~cut
  BY <1>1 DEF Left, Held
<1>4. AskedTrue'
  BY <1>1, <1>2 DEF AskedTrue
<1>5. LeftTrue'
  BY <1>0, <1>1, <1>3 DEF LeftTrue, Text
<1>6. FileTrue'
  BY <1>0, <1>1, <1>3 DEF FileTrue, Text
<1> QED  BY <1>1, <1>4, <1>5, <1>6 DEF Rest

LEMMA GiveBackStep == ControlInv /\ (GiveBack \/ RestoreFails) => Rest'
<1> SUFFICES ASSUME ControlInv, GiveBack \/ RestoreFails PROVE Rest'
  OBVIOUS
<1>0. LeftTrue /\ AskedTrue /\ FileTrue
  BY DEF ControlInv
<1>1. /\ UNCHANGED <<original, effective, owned, external, read, text, asked, conflicts, applied, edits, edited, overridden, raced>>
      /\ step = "undoing" /\ step' = "done"
      /\ cut' \/ (cut' = cut /\ file' = text)
  BY DEF GiveBack, RestoreFails, fields, local, marks
<1>2. Left' = Left /\ Held' = Held /\ (~cut' => ~cut)
  BY <1>1 DEF Left, Held
<1>3. applied # 0
  BY <1>0, <1>1 DEF AskedTrue
<1>4. LeftTrue'
  BY <1>0, <1>1, <1>2 DEF LeftTrue, Text
<1>5. AskedTrue'
  BY <1>1, <1>3 DEF AskedTrue
<1>6. FileTrue'
  BY <1>0, <1>1 DEF FileTrue
<1>7. ASSUME ~cut'
      PROVE  /\ \A k \in Keys : Text(text)[k] \notin Set
             /\ edited = <<>> => text = original
             /\ ~raced => text = NoFile \/ \A k \in DOMAIN edited \ overridden : text[k] = edited[k]
  BY <1>0, <1>1, <1>2, <1>7 DEF FileTrue
<1>8. OverridesGone'
  BY <1>1, <1>7 DEF OverridesGone, Set, Text
<1>9. ControlTypes'
  BY ControlTypesStep DEF ControlNext
<1>10. EditsKept'
  BY <1>1, <1>7, <1>9 DEF EditsKept
<1> QED  BY <1>4, <1>5, <1>6, <1>8, <1>10 DEF Rest

LEMMA BeginRestoreStep == ControlInv /\ BeginRestore => Rest'
<1> SUFFICES ASSUME ControlInv, BeginRestore PROVE Rest'
  OBVIOUS
<1>0. LeftTrue /\ AskedTrue /\ FileTrue /\ ControlTypes
  BY ValuesAre DEF ControlInv
<1> DEFINE bad == {k \in owned : Disputed(file, k)}
           back == [k \in owned \ bad |-> Value(original, k)]
<1>1. /\ UNCHANGED <<file, original, effective, owned, external, asked, applied, edits, edited, overridden, raced, cut>>
      /\ step = "idle" /\ applied > 0 /\ step' \in {"done", "undoing"}
  BY DEF BeginRestore, Finish, fields, marks
<1>2. \/ step' = "done" /\ (owned = {} \/ file = NoFile)
      \/ /\ step' = "undoing" /\ owned # {} /\ file # NoFile
         /\ text' = IF Whole THEN original ELSE Patched(file, back)
  BY DEF BeginRestore, Finish
<1>3. Left' = Left /\ Held' = Held /\ Left = effective /\ Held = owned
  BY <1>1 DEF Left, Held
<1>4. applied # 0
  <2>1. applied \in 0..MaxApplied
    BY <1>0 DEF ControlTypes
  <2> QED  BY <1>1, <2>1
<1>5. LeftTrue'
  BY <1>0, <1>1, <1>3 DEF LeftTrue, Text
<1>6. AskedTrue'
  BY <1>1, <1>4 DEF AskedTrue
<1>7. ControlTypes'
  BY ControlTypesStep DEF ControlNext
<1>8. /\ \A k \in Keys : Text(original)[k] \in {"own", Unset}
      /\ owned \subseteq Keys /\ DOMAIN edited \subseteq Keys
      /\ \A k \in DOMAIN edited : edited[k] \in {Unset, "user", "twice"}
  BY <1>0, ValuesAre, MarksAre
<1>9. edited = <<>> => ~raced
  BY <1>0 DEF FileTrue
<1>10. ASSUME ~cut
       PROVE  /\ \A k \in owned : Text(effective)[k] \in Set \cup {Text(original)[k]}
              /\ ~external => \A k \in Keys \ owned : Text(effective)[k] = Text(original)[k]
              /\ owned = {} => effective = original
              /\ owned # {} => effective # NoFile
              /\ \A k \in Keys : Text(file)[k] \in Set => k \in owned /\ Text(file)[k] = Text(effective)[k]
              /\ edited = <<>> => file = effective /\ ~external
  BY <1>0, <1>1, <1>3, <1>10 DEF LeftTrue, FileTrue
<1>11. ASSUME ~cut, ~raced, file # NoFile, NEW k \in DOMAIN edited \ overridden
       PROVE  \/ Text(file)[k] = edited[k]
              \/ /\ k \in owned /\ Text(file)[k] = Text(effective)[k]
                 /\ edited[k] = Unset /\ Text(original)[k] = Unset
  BY <1>0, <1>1, <1>3, <1>11 DEF FileTrue, Text
<1>12. ASSUME step' = "done"
       PROVE  EditsKept' /\ OverridesGone' /\ FileTrue'
  <2>1. owned = {} \/ file = NoFile
    BY <1>2, <1>12
  <2>2. ASSUME ~cut, ~raced, file # NoFile, NEW k \in DOMAIN edited \ overridden
        PROVE  file[k] = edited[k]
    BY <1>11, <2>1, <2>2 DEF Text
  <2>3. ASSUME ~cut, NEW k \in Keys
        PROVE  Text(file)[k] \notin Set
    BY <1>10, <2>1, <2>3, TextIs DEF Set, Unset
  <2>4. ASSUME ~cut, edited = <<>>
        PROVE  file = original
    BY <1>10, <2>1, <2>4
  <2>5. EditsKept'
    BY <1>1, <1>7, <2>2 DEF EditsKept
  <2>6. OverridesGone'
    BY <1>1, <2>3, <2>4 DEF OverridesGone, Set, Text
  <2>7. FileTrue'
    BY <1>1, <1>9, <1>12 DEF FileTrue
  <2> QED  BY <2>5, <2>6, <2>7
<1>13. ASSUME step' = "undoing"
       PROVE  FileTrue'
  <2>1. owned # {} /\ file # NoFile /\ Text(file) = file
    BY <1>2, <1>13 DEF Text
  <2>2. CASE Whole
    <3>1. text' = original
      BY <1>2, <1>13, <2>2
    <3>2. file = effective /\ ~external
      BY <2>2 DEF Whole
    <3>3. ASSUME ~cut, ~raced, original # NoFile, NEW k \in DOMAIN edited \ overridden
          PROVE  original[k] = edited[k]
      <4>1. Text(original) = original /\ k \in Keys
        BY <1>8, <3>3 DEF Text
      <4>2. Text(file)[k] \in Set \cup {Text(original)[k]}
        BY <1>10, <3>2, <3>3, <4>1
      <4>3. Text(file)[k] = edited[k] \/ edited[k] = Text(original)[k]
        BY <1>11, <2>1, <3>3
      <4> QED  BY <1>8, <3>3, <4>1, <4>2, <4>3 DEF Set, Unset
    <3>4. \A k \in Keys : Text(original)[k] \notin Set
      BY <1>8 DEF Set, Unset
    <3> QED  BY <1>1, <1>9, <1>13, <3>1, <3>3, <3>4 DEF FileTrue, Set, Text
  <2>3. CASE ~Whole
    <3>1. text' = Patched(file, back)
      BY <1>2, <1>13, <2>3
    <3>2. bad \subseteq owned /\ \A k \in owned : k \in bad <=> Disputed(file, k)
      OBVIOUS
    <3>3. \A k \in Keys : Value(original, k) = Text(original)[k]
      BY <1>8 DEF Value, Unset
    <3>4. back \in [owned \ bad -> Values] /\ \A k \in owned \ bad : back[k] = Text(original)[k]
      BY <1>8, <3>3 DEF Values
    <3>5. /\ text' # NoFile
          /\ \A k \in Keys : Text(text')[k] = IF k \in owned \ bad THEN Text(original)[k] ELSE file[k]
      <4>1. file \in Files /\ owned \ bad \in SUBSET Keys /\ Keys # {}
        BY <1>0, <1>8, <2>1 DEF ControlTypes
      <4> HIDE DEF back, bad
      <4> QED  BY <2>1, <3>1, <3>4, <4>1, PatchedIs
    <3> HIDE DEF back, bad
    <3>6. ASSUME ~cut, NEW k \in owned, Text(file)[k] = Text(effective)[k]
          PROVE  ~Disputed(file, k)
      BY <1>8, <1>10, <3>6 DEF Disputed, Value, Set, Unset
    <3>7. ASSUME ~cut, NEW k \in owned, ~Disputed(file, k)
          PROVE  Text(file)[k] \in Set \cup {Text(original)[k]}
      BY <1>8, <1>10, <3>7 DEF Disputed, Value, Set, Unset
    <3>8. ASSUME ~cut, NEW k \in Keys
          PROVE  Text(text')[k] \notin Set
      <4>1. CASE k \in owned \ bad
        BY <1>8, <3>5, <4>1 DEF Set, Unset
      <4>2. CASE k \notin owned \ bad
        <5>1. ~(k \in owned /\ Text(file)[k] = Text(effective)[k])
          BY <3>2, <3>6, <3>8, <4>2
        <5>2. Text(file)[k] \notin Set
          BY <1>10, <3>8, <5>1
        <5> QED  BY <2>1, <3>5, <4>2, <5>2
      <4> QED  BY <4>1, <4>2
    <3>9. ASSUME ~cut PROVE edited # <<>>
      BY <1>10, <2>3, <3>9 DEF Whole
    <3>10. ASSUME ~cut, ~raced, NEW k \in DOMAIN edited \ overridden
           PROVE  Text(text')[k] = edited[k]
      <4>1. k \in Keys
        BY <1>8
      <4>2. CASE k \notin owned \ bad
        <5>1. ~(k \in owned /\ Text(file)[k] = Text(effective)[k])
          BY <3>2, <3>6, <3>10, <4>2
        <5> QED  BY <1>11, <2>1, <3>5, <3>10, <4>1, <4>2, <5>1
      <4>3. CASE k \in owned \ bad
        <5>1. Text(file)[k] \in Set \cup {Text(original)[k]}
          BY <3>2, <3>7, <3>10, <4>3
        <5>2. Text(file)[k] = edited[k] \/ edited[k] = Text(original)[k]
          BY <1>11, <2>1, <3>10
        <5>3. edited[k] = Text(original)[k]
          BY <1>8, <3>10, <4>1, <5>1, <5>2 DEF Set, Unset
        <5> QED  BY <3>5, <4>1, <4>3, <5>3
      <4> QED  BY <4>2, <4>3
    <3>11. Text(text') = text'
      BY <3>5 DEF Text
    <3> QED  BY <1>1, <1>9, <1>13, <3>8, <3>9, <3>10, <3>11 DEF FileTrue, Set, Text
  <2> QED  BY <2>2, <2>3
<1> QED  BY <1>1, <1>5, <1>6, <1>12, <1>13 DEF Rest

LEMMA IdleStep == ControlInv /\ UNCHANGED controlVars => Rest'
<1> SUFFICES ASSUME ControlInv, UNCHANGED controlVars PROVE Rest'
  OBVIOUS
<1>0. LeftTrue /\ AskedTrue /\ FileTrue /\ EditsKept /\ OverridesGone
  BY DEF ControlInv, ControlsReturned
<1>1. UNCHANGED <<file, step, original, effective, owned, external, read, text, asked, conflicts, applied, edits, edited, overridden, raced, cut>>
  BY DEF controlVars, fields, local, marks
<1>2. Left' = Left /\ Held' = Held
  BY <1>1 DEF Left, Held
<1>3. LeftTrue' /\ FileTrue'
  BY <1>0, <1>1, <1>2 DEF LeftTrue, FileTrue, Text
<1>4. AskedTrue'
  BY <1>0, <1>1, <1>2 DEF AskedTrue, KeysChecked, Disputed, Value, Text
<1>5. EditsKept' /\ OverridesGone'
  BY <1>0, <1>1 DEF EditsKept, OverridesGone, ControlTypes, Text
<1> QED  BY <1>3, <1>4, <1>5 DEF Rest

(* When a run is over, nothing the runner has put into a control file is left there, a
   file nobody else has touched is what it was, and a value the user has changed meanwhile
   is his but in the three cases that EditsKept names, for every set of keys and every
   number of overrides and edits. *)
THEOREM OverridesAreReturned == ControlSpec => []ControlsReturned
<1>1. ControlInv /\ [ControlNext]_controlVars => ControlInv'
  <2> SUFFICES ASSUME ControlInv, [ControlNext]_controlVars PROVE ControlInv'
    OBVIOUS
  <2>1. Rest'
    BY EditStep, BeginApplyStep, ReadFileStep, WriteFileStep, RememberStep, CutShortStep,
       BeginRestoreStep, GiveBackStep, IdleStep DEF ControlNext
  <2>2. ControlTypes'
    BY ControlTypesStep
  <2>3. LeftTrue' /\ AskedTrue' /\ FileTrue' /\ ControlsReturned'
    BY <2>1, <2>2 DEF Rest, ControlsReturned, EditsKept, OverridesGone
  <2> QED  BY <2>3 DEF ControlInv
<1>2. ControlInv => ControlsReturned
  BY DEF ControlInv
<1> QED  BY InitControl, <1>1, <1>2, PTL DEF ControlSpec

-----------------------------------------------------------------------------
(* Paths and names. *)
LEMMA PathsAre ==
    /\ \A f, n : <<f, n>>[1] = f /\ <<f, n>>[2] = n
    /\ Manifest[1] = "" /\ Manifest[2] = "fresh-inputs.json" /\ Manifest # CompactionRecord
    /\ CompactionRecord[1] = "" /\ CompactionRecord[2] = ".recovery-compaction.json"
    /\ \A r \in Records : r \notin InputFiles /\ r \notin Retired \cup Checkpoints /\ r \notin Logs
    /\ \A n \in InputFiles : n \notin Retired \cup Checkpoints /\ n \notin Logs
    /\ \A n \in Logs : n \notin Retired \cup Checkpoints
    /\ \A f, n : f # "" => <<f, n>> # Manifest /\ <<f, n>> # CompactionRecord
    /\ \A p : p[1] # "" \/ p[2] \notin Records => p # Manifest /\ p # CompactionRecord
    /\ \A c : Kept(Manifest, c) /\ Kept(CompactionRecord, c)
    /\ \A p, c : p[2] \in InputFiles => Kept(p, c)
    /\ \A p, c : Excerpted(p, c) => Kept(p, Excerpt(c))
    /\ \A p, v : p[2] \in Logs => Kept(p, Excerpt(v))
<1>1. \A f, n : <<f, n>>[1] = f /\ <<f, n>>[2] = n
  OBVIOUS
<1>2. /\ Manifest[1] = "" /\ Manifest[2] = "fresh-inputs.json"
      /\ CompactionRecord[1] = "" /\ CompactionRecord[2] = ".recovery-compaction.json"
  BY <1>1 DEF Manifest, CompactionRecord
<1>3. Manifest # CompactionRecord
  BY <1>2
<1>4. /\ \A r \in Records : r \notin InputFiles /\ r \notin Retired \cup Checkpoints /\ r \notin Logs
      /\ \A n \in InputFiles : n \notin Retired \cup Checkpoints /\ n \notin Logs
      /\ \A n \in Logs : n \notin Retired \cup Checkpoints
  BY ArchivesAssumption
<1>5. "fresh-inputs.json" \in Records /\ ".recovery-compaction.json" \in Records
  BY DEF Records
<1>6. \A f, n : f # "" => <<f, n>> # Manifest /\ <<f, n>> # CompactionRecord
  <2> SUFFICES ASSUME NEW f, NEW n, f # "" PROVE <<f, n>> # Manifest /\ <<f, n>> # CompactionRecord
    OBVIOUS
  <2>1. <<f, n>>[1] = f
    OBVIOUS
  <2>2. <<f, n>> # Manifest
    BY <1>2, <2>1
  <2>3. <<f, n>> # CompactionRecord
    BY <1>2, <2>1
  <2> QED  BY <2>2, <2>3
<1>7. \A p : p[1] # "" \/ p[2] \notin Records => p # Manifest /\ p # CompactionRecord
  BY <1>2, <1>5
<1>8. \A c : Kept(Manifest, c) /\ Kept(CompactionRecord, c)
  BY <1>2, <1>4, <1>5 DEF Kept
<1>9. \A p, c : p[2] \in InputFiles => Kept(p, c)
  BY <1>4 DEF Kept
<1>10. \A p, v : p[2] \in Logs => Kept(p, Excerpt(v))
  BY <1>4 DEF Kept, Excerpt
<1>11. \A p, c : Excerpted(p, c) => Kept(p, Excerpt(c))
  BY <1>10 DEF Excerpted
<1> QED  BY <1>1, <1>2, <1>3, <1>4, <1>6, <1>7, <1>8, <1>9, <1>10, <1>11

(* What the ways to change the archives do. *)
Function(f) == f = [x \in DOMAIN f |-> f[x]]
LEMMA PutsIs ==
    ASSUME NEW a, NEW p, NEW c, Function(archive), There(a), Puts(a, p, c)
    PROVE  /\ Function(archive') /\ DOMAIN archive' = DOMAIN archive
           /\ \A b \in DOMAIN archive : b # a => archive'[b] = archive[b]
           /\ DOMAIN archive'[a] = DOMAIN archive[a] \cup {p} /\ archive'[a][p] = c
           /\ \A q \in DOMAIN archive[a] : q # p => archive'[a][q] = archive[a][q]
BY DEF Puts, With, Function, There

LEMMA DropsIs ==
    ASSUME NEW a, NEW p, Function(archive), There(a), Drops(a, p)
    PROVE  /\ Function(archive') /\ DOMAIN archive' = DOMAIN archive
           /\ \A b \in DOMAIN archive : b # a => archive'[b] = archive[b]
           /\ DOMAIN archive'[a] = DOMAIN archive[a] \ {p}
           /\ \A q \in DOMAIN archive[a] : q # p => archive'[a][q] = archive[a][q]
BY DEF Drops, Without, Function, There

LEMMA CreatesIs ==
    ASSUME NEW f, CanArchive, Creates(NewId, f)
    PROVE  /\ NewId \in Ids /\ NewId \notin DOMAIN archive /\ NewId \notin touched
           /\ Function(archive') /\ DOMAIN archive' = DOMAIN archive \cup {NewId}
           /\ \A b \in DOMAIN archive : archive'[b] = archive[b]
           /\ archive'[NewId] = f
<1>1. NewId \in Ids /\ NewId \notin DOMAIN archive /\ NewId \notin touched
  BY DEF NewId, CanArchive, There
<1>2. archive' = [y \in DOMAIN archive \cup {NewId} |-> IF y = NewId THEN f ELSE archive[y]]
  BY DEF Creates, With
<1> HIDE DEF NewId
<1> QED  BY <1>1, <1>2 DEF Function

LEMMA WithIs ==
    ASSUME NEW f, NEW x, NEW v
    PROVE  /\ DOMAIN With(f, x, v) = DOMAIN f \cup {x} /\ With(f, x, v)[x] = v
           /\ \A y \in DOMAIN f : y # x => With(f, x, v)[y] = f[y]
BY DEF With

LEMMA WithoutIs ==
    ASSUME NEW f, NEW x
    PROVE  /\ DOMAIN Without(f, x) = DOMAIN f \ {x}
           /\ \A y \in DOMAIN f : y # x => Without(f, x)[y] = f[y]
BY DEF Without

LEMMA FirstIs == \A S : S # {} => First(S) \in S
BY DEF First

-----------------------------------------------------------------------------
LEMMA InitArchives == ArchivesInit => ArchivesInv
<1> SUFFICES ASSUME ArchivesInit PROVE ArchivesInv
  OBVIOUS
<1>0. /\ live = [n \in ModelFiles |-> <<"old", n>>]
      /\ task = Idle /\ review = NoReview /\ changes = 0 /\ touched = {}
      /\ began = [a \in Ids |-> [n \in ModelFiles |-> <<"early", n>>]]
      /\ wanted = {<<n, live[n]>> : n \in InputFiles}
  BY DEF ArchivesInit
<1>1. DOMAIN archive = {1, 2} \cap Ids /\ Function(archive)
  BY DEF ArchivesInit, Function
<1>2. 1 \in Ids =>
        /\ Paths(1) = {<<"inputs", n>> : n \in InputFiles} \cup {<<"main", n>> : n \in ModelFiles \ InputFiles}
        /\ \A p \in Paths(1) : archive[1][p] = <<"older", p[2]>>
  BY <1>1 DEF ArchivesInit, Paths
<1>3. 2 \in Ids =>
        /\ Paths(2) = {<<"inputs", n>> : n \in InputFiles} \cup {<<"main", n>> : n \in Logs} \cup {Manifest}
        /\ \A p \in Paths(2) : p # Manifest => archive[2][p] = EarlyFile(p)
        /\ archive[2][Manifest] = [complete |-> TRUE, files |-> [n \in InputFiles |-> EarlyFile(<<"inputs", n>>)]]
  <2> SUFFICES ASSUME 2 \in Ids
               PROVE  /\ Paths(2) = {<<"inputs", n>> : n \in InputFiles} \cup {<<"main", n>> : n \in Logs} \cup {Manifest}
                      /\ \A p \in Paths(2) : p # Manifest => archive[2][p] = EarlyFile(p)
                      /\ archive[2][Manifest] = [complete |-> TRUE, files |-> [n \in InputFiles |-> EarlyFile(<<"inputs", n>>)]]
    OBVIOUS
  <2> DEFINE D == {<<"inputs", n>> : n \in InputFiles} \cup {<<"main", n>> : n \in Logs}
             f == [p \in D |-> EarlyFile(p)]
             m == [complete |-> TRUE, files |-> [n \in InputFiles |-> EarlyFile(<<"inputs", n>>)]]
  <2>1. archive[2] = With(f, Manifest, m)
    <3> DEFINE g == [p \in {<<"inputs", n>> : n \in InputFiles} \cup {<<"main", n>> : n \in ModelFiles \ InputFiles}
                            |-> <<"older", p[2]>>]
    <3>1. archive = [a \in {1, 2} \cap Ids |-> IF a = 1 THEN g ELSE With(f, Manifest, m)]
      BY Zenon DEF ArchivesInit
    <3> HIDE DEF f, g, m
    <3> QED  BY <3>1
  <2>2. DOMAIN f = D /\ \A p \in D : f[p] = EarlyFile(p)
    OBVIOUS
  <2> HIDE DEF D, f, m
  <2>3. Paths(2) = D \cup {Manifest}
    BY <2>1, <2>2 DEF Paths, With
  <2>4. archive[2][Manifest] = m /\ \A p \in D : p # Manifest => archive[2][p] = EarlyFile(p)
    BY <2>1, <2>2 DEF With
  <2> QED  BY <2>3, <2>4 DEF D, m
<1>p. /\ 1 \in Ids => Manifest \notin Paths(1) /\ CompactionRecord \notin Paths(1)
      /\ 2 \in Ids => CompactionRecord \notin Paths(2)
  <2>1. \A n : /\ <<"inputs", n>> # Manifest /\ <<"main", n>> # Manifest
               /\ <<"inputs", n>> # CompactionRecord /\ <<"main", n>> # CompactionRecord
    BY PathsAre
  <2>2. Manifest # CompactionRecord
    BY PathsAre
  <2> QED  BY <1>2, <1>3, <2>1, <2>2
<1>4. TaskTrue
  BY <1>0 DEF TaskTrue
<1>5. VersionsTrue
  <2>1. changes \in 0 .. MaxChanges /\ DOMAIN archive \subseteq Ids /\ DOMAIN began = Ids /\ archive = [a \in DOMAIN archive |-> archive[a]]
    BY <1>0, <1>1, ArchivesAssumption DEF Function
  <2>2. task.pc = "idle" /\ review.kind = "none"
    BY <1>0 DEF Idle, NoReview
  <2>3. \A w \in wanted : w = <<w[1], w[2]>> /\ w[1] \in InputFiles
    BY <1>0
  <2>4. \A v : ToCome(v) => v[1] = "edit"
    BY DEF ToCome
  <2>5. \A n \in InputFiles \cap DOMAIN live : ~ToCome(live[n])
    <3>1. \A n \in InputFiles \cap DOMAIN live : live[n][1] = "old"
      BY <1>0
    <3> QED  BY <2>4, <3>1
  <2>6. ASSUME NEW a \in DOMAIN archive, NEW p \in Paths(a), p[2] \in InputFiles
        PROVE  ~ToCome(archive[a][p])
    <3>1. CASE a = 1
      BY <1>1, <1>2, <2>4, <2>6, <3>1
    <3>2. CASE a = 2
      <4>1. p # Manifest
        BY <2>6, PathsAre DEF Records
      <4>2. archive[a][p] = EarlyFile(p)
        BY <1>1, <1>3, <2>6, <3>2, <4>1
      <4>3. EarlyFile(p)[1] \in {"early", "excerpt"}
        BY DEF EarlyFile, Excerpt
      <4> QED  BY <2>4, <4>2, <4>3
    <3> QED  BY <1>1, <3>1, <3>2
  <2> QED  BY <2>1, <2>2, <2>3, <2>5, <2>6 DEF VersionsTrue, At
<1>6. CaptureTrue
  BY <1>0 DEF CaptureTrue, Idle
<1>7. BundlesWhole
  <2> SUFFICES ASSUME NEW a \in DOMAIN archive \ touched, Manifest \in Paths(a), archive[a][Manifest].complete
               PROVE  /\ Restorable(a) /\ DOMAIN archive[a][Manifest].files = InputFiles
                      /\ \A n \in DOMAIN archive[a][Manifest].files :
                            archive[a][Manifest].files[n] = began[a][n]
    BY ArchivesAssumption DEF BundlesWhole, BundlesHold
  <2>1. a # 1
    BY <1>1, <1>p
  <2>2. a = 2 /\ 2 \in Ids
    BY <1>1, <2>1
  <2>3. archive[2][Manifest] = [complete |-> TRUE, files |-> [n \in InputFiles |-> EarlyFile(<<"inputs", n>>)]]
    BY <1>3, <2>2
  <2>4. /\ DOMAIN archive[2][Manifest].files = InputFiles
        /\ \A n \in InputFiles : archive[2][Manifest].files[n] = EarlyFile(<<"inputs", n>>)
    BY <2>3
  <2>5. \A n \in InputFiles : <<"inputs", n>> \in Paths(2) /\ archive[2][<<"inputs", n>>] = EarlyFile(<<"inputs", n>>)
    BY <1>3, <2>2, PathsAre
  <2>6. \A n \in InputFiles : EarlyFile(<<"inputs", n>>) = <<"early", n>> /\ began[2][n] = <<"early", n>>
    BY <1>0, <2>2 DEF EarlyFile, ModelFiles
  <2> QED  BY <2>2, <2>4, <2>5, <2>6 DEF Restorable, There, Copies, Paths
<1>8. LabelledTrue
  <2>1. \A a \in DOMAIN archive : CompactionRecord \notin Paths(a)
    BY <1>1, <1>p
  <2> QED  BY <1>0, <2>1 DEF LabelledTrue, LabelsTrue, Idle, At
<1>9. WantedTrue
  <2>1. \A w \in wanted : InModel(w)
    BY <1>0 DEF InModel, Copies, ModelFiles
  <2> QED  BY <1>0, <2>1 DEF WantedTrue, Idle, At
<1> QED  BY <1>0, <1>4, <1>5, <1>6, <1>7, <1>8, <1>9 DEF ArchivesInv, At, Idle, RestorationTrue

-----------------------------------------------------------------------------
(* What steps leave in an archive: its manifest and the inputs that are not about to be
   moved away. *)
Stays(a) ==
    /\ a \in DOMAIN archive'
    /\ \A p \in DOMAIN archive[a] : p = Manifest \/ (p[2] \in InputFiles /\ p[1] # "staged") =>
        p \in DOMAIN archive'[a] /\ archive'[a][p] = archive[a][p]

LEMMA StoredStays ==
    ASSUME NEW ids, \A a \in DOMAIN archive : a \in ids => Stays(a),
           NEW w, w[1] \in InputFiles, Stored(w, ids)
    PROVE  Stored(w, ids)'
<1>1. PICK a \in ids \cap DOMAIN archive : \E p \in Paths(a) : p[1] # "staged" /\ p[2] = w[1] /\ archive[a][p] = w[2]
  BY DEF Stored
<1>2. PICK p \in DOMAIN archive[a] : p[1] # "staged" /\ p[2] = w[1] /\ archive[a][p] = w[2]
  BY <1>1 DEF Paths
<1>3. a \in DOMAIN archive' /\ p \in DOMAIN archive'[a] /\ archive'[a][p] = archive[a][p]
  BY <1>1, <1>2 DEF Stays
<1> QED  BY <1>1, <1>2, <1>3 DEF Stored, Paths

(* Bundles are whole after a step that leaves them alone and adds none. *)
LEMMA BundlesStay ==
    ASSUME BundlesWhole, touched \subseteq touched', mixed \subseteq mixed',
           \A a \in DOMAIN archive : began'[a] = began[a],
           \A a \in DOMAIN archive' \ touched' : Manifest \in DOMAIN archive'[a] =>
                a \in DOMAIN archive /\ Manifest \in DOMAIN archive[a] /\ Stays(a)
    PROVE  BundlesWhole'
<1> SUFFICES ASSUME NEW a \in DOMAIN archive' \ touched', Manifest \in DOMAIN archive'[a], archive'[a][Manifest].complete
             PROVE  /\ Restorable(a)'
                    /\ Needed \subseteq DOMAIN archive'[a][Manifest].files
                    /\ a \notin mixed' => \A n \in DOMAIN archive'[a][Manifest].files :
                                            archive'[a][Manifest].files[n] = began'[a][n]
                    /\ DOMAIN archive'[a][Manifest].files \subseteq InputFiles
  BY DEF BundlesWhole, BundlesHold, Paths
<1>1. a \in DOMAIN archive /\ Manifest \in Paths(a) /\ Stays(a) /\ a \notin touched
  BY DEF Paths
<1>2. archive'[a][Manifest] = archive[a][Manifest]
  BY <1>1 DEF Stays, Paths
<1>3. /\ Restorable(a)
      /\ Needed \subseteq DOMAIN archive[a][Manifest].files
      /\ a \notin mixed => \A n \in DOMAIN archive[a][Manifest].files :
                              archive[a][Manifest].files[n] = began[a][n]
      /\ DOMAIN archive[a][Manifest].files \subseteq InputFiles
  BY <1>1, <1>2 DEF BundlesWhole, BundlesHold
<1>4. ASSUME NEW n \in DOMAIN archive[a][Manifest].files
      PROVE  <<"inputs", n>> \in DOMAIN archive'[a] /\ archive'[a][<<"inputs", n>>] = archive[a][Manifest].files[n]
  <2>1. <<"inputs", n>> \in DOMAIN archive[a] /\ archive[a][<<"inputs", n>>] = archive[a][Manifest].files[n] /\ n \in InputFiles
    BY <1>3 DEF Restorable, Copies
  <2>2. <<"inputs", n>>[1] = "inputs" /\ <<"inputs", n>>[2] = n
    OBVIOUS
  <2> QED  BY <1>1, <2>1, <2>2 DEF Stays
<1>5. Restorable(a)'
  BY <1>1, <1>2, <1>4 DEF Restorable, There, Copies, Paths
<1> QED  BY <1>1, <1>2, <1>3, <1>5

(* Labels stay true if archives with one get no file that a compaction would cut. *)
LEMMA LabelsStay ==
    ASSUME LabelsTrue,
           \A a \in DOMAIN archive' : CompactionRecord \in DOMAIN archive'[a] =>
                /\ a \in DOMAIN archive /\ CompactionRecord \in DOMAIN archive[a]
                /\ archive'[a][CompactionRecord] = archive[a][CompactionRecord]
                /\ \A p \in DOMAIN archive'[a] :
                    \/ p \in DOMAIN archive[a] /\ archive'[a][p] = archive[a][p]
                    \/ Kept(p, archive'[a][p])
    PROVE  LabelsTrue'
<1> SUFFICES ASSUME NEW a \in DOMAIN archive', CompactionRecord \in DOMAIN archive'[a],
                    ~archive'[a][CompactionRecord].warned, NEW p \in DOMAIN archive'[a]
             PROVE  Kept(p, archive'[a][p])
  BY DEF LabelsTrue, Paths
<1>1. a \in DOMAIN archive /\ CompactionRecord \in DOMAIN archive[a] /\ ~archive[a][CompactionRecord].warned
  OBVIOUS
<1>2. \A q \in DOMAIN archive[a] : Kept(q, archive[a][q])
  BY <1>1 DEF LabelsTrue, Paths
<1> QED  BY <1>2

-----------------------------------------------------------------------------
(* Steps of an operation that change no file. *)

LEMMA CalmStep ==
    ASSUME ArchivesInv, UNCHANGED <<live, archive, review, changes, past>>, TaskTrue', CaptureTrue',
           task'.pc \in {"idle", "capture", "copy", "check", "solve", "compact"},
           task'.pc # "idle" => There(task'.id),
           task'.pc \in {"capture", "copy", "check", "solve"} \/ (task'.pc = "compact" /\ ~task'.kept) =>
                CompactionRecord \notin Paths(task'.id),
           task'.pc = "compact" /\ ~task'.warned =>
                \A p \in Paths(task'.id) \ task'.todo : Kept(p, archive[task'.id][p])
    PROVE  ArchivesInv'
<1>0. UNCHANGED <<live, archive, review, changes, began, mixed, touched, wanted, mangled>>
  BY DEF past
<1>1. VersionsTrue /\ BundlesWhole /\ LabelsTrue /\ (mangled \/ WantedTrue)
  BY DEF ArchivesInv, LabelledTrue
<1>2. VersionsTrue'
  BY <1>0, <1>1 DEF VersionsTrue, ToCome, There, Paths, At, Ids
<1>3. BundlesWhole'
  <2>1. \A a \in DOMAIN archive : Stays(a)
    BY <1>0 DEF Stays
  <2> QED  BY <1>0, <1>1, <2>1, BundlesStay
<1>4. LabelledTrue'
  <2>1. LabelsTrue'
    BY <1>0, <1>1 DEF LabelsTrue, Paths
  <2> QED  BY <1>0, <2>1 DEF LabelledTrue, Paths, At
<1>5. ~mangled => WantedTrue'
  <2>1. ~mangled => \A w \in wanted : InModel(w) \/ Stored(w, Ids)
    BY <1>1 DEF WantedTrue
  <2> QED  BY <1>0, <2>1 DEF WantedTrue, At, InModel, Stored, Paths, Copies, Ids
<1> QED  BY <1>0, <1>2, <1>3, <1>4, <1>5 DEF ArchivesInv, At, RestorationTrue

LEMMA HashStep == ArchivesInv /\ Hash => ArchivesInv'
<1> SUFFICES ASSUME ArchivesInv, Hash PROVE ArchivesInv'
  OBVIOUS
<1> DEFINE n == First(task.todo)
<1>0. At("capture") /\ task.todo # {} /\ UNCHANGED <<live, archive, review, changes, past>>
  BY DEF Hash, bounds
<1>1. n \in task.todo
  BY <1>0, FirstIs
<1>2. task' = IF n \in DOMAIN live
              THEN [task EXCEPT !.todo = @ \ {n}, !.pc = "copy", !.at = n, !.before = live[n]]
              ELSE [task EXCEPT !.todo = @ \ {n}, !.complete = @ /\ n \notin Needed]
  BY DEF Hash
<1> HIDE DEF n
<1>3. TaskTrue /\ CaptureTrue /\ LabelledTrue /\ VersionsTrue
  BY DEF ArchivesInv
<1>4. task = [pc |-> task.pc, id |-> task.id, at |-> task.at, before |-> task.before,
              files |-> task.files, todo |-> task.todo, complete |-> task.complete] /\ task.pc = "capture"
  BY <1>0, <1>3 DEF TaskTrue, At, Idle
<1>5. /\ task'.id = task.id /\ task'.files = task.files /\ task'.todo = task.todo \ {n}
      /\ \/ task'.pc = "copy" /\ task'.at = n /\ task'.complete = task.complete
         \/ task'.pc = "capture" /\ (task'.complete => task.complete /\ n \notin Needed)
  BY <1>2, <1>4
<1>6. TaskTrue'
  BY <1>2, <1>4 DEF TaskTrue
<1>7. /\ There(task.id) /\ CompactionRecord \notin Paths(task.id)
  BY <1>3, <1>4 DEF LabelledTrue, VersionsTrue
<1>8. /\ Manifest \notin Paths(task.id)
      /\ DOMAIN task.files \cup task.todo \subseteq InputFiles /\ DOMAIN task.files \cap task.todo = {}
      /\ \A m \in task.todo : <<"inputs", m>> \notin Paths(task.id)
      /\ task.complete => Needed \subseteq DOMAIN task.files \cup task.todo
      /\ task.id \notin touched => \A m \in DOMAIN task.files : Copies(archive[task.id], <<"inputs", m>>, task.files[m])
      /\ task.id \notin mixed =>
            live = began[task.id] /\ \A m \in DOMAIN task.files : task.files[m] = began[task.id][m]
  BY <1>0, <1>3, <1>4 DEF CaptureTrue, InProgress, At
<1>9. CaptureTrue'
  <2>1. UNCHANGED <<live, archive, began, mixed, touched>>
    BY <1>0 DEF past
  <2>2. CASE task'.pc = "copy"
    BY <1>1, <1>5, <1>8, <2>1, <2>2 DEF CaptureTrue, InProgress, At, Paths, Copies
  <2>3. CASE task'.pc = "capture"
    BY <1>1, <1>5, <1>8, <2>1, <2>3 DEF CaptureTrue, InProgress, At, Paths, Copies
  <2> QED  BY <1>5, <2>2, <2>3
<1> QED  BY <1>0, <1>5, <1>6, <1>7, <1>9, CalmStep

LEMMA CheckInputStep == ArchivesInv /\ (CheckInput \/ CaptureFails) => ArchivesInv'
<1> SUFFICES ASSUME ArchivesInv, CheckInput \/ CaptureFails PROVE ArchivesInv'
  OBVIOUS
<1>0. UNCHANGED <<live, archive, review, changes, past>>
  BY DEF CheckInput, CaptureFails, bounds, Fault
<1>3. TaskTrue /\ CaptureTrue /\ LabelledTrue /\ VersionsTrue
  BY DEF ArchivesInv
<1>4. task = [pc |-> task.pc, id |-> task.id, at |-> task.at, before |-> task.before,
              files |-> task.files, todo |-> task.todo, complete |-> task.complete] /\ task.pc \in {"copy", "check"}
  BY <1>3 DEF TaskTrue, At, Idle, CheckInput, CaptureFails
<1>5. \/ Intact /\ task' = [task EXCEPT !.pc = "capture", !.complete = @ /\ Intact, !.files = With(@, task.at, task.before)]
      \/ task' = [task EXCEPT !.pc = "capture", !.complete = FALSE]
  BY <1>4 DEF CheckInput, CaptureFails
<1>6. /\ task'.pc = "capture" /\ task'.id = task.id /\ task'.todo = task.todo
      /\ \/ Intact /\ task'.files = With(task.files, task.at, task.before) /\ (task'.complete => task.complete)
         \/ task'.files = task.files /\ ~task'.complete
  BY <1>4, <1>5
<1>7. TaskTrue'
  BY <1>4, <1>5 DEF TaskTrue
<1>8. There(task.id) /\ CompactionRecord \notin Paths(task.id)
  BY <1>3, <1>4 DEF LabelledTrue, VersionsTrue
<1>9. /\ Manifest \notin Paths(task.id) /\ task.at \in InputFiles
      /\ DOMAIN task.files \cup task.todo \subseteq InputFiles /\ DOMAIN task.files \cap task.todo = {}
      /\ task.at \notin DOMAIN task.files /\ task.at \notin task.todo
      /\ \A m \in task.todo : <<"inputs", m>> \notin Paths(task.id)
      /\ task.complete => Needed \subseteq DOMAIN task.files \cup task.todo \cup {task.at}
      /\ task.id \notin touched => \A m \in DOMAIN task.files : Copies(archive[task.id], <<"inputs", m>>, task.files[m])
      /\ task.id \notin mixed =>
            live = began[task.id] /\ \A m \in DOMAIN task.files : task.files[m] = began[task.id][m]
  BY <1>3, <1>4 DEF CaptureTrue, InProgress, At
<1>10. CaptureTrue'
  <2>1. UNCHANGED <<live, archive, began, mixed, touched>>
    BY <1>0 DEF past
  <2>2. CASE Intact /\ task'.files = With(task.files, task.at, task.before) /\ (task'.complete => task.complete)
    <3>1. /\ DOMAIN task'.files = DOMAIN task.files \cup {task.at} /\ task'.files[task.at] = task.before
          /\ \A m \in DOMAIN task.files : m # task.at => task'.files[m] = task.files[m]
      <4>1. task'.files = With(task.files, task.at, task.before)
        BY <2>2
      <4> QED  BY <4>1 DEF With
    <3>2. Copies(archive[task.id], <<"inputs", task.at>>, task.before) /\ live[task.at] = task.before
      BY <2>2 DEF Intact, Copies
    <3>3. task.id \notin touched => \A m \in DOMAIN task'.files : Copies(archive[task.id], <<"inputs", m>>, task'.files[m])
      BY <1>9, <3>1, <3>2
    <3>4. task.id \notin mixed =>
            live = began[task.id] /\ \A m \in DOMAIN task'.files : task'.files[m] = began[task.id][m]
      BY <1>9, <3>1, <3>2
    <3> QED  BY <1>6, <1>9, <2>1, <2>2, <3>1, <3>3, <3>4 DEF CaptureTrue, InProgress, At, Paths, Copies
  <2>3. CASE task'.files = task.files /\ ~task'.complete
    BY <1>6, <1>9, <2>1, <2>3 DEF CaptureTrue, InProgress, At, Paths, Copies
  <2> QED  BY <1>6, <2>2, <2>3
<1> QED  BY <1>0, <1>6, <1>7, <1>8, <1>10, CalmStep

(* An operation ends, and leaves everything as it is. *)
LEMMA EndStep ==
    ASSUME ArchivesInv, UNCHANGED <<live, archive, review, changes, past>>, task' = Idle
    PROVE  ArchivesInv'
<1>1. TaskTrue' /\ CaptureTrue' /\ task'.pc = "idle"
  BY DEF TaskTrue, CaptureTrue, Idle
<1> QED  BY <1>1, CalmStep

LEMMA RestoredStep == ArchivesInv /\ Restored => ArchivesInv'
<1> SUFFICES ASSUME ArchivesInv, Restored PROVE ArchivesInv'
  OBVIOUS
<1>1. At("move") /\ task' = Compaction(task.id, Cut(archive[task.id]), FALSE) /\ UNCHANGED <<live, archive, review, changes, past>>
  BY DEF Restored, bounds
<1>2. There(task.id) /\ CompactionRecord \notin Paths(task.id)
  BY <1>1 DEF ArchivesInv, VersionsTrue, LabelledTrue, At
<1>3. task'.pc = "compact" /\ task'.id = task.id /\ ~task'.kept /\ task'.todo = Cut(archive[task.id])
  BY <1>1 DEF Compaction
<1>4. TaskTrue' /\ CaptureTrue'
  BY <1>1 DEF TaskTrue, CaptureTrue, Compaction
<1>5. \A p \in Paths(task.id) \ Cut(archive[task.id]) : Kept(p, archive[task.id][p])
  BY DEF Cut, Paths
<1> QED  BY <1>1, <1>2, <1>3, <1>4, <1>5, CalmStep

-----------------------------------------------------------------------------
(* Steps of a run. *)

(* What a step that only puts a file into the archive of the operation keeps. *)
LEMMA PutStep ==
    ASSUME ArchivesInv, NEW p, NEW c, There(task.id), Puts(task.id, p, c),
           UNCHANGED <<live, review, changes, past>>, task'.pc # "control",
           p[2] \in InputFiles => ~ToCome(c),
           p[2] \in InputFiles => p \notin Paths(task.id) \/ p[1] = "staged",
           task'.pc # "idle" => task'.id = task.id
    PROVE  /\ VersionsTrue'
           /\ \A a \in DOMAIN archive : a # task.id => archive'[a] = archive[a]
           /\ DOMAIN archive' = DOMAIN archive /\ DOMAIN archive'[task.id] = Paths(task.id) \cup {p}
           /\ archive'[task.id][p] = c
           /\ \A q \in Paths(task.id) : q # p => archive'[task.id][q] = archive[task.id][q]
           /\ p # Manifest => BundlesWhole' /\ \A a \in DOMAIN archive : Stays(a)
           /\ CompactionRecord \notin Paths(task.id) /\ p # CompactionRecord => LabelsTrue'
           /\ \A w, ids : w[1] \in InputFiles /\ Stored(w, ids) => Stored(w, ids)'
<1>0. UNCHANGED <<live, review, changes, began, mixed, touched, wanted, mangled>>
  BY DEF past
<1>1. VersionsTrue /\ BundlesWhole /\ LabelsTrue
  BY DEF ArchivesInv, LabelledTrue
<1>2. Function(archive)
  BY <1>1 DEF VersionsTrue, Function
<1>3. /\ Function(archive') /\ DOMAIN archive' = DOMAIN archive
      /\ \A b \in DOMAIN archive : b # task.id => archive'[b] = archive[b]
      /\ DOMAIN archive'[task.id] = DOMAIN archive[task.id] \cup {p} /\ archive'[task.id][p] = c
      /\ \A q \in DOMAIN archive[task.id] : q # p => archive'[task.id][q] = archive[task.id][q]
  BY <1>2, PutsIs
<1>4. VersionsTrue'
  <2>1. \A v : ToCome(v)' <=> ToCome(v)
    BY <1>0 DEF ToCome
  <2>2. ASSUME NEW a \in DOMAIN archive', NEW q \in DOMAIN archive'[a], q[2] \in InputFiles
        PROVE  ~ToCome(archive'[a][q])
    <3>1. \A b \in DOMAIN archive : \A r \in DOMAIN archive[b] : r[2] \in InputFiles => ~ToCome(archive[b][r])
      BY <1>1 DEF VersionsTrue, Paths
    <3>2. CASE a = task.id /\ q = p
      BY <1>3, <2>2, <3>2
    <3>3. CASE a = task.id /\ q # p
      BY <1>3, <2>2, <3>1, <3>3
    <3>4. CASE a # task.id
      BY <1>3, <2>2, <3>1, <3>4
    <3> QED  BY <3>2, <3>3, <3>4
  <2>3. (task.pc \notin {"idle", "control"} => There(task.id))'
    BY <1>3 DEF There
  <2>4. /\ changes \in 0 .. MaxChanges /\ DOMAIN archive \subseteq Ids /\ DOMAIN began = Ids
        /\ \A w \in wanted : w = <<w[1], w[2]>> /\ w[1] \in InputFiles
        /\ \A n \in InputFiles \cap DOMAIN live : ~ToCome(live[n])
        /\ review.kind = "control" => ~ToCome(review.new)
    BY <1>1 DEF VersionsTrue
  <2>5. (\A n \in InputFiles \cap DOMAIN live : ~ToCome(live[n]))' /\ (review.kind = "control" => ~ToCome(review.new))'
    BY <1>0, <2>1, <2>4
  <2>6. (archive = [a \in DOMAIN archive |-> archive[a]])'
    BY <1>3 DEF Function
  <2>7. (changes \in 0 .. MaxChanges /\ DOMAIN archive \subseteq Ids /\ DOMAIN began = Ids)'
    BY <1>0, <1>3, <2>4 DEF Ids
  <2>8. (\A w \in wanted : w = <<w[1], w[2]>> /\ w[1] \in InputFiles)'
    BY <1>0, <2>4
  <2>9. (\A a \in DOMAIN archive : \A q \in Paths(a) : q[2] \in InputFiles => ~ToCome(archive[a][q]))'
    BY <2>1, <2>2 DEF Paths
  <2>10. (At("control") => ~ToCome(task.new))'
    BY DEF At
  <2> QED  BY <2>3, <2>5, <2>6, <2>7, <2>8, <2>9, <2>10 DEF VersionsTrue
<1>5. \A a \in DOMAIN archive : \A q \in DOMAIN archive[a] :
        q \in DOMAIN archive'[a] /\ (a # task.id \/ q # p => archive'[a][q] = archive[a][q])
  BY <1>3
<1>6. ASSUME p # Manifest
      PROVE  BundlesWhole' /\ \A a \in DOMAIN archive : Stays(a)
  <2>1. \A a \in DOMAIN archive : Stays(a)
    <3> SUFFICES ASSUME NEW a \in DOMAIN archive, NEW q \in DOMAIN archive[a],
                        q = Manifest \/ (q[2] \in InputFiles /\ q[1] # "staged")
                 PROVE  q \in DOMAIN archive'[a] /\ archive'[a][q] = archive[a][q]
      BY <1>3 DEF Stays
    <3>1. a = task.id => q # p
      BY <1>6 DEF Paths
    <3> QED  BY <1>5, <3>1
  <2>2. \A a \in DOMAIN archive' : Manifest \in DOMAIN archive'[a] => Manifest \in DOMAIN archive[a]
    BY <1>3, <1>6
  <2> QED  BY <1>0, <1>1, <1>3, <2>1, <2>2, BundlesStay
<1>7. ASSUME CompactionRecord \notin Paths(task.id), p # CompactionRecord
      PROVE  LabelsTrue'
  <2>1. ASSUME NEW a \in DOMAIN archive', CompactionRecord \in DOMAIN archive'[a]
        PROVE  a # task.id /\ archive'[a] = archive[a] /\ a \in DOMAIN archive
    BY <1>3, <1>7, <2>1 DEF Paths
  <2> QED  BY <1>1, <2>1, LabelsStay
<1>8. ASSUME NEW w, NEW ids, w[1] \in InputFiles, Stored(w, ids)
      PROVE  Stored(w, ids)'
  <2>1. PICK a \in ids \cap DOMAIN archive : \E q \in DOMAIN archive[a] : q[1] # "staged" /\ q[2] = w[1] /\ archive[a][q] = w[2]
    BY <1>8 DEF Stored, Paths
  <2>2. PICK q \in DOMAIN archive[a] : q[1] # "staged" /\ q[2] = w[1] /\ archive[a][q] = w[2]
    BY <2>1
  <2>3. a = task.id => q # p
    BY <1>8, <2>2 DEF Paths
  <2>4. q \in DOMAIN archive'[a] /\ archive'[a][q] = archive[a][q]
    BY <1>5, <2>1, <2>3
  <2> QED  BY <1>3, <2>1, <2>2, <2>4 DEF Stored, Paths
<1> QED  BY <1>3, <1>4, <1>6, <1>7, <1>8 DEF Paths

(* What a step that begins an archive keeps. *)
LEMMA CreateStep ==
    ASSUME ArchivesInv, NEW f, CanArchive, Creates(NewId, f),
           UNCHANGED <<live, review, changes, mixed, touched, wanted, mangled>>,
           DOMAIN began' = DOMAIN began, \A a \in DOMAIN archive : began'[a] = began[a],
           Manifest \notin DOMAIN f, CompactionRecord \notin DOMAIN f,
           \A p \in DOMAIN f : p[2] \in InputFiles => ~ToCome(f[p]),
           task'.pc \notin {"idle", "control"} => task'.id = NewId,
           task'.pc = "control" => ~ToCome(task'.new)
    PROVE  /\ VersionsTrue' /\ BundlesWhole' /\ LabelsTrue'
           /\ DOMAIN archive' = DOMAIN archive \cup {NewId} /\ archive'[NewId] = f
           /\ \A w, ids : w[1] \in InputFiles /\ Stored(w, ids) => Stored(w, ids)'
<1>0. PICK new \in Ids : new = NewId
  BY CreatesIs
<1>1. VersionsTrue /\ BundlesWhole /\ LabelsTrue
  BY DEF ArchivesInv, LabelledTrue
<1>2. /\ new \notin DOMAIN archive /\ Function(archive') /\ DOMAIN archive' = DOMAIN archive \cup {new}
      /\ \A b \in DOMAIN archive : archive'[b] = archive[b]
      /\ archive'[new] = f
  BY <1>0, CreatesIs
<1>3. \A v : ToCome(v)' <=> ToCome(v)
  BY DEF ToCome
<1>4. VersionsTrue'
  <2>1. /\ changes \in 0 .. MaxChanges /\ DOMAIN archive \subseteq Ids /\ DOMAIN began = Ids
        /\ \A w \in wanted : w = <<w[1], w[2]>> /\ w[1] \in InputFiles
        /\ \A n \in InputFiles \cap DOMAIN live : ~ToCome(live[n])
        /\ \A a \in DOMAIN archive : \A p \in DOMAIN archive[a] : p[2] \in InputFiles => ~ToCome(archive[a][p])
        /\ review.kind = "control" => ~ToCome(review.new)
    BY <1>1 DEF VersionsTrue, Paths
  <2>2. (changes \in 0 .. MaxChanges /\ DOMAIN archive \subseteq Ids /\ DOMAIN began = Ids)'
    BY <1>2, <2>1 DEF Ids
  <2>3. (archive = [a \in DOMAIN archive |-> archive[a]])'
    BY <1>2 DEF Function
  <2>4. (task.pc \notin {"idle", "control"} => There(task.id))'
    BY <1>0, <1>2 DEF There
  <2>5. (\A w \in wanted : w = <<w[1], w[2]>> /\ w[1] \in InputFiles)'
    BY <2>1
  <2>6. (\A n \in InputFiles \cap DOMAIN live : ~ToCome(live[n]))' /\ (review.kind = "control" => ~ToCome(review.new))'
    BY <1>3, <2>1
  <2>7. (\A a \in DOMAIN archive : \A q \in Paths(a) : q[2] \in InputFiles => ~ToCome(archive[a][q]))'
    <3> SUFFICES ASSUME NEW a \in DOMAIN archive', NEW q \in DOMAIN archive'[a], q[2] \in InputFiles
                 PROVE  ~ToCome(archive'[a][q])
      BY <1>3 DEF Paths
    <3>1. CASE a = new
      BY <1>2, <3>1
    <3>2. CASE a # new
      BY <1>2, <2>1, <3>2
    <3> QED  BY <3>1, <3>2
  <2>8. (At("control") => ~ToCome(task.new))'
    BY <1>3 DEF At
  <2> QED  BY <2>2, <2>3, <2>4, <2>5, <2>6, <2>7, <2>8 DEF VersionsTrue
<1>5. \A a \in DOMAIN archive : Stays(a)
  BY <1>2 DEF Stays
<1>6. BundlesWhole'
  <2>1. \A a \in DOMAIN archive' : Manifest \in DOMAIN archive'[a] => a \in DOMAIN archive /\ Manifest \in DOMAIN archive[a]
    BY <1>2
  <2> QED  BY <1>1, <1>5, <2>1, BundlesStay
<1>7. LabelsTrue'
  <2>1. \A a \in DOMAIN archive' : CompactionRecord \in DOMAIN archive'[a] => a \in DOMAIN archive /\ archive'[a] = archive[a]
    BY <1>2
  <2> QED  BY <1>1, <2>1, LabelsStay
<1>8. \A w, ids : w[1] \in InputFiles /\ Stored(w, ids) => Stored(w, ids)'
  BY <1>5, StoredStays
<1> QED  BY <1>0, <1>2, <1>4, <1>6, <1>7, <1>8

(* The parts of WantedTrue for an operation that does not touch the inputs. *)
LEMMA WantedStays ==
    ASSUME ArchivesInv, UNCHANGED <<live, wanted, mangled>>,
           \A w, ids : w[1] \in InputFiles /\ Stored(w, ids) => Stored(w, ids)',
           task'.pc \in {"idle", "capture", "copy", "check", "solve", "compact"}
    PROVE  ~mangled => WantedTrue'
<1> SUFFICES ASSUME ~mangled PROVE WantedTrue'
  OBVIOUS
<1>1. \A w \in wanted : (InModel(w) \/ Stored(w, Ids)) /\ w[1] \in InputFiles
  BY DEF ArchivesInv, WantedTrue, VersionsTrue
<1>2. \A w \in wanted : InModel(w)' \/ Stored(w, Ids)'
  BY <1>1 DEF InModel, Copies
<1> QED  BY <1>2 DEF WantedTrue, At

LEMMA RunBeginStep == ArchivesInv /\ RunBegin => ArchivesInv'
<1> SUFFICES ASSUME ArchivesInv, RunBegin PROVE ArchivesInv'
  OBVIOUS
<1>1. /\ CanArchive /\ Creates(NewId, <<>>) /\ began' = [began EXCEPT ![NewId] = live]
      /\ UNCHANGED <<live, review, changes, mixed, touched, wanted, mangled>>
  BY DEF RunBegin, Begins
<1>2. PICK new \in Ids, space \in BOOLEAN :
        /\ new = NewId
        /\ task' = [pc |-> "capture", id |-> new, at |-> "", before |-> "", files |-> <<>>,
                    todo |-> IF space THEN Bundle(live) ELSE {}, complete |-> space]
  BY <1>1, CreatesIs DEF RunBegin
<1>3. new \notin DOMAIN archive /\ new \notin touched
  BY <1>1, <1>2, CreatesIs
<1>4. /\ task'.pc = "capture" /\ task'.id = new /\ task'.files = <<>>
      /\ task'.todo = (IF space THEN Bundle(live) ELSE {}) /\ task'.complete = space
  BY <1>2
<1>5. DOMAIN <<>> = {}
  OBVIOUS
<1>6. began'[new] = live /\ DOMAIN began' = DOMAIN began /\ \A a \in DOMAIN archive : began'[a] = began[a]
  <2>1. DOMAIN began = Ids /\ DOMAIN archive \subseteq Ids
    BY DEF ArchivesInv, VersionsTrue
  <2> QED  BY <1>1, <1>2, <1>3, <2>1
<1>7. /\ VersionsTrue' /\ BundlesWhole' /\ LabelsTrue' /\ archive'[new] = <<>>
      /\ \A w, ids : w[1] \in InputFiles /\ Stored(w, ids) => Stored(w, ids)'
  BY <1>1, <1>2, <1>4, <1>5, <1>6, CreateStep
<1>8. TaskTrue'
  BY <1>2 DEF TaskTrue
<1>9. Bundle(live) \subseteq InputFiles /\ Needed \subseteq Bundle(live)
  BY ArchivesAssumption DEF Bundle
<1>10. CaptureTrue'
  BY <1>1, <1>4, <1>5, <1>6, <1>7, <1>9 DEF CaptureTrue, InProgress, At, Paths
<1>11. LabelledTrue'
  BY <1>4, <1>5, <1>7 DEF LabelledTrue, At, Paths
<1>12. ~mangled => WantedTrue'
  BY <1>1, <1>4, <1>7, WantedStays
<1> QED  BY <1>1, <1>4, <1>7, <1>8, <1>10, <1>11, <1>12 DEF ArchivesInv, At, RestorationTrue

LEMMA CopyInputStep == ArchivesInv /\ CopyInput => ArchivesInv'
<1> SUFFICES ASSUME ArchivesInv, CopyInput PROVE ArchivesInv'
  OBVIOUS
<1> DEFINE p == <<"inputs", task.at>>
<1>0. /\ At("copy") /\ task.at \in DOMAIN live /\ Puts(task.id, p, live[task.at])
      /\ task' = [task EXCEPT !.pc = "check"] /\ UNCHANGED <<live, review, changes, past>>
  BY DEF CopyInput, Goes, bounds
<1>1. TaskTrue /\ CaptureTrue /\ LabelledTrue /\ VersionsTrue
  BY DEF ArchivesInv
<1>2. task = [pc |-> task.pc, id |-> task.id, at |-> task.at, before |-> task.before,
              files |-> task.files, todo |-> task.todo, complete |-> task.complete] /\ task.pc = "copy"
  BY <1>0, <1>1 DEF TaskTrue, At, Idle
<1>3. /\ task'.pc = "check" /\ task'.id = task.id /\ task'.files = task.files /\ task'.todo = task.todo
      /\ task'.at = task.at /\ task'.complete = task.complete
  BY <1>0, <1>2
<1>4. TaskTrue'
  BY <1>0, <1>2 DEF TaskTrue
<1>5. There(task.id) /\ CompactionRecord \notin Paths(task.id)
  BY <1>1, <1>2 DEF LabelledTrue, VersionsTrue
<1>6. /\ Manifest \notin Paths(task.id) /\ task.at \in InputFiles /\ p \notin Paths(task.id)
      /\ DOMAIN task.files \cup task.todo \subseteq InputFiles /\ DOMAIN task.files \cap task.todo = {}
      /\ task.at \notin DOMAIN task.files /\ task.at \notin task.todo
      /\ \A m \in task.todo : <<"inputs", m>> \notin Paths(task.id)
      /\ task.complete => Needed \subseteq DOMAIN task.files \cup task.todo \cup {task.at}
      /\ task.id \notin touched => \A m \in DOMAIN task.files : Copies(archive[task.id], <<"inputs", m>>, task.files[m])
      /\ task.id \notin mixed =>
            live = began[task.id] /\ \A m \in DOMAIN task.files : task.files[m] = began[task.id][m]
  BY <1>1, <1>2 DEF CaptureTrue, InProgress, At
<1>7. p[2] = task.at /\ p # Manifest /\ p # CompactionRecord /\ \A m : m # task.at => <<"inputs", m>> # p
  <2>1. \A m : <<"inputs", m>> # Manifest /\ <<"inputs", m>> # CompactionRecord
    BY PathsAre
  <2> QED  BY <2>1
<1>8. ~ToCome(live[task.at])
  BY <1>0, <1>1, <1>6 DEF VersionsTrue
<1> HIDE DEF p
<1>9. /\ VersionsTrue' /\ BundlesWhole' /\ LabelsTrue' /\ DOMAIN archive'[task.id] = Paths(task.id) \cup {p}
      /\ \A q \in Paths(task.id) : q # p => archive'[task.id][q] = archive[task.id][q]
      /\ \A w, ids : w[1] \in InputFiles /\ Stored(w, ids) => Stored(w, ids)'
  BY <1>0, <1>3, <1>5, <1>6, <1>7, <1>8, PutStep
<1>10. CaptureTrue'
  <2>1. UNCHANGED <<live, began, mixed, touched>>
    BY <1>0 DEF past
  <2>2. task.id \notin touched => \A m \in DOMAIN task.files : Copies(archive'[task.id], <<"inputs", m>>, task.files[m])
    BY <1>6, <1>7, <1>9 DEF Copies, Paths
  <2>3. \A m \in task.todo : <<"inputs", m>> \notin DOMAIN archive'[task.id]
    BY <1>6, <1>7, <1>9
  <2>4. Manifest \notin DOMAIN archive'[task.id]
    BY <1>6, <1>7, <1>9
  <2> QED  BY <1>3, <1>6, <2>1, <2>2, <2>3, <2>4 DEF CaptureTrue, InProgress, At, Paths, Copies
<1>11. LabelledTrue'
  BY <1>3, <1>5, <1>7, <1>9 DEF LabelledTrue, At, Paths
<1>12. ~mangled => WantedTrue'
  BY <1>0, <1>3, <1>9, WantedStays DEF past
<1> QED  BY <1>0, <1>3, <1>4, <1>9, <1>10, <1>11, <1>12 DEF ArchivesInv, At, past, RestorationTrue

LEMMA CaptureEndStep == ArchivesInv /\ CaptureEnd => ArchivesInv'
<1> SUFFICES ASSUME ArchivesInv, CaptureEnd PROVE ArchivesInv'
  OBVIOUS
<1> DEFINE c == [complete |-> task.complete, files |-> task.files]
<1>0. /\ At("capture") /\ task.todo = {} /\ Puts(task.id, Manifest, c)
      /\ task' = [pc |-> "solve", id |-> task.id] /\ UNCHANGED <<live, review, changes, past>>
  BY DEF CaptureEnd, bounds
<1>1. TaskTrue /\ CaptureTrue /\ LabelledTrue /\ VersionsTrue /\ BundlesWhole
  BY DEF ArchivesInv
<1>2. task'.pc = "solve" /\ task'.id = task.id /\ TaskTrue'
  BY <1>0 DEF TaskTrue
<1>3. c.complete = task.complete /\ c.files = task.files
  OBVIOUS
<1>5. There(task.id) /\ CompactionRecord \notin Paths(task.id)
  BY <1>0, <1>1 DEF LabelledTrue, VersionsTrue, At
<1>6. /\ Manifest \notin Paths(task.id) /\ DOMAIN task.files \subseteq InputFiles
      /\ task.complete => Needed \subseteq DOMAIN task.files
      /\ task.id \notin touched => \A m \in DOMAIN task.files : Copies(archive[task.id], <<"inputs", m>>, task.files[m])
      /\ task.id \notin mixed => \A m \in DOMAIN task.files : task.files[m] = began[task.id][m]
  BY <1>0, <1>1 DEF CaptureTrue, InProgress, At
<1>7. Manifest # CompactionRecord /\ Manifest[2] \notin InputFiles
  BY PathsAre DEF Records
<1> HIDE DEF c
<1>8. /\ VersionsTrue' /\ LabelsTrue' /\ DOMAIN archive' = DOMAIN archive
      /\ DOMAIN archive'[task.id] = Paths(task.id) \cup {Manifest}
      /\ \A a \in DOMAIN archive : a # task.id => archive'[a] = archive[a]
      /\ archive'[task.id][Manifest] = c
      /\ \A q \in Paths(task.id) : q # Manifest => archive'[task.id][q] = archive[task.id][q]
      /\ \A w, ids : w[1] \in InputFiles /\ Stored(w, ids) => Stored(w, ids)'
  BY <1>0, <1>2, <1>5, <1>7, PutStep
<1>9. BundlesWhole'
  <2>0. UNCHANGED <<began, mixed, touched>>
    BY <1>0 DEF past
  <2> SUFFICES ASSUME NEW a \in DOMAIN archive' \ touched', Manifest \in DOMAIN archive'[a], archive'[a][Manifest].complete
               PROVE  /\ Restorable(a)'
                      /\ Needed \subseteq DOMAIN archive'[a][Manifest].files
                      /\ a \notin mixed' => \A n \in DOMAIN archive'[a][Manifest].files :
                                            archive'[a][Manifest].files[n] = began'[a][n]
                      /\ DOMAIN archive'[a][Manifest].files \subseteq InputFiles
    BY DEF BundlesWhole, BundlesHold, Paths
  <2>1. CASE a = task.id
    <3>1. archive'[a][Manifest].files = task.files /\ task.complete
      BY <1>3, <1>8, <2>1
    <3>2. \A m \in DOMAIN task.files : Copies(archive'[task.id], <<"inputs", m>>, task.files[m])
      <4>1. \A m : <<"inputs", m>> # Manifest
        BY PathsAre
      <4> QED  BY <1>6, <1>8, <2>0, <2>1, <4>1 DEF Copies, Paths
    <3>3. Restorable(a)'
      BY <1>8, <2>1, <3>1, <3>2 DEF Restorable, There, Paths, Copies
    <3> QED  BY <1>6, <2>0, <2>1, <3>1, <3>3
  <2>2. CASE a # task.id
    <3>1. archive'[a] = archive[a] /\ a \in DOMAIN archive \ touched /\ Manifest \in Paths(a)
      BY <1>8, <2>0, <2>2 DEF Paths
    <3>2. /\ Restorable(a)
          /\ Needed \subseteq DOMAIN archive[a][Manifest].files
          /\ a \notin mixed => \A n \in DOMAIN archive[a][Manifest].files :
                                            archive[a][Manifest].files[n] = began[a][n]
          /\ DOMAIN archive[a][Manifest].files \subseteq InputFiles
      BY <1>1, <3>1 DEF BundlesWhole, BundlesHold
    <3>3. Restorable(a)'
      BY <1>8, <3>1, <3>2 DEF Restorable, There, Paths, Copies
    <3> QED  BY <2>0, <3>1, <3>2, <3>3
  <2> QED  BY <2>1, <2>2
<1>10. CaptureTrue' /\ LabelledTrue'
  BY <1>2, <1>5, <1>7, <1>8 DEF CaptureTrue, LabelledTrue, At, Paths
<1>12. ~mangled => WantedTrue'
  BY <1>0, <1>2, <1>8, WantedStays DEF past
<1> QED  BY <1>0, <1>2, <1>8, <1>9, <1>10, <1>12 DEF ArchivesInv, At, past, RestorationTrue

-----------------------------------------------------------------------------
(* What other steps keep. *)

LEMMA VersionsStay ==
    ASSUME VersionsTrue, Function(archive'), DOMAIN archive' \subseteq Ids, UNCHANGED <<changes, began>>,
           wanted' \subseteq wanted, review'.kind = "control" => review' = review \/ ~ToCome(review'.new),
           \A n \in InputFiles \cap DOMAIN live' :
                (n \in DOMAIN live /\ live'[n] = live[n]) \/ ~ToCome(live'[n]),
           \A a \in DOMAIN archive' : \A p \in DOMAIN archive'[a] : p[2] \in InputFiles =>
                \/ a \in DOMAIN archive /\ p \in DOMAIN archive[a] /\ archive'[a][p] = archive[a][p]
                \/ ~ToCome(archive'[a][p]),
           task'.pc \notin {"idle", "control"} => task'.id \in DOMAIN archive',
           task'.pc = "control" => task' = task
    PROVE  VersionsTrue'
<1>1. \A v : ToCome(v)' <=> ToCome(v)
  BY DEF ToCome
<1>2. /\ changes \in 0 .. MaxChanges /\ DOMAIN began = Ids
      /\ \A w \in wanted : w = <<w[1], w[2]>> /\ w[1] \in InputFiles
      /\ \A n \in InputFiles \cap DOMAIN live : ~ToCome(live[n])
      /\ \A a \in DOMAIN archive : \A p \in DOMAIN archive[a] : p[2] \in InputFiles => ~ToCome(archive[a][p])
      /\ review.kind = "control" => ~ToCome(review.new)
      /\ At("control") => ~ToCome(task.new)
  BY DEF VersionsTrue, Paths
<1>3. (changes \in 0 .. MaxChanges /\ DOMAIN archive \subseteq Ids /\ DOMAIN began = Ids)'
  BY <1>2 DEF Ids
<1>4. (archive = [a \in DOMAIN archive |-> archive[a]])'
  BY DEF Function
<1>5. (task.pc \notin {"idle", "control"} => There(task.id))'
  BY DEF There
<1>6. (\A w \in wanted : w = <<w[1], w[2]>> /\ w[1] \in InputFiles)'
  BY <1>2
<1>7. (\A n \in InputFiles \cap DOMAIN live : ~ToCome(live[n]))'
  BY <1>1, <1>2
<1>8. (\A a \in DOMAIN archive : \A p \in Paths(a) : p[2] \in InputFiles => ~ToCome(archive[a][p]))'
  <2> SUFFICES ASSUME NEW a \in DOMAIN archive', NEW p \in DOMAIN archive'[a], p[2] \in InputFiles
               PROVE  ~ToCome(archive'[a][p])
    BY <1>1 DEF Paths
  <2>1. CASE a \in DOMAIN archive /\ p \in DOMAIN archive[a] /\ archive'[a][p] = archive[a][p]
    BY <1>2, <2>1
  <2> QED  BY <2>1
<1>9. (review.kind = "control" => ~ToCome(review.new))'
  BY <1>1, <1>2
<1>10. (At("control") => ~ToCome(task.new))'
  BY <1>1, <1>2 DEF At
<1> QED  BY <1>3, <1>4, <1>5, <1>6, <1>7, <1>8, <1>9, <1>10 DEF VersionsTrue

(* A step that only drops or replaces files that no compaction needs, in the archive of a
   compaction, and no input of the model. *)
LEMMA TidyStep ==
    ASSUME ArchivesInv, There(task.id), Function(archive'), DOMAIN archive' = DOMAIN archive,
           \A a \in DOMAIN archive : a # task.id => archive'[a] = archive[a],
           \A q \in DOMAIN archive[task.id] : q \in {Manifest, CompactionRecord} \/ q[2] \in InputFiles =>
                q \in DOMAIN archive'[task.id] /\ archive'[task.id][q] = archive[task.id][q],
           \A q \in DOMAIN archive'[task.id] :
                \/ q \in DOMAIN archive[task.id] /\ archive'[task.id][q] = archive[task.id][q]
                \/ /\ Kept(q, archive'[task.id][q])
                   /\ q[2] \notin InputFiles /\ q \notin {Manifest, CompactionRecord},
           UNCHANGED <<review, changes, past>>,
           \A n \in InputFiles : (n \in DOMAIN live' <=> n \in DOMAIN live) /\ (n \in DOMAIN live => live'[n] = live[n]),
           task'.pc = "compact", task'.id = task.id, TaskTrue',
           ~task'.kept => CompactionRecord \notin Paths(task.id),
           ~task'.warned => \A q \in DOMAIN archive'[task.id] \ task'.todo : Kept(q, archive'[task.id][q])
    PROVE  ArchivesInv'
<1>0. UNCHANGED <<review, changes, began, mixed, touched, wanted, mangled>>
  BY DEF past
<1>1. VersionsTrue /\ BundlesWhole /\ LabelsTrue
  BY DEF ArchivesInv, LabelledTrue
<1>2. VersionsTrue'
  <2>1. DOMAIN archive' \subseteq Ids
    BY <1>1 DEF VersionsTrue
  <2>2. ASSUME NEW a \in DOMAIN archive', NEW p \in DOMAIN archive'[a], p[2] \in InputFiles
        PROVE  a \in DOMAIN archive /\ p \in DOMAIN archive[a] /\ archive'[a][p] = archive[a][p]
    <3>1. CASE a = task.id
      BY <2>2, <3>1
    <3>2. CASE a # task.id
      BY <2>2, <3>2
    <3> QED  BY <3>1, <3>2
  <2>3. task'.id \in DOMAIN archive'
    BY DEF There
  <2> QED  BY <1>0, <1>1, <2>1, <2>2, <2>3, VersionsStay
<1>3. \A a \in DOMAIN archive : Stays(a)
  BY DEF Stays
<1>4. BundlesWhole'
  <2>1. \A a \in DOMAIN archive' : Manifest \in DOMAIN archive'[a] => a \in DOMAIN archive /\ Manifest \in DOMAIN archive[a]
    OBVIOUS
  <2> QED  BY <1>0, <1>1, <1>3, <2>1, BundlesStay
<1>5. LabelsTrue'
  <2>1. ASSUME NEW a \in DOMAIN archive', CompactionRecord \in DOMAIN archive'[a]
        PROVE  /\ a \in DOMAIN archive /\ CompactionRecord \in DOMAIN archive[a]
               /\ archive'[a][CompactionRecord] = archive[a][CompactionRecord]
               /\ \A p \in DOMAIN archive'[a] :
                    \/ p \in DOMAIN archive[a] /\ archive'[a][p] = archive[a][p]
                    \/ Kept(p, archive'[a][p])
    <3>1. CASE a = task.id
      <4>1. CompactionRecord \in DOMAIN archive[a] /\ archive'[a][CompactionRecord] = archive[a][CompactionRecord]
        BY <2>1, <3>1
      <4> QED  BY <3>1, <4>1
    <3>2. CASE a # task.id
      BY <2>1, <3>2
    <3> QED  BY <3>1, <3>2
  <2> QED  BY <1>1, <2>1, LabelsStay
<1>6. LabelledTrue'
  <2>1. CompactionRecord \in DOMAIN archive'[task.id] => CompactionRecord \in DOMAIN archive[task.id]
    OBVIOUS
  <2> QED  BY <1>5, <2>1 DEF LabelledTrue, At, Paths
<1>7. ~mangled => WantedTrue'
  <2> SUFFICES ASSUME ~mangled PROVE WantedTrue'
    OBVIOUS
  <2>1. \A w \in wanted : (InModel(w) \/ Stored(w, Ids)) /\ w[1] \in InputFiles
    BY <1>1 DEF ArchivesInv, WantedTrue, VersionsTrue
  <2>2. \A w \in wanted : InModel(w) => InModel(w)'
    BY <2>1 DEF InModel, Copies
  <2>3. \A w \in wanted : Stored(w, Ids) => Stored(w, Ids)'
    BY <1>3, <2>1, StoredStays
  <2> QED  BY <1>0, <2>1, <2>2, <2>3 DEF WantedTrue, At
<1>8. CaptureTrue' /\ RestorationTrue' /\ ~At("delete")'
  BY DEF CaptureTrue, RestorationTrue, At
<1> QED  BY <1>0, <1>2, <1>4, <1>6, <1>7, <1>8 DEF ArchivesInv

LEMMA SolveStep == ArchivesInv /\ Solve => ArchivesInv'
<1> SUFFICES ASSUME ArchivesInv, Solve PROVE ArchivesInv'
  OBVIOUS
<1> DEFINE logs == {<<"main", n>> : n \in Logs}
           a == task.id
<1>0. /\ task.pc = "solve" /\ task' = Compaction(a, Cut(archive[a]), FALSE) /\ UNCHANGED <<review, changes, past>>
      /\ live' = [n \in DOMAIN live \cup Checkpoints \cup Logs |->
                    IF n \in Checkpoints \cup Logs THEN <<"run", a>> ELSE live[n]]
      /\ archive' = [archive EXCEPT ![a] =
            [p \in DOMAIN @ \cup logs |-> IF p \in logs THEN Excerpt(<<"run", a>>) ELSE @[p]]]
  BY DEF Solve, At, bounds
<1>1. There(a) /\ Function(archive) /\ CompactionRecord \notin Paths(a)
  BY <1>0 DEF ArchivesInv, VersionsTrue, LabelledTrue, At, Function
<1>2. /\ Function(archive') /\ DOMAIN archive' = DOMAIN archive
      /\ \A b \in DOMAIN archive : b # a => archive'[b] = archive[b]
      /\ DOMAIN archive'[a] = DOMAIN archive[a] \cup logs
      /\ \A p \in logs : archive'[a][p] = Excerpt(<<"run", a>>)
      /\ \A p \in DOMAIN archive[a] : p \notin logs => archive'[a][p] = archive[a][p]
  <2> HIDE DEF logs
  <2> QED  BY <1>0, <1>1 DEF Function, There
<1>3. \A p \in logs : p \notin {Manifest, CompactionRecord} /\ p[2] \in Logs
  <2> SUFFICES ASSUME NEW n \in Logs
               PROVE  <<"main", n>> # Manifest /\ <<"main", n>> # CompactionRecord /\ <<"main", n>>[2] = n
    OBVIOUS
  <2>1. "main" # ""
    OBVIOUS
  <2> QED  BY <2>1, PathsAre
<1>4. \A p \in logs : p[2] \notin InputFiles /\ \A v : Kept(p, Excerpt(v))
  <2> HIDE DEF logs
  <2>1. \A p \in logs : p[2] \notin InputFiles
    BY <1>3, ArchivesAssumption
  <2>2. \A p \in logs : \A v : Kept(p, Excerpt(v))
    BY <1>3, PathsAre
  <2> QED  BY <2>1, <2>2
<1>5. /\ task'.pc = "compact" /\ task'.id = a /\ ~task'.kept /\ task'.todo = Cut(archive[a])
      /\ TaskTrue'
  BY <1>0 DEF Compaction, TaskTrue
<1>6. \A n \in InputFiles : n \notin Checkpoints \cup Logs
  BY ArchivesAssumption
<1>7. \A n \in InputFiles : (n \in DOMAIN live' <=> n \in DOMAIN live) /\ (n \in DOMAIN live => live'[n] = live[n])
  BY <1>0, <1>6
<1>8. \A q \in DOMAIN archive'[a] \ task'.todo : Kept(q, archive'[a][q])
  BY <1>2, <1>4, <1>5 DEF Cut
<1> HIDE DEF logs
<1>9. \A q \in DOMAIN archive[a] : q \in {Manifest, CompactionRecord} \/ q[2] \in InputFiles =>
        q \in DOMAIN archive'[a] /\ archive'[a][q] = archive[a][q]
  BY <1>2, <1>3, <1>4
<1>10. \A q \in DOMAIN archive'[a] :
          \/ q \in DOMAIN archive[a] /\ archive'[a][q] = archive[a][q]
          \/ Kept(q, archive'[a][q]) /\ q[2] \notin InputFiles /\ q \notin {Manifest, CompactionRecord}
  BY <1>2, <1>3, <1>4
<1> QED  BY <1>0, <1>1, <1>2, <1>5, <1>7, <1>8, <1>9, <1>10, TidyStep

-----------------------------------------------------------------------------
(* Reviews and what is done with archives. *)

LEMMA ReviewStep == ArchivesInv /\ Review => ArchivesInv'
<1> SUFFICES ASSUME ArchivesInv, Review PROVE ArchivesInv'
  OBVIOUS
<1>0. UNCHANGED <<live, archive, task, changes, began, mixed, touched, wanted, mangled>> /\ review' \in Reviews
  BY DEF Review, bounds, past
<1>1. VersionsTrue
  BY DEF ArchivesInv
<1>2. review'.kind = "control" => ~ToCome(review'.new)
  <2> SUFFICES ASSUME review'.kind = "control" PROVE ~ToCome(review'.new)
    OBVIOUS
  <2>1. \A a, p : p \in Recoverable(a) => p \in Paths(a) /\ p[2] \in InputFiles
    BY DEF Recoverable
  <2>2. PICK a \in DOMAIN archive : \E p \in Recoverable(a) : review'.new = archive[a][p]
    <3>1. CASE review' \in {[kind |-> action, id |-> a, seen |-> archive[a]] : action \in {"delete", "compact"}, a \in DOMAIN archive}
      <4>1. \E k \in {"delete", "compact"}, b \in DOMAIN archive : review' = [kind |-> k, id |-> b, seen |-> archive[b]]
        BY <3>1
      <4>2. review'.kind \in {"delete", "compact"}
        BY <4>1
      <4> QED  BY <4>2
    <3>2. CASE review' \in {[kind |-> "inputs", id |-> a, seen |-> archive[a], current |-> live] : a \in {b \in DOMAIN archive : Restorable(b)}}
      <4>1. review'.kind = "inputs"
        BY <3>2
      <4> QED  BY <4>1
    <3>3. CASE review' \in UNION {{[kind |-> "control", name |-> p[2], seen |-> live[p[2]], new |-> archive[a][p]] : p \in Recoverable(a)} :
                a \in DOMAIN archive}
      <4>1. PICK a \in DOMAIN archive : review' \in {[kind |-> "control", name |-> p[2], seen |-> live[p[2]], new |-> archive[a][p]] : p \in Recoverable(a)}
        BY <3>3
      <4>2. PICK p \in Recoverable(a) : review' = [kind |-> "control", name |-> p[2], seen |-> live[p[2]], new |-> archive[a][p]]
        BY <4>1
      <4>3. review'.new = archive[a][p]
        BY <4>2
      <4> QED  BY <4>3
    <3> QED  BY <1>0, <3>1, <3>2, <3>3 DEF Reviews
  <2>3. PICK p \in Recoverable(a) : review'.new = archive[a][p]
    BY <2>2
  <2> QED  BY <1>1, <2>1, <2>3 DEF VersionsTrue
<1>3. VersionsTrue'
  BY <1>0, <1>1, <1>2 DEF VersionsTrue, ToCome, There, Paths, At, Ids
<1>4. BundlesWhole'
  BY <1>0 DEF ArchivesInv, BundlesWhole, BundlesHold, Restorable, There, Copies, Paths
<1>5. LabelledTrue' /\ TaskTrue' /\ CaptureTrue' /\ RestorationTrue'
  <2>1. LabelledTrue'
    BY <1>0 DEF ArchivesInv, LabelledTrue, LabelsTrue, Paths, At
  <2>2. CaptureTrue'
    BY <1>0 DEF ArchivesInv, CaptureTrue, InProgress, Paths, At, Copies
  <2>3. RestorationTrue'
    BY <1>0 DEF ArchivesInv, RestorationTrue, Paths, At, There
  <2>4. TaskTrue'
    BY <1>0 DEF ArchivesInv, TaskTrue
  <2> QED  BY <2>1, <2>2, <2>3, <2>4
<1>6. (mangled \/ WantedTrue)'
  <2>1. \A w, ids : (Stored(w, ids)' <=> Stored(w, ids)) /\ (InModel(w)' <=> InModel(w))
    BY <1>0 DEF Stored, InModel, Copies, Paths
  <2> QED  BY <1>0, <2>1 DEF ArchivesInv, WantedTrue, At, Ids
<1> QED  BY <1>0, <1>3, <1>4, <1>5, <1>6 DEF ArchivesInv, At

LEMMA StutterStep == ArchivesInv /\ UNCHANGED archives => ArchivesInv'
<1> SUFFICES ASSUME ArchivesInv, UNCHANGED archives PROVE ArchivesInv'
  OBVIOUS
<1>0. UNCHANGED <<live, archive, task, review, changes, began, mixed, touched, wanted, mangled>>
  BY DEF archives
<1>1. VersionsTrue'
  BY <1>0 DEF ArchivesInv, VersionsTrue, ToCome, There, Paths, At, Ids
<1>2. BundlesWhole'
  BY <1>0 DEF ArchivesInv, BundlesWhole, BundlesHold, Restorable, There, Copies, Paths
<1>3. LabelledTrue'
  BY <1>0 DEF ArchivesInv, LabelledTrue, LabelsTrue, Paths, At
<1>4. CaptureTrue'
  BY <1>0 DEF ArchivesInv, CaptureTrue, InProgress, Paths, At, Copies
<1>5. RestorationTrue' /\ TaskTrue'
  BY <1>0 DEF ArchivesInv, RestorationTrue, TaskTrue, Paths, At, There
<1>6. (mangled \/ WantedTrue)'
  <2>1. \A w, ids : (Stored(w, ids)' <=> Stored(w, ids)) /\ (InModel(w)' <=> InModel(w))
    BY <1>0 DEF Stored, InModel, Copies, Paths
  <2> QED  BY <1>0, <2>1 DEF ArchivesInv, WantedTrue, At, Ids
<1> QED  BY <1>0, <1>1, <1>2, <1>3, <1>4, <1>5, <1>6 DEF ArchivesInv, At

LEMMA HouseStep == ArchivesInv /\ House => ArchivesInv'
<1> SUFFICES ASSUME ArchivesInv, House PROVE ArchivesInv'
  OBVIOUS
<1> DEFINE a == review.id
<1>0. /\ review.kind \in {"delete", "compact"} /\ There(a) /\ archive[a] = review.seen
      /\ task' = [Compaction(a, Cut(review.seen), TRUE) EXCEPT !.pc = review.kind]
      /\ touched' = IF review.kind = "delete" THEN touched \cup {a} ELSE touched
      /\ wanted' = IF review.kind = "compact" THEN wanted
                   ELSE {w \in wanted : InModel(w) \/ ~InArchive(w, {a})}
      /\ UNCHANGED <<live, archive, review, changes, began, mixed, mangled>>
  BY DEF House, Begins, AsReviewed, Copies, There
<1>1. /\ task'.pc = review.kind /\ task'.id = a /\ task'.kept = TRUE /\ task'.todo = Cut(archive[a])
      /\ TaskTrue' /\ CaptureTrue'
  BY <1>0 DEF Compaction, TaskTrue, CaptureTrue
<1>2. CASE review.kind = "compact"
  <2>1. \A p \in Paths(a) \ Cut(archive[a]) : Kept(p, archive[a][p])
    BY DEF Cut, Paths
  <2>2. UNCHANGED <<live, archive, review, changes, past>>
    BY <1>0, <1>2 DEF past
  <2> QED  BY <1>0, <1>1, <1>2, <2>1, <2>2, CalmStep
<1>3. CASE review.kind = "delete"
  <2>0. VersionsTrue /\ BundlesWhole /\ LabelsTrue /\ Function(archive)
    BY DEF ArchivesInv, LabelledTrue, VersionsTrue, Function
  <2>1. \A b \in DOMAIN archive : Stays(b)
    BY <1>0 DEF Stays
  <2>2. VersionsTrue'
    <3>1. Function(archive') /\ DOMAIN archive' \subseteq Ids
      BY <1>0, <2>0 DEF Function, VersionsTrue
    <3>2. task'.id \in DOMAIN archive' /\ wanted' \subseteq wanted
      BY <1>0, <1>1 DEF There
    <3> QED  BY <1>0, <1>1, <1>3, <2>0, <3>1, <3>2, VersionsStay
  <2>3. BundlesWhole'
    BY <1>0, <2>0, <2>1, BundlesStay
  <2>4. LabelledTrue'
    BY <1>0, <1>1, <1>3, <2>0 DEF LabelledTrue, LabelsTrue, At, Paths
  <2>5. ~mangled => WantedTrue'
    <3> SUFFICES ASSUME ~mangled PROVE WantedTrue'
      OBVIOUS
    <3>1. \A w, ids : (Stored(w, ids)' <=> Stored(w, ids)) /\ (InModel(w)' <=> InModel(w))
      BY <1>0 DEF Stored, InModel, Copies, Paths
    <3>2. \A w \in wanted : InModel(w) \/ Stored(w, Ids)
      BY DEF ArchivesInv, WantedTrue
    <3>3. ASSUME NEW w \in wanted', ~InModel(w) PROVE Stored(w, Ids \ {a})
      <4>1. w \in wanted /\ ~InArchive(w, {a}) /\ Stored(w, Ids)
        BY <1>0, <1>3, <3>2, <3>3
      <4>2. PICK b \in Ids \cap DOMAIN archive : \E p \in Paths(b) : p[1] # "staged" /\ p[2] = w[1] /\ archive[b][p] = w[2]
        BY <4>1 DEF Stored
      <4>3. b # a
        BY <4>1, <4>2 DEF InArchive, There
      <4> QED  BY <4>2, <4>3 DEF Stored
    <3>4. (\A w \in wanted : InModel(w) \/ Stored(w, Ids))'
      BY <1>0, <3>1, <3>2 DEF Ids
    <3>5. PICK ids : ids = Ids \ {a}
      OBVIOUS
    <3>6. \A w \in wanted' : InModel(w)' \/ Stored(w, ids)'
      BY <3>1, <3>3, <3>5
    <3>7. ids = Ids \ {task'.id}
      BY <1>1, <3>5
    <3>8. \A w \in wanted' : InModel(w)' \/ Stored(w, Ids \ {task.id})'
      BY <3>6, <3>7 DEF Stored, Ids
    <3> QED  BY <1>1, <1>3, <3>4, <3>8 DEF WantedTrue, At
  <2>6. RestorationTrue' /\ task'.id \in touched'
    <3>1. task'.pc = "delete"
      BY <1>1, <1>3
    <3>2. RestorationTrue'
      BY <3>1 DEF RestorationTrue, At
    <3>3. task'.id \in touched'
      <4>1. touched' = touched \cup {a}
        BY <1>0, <1>3
      <4> QED  BY <1>1, <4>1
    <3> QED  BY <3>2, <3>3
  <2> QED  BY <1>0, <1>1, <2>2, <2>3, <2>4, <2>5, <2>6 DEF ArchivesInv
<1> QED  BY <1>0, <1>2, <1>3

LEMMA DeleteStep == ArchivesInv /\ Delete => ArchivesInv'
<1> SUFFICES ASSUME ArchivesInv, Delete PROVE ArchivesInv'
  OBVIOUS
<1> DEFINE a == task.id
           d == First(Paths(a))
<1>0. task.pc = "delete" /\ UNCHANGED <<live, review, changes, began, mixed, touched, wanted, mangled>>
  BY DEF Delete, bounds, past, At
<1>1. There(a) /\ a \in touched /\ Function(archive) /\ VersionsTrue /\ BundlesWhole /\ LabelsTrue
  BY <1>0 DEF ArchivesInv, VersionsTrue, LabelledTrue, At, Function
<1>2. /\ Function(archive') /\ DOMAIN archive' \subseteq DOMAIN archive
      /\ \A b \in DOMAIN archive : b # a => b \in DOMAIN archive' /\ archive'[b] = archive[b]
      /\ a \in DOMAIN archive' => /\ DOMAIN archive'[a] \subseteq DOMAIN archive[a]
                                 /\ \A p \in DOMAIN archive'[a] : archive'[a][p] = archive[a][p]
      /\ \/ task' = Idle
         \/ task' = task /\ a \in DOMAIN archive'
  <2>1. CASE Paths(a) = {}
    BY <1>1, <2>1 DEF Delete, Without, Function
  <2>2. CASE Paths(a) # {}
    <3>1. Drops(a, d) /\ task' = task
      BY <2>2 DEF Delete
    <3> HIDE DEF d
    <3>2. /\ Function(archive') /\ DOMAIN archive' = DOMAIN archive
          /\ \A b \in DOMAIN archive : b # a => archive'[b] = archive[b]
          /\ DOMAIN archive'[a] = DOMAIN archive[a] \ {d}
          /\ \A q \in DOMAIN archive[a] : q # d => archive'[a][q] = archive[a][q]
      BY <1>1, <3>1, DropsIs
    <3> QED  BY <1>1, <3>1, <3>2 DEF There
  <2> QED  BY <2>1, <2>2
<1> HIDE DEF d
<1>3. task'.pc \in {"idle", "delete"} /\ (task'.pc = "delete" => task' = task /\ a \in DOMAIN archive')
  BY <1>0, <1>2 DEF Idle
<1>4. \A b \in DOMAIN archive : b # a => Stays(b)
  BY <1>2 DEF Stays
<1>5. VersionsTrue'
  <2>1. DOMAIN archive' \subseteq Ids
    BY <1>1, <1>2 DEF VersionsTrue
  <2>2. ASSUME NEW b \in DOMAIN archive', NEW p \in DOMAIN archive'[b]
        PROVE  b \in DOMAIN archive /\ p \in DOMAIN archive[b] /\ archive'[b][p] = archive[b][p]
    BY <1>2
  <2> QED  BY <1>0, <1>1, <1>2, <1>3, <2>1, <2>2, VersionsStay
<1>6. BundlesWhole'
  <2>1. ASSUME NEW b \in DOMAIN archive' \ touched', Manifest \in DOMAIN archive'[b]
        PROVE  b \in DOMAIN archive /\ Manifest \in DOMAIN archive[b] /\ Stays(b)
    <3>1. b # a /\ b \in DOMAIN archive
      BY <1>0, <1>1, <1>2
    <3> QED  BY <1>2, <1>4, <2>1, <3>1
  <2> QED  BY <1>0, <1>1, <2>1, BundlesStay
<1>7. LabelledTrue'
  <2>1. ASSUME NEW b \in DOMAIN archive', CompactionRecord \in DOMAIN archive'[b]
        PROVE  /\ b \in DOMAIN archive /\ CompactionRecord \in DOMAIN archive[b]
               /\ archive'[b][CompactionRecord] = archive[b][CompactionRecord]
               /\ \A p \in DOMAIN archive'[b] : p \in DOMAIN archive[b] /\ archive'[b][p] = archive[b][p]
    <3>1. CASE b = a
      BY <1>1, <1>2, <2>1, <3>1 DEF There
    <3>2. CASE b # a
      BY <1>2, <2>1, <3>2
    <3> QED  BY <3>1, <3>2
  <2>2. LabelsTrue'
    BY <1>1, <2>1, LabelsStay
  <2> QED  BY <1>3, <2>2 DEF LabelledTrue, At
<1>8. ~mangled => WantedTrue'
  <2> SUFFICES ASSUME ~mangled PROVE WantedTrue'
    OBVIOUS
  <2>1. PICK ids : ids = Ids \ {a}
    OBVIOUS
  <2>2. \A w \in wanted : (InModel(w) \/ Stored(w, ids)) /\ w[1] \in InputFiles
    BY <1>0, <1>1, <2>1 DEF ArchivesInv, WantedTrue, VersionsTrue, At
  <2>3. \A b \in DOMAIN archive : b \in ids => Stays(b)
    BY <1>4, <2>1
  <2>4. \A w \in wanted : InModel(w)' \/ Stored(w, ids)'
    <3>1. \A w \in wanted : InModel(w) => InModel(w)'
      BY <1>0 DEF InModel, Copies
    <3>2. \A w \in wanted : Stored(w, ids) => Stored(w, ids)'
      BY <2>2, <2>3, StoredStays
    <3> QED  BY <2>2, <3>1, <3>2
  <2>5. \A w : Stored(w, ids)' => Stored(w, Ids)'
    BY <2>1 DEF Stored, Ids
  <2>6. task'.pc = "delete" => \A w \in wanted' : InModel(w)' \/ Stored(w, Ids \ {task.id})'
    <3> SUFFICES ASSUME task'.pc = "delete" PROVE \A w \in wanted' : InModel(w)' \/ Stored(w, Ids \ {task.id})'
      OBVIOUS
    <3>1. ids = Ids \ {task'.id}
      BY <1>3, <2>1
    <3> QED  BY <1>0, <2>4, <3>1 DEF Stored, Ids
  <2> QED  BY <1>0, <1>3, <2>4, <2>5, <2>6 DEF WantedTrue, At
<1>9. TaskTrue'
  BY <1>2 DEF ArchivesInv, TaskTrue
<1>10. CaptureTrue' /\ RestorationTrue'
  BY <1>3 DEF CaptureTrue, RestorationTrue, At
<1>11. At("delete")' => task'.id \in touched'
  BY <1>0, <1>1, <1>3 DEF At
<1> QED  BY <1>0, <1>5, <1>6, <1>7, <1>8, <1>9, <1>10, <1>11 DEF ArchivesInv

LEMMA CompactStep == ArchivesInv /\ Compact => ArchivesInv'
<1> SUFFICES ASSUME ArchivesInv, Compact PROVE ArchivesInv'
  OBVIOUS
<1> DEFINE p == First(task.todo)
           a == task.id
<1>0. task.pc = "compact" /\ task.todo # {} /\ UNCHANGED <<live, review, changes, past>>
  BY DEF Compact, At, bounds, Fault
<1>1. /\ TaskTrue /\ There(a) /\ Function(archive) /\ VersionsTrue
      /\ ~task.kept => CompactionRecord \notin Paths(a)
      /\ ~task.warned => \A q \in Paths(a) \ task.todo : Kept(q, archive[a][q])
  BY <1>0 DEF ArchivesInv, VersionsTrue, LabelledTrue, At, Function
<1>2. task = [pc |-> task.pc, id |-> task.id, todo |-> task.todo, warned |-> task.warned, kept |-> task.kept]
  BY <1>0, <1>1 DEF TaskTrue, Idle
<1>3. \/ /\ task' = [task EXCEPT !.todo = @ \ {p}] /\ p \in Paths(a)
         /\ IF Kept(p, archive[a][p]) THEN UNCHANGED archive
            ELSE IF Excerpted(p, archive[a][p]) THEN Puts(a, p, Excerpt(archive[a][p]))
            ELSE Drops(a, p)
      \/ task' = [task EXCEPT !.todo = @ \ {p}, !.warned = TRUE] /\ UNCHANGED archive
  BY DEF Compact
<1> HIDE DEF p
<1>4. /\ task'.pc = "compact" /\ task'.id = a /\ task'.kept = task.kept /\ task'.todo = task.todo \ {p}
      /\ TaskTrue' /\ CaptureTrue'
  BY <1>0, <1>2, <1>3 DEF TaskTrue, CaptureTrue
<1>5. CASE task' = [task EXCEPT !.todo = @ \ {p}, !.warned = TRUE] /\ UNCHANGED archive
  <2>1. task'.warned = TRUE
    BY <1>2, <1>5
  <2> QED  BY <1>0, <1>1, <1>4, <1>5, <2>1, CalmStep
<1>6. CASE task' = [task EXCEPT !.todo = @ \ {p}] /\ p \in Paths(a) /\ Kept(p, archive[a][p]) /\ UNCHANGED archive
  <2>1. task'.warned = task.warned
    BY <1>2, <1>6
  <2>2. ~task.warned => \A q \in Paths(a) \ (task.todo \ {p}) : Kept(q, archive[a][q])
    BY <1>1, <1>6
  <2> QED  BY <1>0, <1>1, <1>4, <1>6, <2>1, <2>2, CalmStep
<1>7. CASE /\ task' = [task EXCEPT !.todo = @ \ {p}] /\ p \in Paths(a) /\ ~Kept(p, archive[a][p])
           /\ IF Excerpted(p, archive[a][p]) THEN Puts(a, p, Excerpt(archive[a][p])) ELSE Drops(a, p)
  <2>1. task'.warned = task.warned
    BY <1>2, <1>7
  <2>2. p \notin {Manifest, CompactionRecord} /\ p[2] \notin InputFiles
    BY <1>7, PathsAre
  <2>3. /\ Function(archive') /\ DOMAIN archive' = DOMAIN archive
        /\ \A b \in DOMAIN archive : b # a => archive'[b] = archive[b]
        /\ \A q \in DOMAIN archive[a] : q # p => q \in DOMAIN archive'[a] /\ archive'[a][q] = archive[a][q]
        /\ \A q \in DOMAIN archive'[a] : q \in DOMAIN archive[a] \cup {p}
        /\ p \in DOMAIN archive'[a] => Kept(p, archive'[a][p])
    <3>1. CASE Excerpted(p, archive[a][p])
      <4>1. Puts(a, p, Excerpt(archive[a][p]))
        BY <1>7, <3>1
      <4>2. Kept(p, Excerpt(archive[a][p]))
        BY <3>1, PathsAre
      <4>3. PICK c : c = Excerpt(archive[a][p])
        OBVIOUS
      <4>4. /\ Function(archive') /\ DOMAIN archive' = DOMAIN archive
            /\ \A b \in DOMAIN archive : b # a => archive'[b] = archive[b]
            /\ DOMAIN archive'[a] = DOMAIN archive[a] \cup {p} /\ archive'[a][p] = c
            /\ \A q \in DOMAIN archive[a] : q # p => archive'[a][q] = archive[a][q]
        BY <1>1, <4>1, <4>3, PutsIs
      <4> QED  BY <4>2, <4>3, <4>4
    <3>2. CASE ~Excerpted(p, archive[a][p])
      <4>1. Drops(a, p)
        BY <1>7, <3>2
      <4> QED  BY <1>1, <4>1, DropsIs
    <3> QED  BY <3>1, <3>2
  <2>4. \A q \in DOMAIN archive[a] : q \in {Manifest, CompactionRecord} \/ q[2] \in InputFiles =>
            q \in DOMAIN archive'[a] /\ archive'[a][q] = archive[a][q]
    BY <2>2, <2>3
  <2>5. \A q \in DOMAIN archive'[a] :
            \/ q \in DOMAIN archive[a] /\ archive'[a][q] = archive[a][q]
            \/ Kept(q, archive'[a][q]) /\ q[2] \notin InputFiles /\ q \notin {Manifest, CompactionRecord}
    BY <2>2, <2>3
  <2>6. ~task'.warned => \A q \in DOMAIN archive'[a] \ task'.todo : Kept(q, archive'[a][q])
    <3> SUFFICES ASSUME ~task.warned, NEW q \in DOMAIN archive'[a], q \notin task.todo \ {p}
                 PROVE  Kept(q, archive'[a][q])
      BY <1>4, <2>1
    <3>1. CASE q = p
      BY <2>3, <3>1
    <3>2. CASE q # p
      <4>1. q \in Paths(a) \ task.todo /\ archive'[a][q] = archive[a][q]
        BY <2>3, <3>2 DEF Paths
      <4> QED  BY <1>1, <4>1
    <3> QED  BY <3>1, <3>2
  <2> QED  BY <1>0, <1>1, <1>4, <2>3, <2>4, <2>5, <2>6, TidyStep
<1> QED  BY <1>3, <1>5, <1>6, <1>7

LEMMA CompactedStep == ArchivesInv /\ Compacted => ArchivesInv'
<1> SUFFICES ASSUME ArchivesInv, Compacted PROVE ArchivesInv'
  OBVIOUS
<1> DEFINE a == task.id
           c == [warned |-> task.warned]
<1>0. task.pc = "compact" /\ task.todo = {} /\ task' = Idle /\ UNCHANGED <<live, review, changes, past>>
  BY DEF Compacted, At, bounds
<1>1. CASE ~task.kept
  <2>1. UNCHANGED archive
    BY <1>1 DEF Compacted
  <2> QED  BY <1>0, <2>1, EndStep
<1>2. CASE task.kept
  <2>1. Puts(a, CompactionRecord, c) /\ There(a) /\ LabelsTrue
    BY <1>0, <1>2 DEF Compacted, ArchivesInv, VersionsTrue, At, LabelledTrue
  <2>2. task'.pc = "idle" /\ TaskTrue' /\ CaptureTrue' /\ RestorationTrue'
    BY <1>0 DEF Idle, TaskTrue, CaptureTrue, RestorationTrue, At
  <2>3. CompactionRecord[2] \notin InputFiles /\ CompactionRecord # Manifest
    BY PathsAre DEF Records
  <2>4. c.warned = task.warned
    OBVIOUS
  <2> HIDE DEF c
  <2>5. /\ VersionsTrue' /\ BundlesWhole'
        /\ \A b \in DOMAIN archive : b # a => archive'[b] = archive[b]
        /\ DOMAIN archive' = DOMAIN archive /\ DOMAIN archive'[a] = Paths(a) \cup {CompactionRecord}
        /\ archive'[a][CompactionRecord] = c
        /\ \A q \in Paths(a) : q # CompactionRecord => archive'[a][q] = archive[a][q]
        /\ \A w, ids : w[1] \in InputFiles /\ Stored(w, ids) => Stored(w, ids)'
    BY <1>0, <2>1, <2>2, <2>3, PutStep
  <2>6. LabelsTrue'
    <3> SUFFICES ASSUME NEW b \in DOMAIN archive', CompactionRecord \in DOMAIN archive'[b],
                        ~archive'[b][CompactionRecord].warned, NEW p \in DOMAIN archive'[b]
                 PROVE  Kept(p, archive'[b][p])
      BY DEF LabelsTrue, Paths
    <3>1. CASE b = a
      <4>1. CASE p = CompactionRecord
        BY <4>1, PathsAre
      <4>2. CASE p # CompactionRecord
        <5>1. ~task.warned /\ p \in Paths(a) \ task.todo /\ archive'[b][p] = archive[a][p]
          BY <1>0, <2>4, <2>5, <3>1, <4>2
        <5>2. \A q \in Paths(a) \ task.todo : Kept(q, archive[a][q])
          BY <1>0, <5>1 DEF ArchivesInv, LabelledTrue, At
        <5> QED  BY <5>1, <5>2
      <4> QED  BY <4>1, <4>2
    <3>2. CASE b # a
      <4>1. archive'[b] = archive[b] /\ b \in DOMAIN archive
        BY <2>5, <3>2
      <4> QED  BY <2>1, <4>1 DEF LabelsTrue, Paths
    <3> QED  BY <3>1, <3>2
  <2>7. LabelledTrue'
    BY <2>2, <2>6 DEF LabelledTrue, At
  <2>8. ~mangled => WantedTrue'
    BY <1>0, <2>2, <2>5, WantedStays DEF past
  <2> QED  BY <1>0, <2>2, <2>5, <2>7, <2>8 DEF ArchivesInv, At, past
<1> QED  BY <1>1, <1>2

LEMMA OverStep == ArchivesInv /\ (HouseFails \/ KillOperation \/ RolledBack) => ArchivesInv'
<1> SUFFICES ASSUME ArchivesInv, HouseFails \/ KillOperation \/ RolledBack PROVE ArchivesInv'
  OBVIOUS
<1>1. UNCHANGED <<live, archive, review, changes, past>> /\ task' = Idle
  BY DEF HouseFails, KillOperation, RolledBack, Fault, bounds
<1> QED  BY <1>1, EndStep

-----------------------------------------------------------------------------
(* One control. *)

LEMMA ControlStep == ArchivesInv /\ Control => ArchivesInv'
<1> SUFFICES ASSUME ArchivesInv, Control PROVE ArchivesInv'
  OBVIOUS
<1> DEFINE name == review.name
           bak == <<"bak", name>>
           f == [p \in {bak} |-> review.seen]
<1>0. /\ CanArchive /\ Creates(NewId, f) /\ review.kind = "control" /\ Copies(live, name, review.seen)
      /\ task' = [pc |-> "control", name |-> name, new |-> review.new]
      /\ UNCHANGED <<live, review, changes, began, mixed, touched, wanted, mangled>>
  BY DEF Control, Begins, past
<1>1. VersionsTrue
  BY DEF ArchivesInv
<1>2. /\ task'.pc = "control" /\ task'.name = name /\ task'.new = review.new
      /\ TaskTrue' /\ CaptureTrue' /\ RestorationTrue'
  BY <1>0 DEF TaskTrue, CaptureTrue, RestorationTrue, At
<1>3. bak # Manifest /\ bak # CompactionRecord /\ bak[1] = "bak" /\ bak[2] = name
  <2>1. "bak" # ""
    OBVIOUS
  <2> QED  BY <2>1, PathsAre
<1>4. DOMAIN f = {bak} /\ f[bak] = review.seen
  OBVIOUS
<1>5. \A p \in DOMAIN f : p[2] \in InputFiles => ~ToCome(f[p])
  BY <1>0, <1>1, <1>3, <1>4 DEF Copies, VersionsTrue
<1>6. ~ToCome(review.new)
  BY <1>0, <1>1 DEF VersionsTrue
<1> HIDE DEF f, bak, name
<1>7. /\ VersionsTrue' /\ BundlesWhole' /\ LabelsTrue'
      /\ DOMAIN archive' = DOMAIN archive \cup {NewId} /\ archive'[NewId] = f
      /\ \A w, ids : w[1] \in InputFiles /\ Stored(w, ids) => Stored(w, ids)'
  <2>1. Manifest \notin DOMAIN f /\ CompactionRecord \notin DOMAIN f
    BY <1>3, <1>4
  <2> QED  BY <1>0, <1>2, <1>5, <1>6, <2>1, CreateStep
<1>8. LabelledTrue'
  BY <1>2, <1>7 DEF LabelledTrue, At
<1>9. ~mangled => WantedTrue'
  <2> SUFFICES ASSUME ~mangled PROVE WantedTrue'
    OBVIOUS
  <2>1. \A w \in wanted : (InModel(w) \/ Stored(w, Ids)) /\ w[1] \in InputFiles
    BY <1>1 DEF ArchivesInv, WantedTrue, VersionsTrue
  <2>2. \A w : InModel(w)' <=> InModel(w)
    BY <1>0 DEF InModel, Copies
  <2>3. ASSUME NEW w \in wanted, w[1] = name PROVE Stored(w, Ids)'
    <3>1. CASE Stored(w, Ids)
      BY <1>7, <2>1, <3>1
    <3>2. CASE InModel(w)
      <4>1. w[2] = review.seen
        BY <1>0, <2>3, <3>2 DEF InModel, Copies
      <4>2. NewId \in Ids
        BY <1>0, CreatesIs
      <4>3. bak \in DOMAIN archive'[NewId] /\ archive'[NewId][bak] = w[2] /\ bak[1] # "staged" /\ bak[2] = w[1]
        BY <1>3, <1>4, <1>7, <2>3, <4>1
      <4>4. NewId \in Ids \cap DOMAIN archive'
        BY <1>7, <4>2
      <4> HIDE DEF NewId
      <4> QED  BY <4>3, <4>4 DEF Stored, Paths, Ids
    <3> QED  BY <2>1, <3>1, <3>2
  <2>4. \A w \in wanted : InModel(w)' \/ Stored(w, Ids)'
    BY <1>7, <2>1, <2>2
  <2> QED  BY <1>0, <1>2, <2>3, <2>4 DEF WantedTrue, At
<1> QED  BY <1>0, <1>2, <1>7, <1>8, <1>9 DEF ArchivesInv, At

LEMMA ReplaceStep == ArchivesInv /\ Replace => ArchivesInv'
<1> SUFFICES ASSUME ArchivesInv, Replace PROVE ArchivesInv'
  OBVIOUS
<1>0. /\ task.pc = "control" /\ live' = With(live, task.name, task.new) /\ task' = Idle
      /\ UNCHANGED <<archive, review, changes, began, mixed, touched, wanted, mangled>>
  BY DEF Replace, At, bounds, past
<1>1. VersionsTrue /\ BundlesWhole /\ LabelsTrue /\ Function(archive) /\ ~ToCome(task.new)
  BY <1>0 DEF ArchivesInv, VersionsTrue, LabelledTrue, At, Function
<1>2. task'.pc = "idle" /\ TaskTrue' /\ CaptureTrue' /\ RestorationTrue'
  BY <1>0 DEF Idle, TaskTrue, CaptureTrue, RestorationTrue, At
<1>3. /\ DOMAIN live' = DOMAIN live \cup {task.name} /\ live'[task.name] = task.new
      /\ \A n \in DOMAIN live : n # task.name => live'[n] = live[n]
  BY <1>0 DEF With
<1>4. VersionsTrue'
  <2>1. Function(archive') /\ DOMAIN archive' \subseteq Ids
    BY <1>0, <1>1 DEF VersionsTrue, Function
  <2>2. \A n \in InputFiles \cap DOMAIN live' :
                (n \in DOMAIN live /\ live'[n] = live[n]) \/ ~ToCome(live'[n])
    BY <1>1, <1>3
  <2> QED  BY <1>0, <1>1, <1>2, <2>1, <2>2, VersionsStay
<1>5. \A a \in DOMAIN archive : Stays(a)
  BY <1>0 DEF Stays
<1>6. BundlesWhole'
  BY <1>0, <1>1, <1>5, BundlesStay
<1>7. LabelledTrue'
  BY <1>0, <1>1, <1>2 DEF LabelledTrue, LabelsTrue, Paths, At
<1>8. ~mangled => WantedTrue'
  <2> SUFFICES ASSUME ~mangled PROVE WantedTrue'
    OBVIOUS
  <2>1. \A w \in wanted : (InModel(w) \/ Stored(w, Ids)) /\ (w[1] = task.name => Stored(w, Ids))
    BY <1>0 DEF ArchivesInv, WantedTrue, At
  <2>2. \A w \in wanted : Stored(w, Ids) => Stored(w, Ids)'
    BY <1>0 DEF Stored, Paths, Ids
  <2>3. ASSUME NEW w \in wanted PROVE InModel(w)' \/ Stored(w, Ids)'
    <3>1. CASE InModel(w) /\ w[1] # task.name
      BY <1>3, <3>1 DEF InModel, Copies
    <3> QED  BY <2>1, <2>2, <3>1
  <2> QED  BY <1>0, <1>2, <2>3 DEF WantedTrue, At
<1> QED  BY <1>0, <1>2, <1>4, <1>6, <1>7, <1>8 DEF ArchivesInv, At

-----------------------------------------------------------------------------
(* The restoration of all inputs. *)

LEMMA RestoreInputsStep == ArchivesInv /\ RestoreInputs => ArchivesInv'
<1> SUFFICES ASSUME ArchivesInv, RestoreInputs PROVE ArchivesInv'
  OBVIOUS
<1> DEFINE bundle == review.seen[Manifest].files
<1>0. /\ CanArchive /\ Creates(NewId, <<>>) /\ There(review.id)
      /\ task' = [pc |-> "stage", id |-> NewId, from |-> review.id, files |-> bundle,
                  todo |-> DOMAIN bundle, current |-> review.current, moved |-> {}, installed |-> {}]
      /\ UNCHANGED <<live, review, changes, began, mixed, touched, wanted, mangled>>
  BY DEF RestoreInputs, Begins, past, AsReviewed, Copies, There
<1> HIDE DEF bundle
<1>1. /\ task'.pc = "stage" /\ task'.id = NewId /\ task'.from = review.id /\ task'.files = bundle
      /\ task'.todo = DOMAIN bundle /\ task'.moved = {} /\ task'.installed = {}
      /\ TaskTrue' /\ CaptureTrue'
  <2> HIDE DEF NewId
  <2> QED  BY <1>0 DEF TaskTrue, CaptureTrue
<1>2. DOMAIN <<>> = {}
  OBVIOUS
<1>3. /\ VersionsTrue' /\ BundlesWhole' /\ LabelsTrue'
      /\ DOMAIN archive' = DOMAIN archive \cup {NewId} /\ archive'[NewId] = <<>>
      /\ \A w, ids : w[1] \in InputFiles /\ Stored(w, ids) => Stored(w, ids)'
  BY <1>0, <1>1, <1>2, CreateStep
<1> HIDE DEF NewId
<1>4. LabelledTrue'
  BY <1>1, <1>2, <1>3 DEF LabelledTrue, At, Paths
<1>5. RestorationTrue'
  BY <1>0, <1>1, <1>2, <1>3 DEF RestorationTrue, At, Paths, There
<1>6. ~mangled => WantedTrue'
  <2> SUFFICES ASSUME ~mangled PROVE WantedTrue'
    OBVIOUS
  <2>1. \A w \in wanted : (InModel(w) \/ Stored(w, Ids)) /\ w[1] \in InputFiles
    BY DEF ArchivesInv, WantedTrue, VersionsTrue
  <2>2. \A w \in wanted : InModel(w)' \/ Stored(w, Ids)'
    BY <1>0, <1>3, <2>1 DEF InModel, Copies
  <2> QED  BY <1>0, <1>1, <2>2 DEF WantedTrue, At
<1> QED  BY <1>0, <1>1, <1>3, <1>4, <1>5, <1>6 DEF ArchivesInv, At

Restoring(t) == [pc |-> t.pc, id |-> t.id, from |-> t.from, files |-> t.files, todo |-> t.todo,
                 current |-> t.current, moved |-> t.moved, installed |-> t.installed]
(* What the steps of a restoration start from. *)
LEMMA RestorationIs ==
    ASSUME ArchivesInv, task.pc \in {"stage", "move", "back"}
    PROVE  /\ VersionsTrue /\ BundlesWhole /\ LabelsTrue /\ Function(archive) /\ task = Restoring(task)
           /\ There(task.id) /\ CompactionRecord \notin Paths(task.id) /\ Manifest \notin Paths(task.id)
<1>1. task = Restoring(task)
  BY DEF ArchivesInv, TaskTrue, Restoring, Idle
<1> QED  BY <1>1 DEF ArchivesInv, VersionsTrue, LabelledTrue, RestorationTrue, Function

LEMMA StageInputStep == ArchivesInv /\ StageInput => ArchivesInv'
<1> SUFFICES ASSUME ArchivesInv, StageInput PROVE ArchivesInv'
  OBVIOUS
<1> DEFINE n == First(task.todo)
           source == <<"inputs", n>>
           staged == <<"staged", n>>
           a == task.id
           c == archive[task.from][source]
<1>0. /\ task.pc = "stage" /\ task.todo # {} /\ UNCHANGED <<live, review, changes, past>>
      /\ \/ /\ source \in Paths(task.from) /\ Puts(a, staged, c)
            /\ task' = IF c = task.files[n] THEN [task EXCEPT !.todo = @ \ {n}] ELSE Idle
         \/ task' = Idle /\ UNCHANGED archive
  BY DEF StageInput, At, bounds
<1>1. n \in task.todo
  BY <1>0, FirstIs
<1>2. /\ VersionsTrue /\ BundlesWhole /\ LabelsTrue /\ task = Restoring(task)
      /\ There(a) /\ CompactionRecord \notin Paths(a) /\ Manifest \notin Paths(a)
  BY <1>0, RestorationIs
<1>3. /\ staged # Manifest /\ staged # CompactionRecord /\ staged[1] = "staged" /\ staged[2] = n
      /\ source[1] = "inputs" /\ source[2] = n /\ \A m : m # n => <<"staged", m>> # staged
  <2>1. "staged" # ""
    OBVIOUS
  <2> QED  BY <2>1, PathsAre
<1> HIDE DEF n, source, staged
<1>4. CASE task' = Idle /\ UNCHANGED archive
  BY <1>0, <1>4, EndStep
<1>5. CASE /\ source \in Paths(task.from) /\ Puts(a, staged, c)
           /\ task' = IF c = task.files[n] THEN [task EXCEPT !.todo = @ \ {n}] ELSE Idle
  <2>1. /\ There(task.from) /\ task.moved = {} /\ task.installed = {} /\ \A p \in Paths(a) : p[1] # "before"
        /\ \A m \in DOMAIN task.files \ task.todo : <<"staged", m>> \in Paths(a)
    BY <1>0 DEF ArchivesInv, RestorationTrue, At
  <2>2. n \in InputFiles => ~ToCome(c)
    BY <1>2, <1>3, <1>5, <2>1 DEF VersionsTrue, There
  <2>3. \/ task'.pc = "idle"
        \/ /\ task'.pc = "stage" /\ task'.id = a /\ task'.from = task.from /\ task'.files = task.files
           /\ task'.todo = task.todo \ {n} /\ task'.moved = {} /\ task'.installed = {}
    <3>1. CASE task' = Idle
      BY <3>1 DEF Idle
    <3>2. CASE task' = [task EXCEPT !.todo = @ \ {n}]
      BY <1>0, <1>2, <2>1, <3>2 DEF Restoring
    <3> QED  BY <1>5, <3>1, <3>2
  <2>4. TaskTrue' /\ CaptureTrue'
    BY <1>0, <1>2, <1>5, <2>3 DEF TaskTrue, CaptureTrue, Restoring
  <2> HIDE DEF c
  <2>5. /\ VersionsTrue' /\ BundlesWhole' /\ LabelsTrue'
        /\ \A b \in DOMAIN archive : b # a => archive'[b] = archive[b]
        /\ DOMAIN archive' = DOMAIN archive /\ DOMAIN archive'[a] = Paths(a) \cup {staged}
        /\ archive'[a][staged] = c
        /\ \A q \in Paths(a) : q # staged => archive'[a][q] = archive[a][q]
        /\ \A w, ids : w[1] \in InputFiles /\ Stored(w, ids) => Stored(w, ids)'
    BY <1>0, <1>2, <1>3, <1>5, <2>2, <2>3, PutStep
  <2>6. LabelledTrue'
    BY <1>2, <1>3, <2>3, <2>5 DEF LabelledTrue, At, Paths
  <2>7. RestorationTrue'
    <3>1. \A q \in DOMAIN archive'[a] : q[1] # "before"
      BY <1>3, <2>1, <2>5
    <3>2. \A m \in DOMAIN task.files \ (task.todo \ {n}) : <<"staged", m>> \in DOMAIN archive'[a]
      BY <2>1, <2>5 DEF staged
    <3> QED  BY <1>2, <1>3, <2>1, <2>3, <2>5, <3>1, <3>2 DEF RestorationTrue, At, Paths, There
  <2>8. ~mangled => WantedTrue'
    <3> SUFFICES ASSUME ~mangled PROVE WantedTrue'
      OBVIOUS
    <3>0. UNCHANGED <<live, wanted>>
      BY <1>0 DEF past
    <3>1. /\ \A w \in wanted : (InModel(w) \/ Stored(w, Ids)) /\ w[1] \in InputFiles
          /\ \A w \in wanted : w[1] \in DOMAIN task.files \ task.todo /\ archive[a][<<"staged", w[1]>>] = w[2] => Stored(w, Ids)
      BY <1>0, <1>2 DEF ArchivesInv, WantedTrue, VersionsTrue, At
    <3>2. \A w \in wanted : InModel(w)' \/ Stored(w, Ids)'
      BY <2>5, <3>0, <3>1 DEF InModel, Copies
    <3>3. ASSUME NEW w \in wanted, w[1] \in DOMAIN task.files \ (task.todo \ {n}), archive'[a][<<"staged", w[1]>>] = w[2]
          PROVE  Stored(w, Ids)'
      <4>1. Stored(w, Ids)
        <5>1. CASE w[1] = n
          <6>1. w[2] = c
            BY <2>5, <3>3, <5>1 DEF staged
          <6>2. task.from \in Ids \cap DOMAIN archive
            BY <1>2, <2>1 DEF VersionsTrue, There
          <6>3. source \in Paths(task.from) /\ archive[task.from][source] = w[2] /\ source[2] = w[1] /\ source[1] # "staged"
            BY <1>3, <1>5, <5>1, <6>1 DEF c
          <6> QED  BY <6>2, <6>3 DEF Stored
        <5>2. CASE w[1] # n
          <6>1. w[1] \in DOMAIN task.files \ task.todo /\ <<"staged", w[1]>> # staged
            BY <1>3, <3>3, <5>2
          <6>2. archive'[a][<<"staged", w[1]>>] = archive[a][<<"staged", w[1]>>]
            BY <2>1, <2>5, <6>1
          <6> QED  BY <3>1, <3>3, <6>1, <6>2
        <5> QED  BY <5>1, <5>2
      <4> QED  BY <2>5, <3>1, <4>1
    <3> QED  BY <2>3, <3>0, <3>2, <3>3 DEF WantedTrue, At
  <2>9. ~At("delete")' /\ mangled' = mangled
    BY <1>0, <2>3 DEF At, past
  <2> QED  BY <2>4, <2>5, <2>6, <2>7, <2>8, <2>9 DEF ArchivesInv
<1> QED  BY <1>0, <1>4, <1>5

LEMMA StagedStep == ArchivesInv /\ Staged => ArchivesInv'
<1> SUFFICES ASSUME ArchivesInv, Staged PROVE ArchivesInv'
  OBVIOUS
<1> DEFINE a == task.id
<1>0. /\ task.pc = "stage" /\ task.todo = {} /\ UNCHANGED <<live, archive, review, changes, past>>
      /\ task' = [task EXCEPT !.pc = "move", !.todo = DOMAIN live] \/ task' = Idle
  BY DEF Staged, At, bounds
<1>1. UNCHANGED <<live, archive, review, changes, began, mixed, touched, wanted, mangled>>
  BY <1>0 DEF past
<1>2. /\ VersionsTrue /\ BundlesWhole /\ LabelsTrue /\ Function(archive) /\ task = Restoring(task)
      /\ There(a) /\ CompactionRecord \notin Paths(a) /\ Manifest \notin Paths(a)
  BY <1>0, RestorationIs
<1>3. CASE task' = Idle
  BY <1>0, <1>3, EndStep
<1>4. CASE task' = [task EXCEPT !.pc = "move", !.todo = DOMAIN live]
  <2>1. /\ task.moved = {} /\ task.installed = {} /\ \A p \in Paths(a) : p[1] # "before"
        /\ \A m \in DOMAIN task.files : <<"staged", m>> \in Paths(a)
    BY <1>0 DEF ArchivesInv, RestorationTrue, At
  <2>2. /\ task'.pc = "move" /\ task'.id = a /\ task'.files = task.files /\ task'.todo = DOMAIN live
        /\ task'.moved = {} /\ task'.installed = {}
    BY <1>2, <1>4, <2>1 DEF Restoring
  <2>3. TaskTrue' /\ CaptureTrue'
    BY <1>2, <1>4, <2>2 DEF TaskTrue, CaptureTrue, Restoring
  <2>4. VersionsTrue'
    <3>1. Function(archive') /\ DOMAIN archive' \subseteq Ids /\ task'.id \in DOMAIN archive'
      BY <1>1, <1>2, <2>2 DEF Function, VersionsTrue, There
    <3> QED  BY <1>1, <1>2, <2>2, <3>1, VersionsStay
  <2>5. BundlesWhole'
    <3>1. \A b \in DOMAIN archive : Stays(b)
      BY <1>1 DEF Stays
    <3> QED  BY <1>1, <1>2, <3>1, BundlesStay
  <2>6. LabelledTrue'
    BY <1>1, <1>2, <2>2 DEF LabelledTrue, LabelsTrue, Paths, At
  <2>7. RestorationTrue'
    <3>1. \A m : <<"before", m>>[1] = "before"
      OBVIOUS
    <3>2. \A m : <<"before", m>> \notin Paths(a)
      BY <2>1, <3>1
    <3> QED  BY <1>1, <1>2, <2>1, <2>2, <3>2 DEF RestorationTrue, At, Paths
  <2>8. ~mangled => WantedTrue'
    <3> SUFFICES ASSUME ~mangled PROVE WantedTrue'
      OBVIOUS
    <3>1. \A w, ids : (Stored(w, ids)' <=> Stored(w, ids)) /\ (InModel(w)' <=> InModel(w))
      BY <1>1 DEF Stored, InModel, Copies, Paths
    <3>2. /\ \A w \in wanted : InModel(w) \/ Stored(w, Ids)
          /\ \A w \in wanted : w[1] \in DOMAIN task.files /\ archive[a][<<"staged", w[1]>>] = w[2] => Stored(w, Ids)
      BY <1>0 DEF ArchivesInv, WantedTrue, At
    <3>3. (\A w \in wanted : InModel(w) \/ Stored(w, Ids))'
      BY <1>1, <3>1, <3>2 DEF Ids
    <3>4. \A w \in wanted : w[1] \in DOMAIN task.files /\ archive'[a][<<"staged", w[1]>>] = w[2] => Stored(w, Ids)'
      BY <1>1, <3>1, <3>2
    <3> QED  BY <1>1, <2>2, <3>3, <3>4 DEF WantedTrue, At
  <2> QED  BY <1>1, <2>2, <2>3, <2>4, <2>5, <2>6, <2>7, <2>8 DEF ArchivesInv, At
<1> QED  BY <1>0, <1>3, <1>4

LEMMA MoveStep == ArchivesInv /\ Move => ArchivesInv'
<1> SUFFICES ASSUME ArchivesInv, Move PROVE ArchivesInv'
  OBVIOUS
<1> DEFINE n == First(task.todo)
           aside == <<"before", n>>
           a == task.id
<1>0. /\ task.pc = "move" /\ task.todo # {} /\ Puts(a, aside, live[n]) /\ live' = Without(live, n)
      /\ task' = [task EXCEPT !.todo = @ \ {n}, !.moved = @ \cup {n}]
      /\ UNCHANGED <<review, changes, began, mixed, touched, wanted, mangled>>
  BY DEF Move, At, bounds, past
<1>1. n \in task.todo
  BY <1>0, FirstIs
<1>2. /\ VersionsTrue /\ BundlesWhole /\ LabelsTrue /\ Function(archive) /\ task = Restoring(task)
      /\ There(a) /\ CompactionRecord \notin Paths(a) /\ Manifest \notin Paths(a)
  BY <1>0, RestorationIs
<1>3. /\ aside # Manifest /\ aside # CompactionRecord /\ aside[1] = "before" /\ aside[2] = n
      /\ \A m : <<"staged", m>> # aside /\ (m # n => <<"before", m>> # aside)
  <2>1. "before" # "" /\ "before" # "staged"
    OBVIOUS
  <2> QED  BY <2>1, PathsAre
<1> HIDE DEF n
<1>4. /\ task'.pc = "move" /\ task'.id = a /\ task'.files = task.files /\ task'.todo = task.todo \ {n}
      /\ task'.moved = task.moved \cup {n} /\ task'.installed = task.installed
  BY <1>0, <1>2 DEF Restoring
<1>5. TaskTrue' /\ CaptureTrue'
  BY <1>0, <1>2, <1>4 DEF TaskTrue, CaptureTrue, Restoring
<1>6. /\ task.todo \subseteq DOMAIN live /\ task.todo \cap task.moved = {}
      /\ task.installed \subseteq DOMAIN task.files
      /\ \A m \in task.todo : <<"before", m>> \notin Paths(a)
      /\ \A m \in task.moved : <<"before", m>> \in Paths(a)
      /\ \A m \in DOMAIN task.files \ task.installed : <<"staged", m>> \in Paths(a)
  BY <1>0 DEF ArchivesInv, RestorationTrue, At
<1>7. n \in DOMAIN live /\ aside \notin Paths(a)
  BY <1>1, <1>6
<1>8. DOMAIN live' = DOMAIN live \ {n} /\ \A m \in DOMAIN live : m # n => live'[m] = live[m]
  BY <1>0 DEF Without
<1>9. /\ Function(archive') /\ DOMAIN archive' = DOMAIN archive
      /\ \A b \in DOMAIN archive : b # a => archive'[b] = archive[b]
      /\ DOMAIN archive'[a] = DOMAIN archive[a] \cup {aside} /\ archive'[a][aside] = live[n]
      /\ \A q \in DOMAIN archive[a] : q # aside => archive'[a][q] = archive[a][q]
  <2>1. PICK p : p = aside
    OBVIOUS
  <2>2. PICK v : v = live[n]
    OBVIOUS
  <2>3. Puts(a, p, v)
    BY <1>0, <2>1, <2>2
  <2> QED  BY <1>2, <2>1, <2>2, <2>3, PutsIs
<1> HIDE DEF aside
<1>10. VersionsTrue'
  <2>1. n \in InputFiles => ~ToCome(live[n])
    BY <1>2, <1>7 DEF VersionsTrue
  <2>2. DOMAIN archive' \subseteq Ids /\ task'.id \in DOMAIN archive'
    BY <1>2, <1>4, <1>9 DEF VersionsTrue, There
  <2>3. ASSUME NEW b \in DOMAIN archive', NEW p \in DOMAIN archive'[b], p[2] \in InputFiles
        PROVE  \/ b \in DOMAIN archive /\ p \in DOMAIN archive[b] /\ archive'[b][p] = archive[b][p]
               \/ ~ToCome(archive'[b][p])
    <3>1. CASE b = a /\ p = aside
      BY <1>3, <1>9, <2>1, <2>3, <3>1
    <3>2. CASE b = a /\ p # aside
      BY <1>9, <2>3, <3>2
    <3>3. CASE b # a
      BY <1>9, <2>3, <3>3
    <3> QED  BY <3>1, <3>2, <3>3
  <2>4. \A m \in InputFiles \cap DOMAIN live' : m \in DOMAIN live /\ live'[m] = live[m]
    BY <1>8
  <2> QED  BY <1>0, <1>2, <1>4, <1>9, <2>2, <2>3, <2>4, VersionsStay
<1>11. \A b \in DOMAIN archive : Stays(b)
  BY <1>7, <1>9 DEF Stays, Paths
<1>12. BundlesWhole'
  <2>1. \A b \in DOMAIN archive' : Manifest \in DOMAIN archive'[b] => Manifest \in DOMAIN archive[b]
    BY <1>3, <1>9
  <2> QED  BY <1>0, <1>2, <1>9, <1>11, <2>1, BundlesStay
<1>13. LabelledTrue'
  <2>1. CompactionRecord \notin DOMAIN archive'[a]
    BY <1>2, <1>3, <1>9 DEF Paths
  <2>2. \A b \in DOMAIN archive' : CompactionRecord \in DOMAIN archive'[b] => b \in DOMAIN archive /\ archive'[b] = archive[b]
    BY <1>9, <2>1
  <2>3. LabelsTrue'
    BY <1>2, <2>2, LabelsStay
  <2> QED  BY <1>4, <2>1, <2>3 DEF LabelledTrue, At, Paths
<1>14. RestorationTrue'
  <2>1. \A m \in task.todo \ {n} : <<"before", m>> \notin DOMAIN archive'[a]
    BY <1>3, <1>6, <1>9 DEF Paths
  <2>2. \A m \in task.moved \cup {n} : <<"before", m>> \in DOMAIN archive'[a]
    BY <1>6, <1>9 DEF Paths, aside
  <2>3. \A m \in DOMAIN task.files \ task.installed : <<"staged", m>> \in DOMAIN archive'[a]
    BY <1>6, <1>9 DEF Paths
  <2>4. Manifest \notin DOMAIN archive'[a]
    BY <1>2, <1>3, <1>9 DEF Paths
  <2>5. task.todo \ {n} \subseteq DOMAIN live' /\ (task.todo \ {n}) \cap (task.moved \cup {n}) = {}
    BY <1>6, <1>8
  <2> QED  BY <1>4, <1>6, <2>1, <2>2, <2>3, <2>4, <2>5 DEF RestorationTrue, At, Paths
<1>15. ~mangled => WantedTrue'
  <2> SUFFICES ASSUME ~mangled PROVE WantedTrue'
    OBVIOUS
  <2>1. /\ \A w \in wanted : (InModel(w) \/ Stored(w, Ids)) /\ w[1] \in InputFiles
        /\ DOMAIN live \subseteq task.todo \cup task.installed
        /\ \A w \in wanted : w[1] \in DOMAIN task.files \ task.installed /\ archive[a][<<"staged", w[1]>>] = w[2] => Stored(w, Ids)
        /\ \A w \in wanted : w[1] \in task.installed /\ InModel(w) => Stored(w, Ids)
    BY <1>0, <1>2 DEF ArchivesInv, WantedTrue, VersionsTrue, At
  <2>2. \A w \in wanted : Stored(w, Ids) => Stored(w, Ids)'
    BY <1>11, <2>1, StoredStays DEF Ids
  <2>3. ASSUME NEW w \in wanted PROVE InModel(w)' \/ Stored(w, Ids)'
    <3>1. CASE InModel(w) /\ w[1] # n
      BY <1>8, <3>1 DEF InModel, Copies
    <3>2. CASE InModel(w) /\ w[1] = n
      <4>1. a \in Ids \cap DOMAIN archive'
        BY <1>2, <1>9 DEF VersionsTrue, There
      <4>2. aside \in DOMAIN archive'[a] /\ archive'[a][aside] = w[2] /\ aside[2] = w[1] /\ aside[1] # "staged"
        BY <1>3, <1>9, <3>2 DEF InModel, Copies
      <4>3. PICK b : b = a
        OBVIOUS
      <4> QED  BY <4>1, <4>2, <4>3 DEF Stored, Paths, Ids
    <3>3. CASE Stored(w, Ids)
      BY <2>2, <3>3
    <3> QED  BY <2>1, <3>1, <3>2, <3>3
  <2>4. DOMAIN live' \subseteq (task.todo \ {n}) \cup task.installed
    BY <1>8, <2>1
  <2>5. ASSUME NEW w \in wanted, w[1] \in DOMAIN task.files \ task.installed, archive'[a][<<"staged", w[1]>>] = w[2]
        PROVE  Stored(w, Ids)'
    <3>1. archive'[a][<<"staged", w[1]>>] = archive[a][<<"staged", w[1]>>]
      BY <1>3, <1>6, <1>9, <2>5 DEF Paths
    <3> QED  BY <2>1, <2>2, <2>5, <3>1
  <2>6. ASSUME NEW w \in wanted, w[1] \in task.installed, InModel(w)'
        PROVE  Stored(w, Ids)'
    <3>1. InModel(w)
      BY <1>8, <2>6 DEF InModel, Copies
    <3> QED  BY <2>1, <2>2, <2>6, <3>1
  <2> QED  BY <1>0, <1>4, <2>3, <2>4, <2>5, <2>6 DEF WantedTrue, At
<1> QED  BY <1>0, <1>4, <1>5, <1>10, <1>12, <1>13, <1>14, <1>15 DEF ArchivesInv, At

LEMMA InstallStep == ArchivesInv /\ Install => ArchivesInv'
<1> SUFFICES ASSUME ArchivesInv, Install PROVE ArchivesInv'
  OBVIOUS
<1> DEFINE n == First(DOMAIN task.files \ task.installed)
           staged == <<"staged", n>>
           a == task.id
<1>0. /\ task.pc = "move" /\ task.todo = {} /\ task.installed # DOMAIN task.files
      /\ live' = With(live, n, archive[a][staged]) /\ Drops(a, staged)
      /\ task' = [task EXCEPT !.installed = @ \cup {n}]
      /\ UNCHANGED <<review, changes, began, mixed, touched, wanted, mangled>>
  BY DEF Install, At, bounds, past
<1>2. /\ VersionsTrue /\ BundlesWhole /\ LabelsTrue /\ Function(archive) /\ task = Restoring(task)
      /\ There(a) /\ CompactionRecord \notin Paths(a) /\ Manifest \notin Paths(a)
  BY <1>0, RestorationIs
<1>3. /\ staged[1] = "staged" /\ staged[2] = n
      /\ \A m : <<"before", m>> # staged /\ (m # n => <<"staged", m>> # staged)
  BY PathsAre
<1>4. /\ task'.pc = "move" /\ task'.id = a /\ task'.files = task.files /\ task'.todo = {}
      /\ task'.moved = task.moved /\ task'.installed = task.installed \cup {n}
  <2> HIDE DEF n
  <2> QED  BY <1>0, <1>2 DEF Restoring
<1>5. TaskTrue' /\ CaptureTrue'
  <2> HIDE DEF n
  <2> QED  BY <1>0, <1>2, <1>4 DEF TaskTrue, CaptureTrue, Restoring
<1>6. /\ task.installed \subseteq DOMAIN task.files
      /\ \A m \in task.moved : <<"before", m>> \in Paths(a)
      /\ \A m \in DOMAIN task.files \ task.installed : <<"staged", m>> \in Paths(a)
  BY <1>0 DEF ArchivesInv, RestorationTrue, At
<1>7. n \in DOMAIN task.files \ task.installed /\ staged \in Paths(a)
  <2>1. DOMAIN task.files \ task.installed # {}
    BY <1>0, <1>6
  <2> QED  BY <1>6, <2>1, FirstIs
<1>8. /\ DOMAIN live' = DOMAIN live \cup {n} /\ live'[n] = archive[a][staged]
      /\ \A m \in DOMAIN live : m # n => live'[m] = live[m]
  <2> HIDE DEF n, staged
  <2> QED  BY <1>0 DEF With
<1>9. /\ Function(archive') /\ DOMAIN archive' = DOMAIN archive
      /\ \A b \in DOMAIN archive : b # a => archive'[b] = archive[b]
      /\ DOMAIN archive'[a] = DOMAIN archive[a] \ {staged}
      /\ \A q \in DOMAIN archive[a] : q # staged => archive'[a][q] = archive[a][q]
  <2>1. PICK p : p = staged
    OBVIOUS
  <2>3. Drops(a, p)
    BY <1>0, <2>1
  <2> QED  BY <1>2, <2>1, <2>3, DropsIs
<1> HIDE DEF n, staged
<1>10. VersionsTrue'
  <2>1. n \in InputFiles => ~ToCome(archive[a][staged])
    BY <1>2, <1>3, <1>7 DEF VersionsTrue, There
  <2>2. DOMAIN archive' \subseteq Ids /\ task'.id \in DOMAIN archive'
    BY <1>2, <1>4, <1>9 DEF VersionsTrue, There
  <2>3. ASSUME NEW b \in DOMAIN archive', NEW p \in DOMAIN archive'[b]
        PROVE  b \in DOMAIN archive /\ p \in DOMAIN archive[b] /\ archive'[b][p] = archive[b][p]
    BY <1>9
  <2>4. \A m \in InputFiles \cap DOMAIN live' :
            (m \in DOMAIN live /\ live'[m] = live[m]) \/ ~ToCome(live'[m])
    BY <1>8, <2>1
  <2> QED  BY <1>0, <1>2, <1>4, <1>9, <2>2, <2>3, <2>4, VersionsStay
<1>11. \A b \in DOMAIN archive : Stays(b)
  <2>1. staged # Manifest
    BY <1>2, <1>7
  <2> QED  BY <1>3, <1>9, <2>1 DEF Stays
<1>12. BundlesWhole'
  <2>1. \A b \in DOMAIN archive' : Manifest \in DOMAIN archive'[b] => Manifest \in DOMAIN archive[b]
    BY <1>9
  <2> QED  BY <1>0, <1>2, <1>9, <1>11, <2>1, BundlesStay
<1>13. LabelledTrue'
  <2>1. CompactionRecord \notin DOMAIN archive'[a]
    BY <1>2, <1>9 DEF Paths
  <2>2. \A b \in DOMAIN archive' : CompactionRecord \in DOMAIN archive'[b] => b \in DOMAIN archive /\ archive'[b] = archive[b]
    BY <1>9, <2>1
  <2>3. LabelsTrue'
    BY <1>2, <2>2, LabelsStay
  <2> QED  BY <1>4, <2>1, <2>3 DEF LabelledTrue, At, Paths
<1>14. RestorationTrue'
  <2>1. \A m \in task.moved : <<"before", m>> \in DOMAIN archive'[a]
    BY <1>3, <1>6, <1>9 DEF Paths
  <2>2. \A m \in DOMAIN task.files \ (task.installed \cup {n}) : <<"staged", m>> \in DOMAIN archive'[a]
    BY <1>3, <1>6, <1>9 DEF Paths
  <2>3. Manifest \notin DOMAIN archive'[a]
    BY <1>2, <1>9 DEF Paths
  <2>4. task.installed \cup {n} \subseteq DOMAIN task.files
    BY <1>6, <1>7
  <2> QED  BY <1>4, <2>1, <2>2, <2>3, <2>4 DEF RestorationTrue, At, Paths
<1>15. ~mangled => WantedTrue'
  <2> SUFFICES ASSUME ~mangled PROVE WantedTrue'
    OBVIOUS
  <2>1. /\ \A w \in wanted : (InModel(w) \/ Stored(w, Ids)) /\ w[1] \in InputFiles
        /\ DOMAIN live \subseteq task.installed
        /\ \A w \in wanted : w[1] \in DOMAIN task.files \ task.installed /\ archive[a][<<"staged", w[1]>>] = w[2] => Stored(w, Ids)
        /\ \A w \in wanted : w[1] \in task.installed /\ InModel(w) => Stored(w, Ids)
    BY <1>0, <1>2 DEF ArchivesInv, WantedTrue, VersionsTrue, At
  <2>2. \A w \in wanted : Stored(w, Ids) => Stored(w, Ids)'
    BY <1>11, <2>1, StoredStays DEF Ids
  <2>3. n \notin DOMAIN live
    BY <1>7, <2>1
  <2>4. ASSUME NEW w \in wanted PROVE InModel(w)' \/ Stored(w, Ids)'
    <3>1. CASE InModel(w)
      BY <1>8, <2>3, <3>1 DEF InModel, Copies
    <3> QED  BY <2>1, <2>2, <3>1
  <2>5. DOMAIN live' \subseteq {} \cup (task.installed \cup {n})
    BY <1>8, <2>1
  <2>6. ASSUME NEW w \in wanted, w[1] \in DOMAIN task.files \ (task.installed \cup {n}), archive'[a][<<"staged", w[1]>>] = w[2]
        PROVE  Stored(w, Ids)'
    <3>1. archive'[a][<<"staged", w[1]>>] = archive[a][<<"staged", w[1]>>]
      BY <1>3, <1>6, <1>9, <2>6 DEF Paths
    <3> QED  BY <2>1, <2>2, <2>6, <3>1
  <2>7. ASSUME NEW w \in wanted, w[1] \in task.installed \cup {n}, InModel(w)'
        PROVE  Stored(w, Ids)'
    <3>1. CASE w[1] = n
      <4>1. archive[a][<<"staged", w[1]>>] = w[2]
        BY <1>8, <2>7, <3>1 DEF InModel, Copies, staged
      <4> QED  BY <1>7, <2>1, <2>2, <3>1, <4>1
    <3>2. CASE w[1] # n
      <4>1. InModel(w) /\ w[1] \in task.installed
        BY <1>8, <2>7, <3>2 DEF InModel, Copies
      <4> QED  BY <2>1, <2>2, <4>1
    <3> QED  BY <3>1, <3>2
  <2> QED  BY <1>0, <1>4, <2>4, <2>5, <2>6, <2>7 DEF WantedTrue, At
<1> QED  BY <1>0, <1>4, <1>5, <1>10, <1>12, <1>13, <1>14, <1>15 DEF ArchivesInv, At

LEMMA RestorationFailsStep == ArchivesInv /\ RestorationFails => ArchivesInv'
<1> SUFFICES ASSUME ArchivesInv, RestorationFails PROVE ArchivesInv'
  OBVIOUS
<1> DEFINE a == task.id
<1>0. /\ task.pc \in {"stage", "move"} /\ UNCHANGED <<live, archive, review, changes, past>>
      /\ IF task.pc = "stage" THEN task' = Idle ELSE task' = [task EXCEPT !.pc = "back"]
  BY DEF RestorationFails, Fault, At, Goes
<1>1. UNCHANGED <<live, archive, review, changes, began, mixed, touched, wanted, mangled>>
  BY <1>0 DEF past
<1>2. /\ VersionsTrue /\ BundlesWhole /\ LabelsTrue /\ Function(archive) /\ task = Restoring(task)
      /\ There(a) /\ CompactionRecord \notin Paths(a) /\ Manifest \notin Paths(a)
  BY <1>0, RestorationIs
<1>3. CASE task.pc = "stage"
  BY <1>0, <1>3, EndStep
<1>4. CASE task.pc = "move"
  <2>1. \A m \in task.moved : <<"before", m>> \in Paths(a)
    BY <1>4 DEF ArchivesInv, RestorationTrue, At
  <2>2. /\ task'.pc = "back" /\ task'.id = a /\ task'.moved = task.moved /\ task'.installed = task.installed
    BY <1>0, <1>2, <1>4 DEF Restoring
  <2>3. TaskTrue' /\ CaptureTrue'
    BY <1>0, <1>2, <1>4, <2>2 DEF TaskTrue, CaptureTrue, Restoring
  <2>4. VersionsTrue'
    <3>1. Function(archive') /\ DOMAIN archive' \subseteq Ids /\ task'.id \in DOMAIN archive'
      BY <1>1, <1>2, <2>2 DEF Function, VersionsTrue, There
    <3> QED  BY <1>1, <1>2, <2>2, <3>1, VersionsStay
  <2>5. BundlesWhole'
    <3>1. \A b \in DOMAIN archive : Stays(b)
      BY <1>1 DEF Stays
    <3> QED  BY <1>1, <1>2, <3>1, BundlesStay
  <2>6. LabelledTrue'
    BY <1>1, <1>2, <2>2 DEF LabelledTrue, LabelsTrue, Paths, At
  <2>7. RestorationTrue'
    BY <1>1, <1>2, <2>1, <2>2 DEF RestorationTrue, At, Paths
  <2>8. ~mangled => WantedTrue'
    <3> SUFFICES ASSUME ~mangled PROVE WantedTrue'
      OBVIOUS
    <3>1. \A w, ids : (Stored(w, ids)' <=> Stored(w, ids)) /\ (InModel(w)' <=> InModel(w))
      BY <1>1 DEF Stored, InModel, Copies, Paths
    <3>2. /\ \A w \in wanted : InModel(w) \/ Stored(w, Ids)
          /\ DOMAIN live \subseteq task.todo \cup task.installed
          /\ \A w \in wanted : w[1] \in task.installed /\ InModel(w) => Stored(w, Ids)
      BY <1>4 DEF ArchivesInv, WantedTrue, At
    <3>3. (\A w \in wanted : InModel(w) \/ Stored(w, Ids))'
      BY <1>1, <3>1, <3>2 DEF Ids
    <3>4. \A w \in wanted' : w[1] \in task.installed /\ InModel(w)' => Stored(w, Ids)'
      BY <1>1, <3>1, <3>2 DEF Ids
    <3>5. DOMAIN live' \cap task.moved \subseteq task.installed
      BY <1>1, <1>4, <3>2 DEF ArchivesInv, RestorationTrue, At
    <3> QED  BY <1>1, <2>2, <3>3, <3>4, <3>5 DEF WantedTrue, At
  <2> QED  BY <1>1, <2>2, <2>3, <2>4, <2>5, <2>6, <2>7, <2>8 DEF ArchivesInv, At
<1> QED  BY <1>0, <1>3, <1>4

LEMMA UninstallStep == ArchivesInv /\ Uninstall => ArchivesInv'
<1> SUFFICES ASSUME ArchivesInv, Uninstall PROVE ArchivesInv'
  OBVIOUS
<1> DEFINE n == First(task.installed)
           a == task.id
<1>0. /\ task.pc = "back" /\ task.installed # {} /\ live' = Without(live, n)
      /\ task' = [task EXCEPT !.installed = @ \ {n}]
      /\ UNCHANGED <<archive, review, changes, began, mixed, touched, wanted, mangled>>
  BY DEF Uninstall, At, bounds, past
<1>1. n \in task.installed
  BY <1>0, FirstIs
<1> HIDE DEF n
<1>2. /\ VersionsTrue /\ BundlesWhole /\ LabelsTrue /\ Function(archive) /\ task = Restoring(task)
      /\ There(a) /\ CompactionRecord \notin Paths(a) /\ Manifest \notin Paths(a)
  BY <1>0, RestorationIs
<1>3. task'.pc = "back" /\ task'.id = a /\ task'.moved = task.moved /\ task'.installed = task.installed \ {n}
  BY <1>0, <1>2 DEF Restoring
<1>4. TaskTrue' /\ CaptureTrue'
  BY <1>0, <1>2, <1>3 DEF TaskTrue, CaptureTrue, Restoring
<1>5. DOMAIN live' = DOMAIN live \ {n} /\ \A m \in DOMAIN live : m # n => live'[m] = live[m]
  BY <1>0 DEF Without
<1>6. VersionsTrue'
  <2>1. Function(archive') /\ DOMAIN archive' \subseteq Ids /\ task'.id \in DOMAIN archive'
    BY <1>0, <1>2, <1>3 DEF Function, VersionsTrue, There
  <2>2. \A m \in InputFiles \cap DOMAIN live' : m \in DOMAIN live /\ live'[m] = live[m]
    BY <1>5
  <2> QED  BY <1>0, <1>2, <1>3, <2>1, <2>2, VersionsStay
<1>7. BundlesWhole'
  <2>1. \A b \in DOMAIN archive : Stays(b)
    BY <1>0 DEF Stays
  <2> QED  BY <1>0, <1>2, <2>1, BundlesStay
<1>8. LabelledTrue'
  BY <1>0, <1>2, <1>3 DEF LabelledTrue, LabelsTrue, Paths, At
<1>9. RestorationTrue'
  BY <1>0, <1>2, <1>3 DEF ArchivesInv, RestorationTrue, At, Paths
<1>10. ~mangled => WantedTrue'
  <2> SUFFICES ASSUME ~mangled PROVE WantedTrue'
    OBVIOUS
  <2>1. \A w, ids : Stored(w, ids)' <=> Stored(w, ids)
    BY <1>0 DEF Stored, Paths
  <2>2. /\ \A w \in wanted : InModel(w) \/ Stored(w, Ids)
        /\ DOMAIN live \cap task.moved \subseteq task.installed
        /\ \A w \in wanted : w[1] \in task.installed /\ InModel(w) => Stored(w, Ids)
    BY <1>0 DEF ArchivesInv, WantedTrue, At
  <2>3. \A w : InModel(w)' <=> InModel(w) /\ w[1] # n
    BY <1>5 DEF InModel, Copies
  <2>4. \A w \in wanted : InModel(w)' \/ Stored(w, Ids)'
    BY <1>1, <2>1, <2>2, <2>3 DEF Ids
  <2>5. \A w \in wanted : w[1] \in task.installed \ {n} /\ InModel(w)' => Stored(w, Ids)'
    BY <2>1, <2>2, <2>3 DEF Ids
  <2>6. DOMAIN live' \cap task.moved \subseteq task.installed \ {n}
    BY <1>5, <2>2
  <2> QED  BY <1>0, <1>3, <2>4, <2>5, <2>6 DEF WantedTrue, At
<1> QED  BY <1>0, <1>3, <1>4, <1>6, <1>7, <1>8, <1>9, <1>10 DEF ArchivesInv, At

LEMMA PutBackStep == ArchivesInv /\ PutBack => ArchivesInv'
<1> SUFFICES ASSUME ArchivesInv, PutBack PROVE ArchivesInv'
  OBVIOUS
<1> DEFINE n == First(task.moved)
           aside == <<"before", n>>
           a == task.id
<1>0. /\ task.pc = "back" /\ task.installed = {} /\ task.moved # {}
      /\ task' = [task EXCEPT !.moved = @ \ {n}]
      /\ \/ live' = With(live, n, archive[a][aside]) /\ Drops(a, aside)
         \/ UNCHANGED <<live, archive>>
      /\ UNCHANGED <<review, changes, began, mixed, touched, wanted, mangled>>
  BY DEF PutBack, At, bounds, past, Fault
<1>1. n \in task.moved
  BY <1>0, FirstIs
<1>2. /\ VersionsTrue /\ BundlesWhole /\ LabelsTrue /\ Function(archive) /\ task = Restoring(task)
      /\ There(a) /\ CompactionRecord \notin Paths(a) /\ Manifest \notin Paths(a)
  BY <1>0, RestorationIs
<1>3. aside[2] = n /\ \A m : m # n => <<"before", m>> # aside
  BY PathsAre
<1>4. aside \in Paths(a) /\ \A m \in task.moved : <<"before", m>> \in Paths(a)
  BY <1>0, <1>1 DEF ArchivesInv, RestorationTrue
<1> HIDE DEF n
<1>5. task'.pc = "back" /\ task'.id = a /\ task'.moved = task.moved \ {n} /\ task'.installed = {}
  BY <1>0, <1>2 DEF Restoring
<1>6. TaskTrue' /\ CaptureTrue'
  <2> HIDE DEF aside
  <2> QED  BY <1>0, <1>2, <1>5 DEF TaskTrue, CaptureTrue, Restoring
<1>7. \/ /\ DOMAIN live' = DOMAIN live \cup {n} /\ live'[n] = archive[a][aside]
         /\ \A m \in DOMAIN live : m # n => live'[m] = live[m]
         /\ Drops(a, aside)
      \/ UNCHANGED <<live, archive>>
  <2> HIDE DEF aside
  <2> QED  BY <1>0 DEF With
<1>8. /\ Function(archive') /\ DOMAIN archive' = DOMAIN archive
      /\ \A b \in DOMAIN archive : b # a => archive'[b] = archive[b]
      /\ DOMAIN archive'[a] \subseteq DOMAIN archive[a]
      /\ \A q \in DOMAIN archive[a] : q # aside => q \in DOMAIN archive'[a] /\ archive'[a][q] = archive[a][q]
      /\ \A q \in DOMAIN archive'[a] : archive'[a][q] = archive[a][q]
  <2>1. CASE UNCHANGED archive
    BY <1>2, <2>1
  <2>2. CASE Drops(a, aside)
    <3>1. PICK p : p = aside
      OBVIOUS
    <3>2. Drops(a, p)
      BY <2>2, <3>1
    <3>3. /\ Function(archive') /\ DOMAIN archive' = DOMAIN archive
          /\ \A b \in DOMAIN archive : b # a => archive'[b] = archive[b]
          /\ DOMAIN archive'[a] = DOMAIN archive[a] \ {p}
          /\ \A q \in DOMAIN archive[a] : q # p => archive'[a][q] = archive[a][q]
      BY <1>2, <3>2, DropsIs
    <3> QED  BY <3>1, <3>3
  <2> QED  BY <1>7, <2>1, <2>2
<1>9. VersionsTrue'
  <2>1. n \in InputFiles => ~ToCome(archive[a][aside])
    BY <1>2, <1>3, <1>4 DEF VersionsTrue, There
  <2>2. DOMAIN archive' \subseteq Ids /\ task'.id \in DOMAIN archive'
    BY <1>2, <1>5, <1>8 DEF VersionsTrue, There
  <2>3. ASSUME NEW b \in DOMAIN archive', NEW p \in DOMAIN archive'[b]
        PROVE  b \in DOMAIN archive /\ p \in DOMAIN archive[b] /\ archive'[b][p] = archive[b][p]
    BY <1>8
  <2>4. \A m \in InputFiles \cap DOMAIN live' :
            (m \in DOMAIN live /\ live'[m] = live[m]) \/ ~ToCome(live'[m])
    BY <1>7, <2>1
  <2> HIDE DEF aside
  <2> QED  BY <1>0, <1>2, <1>5, <1>8, <2>2, <2>3, <2>4, VersionsStay
<1>10. BundlesWhole'
  <2>1. ASSUME NEW b \in DOMAIN archive', Manifest \in DOMAIN archive'[b]
        PROVE  b \in DOMAIN archive /\ Manifest \in DOMAIN archive[b] /\ Stays(b)
    <3>1. b # a /\ b \in DOMAIN archive
      BY <1>2, <1>8, <2>1 DEF Paths
    <3>2. archive'[b] = archive[b]
      BY <1>8, <3>1
    <3> QED  BY <2>1, <3>1, <3>2 DEF Stays
  <2> HIDE DEF aside
  <2> QED  BY <1>0, <1>2, <2>1, BundlesStay
<1>11. LabelledTrue'
  <2>1. CompactionRecord \notin DOMAIN archive'[a]
    BY <1>2, <1>8 DEF Paths
  <2>2. \A b \in DOMAIN archive' : CompactionRecord \in DOMAIN archive'[b] => b \in DOMAIN archive /\ archive'[b] = archive[b]
    BY <1>8, <2>1
  <2>3. LabelsTrue'
    BY <1>2, <2>2, LabelsStay
  <2> QED  BY <1>5, <2>1, <2>3 DEF LabelledTrue, At, Paths
<1>12. RestorationTrue'
  <2>1. \A m \in task.moved \ {n} : <<"before", m>> \in DOMAIN archive'[a]
    BY <1>3, <1>4, <1>8 DEF Paths
  <2>2. Manifest \notin DOMAIN archive'[a]
    BY <1>2, <1>8 DEF Paths
  <2> QED  BY <1>5, <2>1, <2>2 DEF RestorationTrue, At, Paths
<1>13. ~mangled => WantedTrue'
  <2> SUFFICES ASSUME ~mangled PROVE WantedTrue'
    OBVIOUS
  <2>1. /\ \A w \in wanted : InModel(w) \/ Stored(w, Ids)
        /\ DOMAIN live \cap task.moved \subseteq {}
    BY <1>0 DEF ArchivesInv, WantedTrue, At
  <2>2. n \notin DOMAIN live
    BY <1>1, <2>1
  <2>3. ASSUME NEW w \in wanted PROVE InModel(w)' \/ Stored(w, Ids)'
    <3>1. CASE InModel(w)
      BY <1>7, <2>2, <3>1 DEF InModel, Copies
    <3>2. CASE Stored(w, Ids)
      <4>1. PICK b \in Ids \cap DOMAIN archive : \E q \in Paths(b) : q[1] # "staged" /\ q[2] = w[1] /\ archive[b][q] = w[2]
        BY <3>2 DEF Stored
      <4>2. PICK q \in Paths(b) : q[1] # "staged" /\ q[2] = w[1] /\ archive[b][q] = w[2]
        BY <4>1
      <4>3. CASE q \in DOMAIN archive'[b]
        <5>1. archive'[b][q] = archive[b][q]
          BY <1>8, <4>1, <4>3
        <5> QED  BY <1>8, <4>1, <4>2, <4>3, <5>1 DEF Stored, Paths, Ids
      <4>4. CASE q \notin DOMAIN archive'[b]
        <5>1. b = a /\ q = aside
          BY <1>8, <4>1, <4>2, <4>4 DEF Paths
        <5>2. ~UNCHANGED archive
          BY <4>2, <4>4 DEF Paths
        <5>3. n \in DOMAIN live' /\ live'[n] = archive[a][aside]
          BY <1>7, <5>2
        <5>4. w[1] = n /\ w[2] = archive[a][aside]
          BY <1>3, <4>2, <5>1
        <5> QED  BY <5>3, <5>4 DEF InModel, Copies
      <4> QED  BY <4>3, <4>4
    <3> QED  BY <2>1, <3>1, <3>2
  <2>4. DOMAIN live' \cap (task.moved \ {n}) \subseteq {}
    BY <1>7, <2>1
  <2> QED  BY <1>0, <1>5, <2>3, <2>4 DEF WantedTrue, At
<1> QED  BY <1>0, <1>5, <1>6, <1>9, <1>10, <1>11, <1>12, <1>13 DEF ArchivesInv, At

-----------------------------------------------------------------------------
(* People. *)

LEMMA ChangeInputStep == ArchivesInv /\ ChangeInput => ArchivesInv'
<1> SUFFICES ASSUME ArchivesInv, ChangeInput PROVE ArchivesInv'
  OBVIOUS
<1>0. /\ changes < MaxChanges /\ changes' = changes + 1
      /\ UNCHANGED <<archive, task, review, began, touched>>
      /\ mixed' = IF task.pc \in {"capture", "copy", "check"} THEN mixed \cup {task.id} ELSE mixed
      /\ mangled' = (mangled \/ task.pc \in {"control", "move", "back"})
  BY DEF ChangeInput, Acts
<1> PICK new : new = <<"edit", changes + 1>>
  OBVIOUS
<1>1. PICK n \in InputFiles :
        /\ live' = With(live, n, new)
        /\ wanted' = {w \in wanted : w[1] = n => ~InModel(w)} \cup {<<n, new>>}
  BY <1>0 DEF ChangeInput
<1>2. /\ VersionsTrue /\ BundlesWhole /\ LabelsTrue /\ TaskTrue /\ CaptureTrue /\ RestorationTrue /\ LabelledTrue
  BY DEF ArchivesInv, LabelledTrue
<1>3. changes \in 0 .. MaxChanges /\ MaxChanges \in Nat
  BY <1>2, ArchivesAssumption DEF VersionsTrue
<1>4. ToCome(new) /\ (\A v : ToCome(v)' => ToCome(v)) /\ ~ToCome(new)'
  <2>1. ToCome(new)
    BY <1>0, <1>3 DEF ToCome
  <2>2. ASSUME NEW v, ToCome(v)' PROVE ToCome(v)
    <3>1. PICK k \in (changes + 1) + 1 .. MaxChanges : v = <<"edit", k>>
      BY <1>0, <2>2 DEF ToCome
    <3>2. k \in changes + 1 .. MaxChanges
      BY <1>3
    <3> QED  BY <3>1, <3>2 DEF ToCome
  <2>3. ASSUME NEW k \in (changes + 1) + 1 .. MaxChanges PROVE new # <<"edit", k>>
    <3>1. new[2] = changes + 1 /\ <<"edit", k>>[2] = k
      OBVIOUS
    <3> QED  BY <1>3, <3>1
  <2>4. ~ToCome(new)'
    BY <1>0, <2>3 DEF ToCome
  <2> QED  BY <2>1, <2>2, <2>4
<1>5. /\ DOMAIN live' = DOMAIN live \cup {n} /\ live'[n] = new
      /\ \A m \in DOMAIN live : m # n => live'[m] = live[m]
  BY <1>1 DEF With
<1>6. VersionsTrue'
  <2>1. /\ DOMAIN archive \subseteq Ids /\ DOMAIN began = Ids
        /\ archive = [a \in DOMAIN archive |-> archive[a]]
        /\ task.pc \notin {"idle", "control"} => There(task.id)
        /\ \A w \in wanted : w = <<w[1], w[2]>> /\ w[1] \in InputFiles
        /\ \A m \in InputFiles \cap DOMAIN live : ~ToCome(live[m])
        /\ \A a \in DOMAIN archive : \A p \in DOMAIN archive[a] : p[2] \in InputFiles => ~ToCome(archive[a][p])
        /\ review.kind = "control" => ~ToCome(review.new)
        /\ At("control") => ~ToCome(task.new)
    BY <1>2 DEF VersionsTrue, Paths
  <2>2. (changes \in 0 .. MaxChanges)'
    BY <1>0, <1>3
  <2>3. (DOMAIN archive \subseteq Ids /\ DOMAIN began = Ids)' /\ (archive = [a \in DOMAIN archive |-> archive[a]])'
    BY <1>0, <2>1 DEF Ids
  <2>4. (task.pc \notin {"idle", "control"} => There(task.id))'
    BY <1>0, <2>1 DEF There
  <2>5. (\A w \in wanted : w = <<w[1], w[2]>> /\ w[1] \in InputFiles)'
    BY <1>1, <2>1
  <2>6. (\A m \in InputFiles \cap DOMAIN live : ~ToCome(live[m]))'
    BY <1>4, <1>5, <2>1
  <2>7. (\A a \in DOMAIN archive : \A p \in Paths(a) : p[2] \in InputFiles => ~ToCome(archive[a][p]))'
    BY <1>0, <1>4, <2>1 DEF Paths
  <2>8. (review.kind = "control" => ~ToCome(review.new))' /\ (At("control") => ~ToCome(task.new))'
    BY <1>0, <1>4, <2>1 DEF At
  <2> QED  BY <2>2, <2>3, <2>4, <2>5, <2>6, <2>7, <2>8 DEF VersionsTrue
<1>7. BundlesWhole'
  <2>1. \A a \in DOMAIN archive : Stays(a)
    BY <1>0 DEF Stays
  <2>2. mixed \subseteq mixed'
    BY <1>0
  <2> QED  BY <1>0, <1>2, <2>1, <2>2, BundlesStay
<1>8. LabelledTrue'
  BY <1>0, <1>2 DEF LabelledTrue, LabelsTrue, Paths, At
<1>9. CaptureTrue'
  <2> SUFFICES ASSUME task'.pc \in {"capture", "copy", "check"} PROVE CaptureTrue'
    BY DEF CaptureTrue
  <2>1. task.id \in mixed'
    BY <1>0
  <2> QED  BY <1>0, <1>2, <2>1 DEF CaptureTrue, InProgress, At, Paths
<1>10. RestorationTrue' /\ TaskTrue' /\ (At("delete") => task.id \in touched)'
  <2>1. RestorationTrue'
    BY <1>0, <1>2, <1>5 DEF RestorationTrue, At, Paths, There
  <2> QED  BY <1>0, <1>2, <2>1 DEF TaskTrue, At, ArchivesInv
<1>11. ~mangled' => WantedTrue'
  <2> SUFFICES ASSUME ~mangled' PROVE WantedTrue'
    OBVIOUS
  <2>0. WantedTrue /\ task.pc \notin {"control", "move", "back"}
    BY <1>0 DEF ArchivesInv
  <2>1. PICK others : others = Ids \ {task.id}
    OBVIOUS
  <2>2. /\ \A w \in wanted : InModel(w) \/ Stored(w, Ids)
        /\ \A w \in wanted : w = <<w[1], w[2]>> /\ w[1] \in InputFiles
        /\ At("delete") => \A w \in wanted : InModel(w) \/ Stored(w, others)
        /\ At("stage") => \A w \in wanted :
              w[1] \in DOMAIN task.files \ task.todo /\ archive[task.id][<<"staged", w[1]>>] = w[2] => Stored(w, Ids)
    BY <1>2, <2>0, <2>1 DEF WantedTrue, VersionsTrue, At
  <2>3. \A w, ids : Stored(w, ids)' <=> Stored(w, ids)
    BY <1>0 DEF Stored, Paths
  <2>4. ASSUME NEW w \in wanted'
        PROVE  InModel(w)' \/ (w \in wanted /\ ~InModel(w))
    <3>1. CASE w = <<n, new>>
      BY <1>5, <3>1 DEF InModel, Copies
    <3>2. CASE w \in wanted /\ (w[1] = n => ~InModel(w))
      BY <1>5, <3>2 DEF InModel, Copies
    <3> QED  BY <1>1, <3>1, <3>2
  <2>5. \A w \in wanted' : InModel(w)' \/ Stored(w, Ids)'
    BY <2>2, <2>3, <2>4 DEF Ids
  <2>6. At("delete")' => \A w \in wanted' : InModel(w)' \/ Stored(w, Ids \ {task.id})'
    <3> SUFFICES ASSUME At("delete")' PROVE \A w \in wanted' : InModel(w)' \/ Stored(w, Ids \ {task.id})'
      OBVIOUS
    <3>1. At("delete") /\ others = Ids \ {task'.id}
      BY <1>0, <2>1 DEF At
    <3>2. \A w \in wanted' : InModel(w)' \/ Stored(w, others)'
      BY <2>2, <2>3, <2>4, <3>1
    <3> QED  BY <3>1, <3>2 DEF Stored, Ids
  <2>7. ASSUME At("stage"), NEW w \in wanted', w[1] \in DOMAIN task.files \ task.todo,
               archive[task.id][<<"staged", w[1]>>] = w[2]
        PROVE  Stored(w, Ids)'
    <3>1. CASE w \in wanted
      BY <2>2, <2>3, <2>7, <3>1
    <3>2. CASE w = <<n, new>>
      <4>1. <<"staged", n>> \in Paths(task.id) /\ There(task.id)
        BY <1>2, <2>7, <3>2 DEF RestorationTrue, VersionsTrue, At
      <4>2. ~ToCome(archive[task.id][<<"staged", n>>])
        <5>1. <<"staged", n>>[2] = n
          OBVIOUS
        <5> QED  BY <1>2, <4>1, <5>1 DEF VersionsTrue, There
      <4> QED  BY <1>4, <2>7, <3>2, <4>2
    <3> QED  BY <1>1, <3>1, <3>2
  <2> QED  BY <1>0, <2>0, <2>5, <2>6, <2>7 DEF WantedTrue, At
<1> QED  BY <1>6, <1>7, <1>8, <1>9, <1>10, <1>11 DEF ArchivesInv

LEMMA TouchStep == ArchivesInv /\ Touch => ArchivesInv'
<1> SUFFICES ASSUME ArchivesInv, Touch PROVE ArchivesInv'
  OBVIOUS
<1>0. changes < MaxChanges /\ changes' = changes + 1 /\ UNCHANGED <<live, task, review, began, mixed, mangled>>
  BY DEF Touch, Acts
<1>a. PICK a \in DOMAIN archive : \E p \in Paths(a) :
        p[1] = "inputs" /\ Drops(a, p) /\ touched' = touched \cup {a} /\ wanted' = wanted \ {<<p[2], archive[a][p]>>}
  BY DEF Touch
<1>1. PICK p \in Paths(a) :
        p[1] = "inputs" /\ Drops(a, p) /\ touched' = touched \cup {a} /\ wanted' = wanted \ {<<p[2], archive[a][p]>>}
  BY <1>a
<1>2. /\ VersionsTrue /\ BundlesWhole /\ LabelsTrue /\ TaskTrue /\ CaptureTrue /\ RestorationTrue /\ LabelledTrue
  BY DEF ArchivesInv, LabelledTrue
<1>3. /\ Function(archive') /\ DOMAIN archive' = DOMAIN archive
      /\ \A b \in DOMAIN archive : b # a => archive'[b] = archive[b]
      /\ DOMAIN archive'[a] = DOMAIN archive[a] \ {p}
      /\ \A q \in DOMAIN archive[a] : q # p => archive'[a][q] = archive[a][q]
  <2>1. Function(archive) /\ There(a)
    BY <1>2 DEF VersionsTrue, Function, There
  <2> QED  BY <1>1, <2>1, DropsIs
<1>4. \A b \in DOMAIN archive : \A q \in DOMAIN archive'[b] : q \in DOMAIN archive[b] /\ archive'[b][q] = archive[b][q]
  BY <1>3
<1>5. changes \in 0 .. MaxChanges /\ MaxChanges \in Nat
  BY <1>2, ArchivesAssumption DEF VersionsTrue
<1>6. \A v : ToCome(v)' => ToCome(v)
  <2> SUFFICES ASSUME NEW v, ToCome(v)' PROVE ToCome(v)
    OBVIOUS
  <2>1. PICK k \in (changes + 1) + 1 .. MaxChanges : v = <<"edit", k>>
    BY <1>0 DEF ToCome
  <2>2. k \in changes + 1 .. MaxChanges
    BY <1>5
  <2> QED  BY <2>1, <2>2 DEF ToCome
<1>7. VersionsTrue'
  <2>1. /\ DOMAIN archive \subseteq Ids /\ DOMAIN began = Ids
        /\ task.pc \notin {"idle", "control"} => There(task.id)
        /\ \A w \in wanted : w = <<w[1], w[2]>> /\ w[1] \in InputFiles
        /\ \A m \in InputFiles \cap DOMAIN live : ~ToCome(live[m])
        /\ \A b \in DOMAIN archive : \A q \in DOMAIN archive[b] : q[2] \in InputFiles => ~ToCome(archive[b][q])
        /\ review.kind = "control" => ~ToCome(review.new)
        /\ At("control") => ~ToCome(task.new)
    BY <1>2 DEF VersionsTrue, Paths
  <2>2. (changes \in 0 .. MaxChanges)'
    BY <1>0, <1>5
  <2>3. (DOMAIN archive \subseteq Ids /\ DOMAIN began = Ids)' /\ (archive = [b \in DOMAIN archive |-> archive[b]])'
    BY <1>0, <1>3, <2>1 DEF Ids, Function
  <2>4. (task.pc \notin {"idle", "control"} => There(task.id))'
    BY <1>0, <1>3, <2>1 DEF There
  <2>5. (\A w \in wanted : w = <<w[1], w[2]>> /\ w[1] \in InputFiles)'
    BY <1>1, <2>1
  <2>6. (\A m \in InputFiles \cap DOMAIN live : ~ToCome(live[m]))'
    BY <1>0, <1>6, <2>1
  <2>7. (\A b \in DOMAIN archive : \A q \in Paths(b) : q[2] \in InputFiles => ~ToCome(archive[b][q]))'
    BY <1>3, <1>4, <1>6, <2>1 DEF Paths
  <2>8. (review.kind = "control" => ~ToCome(review.new))' /\ (At("control") => ~ToCome(task.new))'
    BY <1>0, <1>6, <2>1 DEF At
  <2> QED  BY <2>2, <2>3, <2>4, <2>5, <2>6, <2>7, <2>8 DEF VersionsTrue
<1>8. BundlesWhole'
  <2>1. ASSUME NEW b \in DOMAIN archive' \ touched', Manifest \in DOMAIN archive'[b]
        PROVE  b \in DOMAIN archive /\ Manifest \in DOMAIN archive[b] /\ Stays(b)
    <3>1. b # a /\ b \in DOMAIN archive /\ archive'[b] = archive[b]
      BY <1>1, <1>3
    <3> QED  BY <2>1, <3>1 DEF Stays
  <2>2. touched \subseteq touched'
    BY <1>1
  <2> QED  BY <1>0, <1>2, <2>1, <2>2, BundlesStay
<1>9. LabelledTrue'
  <2>1. p # CompactionRecord
    BY <1>1, PathsAre
  <2>2. ASSUME NEW b \in DOMAIN archive', CompactionRecord \in DOMAIN archive'[b]
        PROVE  /\ b \in DOMAIN archive /\ CompactionRecord \in DOMAIN archive[b]
               /\ archive'[b][CompactionRecord] = archive[b][CompactionRecord]
               /\ \A q \in DOMAIN archive'[b] : q \in DOMAIN archive[b] /\ archive'[b][q] = archive[b][q]
    BY <1>3, <1>4, <2>2
  <2>3. LabelsTrue'
    BY <1>2, <2>2, LabelsStay
  <2>4. /\ task.pc \in {"capture", "copy", "check", "solve", "stage", "move", "back"} \/ (At("compact") /\ ~task.kept) =>
            CompactionRecord \notin Paths(task.id) /\ There(task.id)
        /\ At("compact") /\ ~task.warned =>
            There(task.id) /\ \A q \in Paths(task.id) \ task.todo : Kept(q, archive[task.id][q])
    BY <1>2 DEF LabelledTrue, VersionsTrue, At
  <2>5. task.pc \in {"capture", "copy", "check", "solve", "stage", "move", "back"} \/ (At("compact") /\ ~task.kept) =>
            CompactionRecord \notin DOMAIN archive'[task.id]
    BY <1>4, <2>4 DEF There, Paths
  <2>6. At("compact") /\ ~task.warned =>
            \A q \in DOMAIN archive'[task.id] \ task.todo : Kept(q, archive'[task.id][q])
    BY <1>4, <2>4 DEF There, Paths
  <2> QED  BY <1>0, <2>3, <2>5, <2>6 DEF LabelledTrue, At, Paths
<1>10. CaptureTrue'
  <2> SUFFICES ASSUME task.pc \in {"capture", "copy", "check"} PROVE CaptureTrue'
    BY <1>0 DEF CaptureTrue
  <2>1. There(task.id)
    BY <1>2 DEF VersionsTrue
  <2>2. DOMAIN archive'[task.id] \subseteq DOMAIN archive[task.id]
    BY <1>4, <2>1 DEF There
  <2>3. task.id \notin touched' => task.id \notin touched /\ archive'[task.id] = archive[task.id]
    BY <1>1, <1>3, <2>1 DEF There
  <2> QED  BY <1>0, <1>2, <2>2, <2>3 DEF CaptureTrue, InProgress, At, Paths, Copies
<1>11. RestorationTrue'
  <2> SUFFICES ASSUME task.pc \in {"stage", "move", "back"} PROVE RestorationTrue'
    BY <1>0 DEF RestorationTrue, At
  <2>1. There(task.id)
    BY <1>2 DEF VersionsTrue
  <2>2. DOMAIN archive'[task.id] \subseteq DOMAIN archive[task.id]
    BY <1>4, <2>1 DEF There
  <2>3. \A q \in DOMAIN archive[task.id] : q[1] # "inputs" => q \in DOMAIN archive'[task.id]
    BY <1>1, <1>3, <2>1 DEF There
  <2>4. \A m : <<"staged", m>>[1] # "inputs" /\ <<"before", m>>[1] # "inputs"
    OBVIOUS
  <2>5. \A m : /\ <<"staged", m>> \in DOMAIN archive[task.id] => <<"staged", m>> \in DOMAIN archive'[task.id]
               /\ <<"before", m>> \in DOMAIN archive[task.id] => <<"before", m>> \in DOMAIN archive'[task.id]
    BY <2>3, <2>4
  <2> QED  BY <1>0, <1>2, <1>3, <2>2, <2>5 DEF RestorationTrue, At, Paths, There
<1>12. TaskTrue' /\ (At("delete") => task.id \in touched)'
  BY <1>0, <1>1, <1>2 DEF TaskTrue, At, ArchivesInv
<1>13. ~mangled => WantedTrue'
  <2> SUFFICES ASSUME ~mangled PROVE WantedTrue'
    OBVIOUS
  <2>1. PICK others : others = Ids \ {task.id}
    OBVIOUS
  <2>2. \A w \in wanted : w = <<w[1], w[2]>> /\ w[1] \in InputFiles
    BY <1>2 DEF VersionsTrue
  <2>3. ASSUME NEW w \in wanted', NEW ids, Stored(w, ids) PROVE Stored(w, ids)'
    <3>1. PICK b \in ids \cap DOMAIN archive : \E q \in Paths(b) : q[1] # "staged" /\ q[2] = w[1] /\ archive[b][q] = w[2]
      BY <2>3 DEF Stored
    <3>2. PICK q \in DOMAIN archive[b] : q[1] # "staged" /\ q[2] = w[1] /\ archive[b][q] = w[2]
      BY <3>1 DEF Paths
    <3>3. b # a \/ q # p
      BY <1>1, <2>2, <3>2
    <3>4. q \in DOMAIN archive'[b] /\ archive'[b][q] = archive[b][q]
      BY <1>3, <3>1, <3>2, <3>3
    <3> QED  BY <1>3, <3>1, <3>2, <3>4 DEF Stored, Paths
  <2>4. wanted' \subseteq wanted /\ \A w : InModel(w)' <=> InModel(w)
    BY <1>0, <1>1 DEF InModel, Copies
  <2>5. WantedTrue
    BY DEF ArchivesInv
  <2>6. \A w \in wanted' : InModel(w)' \/ Stored(w, Ids)'
    BY <2>3, <2>4, <2>5 DEF WantedTrue, Ids
  <2>7. At("delete") => \A w \in wanted' : InModel(w)' \/ Stored(w, Ids \ {task.id})'
    <3>1. At("delete") => \A w \in wanted : InModel(w) \/ Stored(w, others)
      BY <2>1, <2>5 DEF WantedTrue
    <3>2. At("delete") => \A w \in wanted' : InModel(w)' \/ Stored(w, others)'
      BY <2>3, <2>4, <3>1
    <3> QED  BY <1>0, <2>1, <3>2 DEF Stored, Ids
  <2>8. ASSUME task.pc \in {"stage", "move"}, NEW w \in wanted',
               w[1] \in DOMAIN task.files \ (IF At("stage") THEN task.todo ELSE task.installed),
               archive'[task.id][<<"staged", w[1]>>] = w[2]
        PROVE  Stored(w, Ids)'
    <3>1. There(task.id) /\ <<"staged", w[1]>> \in Paths(task.id)
      BY <1>2, <2>8 DEF VersionsTrue, RestorationTrue
    <3>2. <<"staged", w[1]>>[1] # "inputs"
      OBVIOUS
    <3>3. archive'[task.id][<<"staged", w[1]>>] = archive[task.id][<<"staged", w[1]>>]
      BY <1>1, <1>3, <3>1, <3>2 DEF There, Paths
    <3>4. Stored(w, Ids)
      BY <2>4, <2>5, <2>8, <3>3 DEF WantedTrue
    <3> QED  BY <2>3, <3>4 DEF Ids
  <2>9. task.pc \in {"move", "back"} => \A w \in wanted' : w[1] \in task.installed /\ InModel(w)' => Stored(w, Ids)'
    BY <2>3, <2>4, <2>5 DEF WantedTrue, Ids
  <2>10. At("control") => \A w \in wanted' : w[1] = task.name => Stored(w, Ids)'
    BY <2>3, <2>4, <2>5 DEF WantedTrue, Ids
  <2> QED  BY <1>0, <2>5, <2>6, <2>7, <2>8, <2>9, <2>10 DEF WantedTrue, At
<1> QED  BY <1>0, <1>7, <1>8, <1>9, <1>10, <1>11, <1>12, <1>13 DEF ArchivesInv

-----------------------------------------------------------------------------
(* The invariant is inductive, and more than the property. *)
LEMMA ArchivesStep == ArchivesInv /\ [ArchivesNext]_archives => ArchivesInv'
BY RunBeginStep, HashStep, CopyInputStep, CheckInputStep, CaptureEndStep, SolveStep, ReviewStep, HouseStep, DeleteStep,
   CompactStep, CompactedStep, OverStep, ControlStep, ReplaceStep, RestoreInputsStep, StageInputStep, StagedStep,
   MoveStep, InstallStep, RestoredStep, RestorationFailsStep, UninstallStep, PutBackStep, ChangeInputStep, TouchStep,
   StutterStep DEF ArchivesNext

LEMMA InvIsTrue == ArchivesInv => ArchivesTrue
<1> SUFFICES ASSUME ArchivesInv PROVE ArchivesTrue
  OBVIOUS
<1>1. BundlesHold /\ LabelsTrue
  BY DEF ArchivesInv, BundlesWhole, LabelledTrue
<1>2. InputsSurvive
  <2> SUFFICES ASSUME ~mangled, NEW w \in wanted, ~InModel(w) PROVE InArchive(w, Ids)
    BY DEF InputsSurvive
  <2>1. Stored(w, Ids)
    BY DEF ArchivesInv, WantedTrue
  <2> QED  BY <2>1 DEF Stored, InArchive, There
<1> QED  BY <1>1, <1>2 DEF ArchivesTrue

(* Archives of runs stay restorable, no input that somebody wrote is lost, and what is called
   compacted is: whatever is captured, compacted, deleted, restored or interrupted, for any
   set of files and any number of archives, operations and edits. *)
THEOREM ArchivesAreTrue == ArchivesSpec => []ArchivesTrue
<1>1. ArchivesSpec => []ArchivesInv
  BY InitArchives, ArchivesStep, PTL DEF ArchivesSpec
<1> QED  BY <1>1, InvIsTrue, PTL
=============================================================================
