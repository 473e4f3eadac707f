----------------------------- MODULE ModelLocks -----------------------------
(***************************************************************************)
(* The cooperative locking of one model directory                          *)
(* (cmfgen_viewer/model_activity.py and its users).                        *)
(*                                                                         *)
(* Two files in the model carry advisory flock(2) locks: the write lock,   *)
(* held for one mutation, and the run lock, held for a whole run including *)
(* the gaps between native children.  A lock belongs to the INODE that was *)
(* opened, while operations meet through the NAME; full cleanup unlinks    *)
(* both names, so a name and an open descriptor can part company.          *)
(*                                                                         *)
(* Clients are processes (viewer requests, command-line tools, detached    *)
(* workers).  Every attempt is LOCK_NB: a client never waits, it gives up. *)
(***************************************************************************)
EXTENDS FiniteSets

CONSTANTS Clients,   \* processes that use the guards
          Inodes,    \* inode numbers of the file system, reused once free
          None       \* no descriptor, no file, no client

ASSUME LockAssumption == None \notin Clients /\ None \notin Inodes

VARIABLES
    dentry,    \* inode that each lock file name refers to
    pc,        \* next step of each client
    op,        \* operation each client performs
    phase,     \* which of its activity inspections a client is in
    wfd,       \* descriptor on the write lock, by inode
    pfd,       \* descriptor an inspection opened on the run lock
    rfd,       \* descriptor on the run lock kept as a reservation
    child,     \* native child alive, with the write-lock inode it inherited
    stray,  \* a native process nobody here started is alive
    seen       \* what happened during a reader's copy and its check (history)

locks == <<dentry, wfd, pfd, rfd, child>>
vars == <<dentry, pc, op, phase, wfd, pfd, rfd, child, stray, seen>>

Ops == {"edit", "clean", "read", "run"}
Steps == {"idle", "probe", "probeLock", "probed", "scan", "open", "lock",
          "validate", "edit", "remove", "unlink", "close", "reserve",
          "runLock", "runValidate", "reserved", "stage", "native",
          "reading", "recheck", "accepted", "dead"}
Phases == {"first", "second", "plan", "final"}
Names == {"write", "run"}

TypeOK ==
    /\ dentry \in [Names -> Inodes \cup {None}]
    /\ pc \in [Clients -> Steps]
    /\ op \in [Clients -> Ops]
    /\ phase \in [Clients -> Phases]
    /\ wfd \in [Clients -> Inodes \cup {None}]
    /\ pfd \in [Clients -> Inodes \cup {None}]
    /\ rfd \in [Clients -> Inodes \cup {None}]
    /\ child \in [Clients -> Inodes \cup {None}]
    /\ stray \in BOOLEAN
    /\ seen \in [Clients -> SUBSET {"mutation", "unlink"}]

-----------------------------------------------------------------------------
(* Who holds which lock.  A native child shares the open file description  *)
(* of its parent's write lock, so the lock survives the parent.            *)

HoldsWriteEx(c, i) ==
    \/ wfd[c] = i /\ op[c] # "read" /\ pc[c] # "lock"
    \/ child[c] = i
HoldsWriteSh(c, i) == wfd[c] = i /\ op[c] = "read" /\ pc[c] # "lock"
HoldsRunEx(c, i) == rfd[c] = i /\ pc[c] # "runLock"
HoldsRunSh(c, i) == pfd[c] = i /\ pc[c] = "probed"

\* The client owns a complete run: its token is set or it is the worker.
Reserved(c) == rfd[c] # None /\ pc[c] \notin {"runLock", "runValidate"}

\* The client is between the validation of its write lock and its release.
Guarded(c) == /\ op[c] # "read" /\ wfd[c] # None
              /\ pc[c] \notin {"lock", "validate", "close"}

\* Model files may change through this client or through its native child.
Writing(c) == pc[c] \in {"edit", "remove", "unlink", "stage"} \/ child[c] # None


OpenInodes == {dentry[n] : n \in Names}
              \cup UNION {{wfd[c], pfd[c], rfd[c], child[c]} : c \in Clients}
FreeInodes == Inodes \ OpenInodes

Goto(c, step) == pc' = [pc EXCEPT ![c] = step]
Inspect(c, ph) == Goto(c, "probe") /\ phase' = [phase EXCEPT ![c] = ph]

\* What the readers in the set S witness, for the properties about copies.
Note(S, what) ==
    seen' = [d \in Clients |-> IF d \in S THEN seen[d] \cup {what} ELSE seen[d]]
Readers(steps) == {d \in Clients : pc[d] \in steps}

-----------------------------------------------------------------------------
Init ==
    /\ dentry \in [Names -> Inodes \cup {None}]
    /\ dentry["write"] = dentry["run"] => dentry["run"] = None
    /\ pc = [c \in Clients |-> "idle"]
    /\ op = [c \in Clients |-> "edit"]
    /\ phase = [c \in Clients |-> "first"]
    /\ wfd = [c \in Clients |-> None]
    /\ pfd = [c \in Clients |-> None]
    /\ rfd = [c \in Clients |-> None]
    /\ child = [c \in Clients |-> None]
    /\ stray = FALSE
    /\ seen = [c \in Clients |-> {}]

\* A request enters one of the guards.
Begin(c, o) ==
    /\ pc[c] = "idle"
    /\ op' = [op EXCEPT ![c] = o]
    /\ Inspect(c, "first")
    /\ UNCHANGED <<locks, stray, seen>>

-----------------------------------------------------------------------------
(* inspect_model_activity: probe the run lock, then look at the processes. *)

\* The owner of the run skips the probe, and so does everybody when there is
\* no run lock file.
SkipsProbeUnderGuard(c) == Guarded(c) \/ dentry["run"] = None
SkipsProbe(c) == Reserved(c) \/ dentry["run"] = None

ProbeOpen(c) ==
    /\ pc[c] = "probe"
    /\ IF SkipsProbe(c)
       THEN Goto(c, "scan") /\ UNCHANGED pfd
       ELSE Goto(c, "probeLock") /\ pfd' = [pfd EXCEPT ![c] = dentry["run"]]
    /\ UNCHANGED <<dentry, op, phase, wfd, rfd, child, stray, seen>>

\* flock(LOCK_SH | LOCK_NB) on the inode that was opened.
ProbeLock(c) ==
    /\ pc[c] = "probeLock"
    /\ \A d \in Clients : ~HoldsRunEx(d, pfd[c])
    /\ Goto(c, "probed")
    /\ UNCHANGED <<op, phase, locks, stray, seen>>

ProbeClose(c) ==
    /\ pc[c] = "probed"
    /\ Goto(c, "scan")
    /\ pfd' = [pfd EXCEPT ![c] = None]
    /\ UNCHANGED <<dentry, op, phase, wfd, rfd, child, stray, seen>>

\* scan_model_processes sees every native process working in the model.
NoNatives == ~stray /\ \A d \in Clients : child[d] = None

Proceed(c, step) == Goto(c, step) /\ UNCHANGED <<phase, seen>>
EnterBody(c, step) == /\ Goto(c, step)
                      /\ Note(Readers({"reading"}), "mutation")
                      /\ UNCHANGED phase
EnterCopy(c) == /\ Goto(c, "reading")
                /\ Note({d \in {c} : \E e \in Clients : Writing(e)}, "mutation")
                /\ UNCHANGED phase

\* A safe inspection leads on; full cleanup inspects once more while it
\* rebuilds the reviewed plan.
Scan(c) ==
    /\ pc[c] = "scan"
    /\ NoNatives
    /\ \/ phase[c] = "first" /\ Proceed(c, "open")
       \/ /\ phase[c] = "second"
          /\ \/ op[c] = "edit" /\ EnterBody(c, "edit")
             \/ op[c] = "clean" /\ Inspect(c, "plan") /\ UNCHANGED seen
             \/ op[c] = "run" /\ Reserved(c) /\ EnterBody(c, "stage")
             \/ op[c] = "run" /\ ~Reserved(c) /\ Proceed(c, "reserve")
             \/ op[c] = "read" /\ EnterCopy(c)
       \/ phase[c] = "plan" /\ EnterBody(c, "remove")
       \/ phase[c] = "final" /\ Proceed(c, "accepted")
    /\ UNCHANGED <<op, locks, stray>>

-----------------------------------------------------------------------------
(* Taking the write lock: open, flock, compare the inode with the name.    *)

\* Writers create the file; a reader leaves an unlocked source untouched.
OpenWrite(c) ==
    /\ pc[c] = "open"
    /\ IF dentry["write"] # None
       THEN /\ wfd' = [wfd EXCEPT ![c] = dentry["write"]]
            /\ Goto(c, "lock")
            /\ UNCHANGED <<dentry, phase>>
       ELSE IF op[c] = "read"
       THEN Inspect(c, "second") /\ UNCHANGED <<dentry, wfd>>
       ELSE /\ \E i \in FreeInodes :
                 /\ dentry' = [dentry EXCEPT !["write"] = i]
                 /\ wfd' = [wfd EXCEPT ![c] = i]
            /\ Goto(c, "lock")
            /\ UNCHANGED phase
    /\ UNCHANGED <<op, pfd, rfd, child, stray, seen>>

\* flock(LOCK_EX | LOCK_NB), or LOCK_SH for a reader.
LockFree(c) ==
    \A d \in Clients : /\ ~HoldsWriteEx(d, wfd[c])
                       /\ op[c] # "read" => ~HoldsWriteSh(d, wfd[c])
LockWrite(c) ==
    /\ pc[c] = "lock"
    /\ LockFree(c)
    /\ Goto(c, "validate")
    /\ UNCHANGED <<op, phase, locks, stray, seen>>

AnyInode(c) == wfd[c] # None
SameInode(c) == wfd[c] = dentry["write"]

ValidateWrite(c) ==
    /\ pc[c] = "validate"
    /\ SameInode(c)
    /\ Inspect(c, "second")
    /\ UNCHANGED <<op, locks, stray, seen>>

-----------------------------------------------------------------------------
(* The bodies that run under the write guard.                              *)

\* Leaving any guard closes the descriptor, which releases the lock.
Leak(c) == UNCHANGED wfd
Release(c) == wfd' = [wfd EXCEPT ![c] = None]

EndEdit(c) ==
    /\ pc[c] \in {"edit", "close"}
    /\ Goto(c, "idle")
    /\ Release(c)
    /\ UNCHANGED <<dentry, op, phase, pfd, rfd, child, stray, seen>>

\* run_full_cleanup removes the planned entries, the run lock file among
\* them; each removal may fail and is then only recorded.
RemoveEntries(c) ==
    /\ pc[c] = "remove"
    /\ Goto(c, "unlink")
    /\ \E left \in {None, dentry["run"]} : dentry' = [dentry EXCEPT !["run"] = left]
    /\ UNCHANGED <<op, phase, wfd, pfd, rfd, child, stray, seen>>

\* Its last mutation: the name of the write lock goes, its inode stays held.
UnlinkWriteLock(c) ==
    /\ pc[c] = "unlink"
    /\ Goto(c, "close")
    /\ \/ /\ dentry' = [dentry EXCEPT !["write"] = None]
          /\ Note(Readers({"reading", "recheck"}), "unlink")
       \/ UNCHANGED <<dentry, seen>>
    /\ UNCHANGED <<op, phase, wfd, pfd, rfd, child, stray>>

-----------------------------------------------------------------------------
(* model_run_reservation, launch_job and the native stages of a run.       *)

OpenRun(c) ==
    /\ pc[c] = "reserve"
    /\ Goto(c, "runLock")
    /\ \E i \in IF dentry["run"] = None THEN FreeInodes ELSE {dentry["run"]} :
         /\ dentry' = [dentry EXCEPT !["run"] = i]
         /\ rfd' = [rfd EXCEPT ![c] = i]
    /\ UNCHANGED <<op, phase, wfd, pfd, child, stray, seen>>

RunLockFree(c) ==
    \A d \in Clients : ~HoldsRunEx(d, rfd[c]) /\ ~HoldsRunSh(d, rfd[c])
LockRun(c) ==
    /\ pc[c] = "runLock"
    /\ RunLockFree(c)
    /\ Goto(c, "runValidate")
    /\ UNCHANGED <<op, phase, locks, stray, seen>>

\* The reservation is complete; leaving the write guard ends the hand-over.
ValidateRun(c) ==
    /\ pc[c] = "runValidate"
    /\ rfd[c] = dentry["run"]
    /\ Goto(c, "reserved")
    /\ Release(c)
    /\ UNCHANGED <<dentry, op, phase, pfd, rfd, child, stray, seen>>

\* run_plan guards each stage again; as the owner it skips the run-lock probe.
BeginStage(c) ==
    /\ pc[c] = "reserved"
    /\ Inspect(c, "first")
    /\ UNCHANGED <<op, locks, stray, seen>>

\* Popen(..., pass_fds=(lock_fd,)): the child inherits the write lock only.
SpawnNative(c) ==
    /\ pc[c] = "stage"
    /\ Goto(c, "native")
    /\ child' = [child EXCEPT ![c] = wfd[c]]
    /\ UNCHANGED <<dentry, op, phase, wfd, pfd, rfd, stray, seen>>

NativeExit(c) ==
    /\ child[c] # None
    /\ child' = [child EXCEPT ![c] = None]
    /\ pc' = IF pc[c] = "native" THEN [pc EXCEPT ![c] = "stage"] ELSE pc
    /\ UNCHANGED <<dentry, op, phase, wfd, pfd, rfd, stray, seen>>

EndStage(c) ==
    /\ pc[c] = "stage"
    /\ Goto(c, "reserved")
    /\ Release(c)
    /\ UNCHANGED <<dentry, op, phase, pfd, rfd, child, stray, seen>>

EndRun(c) ==
    /\ pc[c] = "reserved"
    /\ Goto(c, "idle")
    /\ rfd' = [rfd EXCEPT ![c] = None]
    /\ UNCHANGED <<dentry, op, phase, wfd, pfd, child, stray, seen>>

-----------------------------------------------------------------------------
(* model_read_guard after the copy was made.                               *)

EndCopy(c) ==
    /\ pc[c] = "reading"
    /\ Goto(c, "recheck")
    /\ UNCHANGED <<op, phase, locks, stray, seen>>

\* Without a descriptor no lock file may have appeared.
CopyUnlockedAccepted(c) == wfd[c] = dentry["write"] \/ wfd[c] = None
CopyUndisturbed(c) == wfd[c] = dentry["write"]

RecheckCopy(c) ==
    /\ pc[c] = "recheck"
    /\ CopyUndisturbed(c)
    /\ Inspect(c, "final")
    /\ UNCHANGED <<op, locks, stray, seen>>

EndRead(c) ==
    /\ pc[c] = "accepted"
    /\ Goto(c, "idle")
    /\ Release(c)
    /\ phase' = [phase EXCEPT ![c] = "first"]
    /\ seen' = [seen EXCEPT ![c] = {}]
    /\ UNCHANGED <<dentry, op, pfd, rfd, child, stray>>

-----------------------------------------------------------------------------
(* Giving up, crashes, and processes outside the program.                  *)

\* The refusals a client raises because of what it finds.
Refused(c) ==
    \/ pc[c] = "probeLock" /\ \E d \in Clients : HoldsRunEx(d, pfd[c])
    \/ pc[c] = "scan" /\ ~NoNatives
    \/ pc[c] = "lock" /\ ~LockFree(c)
    \/ pc[c] = "validate" /\ ~SameInode(c)
    \/ pc[c] = "runLock" /\ ~RunLockFree(c)
    \/ pc[c] = "recheck" /\ ~CopyUndisturbed(c)

\* Steps at which an OSError, an unsafe file, an unreadable process table or
\* an exception of the guarded body may end the operation as well.
MayRaise == {"probe", "probeLock", "probed", "scan", "open", "lock", "validate",
             "edit", "remove", "reserve", "runLock", "runValidate", "stage",
             "reading", "recheck"}

\* The finally clauses close what the operation opened; a stage that fails
\* under a reservation returns to the run, which still owns the model.
GiveUp(c) ==
    /\ Refused(c) \/ pc[c] \in MayRaise
    /\ wfd' = [wfd EXCEPT ![c] = None]
    /\ pfd' = [pfd EXCEPT ![c] = None]
    /\ rfd' = IF Reserved(c) THEN rfd ELSE [rfd EXCEPT ![c] = None]
    /\ Goto(c, IF Reserved(c) THEN "reserved" ELSE "idle")
    /\ phase' = [phase EXCEPT ![c] = "first"]
    /\ seen' = [seen EXCEPT ![c] = {}]
    /\ UNCHANGED <<dentry, op, child, stray>>

\* A killed process loses its descriptors; its native child keeps the write
\* lock it inherited, but not the run lock.
Crash(c) ==
    /\ pc[c] \notin {"idle", "dead"}
    /\ Goto(c, "dead")
    /\ wfd' = [wfd EXCEPT ![c] = None]
    /\ pfd' = [pfd EXCEPT ![c] = None]
    /\ rfd' = [rfd EXCEPT ![c] = None]
    /\ phase' = [phase EXCEPT ![c] = "first"]
    /\ seen' = [seen EXCEPT ![c] = {}]
    /\ UNCHANGED <<dentry, op, child, stray>>

\* The identity is used for a new process once nothing of the old one is left.
Restart(c) ==
    /\ pc[c] = "dead" /\ child[c] = None
    /\ Goto(c, "idle")
    /\ UNCHANGED <<op, phase, locks, stray, seen>>

\* Shell jobs started outside the program honour no lock.
External ==
    /\ stray' = ~stray
    /\ UNCHANGED <<pc, op, phase, locks, seen>>

Activity(c) == ProbeOpen(c) \/ ProbeLock(c) \/ ProbeClose(c) \/ Scan(c)
Guard(c) == OpenWrite(c) \/ LockWrite(c) \/ ValidateWrite(c)
Body(c) == EndEdit(c) \/ RemoveEntries(c) \/ UnlinkWriteLock(c)
Run(c) == \/ OpenRun(c) \/ LockRun(c) \/ ValidateRun(c) \/ BeginStage(c)
          \/ SpawnNative(c) \/ NativeExit(c) \/ EndStage(c) \/ EndRun(c)
Read(c) == EndCopy(c) \/ RecheckCopy(c) \/ EndRead(c)

Next ==
    \/ \E c \in Clients :
         \/ \E o \in Ops : Begin(c, o)
         \/ Activity(c) \/ Guard(c) \/ Body(c) \/ Run(c) \/ Read(c)
         \/ GiveUp(c) \/ Crash(c) \/ Restart(c)
    \/ External

Spec == Init /\ [][Next]_vars

-----------------------------------------------------------------------------
(* At most one party changes the model's files at a time, counting a native
   child whose runner was killed (model_activity.model_mutation_guard and
   the write-lock descriptor run_plan passes to the solver). *)
MutualExclusion ==
    \A c, d \in Clients : Writing(c) /\ Writing(d) => c = d

(* While one process owns a run, also in the gaps between native children,
   no other process changes the model or owns a run of it
   (model_run_reservation and the second activity check of the guards). *)
RunExclusive ==
    \A c, d \in Clients : Reserved(c) /\ (Writing(d) \/ Reserved(d)) => c = d

(* The run lock of a live owner keeps its name: full cleanup never unlinks
   the file under a running job, so that later probes still find it. *)
OwnerVisible ==
    \A c \in Clients : Reserved(c) => rfd[c] = dentry["run"]

(* No mutation overlaps with a copy that the read guard accepts.  The one
   exception: the reader found no lock file, and a full cleanup unlinked the
   file a writer made meanwhile (the caller's file snapshots cover that). *)
AcceptedCopyStable ==
    \A c \in Clients : pc[c] = "accepted" /\ "mutation" \in seen[c] =>
        wfd[c] = None /\ "unlink" \in seen[c]

(* The guards implement exclusive ownership of the model: seen from the model
   there is one writer and one run owner at a time (ModelOwnership). *)
Writer == IF \E c \in Clients : Writing(c) THEN CHOOSE c \in Clients : Writing(c) ELSE None
Owner == IF \E c \in Clients : Reserved(c) THEN CHOOSE c \in Clients : Reserved(c) ELSE None
Ownership == INSTANCE ModelOwnership WITH writer <- Writer, owner <- Owner
ImplementsOwnership == Ownership!Spec

-----------------------------------------------------------------------------
(* Why the guards work: the facts that every step preserves.               *)

Inspecting == {"probe", "probeLock", "probed", "scan"}

\* Which descriptors a client has at each of its steps.
ShapeOf(c) ==
    /\ op[c] = "read" => /\ pc[c] \in Inspecting \cup {"idle", "open", "lock", "validate",
                                                   "reading", "recheck", "accepted", "dead"}
                         /\ phase[c] # "plan"
    /\ phase[c] = "final" => op[c] = "read"
    /\ phase[c] = "plan" => op[c] = "clean" /\ pc[c] \in Inspecting \cup {"remove", "unlink", "close", "idle"}
    /\ pc[c] \in Inspecting => /\ phase[c] = "first" => wfd[c] = None
                               /\ phase[c] # "first" /\ op[c] # "read" => wfd[c] # None
    /\ pc[c] \in {"idle", "dead", "open", "reserved"} => wfd[c] = None
    /\ pc[c] \in {"lock", "validate", "edit", "remove", "unlink", "close", "reserve",
                  "runLock", "runValidate", "stage", "native"} => wfd[c] # None
    /\ pc[c] = "edit" => op[c] = "edit"
    /\ pc[c] = "reserve" => op[c] = "run"
    /\ pc[c] \in {"remove", "unlink", "close"} => op[c] = "clean"
    /\ pc[c] \in {"reading", "recheck", "accepted"} => op[c] = "read"
    /\ pc[c] \in {"open", "lock", "validate"} => phase[c] = "first"
    /\ pfd[c] # None <=> pc[c] \in {"probeLock", "probed"}
    /\ pc[c] \in {"runLock", "runValidate", "reserved", "stage", "native"} => rfd[c] # None
    /\ rfd[c] # None => /\ op[c] = "run"
                        /\ pc[c] \in {"runLock", "runValidate", "reserved", "stage", "native",
                                      "probe", "scan", "open", "lock", "validate"}
    /\ child[c] # None => pc[c] \in {"native", "dead"}
    /\ pc[c] = "native" => child[c] = wfd[c]
Shape == \A c \in Clients : ShapeOf(c)

WriteLocksExclusive ==
    \A c, d \in Clients : \A i \in Inodes :
        HoldsWriteEx(c, i) /\ (HoldsWriteEx(d, i) \/ HoldsWriteSh(d, i)) => c = d

\* A validated write lock is a lock on the inode the name still refers to.
Holder(c) == Guarded(c) \/ child[c] # None
GuardsCurrent ==
    \A c \in Clients : /\ Guarded(c) => wfd[c] = dentry["write"]
                       /\ child[c] # None => child[c] = dentry["write"]

RunLocksExclusive ==
    \A c, d \in Clients : \A i \in Inodes :
        HoldsRunEx(c, i) => ~HoldsRunSh(d, i) /\ (HoldsRunEx(d, i) => c = d)

ReservationsCurrent == \A c \in Clients : rfd[c] # None => rfd[c] = dentry["run"]

\* Under the write guard the run lock name cannot change hands.
ProbesCurrent ==
    \A c \in Clients : Guarded(c) /\ pc[c] = "probeLock" => pfd[c] = dentry["run"]

\* A guarded client whose second inspection passed the run lock.
Checked(c) == \/ Guarded(c) /\ (pc[c] \notin {"probe", "probeLock"} \/ phase[c] = "plan")
              \/ child[c] # None
CheckedExcludesOwners ==
    \A c, d \in Clients : Checked(c) /\ Reserved(d) => c = d

\* What a reader has witnessed.  Under a shared lock nobody mutates the model.  Without one a
\* mutation shows in the name of the lock file, as long as nobody removes that name.
CopyWatched(c) ==
    /\ op[c] = "read" /\ wfd[c] # None /\ pc[c] \notin {"lock", "validate"}
          => wfd[c] = dentry["write"] /\ "mutation" \notin seen[c]
    /\ "mutation" \in seen[c] =>
          \/ pc[c] \in {"reading", "recheck"} /\ (dentry["write"] # None \/ "unlink" \in seen[c])
          \/ /\ pc[c] = "accepted" \/ (phase[c] = "final" /\ pc[c] \in Inspecting)
             /\ wfd[c] = None /\ "unlink" \in seen[c]
CopiesWatched == \A c \in Clients : CopyWatched(c)

(* What every step of every process preserves: descriptors are closed on all
   paths, the locks exclude each other, a name that a validated lock was taken
   under still refers to its inode, a guarded client whose last inspection
   passed the run lock meets no foreign owner, and a reader that misses a
   mutation has missed the removal of the lock file as well. *)
LockInv == /\ TypeOK /\ Shape
           /\ WriteLocksExclusive /\ GuardsCurrent
           /\ RunLocksExclusive /\ ReservationsCurrent
           /\ ProbesCurrent /\ CheckedExcludesOwners
           /\ CopiesWatched
=============================================================================
