------------------------------ MODULE Promotion ------------------------------
(***************************************************************************)
(* Promotion of LTE/hydro results to the main model and the clean-up of    *)
(* LTE temporaries (model_workflow.py, lte_cleanup.py).                    *)
(*                                                                         *)
(* A promotion replaces four files of the model root, one after the other, *)
(* removes the solution computed on the old grid, moves LTE temporaries    *)
(* into an archive and leaves a marker.  There is no journal: the backup   *)
(* directory and the local variables of the running function are all that  *)
(* a rollback knows.  Every step may raise OSError, the steps of the       *)
(* rollback too, and the process may be interrupted or die anywhere.       *)
(*                                                                         *)
(* The content of a file is the number of the LTE or hydro run whose data  *)
(* it carries; for the two VADAT files, that of their radii.  Modification *)
(* times are kept as the comparisons the program makes: an output is fresh *)
(* (not older than its inputs), a generated file is newer than the root's, *)
(* the marker is newer than MOD_SUM.  Mutations exclude each other as      *)
(* ModelLocks shows, so the environment acts between them only.  Review    *)
(* and plan of a promotion belong to the sequences of the runner.          *)
(***************************************************************************)
EXTENDS Naturals, Sequences, Functions, Filters

CONSTANTS
    MainOrder,    \* the solution files a promotion invalidates, MOD_SUM among them
    TempOrder,    \* LTE temporaries it archives
    MaxMade,      \* bound on the number of LTE and hydro runs
    MaxMishaps,   \* bound on failed rollback steps and interruptions together
    Absent,       \* content of a file that does not exist
    Partial       \* content of a copy that was cut off

InstallOrder == <<"ROSSELAND_LTE_TAB", "RVSIG_COL_NEW", "RVSIG_COL", "VADAT">>
SaveOrder == <<"lte/VADAT">> \o InstallOrder \o MainOrder
Installed == Range(InstallOrder)
MainFiles == Range(MainOrder)
Temporaries == Range(TempOrder)
Paired == {"ROSSELAND_LTE_TAB", "RVSIG_COL"}  \* what the main preflight compares

ASSUME PromotionAssumption ==
    /\ MainOrder \in Seq(MainFiles) /\ TempOrder \in Seq(Temporaries)
    /\ IsInjective(SaveOrder) /\ IsInjective(TempOrder)
    /\ Temporaries \cap Range(SaveOrder) = {}
    /\ "MOD_SUM" \in MainFiles
    /\ MaxMade \in Nat \ {0} /\ MaxMishaps \in Nat
    /\ Absent \notin Nat /\ Partial \notin Nat /\ Absent # Partial

VARIABLES
    disk,     \* root: structure files and VADAT of the model root; main: the grid each
              \* solution file was computed on; lte: VADAT, results and their freshness;
              \* newer: generated file newer than the root's; temps: temporaries in lte/;
              \* marker: stale-solution marker, none, older or newer than MOD_SUM
    saved,    \* contents of the mutation's backup and archive directories
    step, by, \* next step of the mutation, and who performs it
    local,    \* its local variables; todo is what its present loop has left
    status,   \* what became of the last mutation; failed: it raised an error
    made,     \* runs so far
    before,   \* history: the disk it started from
    fault,    \* history: a step of its rollback failed
    torn,     \* history: some promotion since the last success was left half done
    mishaps   \* failed rollback steps and interruptions so far

history == <<before, fault, torn, mishaps>>
vars == <<disk, saved, step, by, local, status, made, history>>

Contents == 0..MaxMade \cup {Absent}
NoFiles(S) == [n \in S |-> Absent]
NothingSaved == [backup |-> NoFiles(Range(SaveOrder)), archive |-> NoFiles(Temporaries)]
NoLocals == [todo |-> <<>>, replaced |-> <<>>, invalidated |-> <<>>,
             moved |-> <<>>, removed |-> <<>>]

Current(n) == CASE n \in Installed -> disk.root[n]
                [] n \in MainFiles -> disk.main[n]
                [] n \in Temporaries -> disk.temps[n]
                [] OTHER -> disk.lte.vadat
Present(order) == Only(order, {n \in Range(order) : Current(n) # Absent})
Source(n) == IF n = "ROSSELAND_LTE_TAB" THEN disk.lte.table ELSE disk.lte.hydro

\* promotion_ready: both results are at least as new as what they depend on.
Ready == disk.lte.tableFresh /\ disk.lte.hydroFresh

\* A promotion releases the guard when it has committed; what it does afterwards touches
\* only its own directories.
Free == step = "idle" \/ (step \in {"compact", "report"} /\ by # "cleanup")

\* The status "promoted" of the workflow page and of the runner's plan.
Promoted == Free /\ Ready /\ \A n \in Installed : disk.root[n] = Source(n)

\* The preflight issue unpromoted-lte-result, which blocks a fresh main start.
Unpromoted(d) ==
    \/ /\ d.lte.tableFresh /\ d.newer["ROSSELAND_LTE_TAB"]
       /\ d.root["ROSSELAND_LTE_TAB"] # d.lte.table
    \/ /\ d.lte.hydroFresh /\ d.newer["RVSIG_COL"]
       /\ d.root["RVSIG_COL"] # d.lte.hydro

\* The inputs changed since the solution was computed.
StaleSolution(d) == \/ d.marker = "newer"
                    \/ d.marker = "older" /\ d.main["MOD_SUM"] = Absent

IsDisk(d) ==
    /\ DOMAIN d = {"root", "main", "lte", "newer", "temps", "marker"}
    /\ d.root \in [Installed -> Contents]
    /\ d.main \in [MainFiles -> Contents]
    /\ d.lte \in [vadat: Contents \cup {Partial}, table: 0..MaxMade, hydro: 0..MaxMade,
                  tableFresh: BOOLEAN, hydroFresh: BOOLEAN]
    /\ d.newer \in [Paired -> BOOLEAN]
    /\ d.temps \in [Temporaries -> Contents]
    /\ d.marker \in {"none", "older", "newer"}

TypeOK ==
    /\ IsDisk(disk) /\ IsDisk(before) /\ made \in 0..MaxMade
    /\ saved.backup \in [Range(SaveOrder) -> Contents \cup {Partial}]
    /\ saved.archive \in [Temporaries -> Contents]
    /\ step \in {"idle", "backup", "sync", "utime", "install", "invalidate", "archive",
                 "mark", "compact", "report", "putback", "unarchive", "reinstall",
                 "revive", "retime"}
    /\ by \in {"none", "web", "runner", "cleanup"}
    /\ status \in {"none", "running", "succeeded", "failed", "cancelled", "committed"}
    /\ DOMAIN local = DOMAIN NoLocals
    /\ Range(local.todo) \subseteq Range(SaveOrder) \cup Temporaries
    /\ \E i \in 0..4 : local.replaced = SubSeq(InstallOrder, 1, i)
    /\ Range(local.invalidated) \subseteq MainFiles
    /\ Range(local.moved) \cup Range(local.removed) \subseteq Temporaries
    /\ fault \in BOOLEAN /\ torn \in BOOLEAN /\ mishaps \in 0..MaxMishaps

\* A model with results of its first runs (number 1) to promote; the root holds an older
\* structure and solution, or none yet.
Init ==
    /\ \E old \in {0, Absent} : disk =
        [root |-> [n \in Installed |-> IF n = "VADAT" THEN 0 ELSE old],
         main |-> [f \in MainFiles |-> old],
         lte |-> [vadat |-> 0, table |-> 1, hydro |-> 1,
                  tableFresh |-> TRUE, hydroFresh |-> TRUE],
         newer |-> [n \in Paired |-> TRUE],
         temps |-> [t \in Temporaries |-> 1],
         marker |-> "none"]
    /\ saved = NothingSaved /\ local = NoLocals
    /\ step = "idle" /\ by = "none" /\ status = "none" /\ made = 1
    /\ before = disk /\ fault = FALSE /\ torn = FALSE /\ mishaps = 0

-----------------------------------------------------------------------------
(* Between mutations: native runs, edits of controls and main runs.  Each   *)
(* leaves the last promotion behind: no step here reads its directories.    *)

Forget ==
    /\ Free /\ step' = "idle" /\ local' = NoLocals /\ UNCHANGED <<torn, mishaps>>
    /\ by' = "none" /\ status' = "none" /\ saved' = NothingSaved
    /\ before' = disk' /\ fault' = FALSE

NewRun == made < MaxMade /\ made' = made + 1
NewTemps == [t \in Temporaries |-> made']

\* A run leaves its result, which makes what depends on it stale, and temporaries.
RunLte ==
    /\ NewRun
    /\ disk' = [disk EXCEPT !.lte.table = made', !.lte.tableFresh = TRUE,
                            !.lte.hydroFresh = FALSE, !.temps = NewTemps,
                            !.newer["ROSSELAND_LTE_TAB"] = TRUE]
    /\ Forget

RunHydro ==
    /\ disk.lte.tableFresh /\ NewRun
    /\ disk' = [disk EXCEPT !.lte.hydro = made', !.lte.hydroFresh = TRUE,
                            !.temps = NewTemps, !.newer["RVSIG_COL"] = TRUE]
    /\ Forget

\* Saving lte/VADAT makes the LTE result stale, saving HYDRO_PARAMS the hydro result.
EditLte ==
    /\ \E f \in {"tableFresh", "hydroFresh"} : disk' = [disk EXCEPT !.lte[f] = FALSE]
    /\ UNCHANGED made /\ Forget

EditRoot == disk' = [disk EXCEPT !.marker = "newer"] /\ UNCHANGED made /\ Forget

\* A fresh main run: the preflight must not object to the structure it starts from.
Solve ==
    /\ \A n \in Paired : disk.root[n] # Absent
    /\ ~Unpromoted(disk)
    /\ disk' = [disk EXCEPT !.main = [f \in MainFiles |-> disk.root["RVSIG_COL"]],
                            !.marker = IF @ = "none" THEN "none" ELSE "older"]
    /\ UNCHANGED made /\ Forget

-----------------------------------------------------------------------------
(* promote_lte_hydro_results                                                *)

Go(s) == step' = s /\ UNCHANGED <<by, status, made>>
\* The local variables die with the function, the directories stay.
Return(s) == step' = "idle" /\ status' = s /\ local' = NoLocals /\ UNCHANGED <<by, made>>

Begin(who, first, order) ==
    /\ Free /\ step' = first /\ by' = who /\ status' = "running"
    /\ local' = [NoLocals EXCEPT !.todo = Present(order)]
    /\ saved' = NothingSaved
    /\ before' = disk /\ fault' = FALSE
    /\ UNCHANGED <<disk, made, torn, mishaps>>

\* The route of the page checks promotion_ready only; a plan also refuses what
\* already looks promoted.  A variant saves the inputs only.
ToSaveInputs == <<"lte/VADAT">> \o InstallOrder
ToSave == SaveOrder
BeginPromotion(who) ==
    /\ Ready
    /\ who = "runner" => ~Promoted
    /\ Begin(who, "backup", ToSave)

BackUp ==
    LET n == Head(local.todo) IN
    /\ step = "backup"
    /\ saved' = [saved EXCEPT !.backup[n] = Current(n)]
    /\ local' = [local EXCEPT !.todo = Tail(@)]
    /\ Go(IF Len(local.todo) = 1 THEN "sync" ELSE "backup")
    /\ UNCHANGED <<disk, history>>

\* mkdir or shutil.copy2 raises; the copy may exist already, cut off or complete.
BackUpFails ==
    LET n == Head(local.todo) IN
    /\ step = "backup" /\ Go("unarchive")
    /\ \E c \in {Absent, Partial, Current(n)} : saved' = [saved EXCEPT !.backup[n] = c]
    /\ local' = [local EXCEPT !.todo = <<>>]
    /\ UNCHANGED <<disk, history>>

\* The new lte/VADAT is newer than the LTE result until it gets its old time back.
SyncLte ==
    /\ step = "sync" /\ Go("utime")
    /\ disk' = [disk EXCEPT !.lte.vadat = disk.lte.hydro, !.lte.tableFresh = FALSE]
    /\ UNCHANGED <<saved, local, history>>

KeepTime ==
    /\ step = "utime" /\ Go("install")
    /\ disk' = [disk EXCEPT !.lte.tableFresh = TRUE]
    /\ UNCHANGED <<saved, local, history>>

\* A variant leaves MOD_SUM.
ToInvalidateSome == Only(Present(MainOrder), MainFiles \ {"MOD_SUM"})
ToInvalidate == Present(MainOrder)
Install ==
    LET n == InstallOrder[Len(local.replaced) + 1]
        last == n = "VADAT"
    IN
    /\ step = "install" /\ Go(IF last THEN "invalidate" ELSE "install")
    /\ disk' = [disk EXCEPT !.root[n] = Source(n),
                            !.newer = [p \in Paired |-> @[p] /\ p # n]]
    /\ local' = [local EXCEPT !.replaced = Append(@, n),
                              !.todo = IF last THEN ToInvalidate ELSE <<>>]
    /\ UNCHANGED <<saved, history>>

Invalidate ==
    LET f == Head(local.todo) IN
    /\ step = "invalidate" /\ local.todo # <<>> /\ Go(step)
    /\ disk' = [disk EXCEPT !.main[f] = Absent]
    /\ local' = [local EXCEPT !.invalidated = Append(@, f), !.todo = Tail(@)]
    /\ UNCHANGED <<saved, history>>

Invalidated ==
    /\ step = "invalidate" /\ local.todo = <<>> /\ Go("archive")
    /\ local' = [local EXCEPT !.todo = Present(TempOrder)]
    /\ UNCHANGED <<disk, saved, history>>

MarkStale ==
    /\ step = "mark" /\ Go("compact")
    /\ disk' = [disk EXCEPT !.marker = "newer"]
    /\ torn' = FALSE
    /\ UNCHANGED <<saved, local, before, fault, mishaps>>

\* An OSError of any of these steps, the first or the last of their loops included.  A
\* variant's rollback forgets the archived temporaries.
NotUnarchived == <<>>
ToUnarchive == local.removed
StepFails ==
    /\ step \in {"sync", "utime", "install", "invalidate", "mark"} /\ Go("unarchive")
    /\ local' = [local EXCEPT !.todo = ToUnarchive]
    /\ UNCHANGED <<disk, saved, history>>

-----------------------------------------------------------------------------
(* archive_lte_temporaries, for a promotion or a clean-up of its own        *)

BeginCleanup == Begin("cleanup", "archive", TempOrder)

Archive ==
    LET t == Head(local.todo) IN
    /\ step = "archive" /\ local.todo # <<>> /\ Go(step)
    /\ disk' = [disk EXCEPT !.temps[t] = Absent]
    /\ saved' = [saved EXCEPT !.archive[t] = disk.temps[t]]
    /\ local' = [local EXCEPT !.moved = Append(@, t), !.todo = Tail(@)]
    /\ UNCHANGED history

\* Only now does the caller learn what was moved.
Archived ==
    /\ step = "archive" /\ local.todo = <<>>
    /\ Go(IF by = "cleanup" THEN "compact" ELSE "mark")
    /\ local' = [local EXCEPT !.removed = local.moved]
    /\ UNCHANGED <<disk, saved, history>>

ArchiveFails ==
    /\ step = "archive" /\ Go("putback")
    /\ local' = [local EXCEPT !.todo = local.moved]
    /\ UNCHANGED <<disk, saved, history>>

\* restore_lte_temporaries, from the end: called by the archiving itself, or by the
\* rollback for temporaries that were archived.
DropLast(s) == SubSeq(s, 1, Len(s) - 1)
PutBack ==
    LET t == local.todo[Len(local.todo)] IN
    /\ step \in {"putback", "unarchive"} /\ local.todo # <<>> /\ Go(step)
    /\ disk' = [disk EXCEPT !.temps[t] = saved.archive[t]]
    /\ saved' = [saved EXCEPT !.archive[t] = Absent]
    /\ local' = [local EXCEPT !.todo = DropLast(@)]
    /\ UNCHANGED history

Mishap == mishaps < MaxMishaps /\ mishaps' = mishaps + 1
Sound == UNCHANGED history
Faulty == Mishap /\ fault' = TRUE /\ torn' = (torn \/ by # "cleanup") /\ UNCHANGED before

\* After the archiving has cleaned up after itself, a clean-up has failed and a promotion
\* rolls back; it knows of no moved file.
LeaveArchiving ==
    IF by = "cleanup" THEN Return("failed")
    ELSE Go("unarchive") /\ local' = [local EXCEPT !.todo = <<>>]

PutBackEnds ==
    /\ step = "putback" /\ local.todo = <<>> /\ LeaveArchiving
    /\ UNCHANGED <<disk, saved, history>>

\* An error in it replaces the error it was called for.  Raised while the archiving
\* cleans up, it is caught by the promotion; raised in the rollback, it ends it.
PutBackFails ==
    /\ step \in {"putback", "unarchive"} /\ local.todo # <<>>
    /\ IF step = "putback" THEN LeaveArchiving ELSE Return("failed")
    /\ Faulty /\ UNCHANGED <<disk, saved>>

-----------------------------------------------------------------------------
(* The except clause of a promotion.  Its first part may raise; the others  *)
(* pass over an OSError, one file at a time.                                *)

Unarchived ==
    /\ step = "unarchive" /\ local.todo = <<>> /\ Go("reinstall")
    /\ UNCHANGED <<disk, saved, local, history>>

\* The restored file has a new modification time.
Reinstall ==
    LET n == local.replaced[Len(local.replaced)]
        old == saved.backup[n]
    IN
    /\ step = "reinstall" /\ local.replaced # <<>> /\ Go(step)
    /\ \/ /\ disk' = [disk EXCEPT !.root[n] = old,
                        !.newer = [p \in Paired |-> IF p = n THEN old = Absent ELSE @[p]]]
          /\ Sound
       \/ UNCHANGED disk /\ Faulty
    /\ local' = [local EXCEPT !.replaced = DropLast(@)]
    /\ UNCHANGED saved

Reinstalled ==
    /\ step = "reinstall" /\ local.replaced = <<>> /\ Go("revive")
    /\ UNCHANGED <<disk, saved, local, history>>

\* MOD_SUM comes back newer than a marker that was there.
Revive ==
    LET f == Head(local.invalidated) IN
    /\ step = "revive" /\ local.invalidated # <<>> /\ Go(step)
    /\ \/ /\ disk' = [disk EXCEPT !.main[f] = saved.backup[f],
                        !.marker = IF f = "MOD_SUM" /\ @ = "newer" THEN "older" ELSE @]
          /\ Sound
       \/ UNCHANGED disk /\ Faulty
    /\ local' = [local EXCEPT !.invalidated = Tail(@)]
    /\ UNCHANGED saved

\* lte/VADAT last, whether it was written or not; without a copy nothing happens.
RestoreLte ==
    LET old == saved.backup["lte/VADAT"] IN
    /\ step = "revive" /\ local.invalidated = <<>>
    /\ \/ /\ old # Absent /\ Go("retime") /\ Sound /\ UNCHANGED local
          /\ disk' = [disk EXCEPT !.lte.vadat = old, !.lte.tableFresh = FALSE]
       \/ old = Absent /\ Return("failed") /\ Sound /\ UNCHANGED disk
       \/ old # Absent /\ Return("failed") /\ Faulty /\ UNCHANGED disk
    /\ UNCHANGED saved

RestoreTime ==
    /\ step = "retime" /\ Return("failed")
    /\ \/ disk' = [disk EXCEPT !.lte.tableFresh = TRUE] /\ Sound
       \/ UNCHANGED disk /\ Faulty
    /\ UNCHANGED saved

-----------------------------------------------------------------------------
(* The end.  For a promotion, the guard is free by now.                     *)

\* compact_recovery keeps inputs and discards calculated state; its errors are warnings.
Kept == {"ROSSELAND_LTE_TAB", "RVSIG_COL", "VADAT", "lte/VADAT"}

Compact ==
    /\ step = "compact"
    /\ saved' = [NothingSaved EXCEPT !.backup =
                    [n \in DOMAIN @ |-> IF n \in Kept THEN saved.backup[n] ELSE Absent]]
    /\ IF by = "cleanup" THEN Return("succeeded") ELSE Go("report") /\ UNCHANGED local
    /\ UNCHANGED <<disk, history>>

\* The result is a new inspection of the workflow, which may raise although the
\* promotion stands: an error is reported, yet the status here is committed.
Report ==
    /\ step = "report"
    /\ Return("succeeded") \/ Return("committed")
    /\ UNCHANGED <<disk, saved, history>>

\* A cancelled job's KeyboardInterrupt, which no clause catches, or the end of the process.
Abandon ==
    /\ step # "idle" /\ Mishap
    /\ IF step \in {"compact", "report"}
       THEN Return("committed") /\ UNCHANGED torn
       ELSE /\ Return("cancelled")
            /\ torn' = (torn \/ (by # "cleanup" /\ step # "backup"))
    /\ UNCHANGED <<disk, saved, before, fault>>

Environment == RunLte \/ RunHydro \/ EditLte \/ EditRoot \/ Solve
Forward ==
    \/ \E who \in {"web", "runner"} : BeginPromotion(who)
    \/ BackUp \/ BackUpFails \/ SyncLte \/ KeepTime \/ Install \/ Invalidate
    \/ Invalidated \/ MarkStale \/ StepFails \/ Compact \/ Report \/ Abandon
Archiving ==
    \/ BeginCleanup \/ Archive \/ Archived \/ ArchiveFails
    \/ PutBack \/ PutBackEnds \/ PutBackFails
Rollback ==
    \/ Unarchived \/ Reinstall \/ Reinstalled \/ Revive \/ RestoreLte \/ RestoreTime

Next == Environment \/ Forward \/ Archiving \/ Rollback
Spec == Init /\ [][Next]_vars

-----------------------------------------------------------------------------
(* Properties                                                               *)

Uncommitted == \/ step \notin {"idle", "compact", "report"}
               \/ step = "idle" /\ status \in {"failed", "cancelled"}

(* Until a promotion or clean-up has committed, and after one that never did, whatever
   a file of the model root or a temporary contained is in its place or in the archive:
   also when the process dies between two steps, or rollback steps fail. *)
NothingLost ==
    /\ TypeOK
    /\ Uncommitted =>
        /\ \A n \in Installed : before.root[n] \in {disk.root[n], saved.backup[n]}
        /\ \A f \in MainFiles : before.main[f] \in {disk.main[f], saved.backup[f]}
        /\ \A t \in Temporaries : before.temps[t] \in {disk.temps[t], saved.archive[t]}

SameFiles == /\ disk.root = before.root /\ disk.main = before.main
             /\ disk.temps = before.temps /\ disk.lte = before.lte

(* The outcome that is reported is true.  A failure, wherever it strikes once lte/VADAT is
   saved, is rolled back to the files the promotion found, whose results are as fresh as
   they were: it can be repeated at once.  A success means all of it: structure, radii in
   both VADAT files, no solution of the old grid, temporaries gone, marker set, and a page
   that says promoted. *)
OutcomeTrue ==
    /\ status = "failed" /\ ~fault /\ saved.backup["lte/VADAT"] # Partial => SameFiles
    /\ status = "succeeded" /\ by \in {"web", "runner"} =>
        /\ Promoted /\ disk.lte.vadat = disk.lte.hydro
        /\ \A f \in MainFiles : disk.main[f] = Absent
        /\ \A t \in Temporaries : disk.temps[t] = Absent
        /\ StaleSolution(disk)

(* Unless a promotion was left half done, the solution in the root was computed on the
   root's grid and VADAT has its radii, whatever failed, was retried or was run since. *)
SolutionOnGrid ==
    Free /\ ~torn =>
        /\ \A f \in MainFiles : disk.main[f] \in {Absent, disk.root["RVSIG_COL"]}
        /\ disk.root["RVSIG_COL"] \in {Absent, disk.root["VADAT"]}

=============================================================================
