---------------------------- MODULE SummaryTasks ----------------------------
(***************************************************************************)
(* Background work on the model summaries: bulk summary jobs and cache     *)
(* maintenance jobs (summary_jobs.py, cache_jobs.py) in the shared job     *)
(* store, the SQLite summary cache (summary_cache.py) and the requests     *)
(* that read and write it, while models change on disk.                    *)
(*                                                                         *)
(* A summary is named by the versions of the two files it was computed     *)
(* from, VADAT and MOD_SUM; a cache entry holds such a summary and the     *)
(* modification times it was stored under.  Every write gets a             *)
(* modification time of its own, and 0 stands for a missing file.  Only    *)
(* the runner puts an old file back together with its time.                *)
(*                                                                         *)
(* Two stat calls on the two files of a folder are one step here.          *)
(***************************************************************************)
EXTENDS JobStore, Filters

CONSTANTS
    Models,
    Worked,      \* models that people edit and visit meanwhile
    Selections,  \* what a user may select for one bulk job
    MaxWrites    \* bound on the writes to model files

ASSUME TaskAssumption ==
    /\ MaxWrites \in Nat /\ Jobs \subseteq Nat
    /\ IsFiniteSet(Models) /\ Worked \subseteq Models
    /\ \A s \in Selections : s \in Seq(Models) /\ IsInjective(s)  \* _collect_rel_paths

VARIABLES
    files,   \* modification times of each model's files
    past,    \* pairs of versions that existed at the same time, for each model
    writes,  \* number of writes so far
    cache,   \* the table model_summary_cache of the current base path
    memo,    \* results of read_model that the process remembers by times
    thread,  \* the worker thread of each job
    visit    \* a request that caches the summary of the folder it shows

disk == <<files, past, writes>>
vars == <<store, disk, cache, memo, thread, visit>>

Pairs == [vadat: Nat, mod_sum: Nat]
Blank == [vadat |-> 0, mod_sum |-> 0]
NoThread == [at |-> "none", i |-> 0, stamp |-> Blank, key |-> Blank, content |-> Blank, todo |-> <<>>]
NoVisit == [at |-> "idle", model |-> Nobody, key |-> Blank, content |-> Blank]

Statuses == {"running", "completed", "canceled", "failed"}
Points == {"none", "created", "next", "stat", "lookup", "vadat", "mod_sum", "after",
           "write", "append", "remove", "pick", "read", "upsert", "last",
           "dbfailed", "gone"}

TypeOK ==
    /\ Stored \subseteq Jobs /\ Range(ended) = Stored \ Live
    /\ \A j \in Stored : jobs[j].status \in Statuses /\ jobs[j].cancel \in BOOLEAN
    /\ files \in [Models -> Pairs] /\ past \in [Models -> SUBSET Pairs]
    /\ writes \in 0 .. MaxWrites
    /\ DOMAIN cache \subseteq Models
    /\ \A m \in DOMAIN cache : cache[m] \in [stamp: Pairs, content: Pairs]
    /\ memo \subseteq [model: Models, key: Pairs, content: Pairs]
    /\ \A j \in Jobs : thread[j].at \in Points /\ thread[j].content \in Pairs
                       /\ {thread[j].stamp, thread[j].key} \subseteq Pairs /\ thread[j].todo \in Seq(Models)
    /\ visit.at \in {"idle", "read", "upsert"}

Init ==
    /\ StoreInit
    /\ files = [m \in Models |-> [vadat |-> 1, mod_sum |-> 1]]
    /\ past = [m \in Models |-> {files[m]}]
    /\ writes = 0
    /\ cache = << >>
    /\ memo = {}
    /\ thread = [j \in Jobs |-> NoThread]
    /\ visit = NoVisit

-----------------------------------------------------------------------------
(* Models change on disk: the editor, the solver and a cleanup write them. *)

Replace(m, pair) ==
    /\ writes < MaxWrites
    /\ writes' = writes + 1
    /\ files' = [files EXCEPT ![m] = pair]
    /\ past' = [past EXCEPT ![m] = @ \cup {pair}]
    /\ UNCHANGED <<store, cache, memo, thread, visit>>

Write(m) == \E f \in {"vadat", "mod_sum"} : Replace(m, [files[m] EXCEPT ![f] = writes + 2])
Withdraw(m) == files[m].mod_sum # 0 /\ Replace(m, [files[m] EXCEPT !.mod_sum = 0])

\* TemporaryControl.restore: the control file as it was before a run, time included.
PutBack(m) ==
    /\ files[m].vadat # 1
    /\ files' = [files EXCEPT ![m].vadat = 1]
    /\ past' = [past EXCEPT ![m] = @ \cup {files'[m]}]
    /\ UNCHANGED <<store, writes, cache, memo, thread, visit>>

Complete(m) == files[m].mod_sum # 0

-----------------------------------------------------------------------------
(* The cache.                                                              *)

NoEntries == << >>
Entry(stamp, content) == [stamp |-> stamp, content |-> content]
Upsert(m, stamp, content) ==
    cache' = [n \in DOMAIN cache \cup {m} |-> IF n = m THEN Entry(stamp, content) ELSE cache[n]]
Delete(S) == cache' = [m \in DOMAIN cache \ S |-> cache[m]]

\* _inspect_model_summary_entry compares times, never contents.
Valid(m) == m \in DOMAIN cache /\ cache[m].stamp = files[m]
Missing(m) == m \in DOMAIN cache /\ ~Complete(m)
Stale(m) == m \in DOMAIN cache /\ Complete(m) /\ ~Valid(m)

\* Deleting a namespace holds the store's lock and refuses while a job runs;
\* editing, cleaning up or renaming a model deletes its entry at any time.
DeleteNamespace ==
    /\ ~SlotTaken("maintenance")
    /\ cache # NoEntries /\ cache' = NoEntries
    /\ UNCHANGED <<store, disk, memo, thread, visit>>
Invalidate(m) ==
    /\ m \in DOMAIN cache /\ Delete({m})
    /\ UNCHANGED <<store, disk, memo, thread, visit>>

-----------------------------------------------------------------------------
(* read_model: it takes the times of both files, and only if it does not   *)
(* remember a result under them (lru_cache) reads VADAT and then MOD_SUM.  *)
(* A remembered result equal to its key is what reading at once returns;   *)
(* memo keeps the others.                                                  *)

Remembers(m, key, content) == [model |-> m, key |-> key, content |-> content] \in memo
Remember(m, key, content) ==
    memo' = IF content = key \/ \E c \in memo : c.model = m /\ c.key = key
            THEN memo ELSE memo \cup {[model |-> m, key |-> key, content |-> content]}
Recall(m, key, content) == Remembers(m, key, content) /\ UNCHANGED memo

-----------------------------------------------------------------------------
(* Creating, watching and cancelling jobs (model_views, system_views).     *)

Payload(kind, selected) ==
    [kind |-> kind, status |-> "running", cancel |-> FALSE, seen |-> 0, processed |-> 0,
     selected |-> selected, done |-> {}, failures |-> {}]

\* Job ids are random tokens; here a new job takes the first number that is free.
Free(j) == j \notin Stored /\ thread[j].at \in {"none", "gone"}
Create(j, payload) ==
    /\ Free(j) /\ \A i \in Jobs : Free(i) => j <= i
    /\ \E k \in 0 .. Len(ended) : Insert(j, payload, k)
    /\ thread' = [thread EXCEPT ![j] = [NoThread EXCEPT !.at = "created"]]
    /\ UNCHANGED <<disk, cache, memo, visit>>

StartSummary(j) == \E s \in Selections : Create(j, Payload("bulk-summary", s))
StartMaintenance(j) == Create(j, Payload("cache-maintenance", <<>>))

\* summary_job_retry_paths: data failures, then entries that were never reached.
Pending(job) == SubSeq(job.selected, job.processed + 1, Len(job.selected))
RetryPaths(job) == Only(job.selected, job.failures) \o Only(Pending(job), Models \ job.failures)
Retry(old, j) ==
    /\ old \in Stored \ Live /\ jobs[old].kind = "bulk-summary"
    /\ RetryPaths(jobs[old]) # <<>>
    /\ Create(j, Payload("bulk-summary", RetryPaths(jobs[old])))

KeepsSlot(j) == UNCHANGED store
FreesSlot(j) == Finish(j, "failed")
ThreadFails(j) ==
    /\ thread[j].at = "created"
    /\ FreesSlot(j)
    /\ thread' = [thread EXCEPT ![j] = NoThread]
    /\ UNCHANGED <<disk, cache, memo, visit>>

Watch == (\E k \in 1 .. Len(ended) : Prune(k)) /\ UNCHANGED <<disk, cache, memo, thread, visit>>
Cancel(j) == RequestCancel(j) /\ jobs[j].cancel = FALSE
             /\ UNCHANGED <<disk, cache, memo, thread, visit>>

-----------------------------------------------------------------------------
(* run_summary_job: one worker thread, one folder after the other.         *)

At(j, point) == thread[j].at = point
Go(j, point) == thread' = [thread EXCEPT ![j].at = point]
Path(j) == jobs[j].selected[thread[j].i]
NextPath(j) == thread' = [thread EXCEPT ![j] = [NoThread EXCEPT !.at = "next", !.i = thread[j].i + 1]]
End(j, outcome) == Finish(j, outcome) /\ thread' = [thread EXCEPT ![j] = [NoThread EXCEPT !.at = "gone"]]

\* A cancellation is seen before the cache is opened and before each folder.
NeverCancelled(j) == FALSE
MustCancel(j) == CancelRequested(j)
Begin(j) ==
    /\ At(j, "created") /\ jobs[j].kind = "bulk-summary"
    /\ \/ MustCancel(j) /\ End(j, "canceled")
       \/ ~MustCancel(j) /\ UNCHANGED store
          /\ thread' = [thread EXCEPT ![j].at = "next", ![j].i = 1]
       \/ ~MustCancel(j) /\ End(j, "failed")   \* the folder or the cache cannot be opened
    /\ UNCHANGED <<disk, cache, memo, visit>>

NextFolder(j) ==
    /\ At(j, "next")
    /\ \/ thread[j].i > Len(jobs[j].selected) /\ Go(j, "last") /\ UNCHANGED store
       \/ /\ thread[j].i <= Len(jobs[j].selected)
          /\ IF MustCancel(j) THEN End(j, "canceled") ELSE Go(j, "stat") /\ UNCHANGED store
    /\ UNCHANGED <<disk, cache, memo, visit>>

\* One field holds the folders reported with a row and those reported as skipped.
Report(j) == Update(j, [done |-> jobs[j].done \cup {Path(j)}, processed |-> thread[j].i])

\* The times of both files; a folder without them is skipped.
StatFolder(j) ==
    /\ At(j, "stat")
    /\ IF Complete(Path(j))
       THEN /\ thread' = [thread EXCEPT ![j].at = "lookup", ![j].stamp = files[Path(j)]]
            /\ UNCHANGED store
       ELSE Report(j) /\ NextPath(j)
    /\ UNCHANGED <<disk, cache, memo, visit>>

\* An entry stored under the same times is reused, unless a refresh is forced or
\* its payload cannot be decoded.
Reusable(j) == Path(j) \in DOMAIN cache /\ cache[Path(j)].stamp = thread[j].stamp
Lookup(j) ==
    /\ At(j, "lookup")
    /\ \/ Reusable(j) /\ Report(j) /\ NextPath(j)
       \/ /\ thread' = [thread EXCEPT ![j].at = "vadat", ![j].key = files[Path(j)]]
          /\ UNCHANGED store
    /\ UNCHANGED <<disk, cache, memo, visit>>

Have(j, content) == thread' = [thread EXCEPT ![j].at = "after", ![j].content = content, ![j].key = Blank]
ReadVadat(j) ==
    /\ At(j, "vadat")
    /\ \/ /\ thread' = [thread EXCEPT ![j].at = "mod_sum", ![j].content.vadat = files[Path(j)].vadat]
          /\ UNCHANGED memo
       \/ \E c \in memo : Recall(Path(j), thread[j].key, c.content) /\ Have(j, c.content)
    /\ UNCHANGED <<store, disk, cache, visit>>
ReadModSum(j) ==
    /\ At(j, "mod_sum")
    /\ LET content == [thread[j].content EXCEPT !.mod_sum = files[Path(j)].mod_sum] IN
       Have(j, content) /\ Remember(Path(j), thread[j].key, content)
    /\ UNCHANGED <<store, disk, cache, visit>>

\* A failed folder is counted as processed; a retry takes it from the failures.
FolderFails(j) == Update(j, [failures |-> jobs[j].failures \cup {Path(j)}, processed |-> thread[j].i])

AlwaysStable(j) == TRUE
Stable(j) == files[Path(j)] = thread[j].stamp
StatAgain(j) ==
    /\ At(j, "after")
    /\ IF Stable(j) THEN Go(j, "write") /\ UNCHANGED store ELSE FolderFails(j) /\ NextPath(j)
    /\ UNCHANGED <<disk, cache, memo, visit>>

Commit(j) ==
    /\ At(j, "write")
    /\ Upsert(Path(j), thread[j].stamp, thread[j].content)
    /\ Go(j, "append")
    /\ UNCHANGED <<store, disk, memo, visit>>
AppendRow(j) ==
    /\ At(j, "append")
    /\ Report(j) /\ NextPath(j)
    /\ UNCHANGED <<disk, cache, memo, visit>>

\* Bad data in one folder does not stop the job, a failing database does.
BadData(j) ==
    /\ At(j, "after")
    /\ FolderFails(j) /\ NextPath(j)
    /\ UNCHANGED <<disk, cache, memo, visit>>
DatabaseFails(j) ==
    /\ At(j, "lookup") \/ At(j, "write")
    /\ FolderFails(j) /\ Go(j, "dbfailed")
    /\ UNCHANGED <<disk, cache, memo, visit>>
Stop(j) == At(j, "dbfailed") /\ End(j, "failed") /\ UNCHANGED <<disk, cache, memo, visit>>

EndOfJob(j) ==
    /\ At(j, "last")
    /\ End(j, IF jobs[j].kind = "bulk-summary" /\ MustCancel(j) THEN "canceled" ELSE "completed")
    /\ UNCHANGED <<disk, cache, memo, visit>>

-----------------------------------------------------------------------------
(* run_cache_maintenance_job: it inspects everything, then does nothing    *)
(* more (check), refreshes stale entries or removes missing ones, as asked *)
(* when the job was created.  A last inspection only counts.               *)

Inspect(j) ==
    /\ At(j, "created") /\ jobs[j].kind = "cache-maintenance"
    /\ \/ Go(j, "last") /\ UNCHANGED store
       \/ /\ \E s \in SetToSeqs({m \in Models : Stale(m)}) :
                 thread' = [thread EXCEPT ![j].at = "pick", ![j].todo = s]
          /\ UNCHANGED store
       \/ /\ \E s \in SetToSeqs({m \in Models : Missing(m)}) :
                 thread' = [thread EXCEPT ![j].at = "remove", ![j].todo = s]
          /\ UNCHANGED store
       \/ End(j, "failed")
    /\ UNCHANGED <<disk, cache, memo, visit>>

RemoveMissing(j) ==
    /\ At(j, "remove")
    /\ Delete(Range(thread[j].todo))
    /\ thread' = [thread EXCEPT ![j].at = "last", ![j].todo = <<>>]
    /\ UNCHANGED <<store, disk, memo, visit>>

\* _refresh_stale_entries reads the model first and takes the times afterwards.
Refreshed(j) == Head(thread[j].todo)
PickStale(j) ==
    /\ At(j, "pick")
    /\ IF thread[j].todo = <<>> THEN Go(j, "last")
       ELSE thread' = [thread EXCEPT ![j].at = "read", ![j].key = files[Refreshed(j)]]
    /\ UNCHANGED <<store, disk, cache, memo, visit>>

Refresh(j) ==
    /\ At(j, "read")
    /\ \E content \in {files[Refreshed(j)]} \cup {c.content : c \in memo} :
         /\ IF content = files[Refreshed(j)] THEN Remember(Refreshed(j), thread[j].key, content)
            ELSE Recall(Refreshed(j), thread[j].key, content)
         /\ thread' = [thread EXCEPT ![j].at = "upsert", ![j].content = content, ![j].key = Blank]
    /\ UNCHANGED <<store, disk, cache, visit>>
RefreshUpsert(j) ==
    /\ At(j, "upsert")
    /\ \/ /\ Complete(Refreshed(j))
          /\ Upsert(Refreshed(j), files[Refreshed(j)], thread[j].content)
       \/ UNCHANGED cache   \* a missing file or a database error: counted and skipped
    /\ thread' = [thread EXCEPT ![j] = [NoThread EXCEPT !.at = "pick", !.todo = Tail(thread[j].todo)]]
    /\ UNCHANGED <<store, disk, memo, visit>>

-----------------------------------------------------------------------------
(* _cache_model_summary_on_visit: the same order, in any request.          *)

Visit(m) ==
    /\ visit.at = "idle" /\ Complete(m) /\ ~Valid(m)
    /\ visit' = [visit EXCEPT !.at = "read", !.model = m, !.key = files[m]]
    /\ UNCHANGED <<store, disk, cache, memo, thread>>
VisitReads ==
    /\ visit.at = "read"
    /\ \E content \in {files[visit.model]} \cup {c.content : c \in memo} :
         /\ IF content = files[visit.model] THEN Remember(visit.model, visit.key, content)
            ELSE Recall(visit.model, visit.key, content)
         /\ visit' = [visit EXCEPT !.at = "upsert", !.content = content, !.key = Blank]
    /\ UNCHANGED <<store, disk, cache, thread>>
VisitUpserts ==
    /\ visit.at = "upsert"
    /\ \/ Complete(visit.model) /\ Upsert(visit.model, files[visit.model], visit.content)
       \/ ~Complete(visit.model) /\ UNCHANGED cache
    /\ visit' = NoVisit
    /\ UNCHANGED <<store, disk, memo, thread>>

\* The web process restarts: the store and its threads are gone, SQLite is not.
Restart ==
    /\ Lose /\ memo' = {}
    /\ thread' = [j \in Jobs |-> NoThread] /\ visit' = NoVisit
    /\ UNCHANGED <<disk, cache>>

-----------------------------------------------------------------------------
BulkStep(j) == \/ Begin(j) \/ NextFolder(j) \/ StatFolder(j) \/ Lookup(j) \/ ReadVadat(j)
               \/ ReadModSum(j) \/ StatAgain(j) \/ Commit(j) \/ AppendRow(j)
               \/ BadData(j) \/ DatabaseFails(j) \/ Stop(j) \/ EndOfJob(j)
MaintenanceStep(j) == \/ Inspect(j) \/ RemoveMissing(j) \/ PickStale(j)
                      \/ Refresh(j) \/ RefreshUpsert(j)
Work(j) == ThreadFails(j) \/ BulkStep(j) \/ MaintenanceStep(j)
VisitStep == (\E m \in Worked : Visit(m)) \/ VisitReads \/ VisitUpserts

Next ==
    \/ \E j \in Jobs : StartSummary(j) \/ StartMaintenance(j) \/ Cancel(j) \/ Work(j)
    \/ \E old, j \in Jobs : Retry(old, j)
    \/ \E m \in Worked : Write(m) \/ Withdraw(m) \/ PutBack(m) \/ Invalidate(m)
    \/ Watch \/ DeleteNamespace \/ VisitStep \/ Restart

\* Worker threads run and nothing in them waits for anyone.
Spec == Init /\ [][Next]_vars
FairSpec == Spec /\ \A j \in Jobs : WF_vars(Work(j))

-----------------------------------------------------------------------------
\* A finished bulk job accounts for every folder: its results and what a retry
\* would process together are the selection, and nothing is in both.
RetryCompletes == TypeOK /\ \A j \in Stored \ Live :
    LET job == jobs[j] IN
    /\ job.done \cup Range(RetryPaths(job)) = Range(job.selected)
    /\ job.done \cap Range(RetryPaths(job)) = {}

\* A summary that a bulk job computes, stores and reports never mixes two states of
\* the model: both files were once on disk together in the versions it was made from.
BulkReadsConsistent == \A j \in Jobs :
    At(j, "write") \/ At(j, "append") => thread[j].content \in past[Path(j)]

\* "Cancellation finishes the current folder" (README.md:487) and no other.
CancelStopsSoon == \A j \in Stored : jobs[j].cancel => jobs[j].processed <= jobs[j].seen + 1

\* The store as the web pages see it: one slot, results forgotten oldest first.
Abstract == INSTANCE JobLifecycle WITH
    running <- IF Live = {} THEN Nobody ELSE CHOOSE j \in Live : TRUE, finished <- ended
ImplementsLifecycle == Abstract!Lifecycle

\* Whatever happens to its folders, the database or its thread, a job leaves the
\* slot, so that bulk summaries and maintenance cannot be locked out.
SlotFrees == \A j \in Jobs : j \in Live ~> j \notin Live
=============================================================================
