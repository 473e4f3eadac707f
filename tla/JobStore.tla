------------------------------ MODULE JobStore ------------------------------
(***************************************************************************)
(* The in-memory job store (job_store.py): payloads by job id, each        *)
(* operation one critical section of the store's lock.  Time enters only   *)
(* as the order in which jobs finished; how many of the oldest results     *)
(* have outlived ttl_seconds at a given moment is left open.               *)
(***************************************************************************)
EXTENDS Naturals, SequencesExt

CONSTANTS Jobs, MaxJobs, Nobody

ASSUME StoreAssumption == MaxJobs \in Nat \ {0} /\ Nobody \notin Jobs

VARIABLES
    jobs,   \* payload of each stored job
    ended   \* stored jobs that have finished, by finished_at

store == <<jobs, ended>>

StoreInit == jobs = << >> /\ ended = <<>>

Stored == DOMAIN jobs
Live == {j \in Stored : jobs[j].status = "running"}

\* _prune with k expired results: finished jobs go, oldest first, while they are
\* expired or there are more than max_jobs jobs.
Excess(size) == IF size > MaxJobs THEN size - MaxJobs ELSE 0
Smaller(m, n) == IF m < n THEN m ELSE n
Prunes(k, size) == k \in Smaller(Excess(size), Len(ended)) .. Len(ended)
KeptOldest(k) == SubSeq(ended, 1, Len(ended) - k)
Kept(k) == SubSeq(ended, k + 1, Len(ended))
Without(k) == [j \in Live \cup Range(Kept(k)) |-> jobs[j]]

\* insert: a singleton store returns the job that runs instead of adding one.
SlotTaken(kind) == Live # {}
Add(j, payload, k) ==
    /\ j \notin Stored
    /\ Prunes(k, Cardinality(Stored) + 1)
    /\ jobs' = [i \in {j} \cup DOMAIN Without(k) |-> IF i = j THEN payload ELSE Without(k)[i]]
    /\ ended' = Kept(k)
Insert(j, payload, k) == ~SlotTaken(payload.kind) /\ Add(j, payload, k)

\* snapshot, snapshots and latest prune before they copy.
Prune(k) ==
    /\ k > 0 /\ Prunes(k, Cardinality(Stored))
    /\ jobs' = Without(k)
    /\ ended' = Kept(k)

\* update and append change the fields they name.
WithFields(job, fields) ==
    [f \in DOMAIN job \cup DOMAIN fields |-> IF f \in DOMAIN fields THEN fields[f] ELSE job[f]]
Update(j, fields) ==
    /\ j \in Stored
    /\ jobs' = [jobs EXCEPT ![j] = WithFields(@, fields)]
    /\ UNCHANGED ended
FinishWith(j, fields) ==
    /\ j \in Stored
    /\ jobs' = [jobs EXCEPT ![j] = WithFields(@, fields)]
    /\ ended' = Append(ended, j)
Finish(j, outcome) == FinishWith(j, [status |-> outcome])

RequestCancel(j) ==
    /\ j \in Live
    /\ Update(j, [cancel |-> TRUE, seen |-> jobs[j].processed])
\* The store lives in the web process.
Lose == jobs' = << >> /\ ended' = <<>>

CancelRequested(j) == j \in Stored /\ jobs[j].cancel
=============================================================================
