------------------------- MODULE SummaryTasksProofs -------------------------
(***************************************************************************)
(* Background work on the summaries is right for any folders, selections   *)
(* and jobs.  TaskInv says where a worker stands in its job and what the   *)
(* versions it has read so far can be: a MOD_SUM that is on disk with the  *)
(* time it was first seen with has been there all the while, because only  *)
(* VADAT is ever put back with its old time.                               *)
(***************************************************************************)
EXTENDS SummaryTasks, FiniteSetTheorems

-----------------------------------------------------------------------------
(* What each operation of the job store does to the stored jobs, for any   *)
(* payloads and any number of jobs.  StoreOK is what all preserve.         *)

\* The finished jobs are listed once they have finished, and only they are.
StoreOK ==
    /\ Stored \subseteq Jobs
    /\ ended \in Seq(Jobs)
    /\ Range(ended) = Stored \ Live

\* The jobs of a set are what they were.
Same(S) == \A i \in S : i \in Stored /\ jobs'[i] = jobs[i]

(* What is left of the finished jobs when the oldest k are forgotten. *)
LEMMA KeptEnded ==
    ASSUME StoreOK, NEW k \in 0 .. Len(ended)
    PROVE  /\ Kept(k) \in Seq(Jobs)
           /\ Range(Kept(k)) \subseteq Range(ended)
           /\ Range(Kept(k)) \subseteq Stored /\ Range(Kept(k)) \cap Live = {}
<1>1. /\ Kept(k) \in Seq(Jobs) /\ Len(Kept(k)) = Len(ended) - k
      /\ \A i \in 1 .. Len(Kept(k)) : Kept(k)[i] = ended[i + k]
  BY DEF StoreOK, Kept
<1>2. Range(Kept(k)) \subseteq Range(ended)
  BY <1>1 DEF Range, StoreOK
<1> QED  BY <1>1, <1>2 DEF StoreOK

(* Adding a running job to the store keeps all that run and leaves the others that it
   keeps as they are. *)
LEMMA AddStep ==
    ASSUME StoreOK, NEW j \in Jobs, NEW payload, NEW k \in 0 .. Len(ended),
           Add(j, payload, k), payload.status = "running"
    PROVE  /\ StoreOK' /\ Live' = Live \cup {j}
           /\ j \notin Stored /\ j \in Stored' /\ jobs'[j] = payload
           /\ Stored' \subseteq Stored \cup {j} /\ Same(Stored' \ {j})
           /\ ended' = Kept(k)
<1>1. jobs' = [i \in {j} \cup DOMAIN Without(k) |-> IF i = j THEN payload ELSE Without(k)[i]] /\ ended' = Kept(k) /\ j \notin Stored
  BY DEF Add
<1>2. DOMAIN Without(k) = Live \cup Range(Kept(k))
  BY DEF Without
<1>3. /\ Stored' = {j} \cup Live \cup Range(Kept(k))
      /\ jobs'[j] = payload
      /\ \A i \in Stored' \ {j} : jobs'[i] = Without(k)[i]
  BY <1>1, <1>2 DEF Stored
<1>4. Live \subseteq Stored /\ Range(Kept(k)) \subseteq Stored /\ Range(Kept(k)) \cap Live = {}
  BY KeptEnded DEF Live
<1>5. \A i \in Stored' \ {j} : i \in Stored /\ jobs'[i] = jobs[i]
  BY <1>3, <1>4, <1>1 DEF Without
<1>6. Live' = Live \cup {j}
  BY <1>3, <1>4, <1>5, <1>1 DEF Live, StoreOK
<1>7. Range(ended') = Stored' \ Live'
  BY <1>1, <1>3, <1>4, <1>6
<1>8. StoreOK'
  BY <1>1, <1>3, <1>4, <1>7, KeptEnded DEF StoreOK, Range
<1> QED  BY <1>1, <1>3, <1>4, <1>5, <1>6, <1>8 DEF Same

(* Pruning forgets finished jobs only. *)
LEMMA PruneStep ==
    ASSUME StoreOK, NEW k \in 0 .. Len(ended), Prune(k)
    PROVE  /\ StoreOK' /\ Live' = Live
           /\ Stored' \subseteq Stored /\ Same(Stored')
           /\ ended' = Kept(k)
<1>1. jobs' = Without(k) /\ ended' = Kept(k)
  BY DEF Prune
<1>2. Stored' = Live \cup Range(Kept(k)) /\ \A i \in Stored' : jobs'[i] = jobs[i]
  BY <1>1 DEF Without, Stored
<1>3. Live \subseteq Stored /\ Range(Kept(k)) \subseteq Stored /\ Range(Kept(k)) \cap Live = {}
  BY KeptEnded DEF Live
<1>4. Live' = Live
  BY <1>2, <1>3 DEF Live
<1>5. StoreOK'
  BY <1>1, <1>2, <1>3, <1>4, KeptEnded DEF StoreOK
<1> QED  BY <1>1, <1>2, <1>3, <1>4, <1>5 DEF Same

(* An update that leaves the status alone changes one job and no list. *)
LEMMA UpdateStep ==
    ASSUME StoreOK, NEW j, NEW fields, Update(j, fields), "status" \notin DOMAIN fields,
           "status" \in DOMAIN jobs[j]
    PROVE  /\ StoreOK' /\ Live' = Live /\ Stored' = Stored /\ ended' = ended
           /\ j \in Stored /\ jobs'[j] = WithFields(jobs[j], fields)
           /\ Same(Stored \ {j})
<1>1. j \in Stored /\ jobs' = [jobs EXCEPT ![j] = WithFields(jobs[j], fields)] /\ ended' = ended
  BY DEF Update
<1>2. /\ Stored' = Stored /\ jobs'[j] = WithFields(jobs[j], fields)
      /\ \A i \in Stored \ {j} : jobs'[i] = jobs[i]
  BY <1>1 DEF Stored
<1>3. jobs'[j].status = jobs[j].status
  BY <1>2 DEF WithFields
<1>4. Live' = Live
  BY <1>2, <1>3 DEF Live
<1> QED  BY <1>1, <1>2, <1>4 DEF Same, StoreOK

(* A running job that finishes is listed as the latest. *)
LEMMA FinishStep ==
    ASSUME StoreOK, NEW j \in Live, NEW fields, FinishWith(j, fields),
           "status" \in DOMAIN fields, fields.status # "running"
    PROVE  /\ StoreOK' /\ Live' = Live \ {j} /\ Stored' = Stored
           /\ ended' = Append(ended, j)
           /\ jobs'[j] = WithFields(jobs[j], fields)
           /\ Same(Stored \ {j})
<1>1. j \in Stored /\ jobs' = [jobs EXCEPT ![j] = WithFields(jobs[j], fields)] /\ ended' = Append(ended, j)
  BY DEF FinishWith
<1>2. /\ Stored' = Stored /\ jobs'[j] = WithFields(jobs[j], fields)
      /\ \A i \in Stored \ {j} : jobs'[i] = jobs[i]
  BY <1>1 DEF Stored
<1>3. jobs'[j].status # "running"
  BY <1>2 DEF WithFields
<1>4. Live' = Live \ {j}
  BY <1>2, <1>3 DEF Live
<1>5. ended \in Seq(Jobs) /\ j \in Jobs
  BY <1>1 DEF StoreOK
<1>6. Range(ended') = Range(ended) \cup {j}
  <2>1. /\ Len(Append(ended, j)) = Len(ended) + 1 /\ Append(ended, j)[Len(ended) + 1] = j
        /\ \A i \in 1 .. Len(ended) : Append(ended, j)[i] = ended[i]
    BY <1>5
  <2>2. DOMAIN ended = 1 .. Len(ended) /\ DOMAIN Append(ended, j) = 1 .. Len(ended) + 1
    BY <1>5
  <2>3. Len(ended) \in Nat
    BY <1>5
  <2> QED  BY <1>1, <2>1, <2>2, <2>3 DEF Range
<1>7. StoreOK'
  BY <1>1, <1>2, <1>4, <1>5, <1>6 DEF StoreOK, Live
<1> QED  BY <1>1, <1>2, <1>4, <1>7 DEF Same

-----------------------------------------------------------------------------
(* The invariant.                                                          *)

Kinds == {"bulk-summary", "cache-maintenance"}
Payloads == [kind: Kinds, status: Statuses, cancel: BOOLEAN, seen: Nat, processed: Nat,
             selected: Seq(Models), done: SUBSET Models, failures: SUBSET Models]
Threads == [at: Points, i: Nat, stamp: Pairs, key: Pairs, content: Pairs, todo: Seq(Models)]
Reading == {"stat", "lookup", "vadat", "mod_sum", "after", "write", "append"}
Bulk == {"next", "dbfailed"} \cup Reading
Works(j) == thread[j].at \notin {"none", "gone"}

JobsOK == StoreOK /\ \A j \in Stored : jobs[j] \in Payloads
ThreadsOK == thread \in [Jobs -> Threads]
DiskOK ==
    /\ files \in [Models -> Pairs] /\ past \in [Models -> SUBSET Pairs]
    /\ writes \in 0 .. MaxWrites
CacheOK ==
    /\ DOMAIN cache \subseteq Models
    /\ \A m \in DOMAIN cache : cache[m] \in [stamp: Pairs, content: Pairs]
MemoOK == memo \subseteq [model: Models, key: Pairs, content: Pairs]
VisitOK == visit = NoVisit \/ visit \in [at: {"read", "upsert"}, model: Models, key: Pairs, content: Pairs]

\* One job runs at a time, and a working thread belongs to the job that runs.
SlotKept ==
    /\ \A a, b \in Live : a = b
    /\ \A j \in Jobs : Works(j) => j \in Live
    /\ \A j \in Jobs : thread[j].at \in Bulk => jobs[j].kind = "bulk-summary"

\* How far a bulk job has counted, at each point of its thread, and what a cancellation
\* that it has not seen yet can have seen.
Counted ==
    /\ CancelStopsSoon
    /\ \A j \in Jobs :
        /\ thread[j].at = "created" => jobs[j].processed = 0
        /\ thread[j].at = "next" => thread[j].i >= 1 /\ jobs[j].processed = thread[j].i - 1
        /\ thread[j].at \in Reading =>
            /\ thread[j].i \in 1 .. Len(jobs[j].selected)
            /\ jobs[j].processed = thread[j].i - 1
            /\ jobs[j].cancel => jobs[j].seen >= jobs[j].processed

\* A model's present pair of versions, and the numbers of versions ever seen.
Known(pair) == pair.mod_sum <= writes + 1
DiskKnown == \A m \in Models : files[m] \in past[m] /\ Known(files[m])

\* If the MOD_SUM of a key is still on disk, what was read under the key is a pair that was
\* on disk.
Present(m, pair) == pair.mod_sum # 0 /\ pair.mod_sum = files[m].mod_sum
MemoTrue == \A c \in memo : Known(c.key) /\ (Present(c.model, c.key) => c.content \in past[c.model])
Halfway(j) == [thread[j].content EXCEPT !.mod_sum = files[Path(j)].mod_sum]
ReadsTrue ==
    /\ \A j \in Jobs :
        LET t == thread[j] IN
        /\ t.at \in Reading \ {"stat"} => Known(t.stamp) /\ t.stamp.mod_sum # 0
        /\ t.at \in {"vadat", "mod_sum"} =>
            Known(t.key) /\ (Present(Path(j), t.stamp) => Present(Path(j), t.key))
        /\ t.at = "mod_sum" /\ Present(Path(j), t.key) => Halfway(j) \in past[Path(j)]
        /\ t.at = "after" /\ Present(Path(j), t.stamp) => t.content \in past[Path(j)]
        /\ t.at \in {"write", "append"} => t.content \in past[Path(j)]
        /\ t.at \in {"read", "upsert"} => t.todo # <<>>
        /\ t.at = "read" => Known(t.key)
    /\ visit.at = "read" => Known(visit.key)

\* A bulk job has reported or failed exactly the folders it has processed.
Accounts == \A j \in Stored :
    LET job == jobs[j] IN
    /\ IsInjective(job.selected) /\ job.processed <= Len(job.selected)
    /\ job.done \cup job.failures = {job.selected[k] : k \in 1 .. job.processed}
    /\ job.done \cap job.failures = {}

(* What every step of jobs, requests and models preserves. *)
TypesOK == JobsOK /\ ThreadsOK /\ DiskOK /\ CacheOK /\ MemoOK /\ VisitOK
TaskInv == TypesOK /\ SlotKept /\ Counted /\ DiskKnown /\ MemoTrue /\ ReadsTrue /\ Accounts

-----------------------------------------------------------------------------
(* What the operations of a job do to the store.                           *)

\* Nothing but the named fields of the job j changes.
Advances(j) ==
    /\ JobsOK' /\ Live' = Live /\ ended' = ended /\ Stored' = Stored /\ Same(Stored \ {j})
    /\ jobs'[j].kind = jobs[j].kind /\ jobs'[j].selected = jobs[j].selected
    /\ jobs'[j].cancel = jobs[j].cancel /\ jobs'[j].seen = jobs[j].seen
    /\ jobs'[j].processed = thread[j].i
    /\ \/ jobs'[j].done = jobs[j].done \cup {Path(j)} /\ jobs'[j].failures = jobs[j].failures
       \/ jobs'[j].done = jobs[j].done /\ jobs'[j].failures = jobs[j].failures \cup {Path(j)}
Cancels(j) ==
    /\ JobsOK' /\ Live' = Live /\ ended' = ended /\ Stored' = Stored /\ Same(Stored \ {j}) /\ j \in Live
    /\ jobs'[j].kind = jobs[j].kind /\ jobs'[j].selected = jobs[j].selected
    /\ jobs'[j].processed = jobs[j].processed /\ jobs'[j].seen = jobs[j].processed
    /\ jobs'[j].done = jobs[j].done /\ jobs'[j].failures = jobs[j].failures
Ends(j) ==
    /\ JobsOK' /\ Live' = {} /\ ended' = Append(ended, j) /\ Stored' = Stored /\ Same(Stored \ {j})
    /\ jobs'[j].cancel = jobs[j].cancel /\ jobs'[j].seen = jobs[j].seen
    /\ jobs'[j].processed = jobs[j].processed /\ jobs'[j].selected = jobs[j].selected
    /\ jobs'[j].done = jobs[j].done /\ jobs'[j].failures = jobs[j].failures
Creates(j, kind, selected) ==
    /\ JobsOK' /\ Live = {} /\ Live' = {j} /\ j \in Stored'
    /\ Stored' \subseteq Stored \cup {j} /\ Same(Stored' \ {j})
    /\ \E k \in 0 .. Len(ended) : ended' = Kept(k)
    /\ jobs'[j] = Payload(kind, selected)
    /\ thread' = [thread EXCEPT ![j] = [NoThread EXCEPT !.at = "created"]]
    /\ UNCHANGED <<disk, cache, memo, visit>>

(* A folder that is reported, or has failed, is counted and nothing else of the job changes. *)
LEMMA Counting ==
    ASSUME TypesOK, SlotKept, NEW j \in Jobs, thread[j].at \in Reading,
           Counted, Report(j) \/ FolderFails(j)
    PROVE  Advances(j)
<1> USE DEF TypesOK, JobsOK, SlotKept, Works, Payloads
<1>1. j \in Live /\ j \in Stored /\ jobs[j] \in Payloads
  BY DEF Live, Reading
<1>2. thread[j].i \in Nat /\ Path(j) \in Models
  BY <1>1 DEF Counted, Path, ThreadsOK, Threads
<1>3. CASE Report(j)
  <2> DEFINE f == [done |-> jobs[j].done \cup {Path(j)}, processed |-> thread[j].i]
  <2>1. Update(j, f)
    BY <1>3 DEF Report
  <2>2. "status" \notin DOMAIN f /\ "status" \in DOMAIN jobs[j]
    BY <1>1
  <2>3. LET w == WithFields(jobs[j], f) IN
         /\ w \in Payloads /\ w.kind = jobs[j].kind /\ w.cancel = jobs[j].cancel
         /\ w.seen = jobs[j].seen /\ w.processed = thread[j].i /\ w.selected = jobs[j].selected
         /\ w.done = jobs[j].done \cup {Path(j)} /\ w.failures = jobs[j].failures
    BY <1>1, <1>2 DEF WithFields
  <2> HIDE DEF f
  <2>4. /\ StoreOK' /\ Live' = Live /\ ended' = ended /\ Stored' = Stored /\ Same(Stored \ {j})
        /\ jobs'[j] = WithFields(jobs[j], f)
    BY <2>1, <2>2, UpdateStep
  <2>5. jobs'[j] \in Payloads
    BY <2>3, <2>4
  <2> QED  BY <1>1, <2>3, <2>4, <2>5 DEF Advances, Same
<1>4. CASE FolderFails(j)
  <2> DEFINE f == [failures |-> jobs[j].failures \cup {Path(j)}, processed |-> thread[j].i]
  <2>1. Update(j, f)
    BY <1>4 DEF FolderFails
  <2>2. "status" \notin DOMAIN f /\ "status" \in DOMAIN jobs[j]
    BY <1>1
  <2>3. LET w == WithFields(jobs[j], f) IN
         /\ w \in Payloads /\ w.kind = jobs[j].kind /\ w.cancel = jobs[j].cancel
         /\ w.seen = jobs[j].seen /\ w.processed = thread[j].i /\ w.selected = jobs[j].selected
         /\ w.done = jobs[j].done /\ w.failures = jobs[j].failures \cup {Path(j)}
    BY <1>1, <1>2 DEF WithFields
  <2> HIDE DEF f
  <2>4. /\ StoreOK' /\ Live' = Live /\ ended' = ended /\ Stored' = Stored /\ Same(Stored \ {j})
        /\ jobs'[j] = WithFields(jobs[j], f)
    BY <2>1, <2>2, UpdateStep
  <2>5. jobs'[j] \in Payloads
    BY <2>3, <2>4
  <2> QED  BY <1>1, <2>3, <2>4, <2>5 DEF Advances, Same
<1> QED  BY <1>3, <1>4

(* A cancellation is recorded with the number of folders processed so far. *)
LEMMA Cancelling ==
    ASSUME TypesOK, SlotKept, NEW j \in Jobs, RequestCancel(j)
    PROVE  Cancels(j)
<1> USE DEF TypesOK, JobsOK, Payloads
<1> DEFINE f == [cancel |-> TRUE, seen |-> jobs[j].processed]
<1>1. j \in Live /\ j \in Stored /\ jobs[j] \in Payloads /\ Update(j, f)
  BY DEF RequestCancel, Live
<1>2. "status" \notin DOMAIN f /\ "status" \in DOMAIN jobs[j]
  BY <1>1
<1>3. LET w == WithFields(jobs[j], f) IN
       /\ w \in Payloads /\ w.kind = jobs[j].kind /\ w.cancel = TRUE
       /\ w.seen = jobs[j].processed /\ w.processed = jobs[j].processed /\ w.selected = jobs[j].selected
       /\ w.done = jobs[j].done /\ w.failures = jobs[j].failures
  BY <1>1 DEF WithFields
<1> HIDE DEF f
<1>4. /\ StoreOK' /\ Live' = Live /\ ended' = ended /\ Stored' = Stored /\ Same(Stored \ {j})
      /\ jobs'[j] = WithFields(jobs[j], f)
  BY <1>1, <1>2, UpdateStep
<1>5. jobs'[j] \in Payloads
  BY <1>1, <1>3, <1>4
<1> QED  BY <1>1, <1>3, <1>4, <1>5 DEF Cancels, Same

(* A job that ends leaves the slot. *)
LEMMA Ending ==
    ASSUME TypesOK, SlotKept, NEW j \in Jobs, Works(j),
           NEW outcome \in Statuses \ {"running"}, Finish(j, outcome)
    PROVE  Ends(j)
<1> USE DEF TypesOK, JobsOK, SlotKept, Payloads
<1> DEFINE f == [status |-> outcome]
<1>1. j \in Live /\ j \in Stored /\ jobs[j] \in Payloads /\ FinishWith(j, f)
  BY DEF Live, Finish
<1>2. "status" \in DOMAIN f /\ f.status # "running"
  OBVIOUS
<1>3. LET w == WithFields(jobs[j], f) IN
       /\ w \in Payloads /\ w.kind = jobs[j].kind /\ w.cancel = jobs[j].cancel
       /\ w.seen = jobs[j].seen /\ w.processed = jobs[j].processed /\ w.selected = jobs[j].selected
       /\ w.done = jobs[j].done /\ w.failures = jobs[j].failures
  BY <1>1 DEF WithFields
<1> HIDE DEF f
<1>4. /\ StoreOK' /\ Live' = Live \ {j} /\ ended' = Append(ended, j) /\ Stored' = Stored /\ Same(Stored \ {j})
      /\ jobs'[j] = WithFields(jobs[j], f)
  BY <1>1, <1>2, FinishStep
<1>5. jobs'[j] \in Payloads
  BY <1>1, <1>3, <1>4
<1> QED  BY <1>1, <1>3, <1>4, <1>5 DEF Ends, Same

(* A new job takes the free slot. *)
LEMMA Creation ==
    ASSUME TypesOK, SlotKept, NEW j \in Jobs, NEW kind \in Kinds, NEW selected \in Seq(Models),
           Create(j, Payload(kind, selected))
    PROVE  Creates(j, kind, selected) /\ ~Works(j)
<1> USE DEF TypesOK, JobsOK
<1> DEFINE p == Payload(kind, selected)
<1>1. p \in Payloads /\ p.status = "running"
  BY DEF Payload, Payloads, Statuses
<1> HIDE DEF p
<1>2. PICK k \in 0 .. Len(ended) : Insert(j, p, k)
  BY DEF Create, p
<1>3. Live = {} /\ Add(j, p, k)
  BY <1>2 DEF Insert, SlotTaken
<1>4. /\ StoreOK' /\ Live' = Live \cup {j} /\ jobs'[j] = p /\ j \in Stored'
      /\ Stored' \subseteq Stored \cup {j} /\ Same(Stored' \ {j})
      /\ ended' = Kept(k)
  BY <1>1, <1>3, AddStep
<1>5. JobsOK'
  BY <1>1, <1>4 DEF Same
<1>6. /\ ~Works(j) /\ UNCHANGED <<disk, cache, memo, visit>>
      /\ thread' = [thread EXCEPT ![j] = [NoThread EXCEPT !.at = "created"]]
  BY DEF Create, Free, Works
<1> QED  BY <1>1, <1>3, <1>4, <1>5, <1>6 DEF Creates, p

-----------------------------------------------------------------------------
(* What a retry processes: what failed and what was never reached, each once. *)
LEMMA RetryListed ==
    ASSUME NEW job \in Payloads, IsInjective(job.selected), job.processed <= Len(job.selected),
           job.failures \subseteq {job.selected[k] : k \in 1 .. job.processed}
    PROVE  /\ RetryPaths(job) \in Seq(Models) /\ IsInjective(RetryPaths(job))
           /\ Range(RetryPaths(job)) =
                job.failures \cup {job.selected[k] : k \in job.processed + 1 .. Len(job.selected)}
<1> DEFINE s == job.selected
           n == job.processed
           p == Pending(job)
           a == Only(s, job.failures)
           b == Only(p, Models \ job.failures)
<1>1. s \in Seq(Models) /\ n \in 0 .. Len(s) /\ Len(s) \in Nat /\ DOMAIN s = 1 .. Len(s)
  BY DEF Payloads
<1>2. /\ p \in Seq(Models) /\ Len(p) = Len(s) - n /\ DOMAIN p = 1 .. Len(s) - n
      /\ \A k \in 1 .. Len(s) - n : p[k] = s[n + k]
  BY <1>1 DEF Pending
<1> HIDE DEF s, n, p
<1>3. IsInjective(s) /\ job.failures \subseteq {s[k] : k \in 1 .. n}
  BY DEF s, n
<1>4. IsInjective(p)
  <2> SUFFICES ASSUME NEW i \in 1 .. Len(s) - n, NEW k \in 1 .. Len(s) - n, p[i] = p[k]
               PROVE  i = k
    BY <1>2 DEF IsInjective
  <2>1. n + i \in DOMAIN s /\ n + k \in DOMAIN s /\ s[n + i] = s[n + k]
    BY <1>1, <1>2
  <2>2. n + i = n + k
    BY <1>3, <2>1 DEF IsInjective
  <2> QED  BY <1>1, <2>2
<1>5. Range(s) = {s[k] : k \in 1 .. Len(s)} /\ job.failures \subseteq Range(s)
  BY <1>1, <1>3 DEF Range
<1>6. Range(p) = {s[k] : k \in n + 1 .. Len(s)}
  <2>1. \A k \in n + 1 .. Len(s) : k - n \in 1 .. Len(s) - n /\ n + (k - n) = k
    BY <1>1
  <2>2. \A k \in 1 .. Len(s) - n : n + k \in n + 1 .. Len(s)
    BY <1>1
  <2> QED  BY <1>2, <2>1, <2>2 DEF Range
<1>7. Range(p) \subseteq Models /\ Range(p) \cap job.failures = {}
  <2>1. Range(p) \subseteq Models
    BY <1>2 DEF Range
  <2>2. \A i \in 1 .. n, k \in n + 1 .. Len(s) : s[i] # s[k]
    BY <1>1, <1>3 DEF IsInjective
  <2> QED  BY <1>3, <1>6, <2>1, <2>2
<1>8. a \in Seq(Models) /\ Range(a) = job.failures /\ IsInjective(a)
  <2>1. a \in Seq(Models) /\ Range(a) = Range(s) \cap job.failures
    BY <1>1, OnlySelects
  <2>2. IsInjective(a)
    BY <1>1, <1>3, OnlyOnce
  <2> HIDE DEF a
  <2> QED  BY <1>5, <2>1, <2>2
<1>9. b \in Seq(Models) /\ Range(b) = Range(p) /\ IsInjective(b)
  <2>1. b \in Seq(Models) /\ Range(b) = Range(p) \cap (Models \ job.failures)
    BY <1>2, OnlySelects
  <2>2. IsInjective(b)
    BY <1>2, <1>4, OnlyOnce
  <2> HIDE DEF b
  <2> QED  BY <1>7, <2>1, <2>2
<1> HIDE DEF a, b
<1>10. RetryPaths(job) = a \o b
  BY DEF RetryPaths, a, b, s, p
<1>11. a \o b \in Seq(Models) /\ Range(a \o b) = Range(a) \cup Range(b) /\ IsInjective(a \o b)
  BY <1>7, <1>8, <1>9, JoinFacts
<1> QED  BY <1>6, <1>8, <1>9, <1>10, <1>11 DEF s, n

(* The steps, with every way to create a job as one. *)
LEMMA NextCases ==
    ASSUME TaskInv, [Next]_vars
    PROVE  \/ \E j \in Jobs, kind \in Kinds, selected \in Seq(Models) :
                  IsInjective(selected) /\ Create(j, Payload(kind, selected))
           \/ \E j \in Jobs : Cancel(j) \/ Work(j)
           \/ \E m \in Worked : Write(m) \/ Withdraw(m) \/ PutBack(m)
           \/ (\E m \in Worked : Invalidate(m)) \/ DeleteNamespace
           \/ Watch \/ VisitStep \/ Restart \/ UNCHANGED vars
<1>1. ASSUME NEW j \in Jobs, StartSummary(j)
      PROVE  \E selected \in Seq(Models) :
                IsInjective(selected) /\ Create(j, Payload("bulk-summary", selected))
  BY <1>1, TaskAssumption DEF StartSummary
<1>2. ASSUME NEW j \in Jobs, StartMaintenance(j)
      PROVE  \E selected \in Seq(Models) :
                IsInjective(selected) /\ Create(j, Payload("cache-maintenance", selected))
  <2>1. <<>> \in Seq(Models) /\ IsInjective(<<>>)
    BY DEF IsInjective
  <2> QED  BY <1>2, <2>1 DEF StartMaintenance
<1>3. ASSUME NEW old \in Jobs, NEW j \in Jobs, Retry(old, j)
      PROVE  \E selected \in Seq(Models) :
                IsInjective(selected) /\ Create(j, Payload("bulk-summary", selected))
  <2>1. old \in Stored /\ jobs[old] \in Payloads
    BY <1>3 DEF Retry, TaskInv, TypesOK, JobsOK
  <2>2. /\ IsInjective(jobs[old].selected) /\ jobs[old].processed <= Len(jobs[old].selected)
        /\ jobs[old].failures \subseteq {jobs[old].selected[k] : k \in 1 .. jobs[old].processed}
    BY <2>1 DEF TaskInv, Accounts
  <2>3. RetryPaths(jobs[old]) \in Seq(Models) /\ IsInjective(RetryPaths(jobs[old]))
    BY <2>1, <2>2, RetryListed
  <2> QED  BY <1>3, <2>3 DEF Retry
<1>4. "bulk-summary" \in Kinds /\ "cache-maintenance" \in Kinds
  BY DEF Kinds
<1> QED  BY <1>1, <1>2, <1>3, <1>4 DEF Next

-----------------------------------------------------------------------------
(* What a step of a worker does.                                           *)

\* No other thread moves.
Alone(j) == ThreadsOK' /\ \A i \in Jobs \ {j} : thread'[i] = thread[i]
Still(j) == thread'[j].i = thread[j].i /\ thread'[j].stamp = thread[j].stamp

\* A step that leaves the store alone: where the thread was, where it is, what it took along.
Moves(j) ==
    LET t == thread[j]
        u == thread'[j]
    IN
    \/ /\ t.at = "created" /\ u.at = "next" /\ u.i = 1
       /\ ~jobs[j].cancel /\ jobs[j].kind = "bulk-summary"
    \/ /\ t.at = "next" /\ u.at = "stat" /\ u.i = t.i
       /\ ~jobs[j].cancel /\ t.i <= Len(jobs[j].selected)
    \/ /\ t.at = "stat" /\ u.at = "lookup" /\ u.i = t.i
       /\ u.stamp = files[Path(j)] /\ Complete(Path(j))
    \/ t.at = "lookup" /\ u.at = "vadat" /\ Still(j) /\ u.key = files[Path(j)]
    \/ /\ t.at = "vadat" /\ u.at = "mod_sum" /\ Still(j) /\ u.key = t.key
       /\ u.content = [t.content EXCEPT !.vadat = files[Path(j)].vadat]
    \/ t.at = "vadat" /\ u.at = "after" /\ Still(j) /\ Remembers(Path(j), t.key, u.content)
    \/ t.at = "mod_sum" /\ u.at = "after" /\ Still(j) /\ u.content = Halfway(j)
    \/ /\ t.at = "after" /\ u.at = "write" /\ Still(j) /\ u.content = t.content
       /\ files[Path(j)] = t.stamp
    \/ t.at = "write" /\ u.at = "append" /\ Still(j) /\ u.content = t.content
    \/ u.at \in {"last", "pick", "remove"}
    \/ t.at = "pick" /\ u.at = "read" /\ u.todo = t.todo /\ t.todo # <<>> /\ u.key = files[Refreshed(j)]
    \/ t.at = "read" /\ u.at = "upsert" /\ u.todo = t.todo
Effect(j) ==
    \/ Ends(j) /\ ~Works(j)'
    \/ /\ Advances(j) /\ thread[j].at \in Reading
       /\ \/ thread'[j].at = "next" /\ thread'[j].i = thread[j].i + 1
          \/ thread'[j].at = "dbfailed"
    \/ UNCHANGED store /\ Moves(j)

(* A thread that is set to a well-formed one. *)
LEMMA ThreadSet ==
    ASSUME ThreadsOK, NEW j \in Jobs, NEW t \in Threads, thread' = [thread EXCEPT ![j] = t]
    PROVE  Alone(j) /\ thread'[j] = t
  BY DEF ThreadsOK, Alone

(* Where a worker is, and what its fields are. *)
LEMMA WorkerFacts ==
    ASSUME TaskInv, NEW j \in Jobs, Works(j)
    PROVE  /\ thread[j] \in Threads /\ thread \in [Jobs -> Threads]
           /\ j \in Live /\ j \in Stored /\ Live = {j} /\ jobs[j] \in Payloads
           /\ \A i \in Jobs \ {j} : ~Works(i)
           /\ Blank \in Pairs /\ NoThread \in Threads
           /\ thread[j].at \in Bulk => jobs[j].kind = "bulk-summary"
<1>1. thread[j] \in Threads /\ thread \in [Jobs -> Threads]
  BY DEF TaskInv, TypesOK, ThreadsOK
<1>2. Live = {j} /\ \A i \in Jobs \ {j} : ~Works(i)
  BY DEF TaskInv, SlotKept
<1>3. j \in Stored /\ jobs[j] \in Payloads
  BY <1>2 DEF TaskInv, TypesOK, JobsOK, Live
<1>4. Blank \in Pairs
  BY DEF Blank, Pairs
<1>5. NoThread \in Threads
  <2>1. <<>> \in Seq(Models)
    OBVIOUS
  <2> QED  BY <1>4, <2>1 DEF NoThread, Threads, Points
<1> QED  BY <1>1, <1>2, <1>3, <1>4, <1>5 DEF TaskInv, SlotKept

(* The folder that a reading worker is at. *)
LEMMA PathFacts ==
    ASSUME TaskInv, NEW j \in Jobs, thread[j].at \in Reading
    PROVE  /\ Path(j) \in Models /\ files[Path(j)] \in Pairs
           /\ thread[j].i \in Nat /\ thread[j].i + 1 \in Nat /\ Works(j)
<1>1. Works(j)
  BY DEF Works, Reading
<1>2. jobs[j] \in Payloads /\ thread[j].i \in 1 .. Len(jobs[j].selected)
  BY <1>1, WorkerFacts DEF TaskInv, Counted
<1>3. jobs[j].selected \in Seq(Models)
  BY <1>2 DEF Payloads
<1>4. Path(j) \in Models
  BY <1>2, <1>3 DEF Path
<1> QED  BY <1>1, <1>2, <1>3, <1>4 DEF TaskInv, TypesOK, DiskOK

(* A folder is done with: the thread goes on to the next, or gives up. *)
LEMMA NextFacts ==
    ASSUME TaskInv, NEW j \in Jobs, thread[j].at \in Reading, Report(j) \/ FolderFails(j),
           NextPath(j) \/ Go(j, "dbfailed")
    PROVE  Effect(j) /\ Alone(j)
<1>1. Advances(j)
  BY Counting DEF TaskInv
<1>2. /\ thread[j] \in Threads /\ thread \in [Jobs -> Threads] /\ NoThread \in Threads
      /\ thread[j].i + 1 \in Nat
  BY WorkerFacts, PathFacts
<1>3. CASE NextPath(j)
  <2> DEFINE t == [NoThread EXCEPT !.at = "next", !.i = thread[j].i + 1]
  <2>1. t \in Threads /\ t.at = "next" /\ t.i = thread[j].i + 1
    BY <1>2 DEF Threads, Points
  <2>2. thread' = [thread EXCEPT ![j] = t]
    BY <1>3 DEF NextPath
  <2> HIDE DEF t
  <2> QED  BY <1>1, <2>1, <2>2, ThreadSet DEF Effect, TaskInv, TypesOK
<1>4. CASE Go(j, "dbfailed")
  <2> DEFINE t == [thread[j] EXCEPT !.at = "dbfailed"]
  <2>1. t \in Threads /\ t.at = "dbfailed"
    BY <1>2 DEF Threads, Points
  <2>2. thread' = [thread EXCEPT ![j] = t]
    BY <1>2, <1>4 DEF Go
  <2> HIDE DEF t
  <2> QED  BY <1>1, <2>1, <2>2, ThreadSet DEF Effect, TaskInv, TypesOK
<1> QED  BY <1>3, <1>4

(* A thread that ends frees the slot. *)
LEMMA EndFacts ==
    ASSUME TaskInv, NEW j \in Jobs, Works(j), NEW outcome \in {"failed", "canceled", "completed"},
           Finish(j, outcome), NEW point \in {"none", "gone"},
           thread' = [thread EXCEPT ![j] = [NoThread EXCEPT !.at = point]]
    PROVE  Effect(j) /\ Alone(j)
<1>1. Ends(j)
  BY Ending DEF TaskInv, Statuses
<1>2. NoThread \in Threads
  BY WorkerFacts
<1> DEFINE t == [NoThread EXCEPT !.at = point]
<1>3. t \in Threads /\ t.at = point
  BY <1>2 DEF Threads, Points
<1> HIDE DEF t
<1>4. thread' = [thread EXCEPT ![j] = t]
  BY DEF t
<1> QED  BY <1>1, <1>3, <1>4, ThreadSet DEF Effect, Works, TaskInv, TypesOK

(* The folders of an inspection are listed in some order. *)
LEMMA Listing ==
    ASSUME NEW S \in SUBSET Models, NEW s \in SetToSeqs(S)
    PROVE  s \in Seq(Models)
<1>1. IsFiniteSet(S)
  BY TaskAssumption, FS_Subset
<1>2. Cardinality(S) \in Nat
  BY <1>1, FS_CardinalityType
<1>3. s \in [1 .. Cardinality(S) -> Models]
  BY DEF SetToSeqs
<1> QED  BY <1>2, <1>3

(* Every step of a worker ends the job, counts a folder, or leaves the store alone and moves
   the thread on. *)
LEMMA WorkCases ==
    ASSUME TaskInv, NEW j \in Jobs, Work(j)
    PROVE  Works(j) /\ Effect(j) /\ Alone(j) /\ UNCHANGED <<disk, visit>>
<1>0. Works(j) /\ UNCHANGED <<disk, visit>>
  BY DEF Work, BulkStep, MaintenanceStep, Works, At, ThreadFails, Begin, NextFolder, StatFolder,
         Lookup, ReadVadat, ReadModSum, StatAgain, Commit, AppendRow, BadData, DatabaseFails,
         Stop, EndOfJob, Inspect, RemoveMissing, PickStale, Refresh, RefreshUpsert
<1>1. /\ Works(j) /\ thread[j] \in Threads /\ thread \in [Jobs -> Threads]
      /\ j \in Live /\ j \in Stored /\ jobs[j] \in Payloads
      /\ Blank \in Pairs /\ NoThread \in Threads
  BY <1>0, WorkerFacts
<1>3. ASSUME ThreadFails(j) PROVE Effect(j) /\ Alone(j)
  <2>1. Finish(j, "failed") /\ thread' = [thread EXCEPT ![j] = NoThread]
    BY <1>3 DEF ThreadFails, FreesSlot
  <2>2. NoThread = [NoThread EXCEPT !.at = "none"]
    BY DEF NoThread
  <2> QED  BY <1>1, <2>1, <2>2, EndFacts
<1>4. ASSUME Begin(j) PROVE Effect(j) /\ Alone(j)
  <2>1. CASE MustCancel(j) /\ End(j, "canceled")
    BY <1>1, <2>1, EndFacts DEF End
  <2>2. CASE End(j, "failed")
    BY <1>1, <2>2, EndFacts DEF End
  <2>3. CASE ~MustCancel(j) /\ UNCHANGED store
             /\ thread' = [thread EXCEPT ![j].at = "next", ![j].i = 1]
    <3> DEFINE t == [thread[j] EXCEPT !.at = "next", !.i = 1]
    <3>1. t \in Threads /\ t.at = "next" /\ t.i = 1
      BY <1>1, <1>4, <2>3 DEF Threads, Points
    <3>2. thread' = [thread EXCEPT ![j] = t] /\ UNCHANGED store
      BY <1>1, <1>4, <2>3 DEF Begin
    <3> HIDE DEF t
    <3>3. Alone(j) /\ thread'[j] = t
      BY <3>1, <3>2, ThreadSet DEF TaskInv, TypesOK
    <3> QED  BY <1>1, <3>1, <3>2, <3>3, <1>4, <2>3 DEF Effect, Moves, Still, Begin, At, MustCancel, CancelRequested
  <2> QED  BY <1>4, <2>1, <2>2, <2>3 DEF Begin
<1>5. ASSUME NextFolder(j) PROVE Effect(j) /\ Alone(j)
  <2>1. CASE End(j, "canceled")
    BY <1>1, <2>1, EndFacts DEF End
  <2>2. CASE Go(j, "last") /\ UNCHANGED store
    <3> DEFINE t == [thread[j] EXCEPT !.at = "last"]
    <3>1. t \in Threads /\ t.at = "last"
      BY <1>1, <1>5, <2>2 DEF Threads, Points
    <3>2. thread' = [thread EXCEPT ![j] = t] /\ UNCHANGED store
      BY <1>1, <1>5, <2>2 DEF Go
    <3> HIDE DEF t
    <3>3. Alone(j) /\ thread'[j] = t
      BY <3>1, <3>2, ThreadSet DEF TaskInv, TypesOK
    <3> QED  BY <1>1, <3>1, <3>2, <3>3, <1>5, <2>2 DEF Effect, Moves, Still
  <2>3. CASE /\ thread[j].i <= Len(jobs[j].selected) /\ ~MustCancel(j)
             /\ Go(j, "stat") /\ UNCHANGED store
    <3> DEFINE t == [thread[j] EXCEPT !.at = "stat"]
    <3>1. t \in Threads /\ t.at = "stat" /\ t.i = thread[j].i
      BY <1>1, <1>5, <2>3 DEF Threads, Points
    <3>2. thread' = [thread EXCEPT ![j] = t] /\ UNCHANGED store
      BY <1>1, <1>5, <2>3 DEF Go
    <3> HIDE DEF t
    <3>3. Alone(j) /\ thread'[j] = t
      BY <3>1, <3>2, ThreadSet DEF TaskInv, TypesOK
    <3> QED  BY <1>1, <3>1, <3>2, <3>3, <1>5, <2>3 DEF Effect, Moves, Still, NextFolder, At, MustCancel, CancelRequested
  <2> QED  BY <1>5, <2>1, <2>2, <2>3 DEF NextFolder
<1>6. ASSUME StatFolder(j) PROVE Effect(j) /\ Alone(j)
  <2>0. thread[j].at \in Reading
    BY <1>6 DEF StatFolder, At, Reading
  <2>1. CASE Report(j) /\ NextPath(j)
    BY <2>0, <2>1, NextFacts
  <2>2. CASE /\ Complete(Path(j)) /\ UNCHANGED store
             /\ thread' = [thread EXCEPT ![j].at = "lookup", ![j].stamp = files[Path(j)]]
    <3> DEFINE t == [thread[j] EXCEPT !.at = "lookup", !.stamp = files[Path(j)]]
    <3>1. t \in Threads /\ t.at = "lookup" /\ t.i = thread[j].i /\ t.stamp = files[Path(j)]
      BY <1>1, PathFacts, <2>2, <2>0 DEF Threads, Points
    <3>2. thread' = [thread EXCEPT ![j] = t] /\ UNCHANGED store
      BY <1>1, <2>2, <2>0 DEF Threads
    <3> HIDE DEF t
    <3>3. Alone(j) /\ thread'[j] = t
      BY <3>1, <3>2, ThreadSet DEF TaskInv, TypesOK
    <3> QED  BY <1>6, <1>1, <3>1, <3>2, <3>3, <2>2, <2>0 DEF Effect, Moves, Still, StatFolder, At
  <2> QED  BY <1>6, <2>1, <2>2 DEF StatFolder
<1>7. ASSUME Lookup(j) PROVE Effect(j) /\ Alone(j)
  <2>0. thread[j].at \in Reading
    BY <1>7 DEF Lookup, At, Reading
  <2>1. CASE Report(j) /\ NextPath(j)
    BY <2>0, <2>1, NextFacts
  <2>2. CASE /\ UNCHANGED store
             /\ thread' = [thread EXCEPT ![j].at = "vadat", ![j].key = files[Path(j)]]
    <3> DEFINE t == [thread[j] EXCEPT !.at = "vadat", !.key = files[Path(j)]]
    <3>1. t \in Threads /\ t.at = "vadat" /\ t.i = thread[j].i /\ t.stamp = thread[j].stamp /\ t.key = files[Path(j)]
      BY <1>1, PathFacts, <2>2, <2>0 DEF Threads, Points
    <3>2. thread' = [thread EXCEPT ![j] = t] /\ UNCHANGED store
      BY <1>1, <2>2, <2>0 DEF Threads
    <3> HIDE DEF t
    <3>3. Alone(j) /\ thread'[j] = t
      BY <3>1, <3>2, ThreadSet DEF TaskInv, TypesOK
    <3> QED  BY <1>7, <1>1, <3>1, <3>2, <3>3, <2>2, <2>0 DEF Effect, Moves, Still, Lookup, At
  <2> QED  BY <1>7, <2>1, <2>2 DEF Lookup
<1>8. ASSUME ReadVadat(j) PROVE Effect(j) /\ Alone(j)
  <2>0. thread[j].at \in Reading
    BY <1>8 DEF ReadVadat, At, Reading
  <2>9. UNCHANGED store /\ thread[j].at = "vadat"
    BY <1>8 DEF ReadVadat, At
  <2>1. CASE thread' = [thread EXCEPT ![j].at = "mod_sum", ![j].content.vadat = files[Path(j)].vadat]
    <3>0. [thread[j].content EXCEPT !.vadat = files[Path(j)].vadat] \in Pairs
      BY <1>1, <2>0, PathFacts DEF Threads, Pairs
    <3> DEFINE t == [thread[j] EXCEPT !.at = "mod_sum",
                                     !.content = [thread[j].content EXCEPT !.vadat = files[Path(j)].vadat]]
    <3>1. t \in Threads /\ t.at = "mod_sum" /\ t.i = thread[j].i /\ t.stamp = thread[j].stamp /\ t.key = thread[j].key
                         /\ t.content = [thread[j].content EXCEPT !.vadat = files[Path(j)].vadat]
      BY <1>1, <3>0, <2>1, <2>9 DEF Threads, Points
    <3>2. thread' = [thread EXCEPT ![j] = t] /\ UNCHANGED store
      BY <1>1, <2>1, <2>9 DEF Threads, Pairs
    <3> HIDE DEF t
    <3>3. Alone(j) /\ thread'[j] = t
      BY <3>1, <3>2, ThreadSet DEF TaskInv, TypesOK
    <3> QED  BY <1>1, <3>1, <3>2, <3>3, <2>1, <2>9 DEF Effect, Moves, Still
  <2>2. CASE \E c \in memo : Recall(Path(j), thread[j].key, c.content) /\ Have(j, c.content)
    <3>1. PICK c \in memo : Recall(Path(j), thread[j].key, c.content) /\ Have(j, c.content)
      BY <2>2
    <3>2. c.content \in Pairs
      BY DEF TaskInv, TypesOK, MemoOK
    <3> DEFINE t == [thread[j] EXCEPT !.at = "after", !.content = c.content, !.key = Blank]
    <3>3. t \in Threads /\ t.at = "after" /\ t.i = thread[j].i /\ t.stamp = thread[j].stamp
                         /\ t.content = c.content
      BY <1>1, <3>2, <2>9, <3>1 DEF Threads, Points
    <3>4. thread' = [thread EXCEPT ![j] = t] /\ UNCHANGED store
      BY <1>1, <2>9, <3>1 DEF Have
    <3> HIDE DEF t
    <3>5. Alone(j) /\ thread'[j] = t
      BY <3>3, <3>4, ThreadSet DEF TaskInv, TypesOK
    <3> QED  BY <1>1, <3>3, <3>4, <3>5, <2>9, <3>1 DEF Effect, Moves, Still, Recall
  <2> QED  BY <1>8, <2>1, <2>2 DEF ReadVadat
<1>9. ASSUME ReadModSum(j) PROVE Effect(j) /\ Alone(j)
  <2>0. thread[j].at \in Reading
    BY <1>9 DEF ReadModSum, At, Reading
  <2> DEFINE c == Halfway(j)
  <2>1. c \in Pairs
    BY <1>1, <2>0, PathFacts DEF Halfway, Threads, Pairs
  <2>2. Have(j, c) /\ UNCHANGED store /\ thread[j].at = "mod_sum"
    BY <1>9 DEF ReadModSum, Halfway, At
  <2> HIDE DEF c
  <2> DEFINE t == [thread[j] EXCEPT !.at = "after", !.content = c, !.key = Blank]
  <2>3. t \in Threads /\ t.at = "after" /\ t.i = thread[j].i /\ t.stamp = thread[j].stamp /\ t.content = c
    BY <1>1, <2>1, <2>2 DEF Threads, Points
  <2>4. thread' = [thread EXCEPT ![j] = t] /\ UNCHANGED store
    BY <1>1, <2>1, <2>2 DEF Have
  <2> HIDE DEF t
  <2>5. Alone(j) /\ thread'[j] = t
    BY <2>3, <2>4, ThreadSet DEF TaskInv, TypesOK
  <2> QED  BY <1>1, <2>3, <2>4, <2>5, <2>1, <2>2 DEF Effect, Moves, Still, c
<1>10. ASSUME StatAgain(j) PROVE Effect(j) /\ Alone(j)
  <2>0. thread[j].at \in Reading
    BY <1>10 DEF StatAgain, At, Reading
  <2>1. CASE FolderFails(j) /\ NextPath(j)
    BY <2>0, <2>1, NextFacts
  <2>2. CASE Stable(j) /\ Go(j, "write") /\ UNCHANGED store
    <3> DEFINE t == [thread[j] EXCEPT !.at = "write"]
    <3>1. t \in Threads /\ t.at = "write" /\ t.i = thread[j].i /\ t.stamp = thread[j].stamp /\ t.content = thread[j].content
      BY <1>1, <2>2 DEF Threads, Points
    <3>2. thread' = [thread EXCEPT ![j] = t] /\ UNCHANGED store
      BY <1>1, <2>2 DEF Go
    <3> HIDE DEF t
    <3>3. Alone(j) /\ thread'[j] = t
      BY <3>1, <3>2, ThreadSet DEF TaskInv, TypesOK
    <3> QED  BY <1>10, <1>1, <3>1, <3>2, <3>3, <2>2 DEF Effect, Moves, Still, StatAgain, At, Stable
  <2> QED  BY <1>10, <2>1, <2>2 DEF StatAgain
<1>11. ASSUME Commit(j) PROVE Effect(j) /\ Alone(j)
  <2> DEFINE t == [thread[j] EXCEPT !.at = "append"]
  <2>1. t \in Threads /\ t.at = "append" /\ t.i = thread[j].i /\ t.stamp = thread[j].stamp /\ t.content = thread[j].content
    BY <1>1, <1>11 DEF Threads, Points
  <2>2. thread' = [thread EXCEPT ![j] = t] /\ UNCHANGED store
    BY <1>1, <1>11 DEF Commit, Go
  <2> HIDE DEF t
  <2>3. Alone(j) /\ thread'[j] = t
    BY <2>1, <2>2, ThreadSet DEF TaskInv, TypesOK
  <2> QED  BY <1>1, <2>1, <2>2, <2>3, <1>11 DEF Effect, Moves, Still, Commit, At
<1>12. ASSUME AppendRow(j) \/ BadData(j) PROVE Effect(j) /\ Alone(j)
  <2>0. thread[j].at \in Reading
    BY <1>12 DEF AppendRow, BadData, At, Reading
  <2> QED  BY <1>12, <2>0, NextFacts DEF AppendRow, BadData
<1>13. ASSUME DatabaseFails(j) PROVE Effect(j) /\ Alone(j)
  <2>0. thread[j].at \in Reading
    BY <1>13 DEF DatabaseFails, At, Reading
  <2> QED  BY <1>13, <2>0, NextFacts DEF DatabaseFails
<1>14. ASSUME Stop(j) \/ EndOfJob(j) PROVE Effect(j) /\ Alone(j)
  <2>1. \E outcome \in {"failed", "canceled", "completed"} : End(j, outcome)
    BY <1>14 DEF Stop, EndOfJob
  <2> QED  BY <1>1, <2>1, EndFacts DEF End
<1>15. ASSUME Inspect(j) PROVE Effect(j) /\ Alone(j)
  <2>1. CASE End(j, "failed")
    BY <1>1, <2>1, EndFacts DEF End
  <2>2. CASE Go(j, "last") /\ UNCHANGED store
    <3> DEFINE t == [thread[j] EXCEPT !.at = "last"]
    <3>1. t \in Threads /\ t.at = "last"
      BY <1>1, <2>2 DEF Threads, Points
    <3>2. thread' = [thread EXCEPT ![j] = t] /\ UNCHANGED store
      BY <1>1, <2>2 DEF Go
    <3> HIDE DEF t
    <3>3. Alone(j) /\ thread'[j] = t
      BY <3>1, <3>2, ThreadSet DEF TaskInv, TypesOK
    <3> QED  BY <1>1, <3>1, <3>2, <3>3, <2>2 DEF Effect, Moves, Still
  <2>3. CASE /\ UNCHANGED store
             /\ \E s \in SetToSeqs({m \in Models : Stale(m)}) :
                    thread' = [thread EXCEPT ![j].at = "pick", ![j].todo = s]
    <3>1. PICK s \in SetToSeqs({m \in Models : Stale(m)}) :
              thread' = [thread EXCEPT ![j].at = "pick", ![j].todo = s]
      BY <2>3
    <3>2. s \in Seq(Models)
      BY Listing
    <3> DEFINE t == [thread[j] EXCEPT !.at = "pick", !.todo = s]
    <3>3. t \in Threads /\ t.at = "pick"
      BY <1>1, <2>3, <3>1, <3>2 DEF Threads, Points
    <3>4. thread' = [thread EXCEPT ![j] = t] /\ UNCHANGED store
      BY <1>1, <2>3, <3>1, <3>2 DEF Threads
    <3> HIDE DEF t
    <3>5. Alone(j) /\ thread'[j] = t
      BY <3>3, <3>4, ThreadSet DEF TaskInv, TypesOK
    <3> QED  BY <1>1, <3>3, <3>4, <3>5, <2>3, <3>1, <3>2 DEF Effect, Moves, Still
  <2>4. CASE /\ UNCHANGED store
             /\ \E s \in SetToSeqs({m \in Models : Missing(m)}) :
                    thread' = [thread EXCEPT ![j].at = "remove", ![j].todo = s]
    <3>1. PICK s \in SetToSeqs({m \in Models : Missing(m)}) :
              thread' = [thread EXCEPT ![j].at = "remove", ![j].todo = s]
      BY <2>4
    <3>2. s \in Seq(Models)
      BY Listing
    <3> DEFINE t == [thread[j] EXCEPT !.at = "remove", !.todo = s]
    <3>3. t \in Threads /\ t.at = "remove"
      BY <1>1, <2>4, <3>1, <3>2 DEF Threads, Points
    <3>4. thread' = [thread EXCEPT ![j] = t] /\ UNCHANGED store
      BY <1>1, <2>4, <3>1, <3>2 DEF Threads
    <3> HIDE DEF t
    <3>5. Alone(j) /\ thread'[j] = t
      BY <3>3, <3>4, ThreadSet DEF TaskInv, TypesOK
    <3> QED  BY <1>1, <3>3, <3>4, <3>5, <2>4, <3>1, <3>2 DEF Effect, Moves, Still
  <2> QED  BY <1>15, <2>1, <2>2, <2>3, <2>4 DEF Inspect
<1>16. ASSUME RemoveMissing(j) PROVE Effect(j) /\ Alone(j)
  <2>0. <<>> \in Seq(Models)
    OBVIOUS
  <2> DEFINE t == [thread[j] EXCEPT !.at = "last", !.todo = <<>>]
  <2>1. t \in Threads /\ t.at = "last"
    BY <1>1, <1>16, <2>0 DEF Threads, Points
  <2>2. thread' = [thread EXCEPT ![j] = t] /\ UNCHANGED store
    BY <1>1, <1>16, <2>0 DEF RemoveMissing
  <2> HIDE DEF t
  <2>3. Alone(j) /\ thread'[j] = t
    BY <2>1, <2>2, ThreadSet DEF TaskInv, TypesOK
  <2> QED  BY <1>1, <2>1, <2>2, <2>3, <1>16, <2>0 DEF Effect, Moves, Still
<1>17. ASSUME PickStale(j) PROVE Effect(j) /\ Alone(j)
  <2>1. CASE thread[j].todo = <<>> /\ Go(j, "last") /\ UNCHANGED store
    <3> DEFINE t == [thread[j] EXCEPT !.at = "last"]
    <3>1. t \in Threads /\ t.at = "last"
      BY <1>1, <2>1 DEF Threads, Points
    <3>2. thread' = [thread EXCEPT ![j] = t] /\ UNCHANGED store
      BY <1>1, <2>1 DEF Go
    <3> HIDE DEF t
    <3>3. Alone(j) /\ thread'[j] = t
      BY <3>1, <3>2, ThreadSet DEF TaskInv, TypesOK
    <3> QED  BY <1>1, <3>1, <3>2, <3>3, <2>1 DEF Effect, Moves, Still
  <2>2. CASE /\ thread[j].todo # <<>> /\ UNCHANGED store
             /\ thread' = [thread EXCEPT ![j].at = "read", ![j].key = files[Refreshed(j)]]
    <3>0. files[Refreshed(j)] \in Pairs
      BY <1>1, <2>2 DEF Threads, Refreshed, TaskInv, TypesOK, DiskOK
    <3> DEFINE t == [thread[j] EXCEPT !.at = "read", !.key = files[Refreshed(j)]]
    <3>1. t \in Threads /\ t.at = "read" /\ t.todo = thread[j].todo /\ t.key = files[Refreshed(j)]
      BY <1>1, <2>2, <3>0 DEF Threads, Points
    <3>2. thread' = [thread EXCEPT ![j] = t] /\ UNCHANGED store
      BY <1>1, <2>2, <3>0 DEF Threads
    <3> HIDE DEF t
    <3>3. Alone(j) /\ thread'[j] = t
      BY <3>1, <3>2, ThreadSet DEF TaskInv, TypesOK
    <3> QED  BY <1>17, <1>1, <3>1, <3>2, <3>3, <2>2, <3>0 DEF Effect, Moves, Still, PickStale, At
  <2> QED  BY <1>17, <2>1, <2>2 DEF PickStale
<1>18. ASSUME Refresh(j) PROVE Effect(j) /\ Alone(j)
  <2>1. PICK content \in {files[Refreshed(j)]} \cup {c.content : c \in memo} :
            thread' = [thread EXCEPT ![j].at = "upsert", ![j].content = content, ![j].key = Blank]
    BY <1>18 DEF Refresh
  <2>2. thread[j].at = "read" /\ thread[j].todo # <<>> /\ UNCHANGED store
    BY <1>18 DEF Refresh, At, TaskInv, ReadsTrue
  <2>3. files[Refreshed(j)] \in Pairs /\ \A c \in memo : c.content \in Pairs
    BY <1>1, <2>2 DEF Threads, Refreshed, TaskInv, TypesOK, DiskOK, MemoOK
  <2>4. content \in Pairs
    BY <2>1, <2>3
  <2> DEFINE t == [thread[j] EXCEPT !.at = "upsert", !.content = content, !.key = Blank]
  <2>5. t \in Threads /\ t.at = "upsert" /\ t.todo = thread[j].todo
    BY <1>1, <2>1, <2>2, <2>4 DEF Threads, Points
  <2>6. thread' = [thread EXCEPT ![j] = t] /\ UNCHANGED store
    BY <1>1, <2>1, <2>2, <2>4 DEF Threads
  <2> HIDE DEF t
  <2>7. Alone(j) /\ thread'[j] = t
    BY <2>5, <2>6, ThreadSet DEF TaskInv, TypesOK
  <2> QED  BY <1>1, <2>5, <2>6, <2>7, <2>1, <2>2, <2>4 DEF Effect, Moves, Still
<1>19. ASSUME RefreshUpsert(j) PROVE Effect(j) /\ Alone(j)
  <2>0. thread[j].at = "upsert" /\ thread[j].todo # <<>>
    BY <1>19 DEF RefreshUpsert, At, TaskInv, ReadsTrue
  <2>1. Tail(thread[j].todo) \in Seq(Models)
    BY <1>1, <2>0 DEF Threads
  <2> DEFINE t == [NoThread EXCEPT !.at = "pick", !.todo = Tail(thread[j].todo)]
  <2>2. t \in Threads /\ t.at = "pick"
    BY <1>1, <1>19, <2>1 DEF Threads, Points
  <2>3. thread' = [thread EXCEPT ![j] = t] /\ UNCHANGED store
    BY <1>1, <1>19, <2>1 DEF RefreshUpsert
  <2> HIDE DEF t
  <2>4. Alone(j) /\ thread'[j] = t
    BY <2>2, <2>3, ThreadSet DEF TaskInv, TypesOK
  <2> QED  BY <1>1, <2>2, <2>3, <2>4, <1>19, <2>1 DEF Effect, Moves, Still
<1> QED  BY <1>0, <1>3, <1>4, <1>5, <1>6, <1>7, <1>8, <1>9, <1>10, <1>11, <1>12, <1>13, <1>14, <1>15, <1>16, <1>17, <1>18, <1>19 DEF Work, BulkStep, MaintenanceStep

-----------------------------------------------------------------------------
(* The other steps, by what they change.                                   *)

\* The files of one model change; a MOD_SUM that appears is a new one.
Changes(m) ==
    /\ DiskOK' /\ writes' \in writes .. writes + 1
    /\ \A n \in Models : past[n] \subseteq past'[n] /\ (n # m => files'[n] = files[n])
    /\ files'[m] \in past'[m]
    /\ \/ files'[m].mod_sum \in {0, files[m].mod_sum}
       \/ files'[m].mod_sum = writes + 2 /\ writes' = writes + 1
    /\ UNCHANGED <<store, cache, memo, thread, visit>>
\* Finished jobs are forgotten, or all jobs and threads are lost.
Forgets ==
    /\ JobsOK' /\ Live' = Live /\ Stored' \subseteq Stored /\ Same(Stored')
    /\ \E k \in 1 .. Len(ended) : ended' = Kept(k)
    /\ UNCHANGED <<disk, cache, memo, thread, visit>>
Loses ==
    /\ JobsOK' /\ Stored' = {} /\ Live' = {} /\ ended' = <<>>
    /\ ThreadsOK' /\ \A j \in Jobs : thread'[j] = NoThread
    /\ UNCHANGED disk

(* Writing, withdrawing and putting back. *)
LEMMA FileSteps ==
    ASSUME TaskInv, NEW m \in Worked, Write(m) \/ Withdraw(m) \/ PutBack(m)
    PROVE  Changes(m)
<1>1. /\ m \in Models /\ files[m] \in Pairs /\ files \in [Models -> Pairs]
      /\ past \in [Models -> SUBSET Pairs] /\ writes \in Nat /\ MaxWrites \in Nat
      /\ writes + 1 \in Nat /\ writes + 2 \in Nat /\ writes \in 0 .. MaxWrites
  BY TaskAssumption DEF TaskInv, TypesOK, DiskOK
<1>2. ASSUME NEW pair \in Pairs, NEW w \in {writes, writes + 1}, writes' = w, w <= MaxWrites,
             files' = [files EXCEPT ![m] = pair],
             past' = [past EXCEPT ![m] = @ \cup {pair}],
             UNCHANGED <<store, cache, memo, thread, visit>>,
             \/ pair.mod_sum \in {0, files[m].mod_sum}
             \/ pair.mod_sum = writes + 2 /\ w = writes + 1
      PROVE  Changes(m)
  <2>1. files' \in [Models -> Pairs] /\ past' \in [Models -> SUBSET Pairs] /\ writes' \in 0 .. MaxWrites
    BY <1>1, <1>2
  <2>2. \A n \in Models : past[n] \subseteq past'[n] /\ (n # m => files'[n] = files[n])
    BY <1>1, <1>2
  <2>3. files'[m] = pair /\ pair \in past'[m] /\ writes' \in writes .. writes + 1
    BY <1>1, <1>2
  <2> QED  BY <1>2, <2>1, <2>2, <2>3 DEF Changes, DiskOK
<1>3. CASE Write(m)
  <2>1. PICK f \in {"vadat", "mod_sum"} : Replace(m, [files[m] EXCEPT ![f] = writes + 2])
    BY <1>3 DEF Write
  <2> DEFINE pair == [files[m] EXCEPT ![f] = writes + 2]
  <2>2. pair \in Pairs /\ pair.mod_sum \in {files[m].mod_sum, writes + 2}
    <3>1. CASE f = "vadat"
      BY <1>1, <3>1 DEF Pairs
    <3>2. CASE f = "mod_sum"
      BY <1>1, <3>2 DEF Pairs
    <3> QED  BY <3>1, <3>2
  <2> HIDE DEF pair
  <2>3. Replace(m, pair)
    BY <2>1 DEF pair
  <2>4. writes' = writes + 1 /\ writes + 1 <= MaxWrites
    BY <1>1, <2>3 DEF Replace
  <2> QED  BY <1>2, <2>2, <2>3, <2>4 DEF Replace
<1>4. CASE Withdraw(m)
  <2> DEFINE pair == [files[m] EXCEPT !.mod_sum = 0]
  <2>1. pair \in Pairs /\ pair.mod_sum = 0
    BY <1>1 DEF Pairs
  <2> HIDE DEF pair
  <2>2. Replace(m, pair)
    BY <1>4 DEF Withdraw, pair
  <2>3. writes' = writes + 1 /\ writes + 1 <= MaxWrites
    BY <1>1, <2>2 DEF Replace
  <2> QED  BY <1>2, <2>1, <2>2, <2>3 DEF Replace
<1>5. CASE PutBack(m)
  <2> DEFINE pair == [files[m] EXCEPT !.vadat = 1]
  <2>1. pair \in Pairs /\ pair.mod_sum = files[m].mod_sum
    BY <1>1 DEF Pairs
  <2>2. files' = [files EXCEPT ![m] = pair] /\ files'[m] = pair
    BY <1>1, <1>5 DEF PutBack
  <2> HIDE DEF pair
  <2>3. /\ past' = [past EXCEPT ![m] = @ \cup {pair}] /\ writes' = writes
        /\ UNCHANGED <<store, cache, memo, thread, visit>>
    BY <1>5, <2>2 DEF PutBack
  <2>4. writes \in {writes, writes + 1} /\ writes <= MaxWrites
    BY <1>1
  <2>5. pair.mod_sum \in {0, files[m].mod_sum}
    BY <2>1
  <2> QED  BY <1>2, <2>1, <2>2, <2>3, <2>4, <2>5
<1> QED  BY <1>3, <1>4, <1>5

(* Every step of the module is one of these. *)
LEMMA StepCases ==
    ASSUME TaskInv, [Next]_vars
    PROVE  \/ \E j \in Jobs, kind \in Kinds, selected \in Seq(Models) :
                  IsInjective(selected) /\ Creates(j, kind, selected) /\ ~Works(j)
           \/ \E j \in Jobs : Cancels(j) /\ UNCHANGED <<disk, cache, memo, thread, visit>>
           \/ \E j \in Jobs : /\ Work(j) /\ Works(j) /\ Effect(j) /\ Alone(j)
                              /\ UNCHANGED <<disk, visit>>
           \/ Forgets \/ Loses
           \/ \E m \in Models : Changes(m)
           \/ UNCHANGED <<store, disk, thread>>
<1>1. ASSUME NEW j \in Jobs, NEW kind \in Kinds, NEW selected \in Seq(Models),
             Create(j, Payload(kind, selected))
      PROVE  Creates(j, kind, selected) /\ ~Works(j)
  BY <1>1, Creation DEF TaskInv
<1>2. ASSUME NEW j \in Jobs, Cancel(j)
      PROVE  Cancels(j) /\ UNCHANGED <<disk, cache, memo, thread, visit>>
  BY <1>2, Cancelling DEF Cancel, TaskInv
<1>3. ASSUME Watch PROVE Forgets
  <2>1. PICK k \in 1 .. Len(ended) : Prune(k) /\ UNCHANGED <<disk, cache, memo, thread, visit>>
    BY <1>3 DEF Watch
  <2>2. StoreOK /\ k \in 0 .. Len(ended)
    BY <2>1 DEF TaskInv, TypesOK, JobsOK
  <2>3. StoreOK' /\ Live' = Live /\ Stored' \subseteq Stored /\ Same(Stored') /\ ended' = Kept(k)
    BY <2>1, <2>2, PruneStep
  <2> QED  BY <2>1, <2>3 DEF Forgets, Same, JobsOK, TaskInv, TypesOK
<1>4. ASSUME Restart PROVE Loses
  <2>1. jobs' = << >> /\ ended' = <<>> /\ thread' = [j \in Jobs |-> NoThread] /\ UNCHANGED disk
    BY <1>4 DEF Restart, Lose
  <2>2. DOMAIN << >> = {} /\ <<>> \in Seq(Jobs) /\ <<>> \in Seq(Models)
    OBVIOUS
  <2>3. Stored' = {} /\ Live' = {} /\ Range(ended') = {}
    BY <2>1, <2>2 DEF Stored, Live, Range
  <2>4. JobsOK'
    BY <2>1, <2>2, <2>3 DEF JobsOK, StoreOK
  <2>5. NoThread \in Threads
    BY <2>2 DEF NoThread, Blank, Threads, Points, Pairs
  <2> QED  BY <2>1, <2>3, <2>4, <2>5 DEF Loses, ThreadsOK
<1>5. ASSUME NEW m \in Worked, Write(m) \/ Withdraw(m) \/ PutBack(m)
      PROVE  m \in Models /\ Changes(m)
  BY <1>5, FileSteps, TaskAssumption
<1>6. ASSUME (\E m \in Worked : Invalidate(m)) \/ DeleteNamespace \/ VisitStep \/ UNCHANGED vars
      PROVE  UNCHANGED <<store, disk, thread>>
  BY <1>6 DEF Invalidate, DeleteNamespace, VisitStep, Visit, VisitReads, VisitUpserts, vars
<1> QED  BY <1>1, <1>2, <1>3, <1>4, <1>5, <1>6, NextCases, WorkCases

-----------------------------------------------------------------------------
(* Each part of the invariant is preserved.                                *)

(* The stored jobs keep their types. *)
LEMMA JobsStep ==
    ASSUME TaskInv, [Next]_vars
    PROVE  JobsOK'
<1>1. ASSUME UNCHANGED store PROVE JobsOK'
  BY <1>1 DEF TaskInv, TypesOK, JobsOK, StoreOK, Stored, Live, store
<1>2. ASSUME NEW j \in Jobs, Effect(j) PROVE JobsOK'
  BY <1>1, <1>2 DEF Effect, Ends, Advances
<1> QED  BY <1>1, <1>2, StepCases DEF Creates, Cancels, Forgets, Loses, Changes

(* The threads keep their types. *)
LEMMA ThreadsStep ==
    ASSUME TaskInv, [Next]_vars
    PROVE  ThreadsOK'
<1>1. ASSUME UNCHANGED thread PROVE ThreadsOK'
  BY <1>1 DEF TaskInv, TypesOK, ThreadsOK
<1>2. ASSUME NEW j \in Jobs, thread' = [thread EXCEPT ![j] = [NoThread EXCEPT !.at = "created"]]
      PROVE  ThreadsOK'
  <2> DEFINE t == [NoThread EXCEPT !.at = "created"]
  <2>1. <<>> \in Seq(Models)
    OBVIOUS
  <2>2. t \in Threads
    BY <2>1 DEF NoThread, Blank, Threads, Points, Pairs
  <2> HIDE DEF t
  <2>3. thread' = [thread EXCEPT ![j] = t]
    BY <1>2 DEF t
  <2> QED  BY <2>2, <2>3, ThreadSet DEF Alone, TaskInv, TypesOK
<1> QED  BY <1>1, <1>2, StepCases DEF Creates, Alone, Forgets, Loses, Changes

(* The files keep their types, and what is on disk is known. *)
LEMMA DiskStep ==
    ASSUME TaskInv, [Next]_vars
    PROVE  DiskOK' /\ DiskKnown'
<1>1. ASSUME UNCHANGED disk PROVE DiskOK' /\ DiskKnown'
  BY <1>1 DEF disk, DiskOK, DiskKnown, Known, TaskInv, TypesOK
<1>2. ASSUME NEW m \in Models, Changes(m) PROVE DiskOK' /\ DiskKnown'
  <2>1. DiskOK' /\ writes \in Nat /\ writes' \in Nat /\ writes <= writes'
    BY <1>2, TaskAssumption DEF Changes, TaskInv, TypesOK, DiskOK
  <2>2. ASSUME NEW n \in Models PROVE files'[n] \in past'[n] /\ files'[n].mod_sum <= writes' + 1
    <3>1. files[n] \in past[n] /\ files[n].mod_sum <= writes + 1 /\ files[n].mod_sum \in Nat
      BY DEF TaskInv, TypesOK, DiskOK, DiskKnown, Known, Pairs
    <3>2. CASE n # m
      BY <1>2, <2>1, <3>1, <3>2 DEF Changes
    <3>3. CASE n = m
      BY <1>2, <2>1, <3>1, <3>3 DEF Changes
    <3> QED  BY <3>2, <3>3
  <2> QED  BY <2>1, <2>2 DEF DiskKnown, Known
<1> QED  BY <1>1, <1>2, StepCases DEF Creates, Forgets, Loses

(* One job runs at a time, and a working thread belongs to it. *)
LEMMA SlotStep ==
    ASSUME TaskInv, [Next]_vars
    PROVE  SlotKept'
<1> USE DEF TaskInv, SlotKept
<1>1. ASSUME NEW j \in Jobs, NEW kind \in Kinds, NEW selected \in Seq(Models),
             Creates(j, kind, selected)
      PROVE  SlotKept'
  <2>1. /\ thread'[j].at = "created" /\ Live' = {j}
        /\ \A i \in Jobs \ {j} : thread'[i] = thread[i] /\ ~Works(i)
    BY <1>1 DEF Creates, NoThread, TypesOK, ThreadsOK, Works
  <2> QED  BY <2>1 DEF Works, Bulk, Reading
<1>2. ASSUME NEW j \in Jobs, Cancels(j), UNCHANGED thread PROVE SlotKept'
  <2>1. \A i \in Live : jobs'[i].kind = jobs[i].kind
    BY <1>2 DEF Cancels
  <2> QED  BY <1>2, <2>1 DEF Cancels, Works, Bulk, Reading
<1>3. ASSUME NEW j \in Jobs, Works(j), Effect(j), Alone(j) PROVE SlotKept'
  <2>1. \A i \in Jobs \ {j} : ~Works(i)'
    BY <1>3, WorkerFacts DEF Alone, Works
  <2>2. CASE Ends(j) /\ ~Works(j)'
    BY <2>1, <2>2 DEF Ends, Works, Bulk, Reading
  <2>3. CASE Advances(j) /\ thread[j].at \in Reading
    <3>1. Live' = {j} /\ jobs'[j].kind = "bulk-summary"
      BY <1>3, <2>3, WorkerFacts DEF Advances, Bulk
    <3> QED  BY <2>1, <3>1 DEF Works, Bulk, Reading
  <2>4. CASE UNCHANGED store /\ Moves(j)
    <3>1. Live' = {j} /\ jobs' = jobs
      BY <1>3, <2>4, WorkerFacts DEF store, Live, Stored
    <3>2. thread'[j].at \in Bulk => jobs[j].kind = "bulk-summary"
      BY <2>4 DEF Moves, Bulk, Reading
    <3> QED  BY <2>1, <3>1, <3>2 DEF Works, Bulk, Reading
  <2> QED  BY <1>3, <2>2, <2>3, <2>4 DEF Effect
<1>4. ASSUME Forgets PROVE SlotKept'
  <2>1. \A i \in Jobs : Works(i) => jobs'[i] = jobs[i]
    BY <1>4 DEF Forgets, Same, Live
  <2> QED  BY <1>4, <2>1 DEF Forgets, Works, Bulk, Reading
<1>5. ASSUME Loses PROVE SlotKept'
  BY <1>5 DEF Loses, Works, Bulk, Reading, NoThread
<1>6. ASSUME UNCHANGED <<store, thread>> PROVE SlotKept'
  BY <1>6 DEF store, Live, Stored, Works, Bulk, Reading
<1> QED  BY <1>1, <1>2, <1>3, <1>4, <1>5, <1>6, StepCases DEF Changes

(* The counts fit the points of the threads. *)
LEMMA CountedStep ==
    ASSUME TaskInv, [Next]_vars
    PROVE  Counted'
<1>0. /\ \A j \in Stored : jobs[j] \in Payloads
      /\ \A j \in Stored : jobs[j].cancel => jobs[j].processed <= jobs[j].seen + 1
  BY DEF TaskInv, TypesOK, JobsOK, Counted, CancelStopsSoon
<1>1. ASSUME NEW j \in Jobs, NEW kind \in Kinds, NEW selected \in Seq(Models),
             Creates(j, kind, selected)
      PROVE  Counted'
  <2>1. /\ thread'[j].at = "created" /\ jobs'[j].processed = 0 /\ jobs'[j].cancel = FALSE
        /\ \A i \in Jobs \ {j} : thread'[i].at \in {"none", "gone"}
    BY <1>1 DEF Creates, NoThread, Payload, TaskInv, TypesOK, ThreadsOK, SlotKept, Works
  <2>2. CancelStopsSoon'
    BY <1>0, <1>1, <2>1 DEF Creates, CancelStopsSoon, Same
  <2> QED  BY <2>1, <2>2 DEF Counted, Reading
<1>2. ASSUME NEW j \in Jobs, Cancels(j), UNCHANGED thread PROVE Counted'
  <2>1. j \in Stored /\ jobs[j].processed \in Nat
    BY <1>0, <1>2 DEF Cancels, Live, Payloads
  <2>2. \A i \in Stored : jobs'[i].processed = jobs[i].processed /\ jobs'[i].selected = jobs[i].selected
    BY <1>2 DEF Cancels, Same
  <2>3. CancelStopsSoon'
    BY <1>0, <1>2, <2>1 DEF Cancels, Same, CancelStopsSoon
  <2>4. \A i \in Jobs : Works(i) => i \in Stored
    BY DEF TaskInv, SlotKept, Live
  <2>5. \A i \in Jobs : thread[i].at \in Reading /\ jobs'[i].cancel => jobs'[i].seen >= jobs'[i].processed
    BY <1>2, <2>1, <2>2, <2>4 DEF Cancels, Same, Works, Reading, TaskInv, Counted
  <2> QED  BY <1>2, <2>2, <2>3, <2>4, <2>5 DEF Counted, Works, Reading, TaskInv
<1>3. ASSUME NEW j \in Jobs, Works(j), Effect(j), Alone(j) PROVE Counted'
  <2>1. \A i \in Jobs \ {j} : thread'[i].at \in {"none", "gone"}
    BY <1>3, WorkerFacts DEF Alone, Works
  <2>2. /\ j \in Stored /\ jobs[j].processed \in Nat /\ jobs[j].seen \in Nat /\ thread[j].i \in Nat
        /\ jobs[j].selected \in Seq(Models) /\ thread'[j].i \in Nat /\ jobs[j].cancel \in BOOLEAN
    BY <1>3, WorkerFacts, ThreadsStep DEF Payloads, Threads, ThreadsOK
  <2>3. CASE Ends(j) /\ ~Works(j)'
    <3>1. CancelStopsSoon'
      BY <1>0, <2>2, <2>3 DEF Ends, Same, CancelStopsSoon
    <3> QED  BY <2>1, <2>3, <3>1 DEF Counted, Works, Reading
  <2>4. CASE /\ Advances(j) /\ thread[j].at \in Reading
             /\ \/ thread'[j].at = "next" /\ thread'[j].i = thread[j].i + 1
                \/ thread'[j].at = "dbfailed"
    <3>1. /\ thread[j].i \in 1 .. Len(jobs[j].selected) /\ jobs[j].processed = thread[j].i - 1
          /\ jobs[j].cancel => jobs[j].seen >= jobs[j].processed
      BY <2>4 DEF TaskInv, Counted
    <3>2. jobs'[j].processed = thread[j].i /\ jobs'[j].cancel = jobs[j].cancel /\ jobs'[j].seen = jobs[j].seen
      BY <2>4 DEF Advances
    <3>3. CancelStopsSoon'
      BY <1>0, <2>2, <2>4, <3>1, <3>2 DEF Advances, Same, CancelStopsSoon
    <3>4. /\ thread'[j].at \notin Reading \cup {"created"}
          /\ thread'[j].at = "next" => thread'[j].i >= 1 /\ jobs'[j].processed = thread'[j].i - 1
      BY <2>2, <2>4, <3>2 DEF Reading
    <3> QED  BY <2>1, <3>3, <3>4 DEF Counted, Reading
  <2>5. CASE UNCHANGED store /\ Moves(j)
    <3>1. jobs' = jobs /\ CancelStopsSoon'
      BY <1>0, <2>5 DEF store, Stored, CancelStopsSoon
    <3>2. /\ thread'[j].at = "next" => thread'[j].i >= 1 /\ jobs[j].processed = thread'[j].i - 1
          /\ thread'[j].at \in Reading =>
                /\ thread'[j].i \in 1 .. Len(jobs[j].selected)
                /\ jobs[j].processed = thread'[j].i - 1
                /\ jobs[j].cancel => jobs[j].seen >= jobs[j].processed
          /\ thread'[j].at # "created"
      <4>1. /\ thread[j].at = "created" => jobs[j].processed = 0
            /\ thread[j].at = "next" => thread[j].i >= 1 /\ jobs[j].processed = thread[j].i - 1
            /\ thread[j].at \in Reading =>
                /\ thread[j].i \in 1 .. Len(jobs[j].selected)
                /\ jobs[j].processed = thread[j].i - 1
                /\ jobs[j].cancel => jobs[j].seen >= jobs[j].processed
        BY DEF TaskInv, Counted
      <4>2. Len(jobs[j].selected) \in Nat
        BY <2>2
      <4> QED  BY <2>2, <2>5, <4>1, <4>2 DEF Moves, Still, Reading
    <3> QED  BY <2>1, <3>1, <3>2 DEF Counted, Reading
  <2> QED  BY <1>3, <2>3, <2>4, <2>5 DEF Effect
<1>4. ASSUME Forgets PROVE Counted'
  <2>1. \A i \in Jobs : Works(i) => jobs'[i] = jobs[i]
    BY <1>4 DEF Forgets, Same, Live, TaskInv, SlotKept
  <2>2. CancelStopsSoon'
    BY <1>0, <1>4 DEF Forgets, Same, CancelStopsSoon
  <2> QED  BY <1>4, <2>1, <2>2 DEF Forgets, Works, Counted, Reading, TaskInv
<1>5. ASSUME Loses PROVE Counted'
  BY <1>5 DEF Loses, Counted, CancelStopsSoon, Reading, NoThread
<1>6. ASSUME UNCHANGED <<store, thread>> PROVE Counted'
  BY <1>6 DEF store, Stored, Counted, CancelStopsSoon, TaskInv
<1> QED  BY <1>1, <1>2, <1>3, <1>4, <1>5, <1>6, StepCases DEF Changes

(* A bulk job has reported or failed exactly the folders it has processed. *)
LEMMA AccountsStep ==
    ASSUME TaskInv, [Next]_vars
    PROVE  Accounts'
<1> DEFINE Fine(job) ==
      /\ IsInjective(job.selected) /\ job.processed <= Len(job.selected)
      /\ job.done \cup job.failures = {job.selected[k] : k \in 1 .. job.processed}
      /\ job.done \cap job.failures = {}
<1>0. (\A i \in Stored : Fine(jobs[i])) /\ (\A i \in Stored : jobs[i] \in Payloads)
  BY DEF TaskInv, TypesOK, JobsOK, Accounts
<1>00. SUFFICES \A i \in Stored' : Fine(jobs'[i])
  BY DEF Accounts
<1>1. ASSUME NEW j \in Jobs, NEW kind \in Kinds, NEW selected \in Seq(Models),
             IsInjective(selected), Creates(j, kind, selected)
      PROVE  \A i \in Stored' : Fine(jobs'[i])
  <2>1. {selected[k] : k \in 1 .. 0} = {} /\ 0 <= Len(selected)
    OBVIOUS
  <2>2. Fine(jobs'[j])
    BY <1>1, <2>1 DEF Creates, Payload
  <2> HIDE DEF Fine
  <2> QED  BY <1>0, <1>1, <2>2 DEF Creates, Same
<1>2. ASSUME NEW j \in Jobs, Cancels(j) PROVE \A i \in Stored' : Fine(jobs'[i])
  <2>1. j \in Stored
    BY <1>2 DEF Cancels, Live
  <2>2. Fine(jobs'[j])
    BY <1>0, <1>2, <2>1 DEF Cancels
  <2> HIDE DEF Fine
  <2> QED  BY <1>0, <1>2, <2>2 DEF Cancels, Same
<1>3. ASSUME NEW j \in Jobs, Works(j), Effect(j) PROVE \A i \in Stored' : Fine(jobs'[i])
  <2>1. j \in Stored /\ jobs[j] \in Payloads
    BY <1>3, WorkerFacts
  <2>2. CASE Ends(j)
    <3>1. Fine(jobs'[j])
      BY <1>0, <2>1, <2>2 DEF Ends
    <3> HIDE DEF Fine
    <3> QED  BY <1>0, <2>2, <3>1 DEF Ends, Same
  <2>3. CASE Advances(j) /\ thread[j].at \in Reading
    <3>1. thread[j].i \in 1 .. Len(jobs[j].selected) /\ jobs[j].processed = thread[j].i - 1
      BY <2>3 DEF TaskInv, Counted
    <3> DEFINE s == jobs[j].selected
               i == thread[j].i
               D == jobs[j].done
               F == jobs[j].failures
    <3>2. s \in Seq(Models) /\ i \in 1 .. Len(s) /\ DOMAIN s = 1 .. Len(s) /\ Len(s) \in Nat
      BY <2>1, <3>1 DEF Payloads
    <3>3. /\ IsInjective(s) /\ D \cup F = {s[k] : k \in 1 .. i - 1} /\ D \cap F = {}
      BY <1>0, <2>1, <3>1
    <3>4. /\ jobs'[j].selected = s /\ jobs'[j].processed = i /\ Path(j) = s[i]
          /\ \/ jobs'[j].done = D \cup {s[i]} /\ jobs'[j].failures = F
             \/ jobs'[j].done = D /\ jobs'[j].failures = F \cup {s[i]}
      BY <2>3 DEF Advances, Path
    <3> HIDE DEF s, i, D, F
    <3>5. s[i] \notin D \cup F
      <4>1. \A k \in 1 .. i - 1 : s[k] # s[i]
        <5> SUFFICES ASSUME NEW k \in 1 .. i - 1, s[k] = s[i] PROVE FALSE
          OBVIOUS
        <5>1. k \in DOMAIN s /\ i \in DOMAIN s /\ k # i
          BY <3>2
        <5> QED  BY <3>3, <5>1 DEF IsInjective
      <4> QED  BY <3>3, <4>1
    <3>6. {s[k] : k \in 1 .. i} = {s[k] : k \in 1 .. i - 1} \cup {s[i]}
      <4>1. 1 .. i = (1 .. i - 1) \cup {i}
        BY <3>2
      <4> QED  BY <4>1
    <3>7. /\ jobs'[j].done \cup jobs'[j].failures = {s[k] : k \in 1 .. i}
          /\ jobs'[j].done \cap jobs'[j].failures = {}
      BY <3>3, <3>4, <3>5, <3>6
    <3>8. Fine(jobs'[j])
      BY <3>2, <3>3, <3>4, <3>7
    <3> HIDE DEF Fine
    <3> QED  BY <1>0, <2>3, <3>8 DEF Advances, Same
  <2>4. CASE UNCHANGED store
    BY <1>0, <2>4 DEF store, Stored
  <2> QED  BY <1>3, <2>2, <2>3, <2>4 DEF Effect
<1>4. ASSUME Forgets PROVE \A i \in Stored' : Fine(jobs'[i])
  <2> HIDE DEF Fine
  <2> QED  BY <1>0, <1>4 DEF Forgets, Same
<1>5. ASSUME UNCHANGED store PROVE \A i \in Stored' : Fine(jobs'[i])
  BY <1>0, <1>5 DEF store, Stored
<1> HIDE DEF Fine
<1> QED  BY <1>1, <1>2, <1>3, <1>4, <1>5, StepCases DEF Changes, Loses

(* A version that is known and still on disk after a change was there before it. *)
LEMMA StillPresent ==
    ASSUME TaskInv, NEW m \in Models, Changes(m), NEW n \in Models, NEW pair,
           Known(pair), pair.mod_sum \in Nat, pair.mod_sum # 0, pair.mod_sum = files'[n].mod_sum
    PROVE  Present(n, pair) /\ files'[n].mod_sum = files[n].mod_sum
<1>1. writes \in Nat
  BY TaskAssumption DEF TaskInv, TypesOK, DiskOK
<1>2. CASE n # m
  BY <1>2 DEF Changes, Present
<1>3. CASE n = m
  BY <1>1, <1>3 DEF Changes, Present, Known
<1> QED  BY <1>2, <1>3

(* What a step can add to the remembered results. *)
LEMMA MemoCases ==
    ASSUME TaskInv, [Next]_vars
    PROVE  \/ memo' \subseteq memo /\ UNCHANGED disk
           \/ memo' = memo /\ \E m \in Models : Changes(m)
           \/ \E m \in Models, key \in Pairs, content \in Pairs :
                /\ UNCHANGED disk
                /\ Known(key) /\ (Present(m, key) => content \in past[m])
                /\ memo' \subseteq memo \cup {[model |-> m, key |-> key, content |-> content]}
<1> DEFINE Adds == \E m \in Models, key \in Pairs, content \in Pairs :
                /\ UNCHANGED disk
                /\ Known(key) /\ (Present(m, key) => content \in past[m])
                /\ memo' \subseteq memo \cup {[model |-> m, key |-> key, content |-> content]}
<1>1. ASSUME NEW m \in Models, NEW key \in Pairs, NEW content \in Pairs, UNCHANGED disk,
             Known(key), Present(m, key) => content \in past[m], Remember(m, key, content)
      PROVE  Adds
  BY <1>1 DEF Remember
<1>2. \A m \in Models : files[m] \in Pairs /\ files[m] \in past[m]
  BY DEF TaskInv, TypesOK, DiskOK, DiskKnown
<1>3. ASSUME NEW j \in Jobs, ReadModSum(j) PROVE Adds
  <2>1. thread[j].at = "mod_sum" /\ Remember(Path(j), thread[j].key, Halfway(j)) /\ UNCHANGED disk
    BY <1>3 DEF ReadModSum, At, Halfway
  <2>2. thread[j].at \in Reading
    BY <2>1 DEF Reading
  <2>3. Path(j) \in Models /\ files[Path(j)] \in Pairs /\ thread[j] \in Threads
    BY <2>2, PathFacts, WorkerFacts
  <2>4. thread[j].key \in Pairs /\ Halfway(j) \in Pairs
    BY <2>3 DEF Threads, Halfway, Pairs
  <2>5. Known(thread[j].key) /\ (Present(Path(j), thread[j].key) => Halfway(j) \in past[Path(j)])
    BY <2>1 DEF TaskInv, ReadsTrue
  <2> HIDE DEF Adds
  <2> QED  BY <1>1, <2>1, <2>3, <2>4, <2>5
<1>4. ASSUME NEW j \in Jobs, Refresh(j) PROVE (memo' = memo /\ UNCHANGED disk) \/ Adds
  <2>1. thread[j].at = "read" /\ UNCHANGED disk
    BY <1>4 DEF Refresh, At
  <2>2. Works(j)
    BY <2>1 DEF Works
  <2>3. thread[j] \in Threads /\ Known(thread[j].key) /\ thread[j].todo # <<>>
    BY <2>1, <2>2, WorkerFacts DEF TaskInv, ReadsTrue
  <2>4. Refreshed(j) \in Models /\ thread[j].key \in Pairs
    BY <2>3 DEF Threads, Refreshed
  <2>5. memo' = memo \/ Remember(Refreshed(j), thread[j].key, files[Refreshed(j)])
    BY <1>4 DEF Refresh, Recall
  <2> HIDE DEF Adds
  <2> QED  BY <1>1, <1>2, <2>1, <2>3, <2>4, <2>5
<1>5. ASSUME VisitReads PROVE (memo' = memo /\ UNCHANGED disk) \/ Adds
  <2>1. visit.at = "read" /\ UNCHANGED disk
    BY <1>5 DEF VisitReads
  <2>2. visit.model \in Models /\ visit.key \in Pairs /\ Known(visit.key)
    BY <2>1 DEF TaskInv, TypesOK, VisitOK, NoVisit, ReadsTrue
  <2>3. memo' = memo \/ Remember(visit.model, visit.key, files[visit.model])
    BY <1>5 DEF VisitReads, Recall
  <2> HIDE DEF Adds
  <2> QED  BY <1>1, <1>2, <2>1, <2>2, <2>3
<1>6. ASSUME NEW j \in Jobs, Work(j) PROVE (memo' = memo /\ UNCHANGED disk) \/ Adds
  <2>1. (memo' = memo /\ UNCHANGED disk) \/ ReadModSum(j) \/ Refresh(j)
    BY <1>6 DEF Work, BulkStep, MaintenanceStep, ThreadFails, Begin, NextFolder, StatFolder,
         Lookup, ReadVadat, Recall, StatAgain, Commit, AppendRow, BadData, DatabaseFails,
         Stop, EndOfJob, Inspect, RemoveMissing, PickStale, RefreshUpsert
  <2> QED  BY <1>3, <1>4, <2>1
<1>7. ASSUME NEW m \in Worked, Write(m) \/ Withdraw(m) \/ PutBack(m)
      PROVE  memo' = memo /\ \E n \in Models : Changes(n)
  BY <1>7, FileSteps, TaskAssumption DEF Changes
<1>8. ASSUME (\E m \in Worked : Invalidate(m)) \/ DeleteNamespace \/ Watch \/ Restart \/ UNCHANGED vars
      PROVE  memo' \subseteq memo /\ UNCHANGED disk
  BY <1>8 DEF Invalidate, DeleteNamespace, Watch, Restart, vars
<1>9. ASSUME NEW j \in Jobs, NEW payload, Create(j, payload) \/ Cancel(j)
      PROVE  memo' = memo /\ UNCHANGED disk
  BY <1>9 DEF Create, Cancel
<1>10. ASSUME VisitStep PROVE (memo' = memo /\ UNCHANGED disk) \/ Adds
  BY <1>5, <1>10 DEF VisitStep, Visit, VisitUpserts
<1> HIDE DEF Adds
<1>11. (memo' \subseteq memo /\ UNCHANGED disk) \/ (memo' = memo /\ \E m \in Models : Changes(m)) \/ Adds
  BY <1>6, <1>7, <1>8, <1>9, <1>10, NextCases
<1> QED  BY <1>11 DEF Adds

(* What is remembered was on disk, if its key still is. *)
LEMMA MemoStep ==
    ASSUME TaskInv, [Next]_vars
    PROVE  MemoOK' /\ MemoTrue'
<1>1. /\ \A c \in memo : c \in [model: Models, key: Pairs, content: Pairs]
      /\ \A c \in memo : Known(c.key) /\ (Present(c.model, c.key) => c.content \in past[c.model])
  BY DEF TaskInv, TypesOK, MemoOK, MemoTrue
<1>2. ASSUME memo' \subseteq memo, UNCHANGED disk PROVE MemoOK' /\ MemoTrue'
  BY <1>1, <1>2 DEF MemoOK, MemoTrue, Known, Present, disk
<1>3. ASSUME memo' = memo, NEW m \in Models, Changes(m) PROVE MemoOK' /\ MemoTrue'
  <2>1. writes \in Nat /\ writes' \in Nat /\ writes <= writes'
    BY <1>3, TaskAssumption DEF Changes, TaskInv, TypesOK, DiskOK
  <2>2. ASSUME NEW c \in memo
        PROVE  /\ c.key.mod_sum <= writes' + 1
               /\ c.key.mod_sum # 0 /\ c.key.mod_sum = files'[c.model].mod_sum
                    => c.content \in past'[c.model]
    <3>1. /\ c.model \in Models /\ c.key \in Pairs /\ c.key.mod_sum \in Nat /\ Known(c.key)
          /\ Present(c.model, c.key) => c.content \in past[c.model]
      BY <1>1 DEF Pairs
    <3>2. c.key.mod_sum <= writes' + 1
      BY <2>1, <3>1 DEF Known
    <3>3. c.key.mod_sum # 0 /\ c.key.mod_sum = files'[c.model].mod_sum => Present(c.model, c.key)
      BY <1>3, <3>1, StillPresent
    <3> QED  BY <1>3, <3>1, <3>2, <3>3 DEF Changes
  <2> QED  BY <1>1, <1>3, <2>2 DEF MemoOK, MemoTrue, Known, Present
<1>4. ASSUME NEW m \in Models, NEW key \in Pairs, NEW content \in Pairs, UNCHANGED disk,
             Known(key), Present(m, key) => content \in past[m],
             memo' \subseteq memo \cup {[model |-> m, key |-> key, content |-> content]}
      PROVE  MemoOK' /\ MemoTrue'
  <2>1. \A c \in memo' : c \in memo \/ c = [model |-> m, key |-> key, content |-> content]
    BY <1>4
  <2>2. MemoOK'
    BY <1>1, <1>4, <2>1 DEF MemoOK
  <2>3. MemoTrue'
    BY <1>1, <1>4, <2>1 DEF MemoTrue, Known, Present, disk
  <2> QED  BY <2>2, <2>3
<1> QED  BY <1>2, <1>3, <1>4, MemoCases

(* What the thread of one job has read. *)
ThreadTrue(j) ==
    LET t == thread[j] IN
    /\ t.at \in Reading \ {"stat"} => Known(t.stamp) /\ t.stamp.mod_sum # 0
    /\ t.at \in {"vadat", "mod_sum"} =>
        Known(t.key) /\ (Present(Path(j), t.stamp) => Present(Path(j), t.key))
    /\ t.at = "mod_sum" /\ Present(Path(j), t.key) => Halfway(j) \in past[Path(j)]
    /\ t.at = "after" /\ Present(Path(j), t.stamp) => t.content \in past[Path(j)]
    /\ t.at \in {"write", "append"} => t.content \in past[Path(j)]
    /\ t.at \in {"read", "upsert"} => t.todo # <<>>
    /\ t.at = "read" => Known(t.key)

(* A worker that moves on knows where it read what it takes along. *)
LEMMA WorkerReads ==
    ASSUME TaskInv, NEW j \in Jobs, Works(j), Effect(j), Alone(j), UNCHANGED disk
    PROVE  ThreadTrue(j)'
<1>1. CASE thread'[j].at \in {"none", "gone", "next", "dbfailed", "stat", "last", "pick", "remove"}
  BY <1>1 DEF ThreadTrue, Reading
<1>2. CASE UNCHANGED store /\ Moves(j)
  <2>1. thread[j] \in Threads /\ thread'[j] \in Threads
    BY WorkerFacts DEF Alone, ThreadsOK
  <2>2. ThreadTrue(j)
    BY DEF TaskInv, ReadsTrue, ThreadTrue
  <2>3. files' = files /\ past' = past /\ writes' = writes /\ jobs' = jobs
    BY <1>2 DEF disk, store
  <2>4. \A n \in Models : files[n] \in Pairs /\ files[n] \in past[n] /\ Known(files[n])
    BY DEF TaskInv, TypesOK, DiskOK, DiskKnown
  <2>5. CASE thread[j].at = "stat" /\ thread'[j].at = "lookup"
    <3>1. Path(j) \in Models /\ thread'[j].stamp = files[Path(j)] /\ files[Path(j)].mod_sum # 0
      BY <1>2, <2>5, PathFacts DEF Moves, Reading, Complete
    <3> QED  BY <2>3, <2>4, <2>5, <3>1 DEF ThreadTrue, Known
  <2>6. CASE thread[j].at = "lookup" /\ thread'[j].at = "vadat"
    <3>1. /\ Path(j) \in Models /\ thread'[j].key = files[Path(j)] /\ Still(j)
          /\ Known(thread[j].stamp) /\ thread[j].stamp.mod_sum # 0
      BY <1>2, <2>2, <2>6, PathFacts DEF Moves, Reading, ThreadTrue
    <3>2. Path(j)' = Path(j)
      BY <2>3, <3>1 DEF Path, Still
    <3> QED  BY <2>3, <2>4, <2>6, <3>1, <3>2 DEF ThreadTrue, Known, Present, Still
  <2>7. CASE thread[j].at = "vadat" /\ thread'[j].at = "mod_sum"
    <3>1. /\ Path(j) \in Models /\ files[Path(j)] \in Pairs /\ Still(j)
          /\ thread'[j].key = thread[j].key
          /\ thread'[j].content = [thread[j].content EXCEPT !.vadat = files[Path(j)].vadat]
      BY <1>2, <2>7, PathFacts DEF Moves, Reading
    <3>2. Path(j)' = Path(j)
      BY <2>3, <3>1 DEF Path, Still
    <3>3. Halfway(j)' = files[Path(j)]
      <4>1. thread[j].content \in Pairs
        BY <2>1 DEF Threads
      <4> QED  BY <2>3, <3>1, <3>2, <4>1 DEF Halfway, Pairs
    <3>4. /\ Known(thread[j].stamp) /\ thread[j].stamp.mod_sum # 0 /\ Known(thread[j].key)
          /\ Present(Path(j), thread[j].stamp) => Present(Path(j), thread[j].key)
      BY <2>2, <2>7 DEF ThreadTrue, Reading
    <3> QED  BY <2>3, <2>4, <2>7, <3>1, <3>2, <3>3, <3>4 DEF ThreadTrue, Known, Present, Still
  <2>8. CASE thread[j].at = "vadat" /\ thread'[j].at = "after"
    <3>1. Path(j) \in Models /\ Still(j) /\ Remembers(Path(j), thread[j].key, thread'[j].content)
      BY <1>2, <2>8, PathFacts DEF Moves, Reading
    <3>2. Path(j)' = Path(j)
      BY <2>3, <3>1 DEF Path, Still
    <3>3. Present(Path(j), thread[j].key) => thread'[j].content \in past[Path(j)]
      <4> DEFINE c == [model |-> Path(j), key |-> thread[j].key, content |-> thread'[j].content]
      <4>1. c \in memo /\ c.model = Path(j) /\ c.key = thread[j].key /\ c.content = thread'[j].content
        BY <3>1 DEF Remembers
      <4> HIDE DEF c
      <4> QED  BY <4>1 DEF TaskInv, MemoTrue
    <3>4. /\ Known(thread[j].stamp) /\ thread[j].stamp.mod_sum # 0
          /\ Present(Path(j), thread[j].stamp) => Present(Path(j), thread[j].key)
      BY <2>2, <2>8 DEF ThreadTrue, Reading
    <3> QED  BY <2>3, <2>8, <3>1, <3>2, <3>3, <3>4 DEF ThreadTrue, Known, Present, Still
  <2>9. CASE thread[j].at = "mod_sum" /\ thread'[j].at = "after"
    <3>1. Path(j) \in Models /\ Still(j) /\ thread'[j].content = Halfway(j)
      BY <1>2, <2>9, PathFacts DEF Moves, Reading
    <3>2. Path(j)' = Path(j)
      BY <2>3, <3>1 DEF Path, Still
    <3>3. /\ Known(thread[j].stamp) /\ thread[j].stamp.mod_sum # 0
          /\ Present(Path(j), thread[j].stamp) => Halfway(j) \in past[Path(j)]
      BY <2>2, <2>9 DEF ThreadTrue, Reading
    <3> QED  BY <2>3, <2>9, <3>1, <3>2, <3>3 DEF ThreadTrue, Known, Present, Still
  <2>10. CASE thread[j].at = "after" /\ thread'[j].at = "write"
    <3>1. /\ Path(j) \in Models /\ Still(j) /\ thread'[j].content = thread[j].content
          /\ files[Path(j)] = thread[j].stamp
      BY <1>2, <2>10, PathFacts DEF Moves, Reading
    <3>2. Path(j)' = Path(j)
      BY <2>3, <3>1 DEF Path, Still
    <3>3. /\ Known(thread[j].stamp) /\ thread[j].stamp.mod_sum # 0
          /\ Present(Path(j), thread[j].stamp) => thread[j].content \in past[Path(j)]
      BY <2>2, <2>10 DEF ThreadTrue, Reading
    <3> QED  BY <2>3, <2>10, <3>1, <3>2, <3>3 DEF ThreadTrue, Known, Present, Still
  <2>11. CASE thread[j].at = "write" /\ thread'[j].at = "append"
    <3>1. Still(j) /\ thread'[j].content = thread[j].content
      BY <1>2, <2>11 DEF Moves
    <3>2. Path(j)' = Path(j)
      BY <2>3, <3>1 DEF Path, Still
    <3>3. /\ Known(thread[j].stamp) /\ thread[j].stamp.mod_sum # 0
          /\ thread[j].content \in past[Path(j)]
      BY <2>2, <2>11 DEF ThreadTrue, Reading
    <3> QED  BY <2>3, <2>11, <3>1, <3>2, <3>3 DEF ThreadTrue, Known, Present, Still
  <2>12. CASE thread[j].at = "pick" /\ thread'[j].at = "read"
    <3>1. thread'[j].todo # <<>> /\ thread'[j].key = files[Refreshed(j)] /\ Refreshed(j) \in Models
      BY <1>2, <2>1, <2>12 DEF Moves, Refreshed, Threads
    <3> QED  BY <2>3, <2>4, <2>12, <3>1 DEF ThreadTrue, Known, Reading
  <2>13. CASE thread[j].at = "read" /\ thread'[j].at = "upsert"
    <3>1. thread'[j].todo # <<>>
      BY <1>2, <2>2, <2>13 DEF Moves, ThreadTrue
    <3> QED  BY <2>13, <3>1 DEF ThreadTrue, Reading
  <2> QED  BY <1>1, <1>2, <2>5, <2>6, <2>7, <2>8, <2>9, <2>10, <2>11, <2>12, <2>13 DEF Moves
<1> QED  BY <1>1, <1>2 DEF Effect, Works

(* A thread that does not move while the files of a model change keeps what it knows. *)
LEMMA IdleReads ==
    ASSUME TaskInv, NEW m \in Models, Changes(m), NEW j \in Jobs
    PROVE  ThreadTrue(j)'
<1>1. thread' = thread /\ jobs' = jobs /\ ThreadTrue(j) /\ Path(j)' = Path(j)
  BY DEF Changes, store, Path, TaskInv, ReadsTrue, ThreadTrue
<1>2. writes \in Nat /\ writes' \in Nat /\ writes <= writes'
  BY TaskAssumption DEF Changes, TaskInv, TypesOK, DiskOK
<1>3. /\ thread[j].key \in Pairs /\ thread[j].key.mod_sum \in Nat
      /\ thread[j].stamp \in Pairs /\ thread[j].stamp.mod_sum \in Nat
  BY DEF TaskInv, TypesOK, ThreadsOK, Threads, Pairs
<1>4. CASE thread[j].at \in Reading
  <2>1. Path(j) \in Models /\ past[Path(j)] \subseteq past'[Path(j)]
    BY <1>4, PathFacts DEF Changes
  <2>2. ASSUME NEW pair, Known(pair), pair.mod_sum \in Nat, pair.mod_sum # 0,
               pair.mod_sum = files'[Path(j)].mod_sum
        PROVE  Present(Path(j), pair) /\ files'[Path(j)].mod_sum = files[Path(j)].mod_sum
    BY <2>1, <2>2, StillPresent
  <2>3. CASE thread[j].at \in {"stat", "lookup", "write", "append"}
    BY <1>1, <1>2, <1>3, <2>1, <2>3 DEF ThreadTrue, Known, Reading
  <2>4. CASE thread[j].at \in {"vadat", "mod_sum", "after"}
    <3>1. Known(thread[j].stamp) /\ Known(thread[j].stamp)' /\ thread[j].stamp.mod_sum # 0
      BY <1>1, <1>2, <1>3, <2>4 DEF ThreadTrue, Known, Reading
    <3>2. Present(Path(j), thread[j].stamp)' =>
            Present(Path(j), thread[j].stamp) /\ files'[Path(j)].mod_sum = files[Path(j)].mod_sum
      BY <1>1, <1>3, <2>2, <3>1 DEF Present
    <3>3. CASE thread[j].at = "after"
      BY <1>1, <2>1, <3>1, <3>2, <3>3 DEF ThreadTrue
    <3>4. CASE thread[j].at \in {"vadat", "mod_sum"}
      <4>1. Known(thread[j].key) /\ Known(thread[j].key)'
        BY <1>1, <1>2, <1>3, <3>4 DEF ThreadTrue, Known
      <4>2. Present(Path(j), thread[j].key)' =>
              Present(Path(j), thread[j].key) /\ files'[Path(j)].mod_sum = files[Path(j)].mod_sum
        BY <1>1, <1>3, <2>2, <4>1 DEF Present
      <4>3. Present(Path(j), thread[j].stamp)' => Present(Path(j), thread[j].key)'
        BY <1>1, <3>2, <3>4 DEF ThreadTrue, Present
      <4>4. thread[j].at = "mod_sum" /\ Present(Path(j), thread[j].key)' => Halfway(j)' \in past'[Path(j)]
        BY <1>1, <2>1, <4>2 DEF ThreadTrue, Halfway
      <4> QED  BY <1>1, <3>1, <3>4, <4>1, <4>3, <4>4 DEF ThreadTrue
    <3> QED  BY <2>4, <3>3, <3>4
  <2> QED  BY <1>4, <2>3, <2>4 DEF Reading
<1>5. CASE thread[j].at \notin Reading
  BY <1>1, <1>2, <1>3, <1>5 DEF ThreadTrue, Reading, Known
<1> QED  BY <1>4, <1>5

(* What the threads and the visit have read was on disk. *)
LEMMA ReadsStep ==
    ASSUME TaskInv, [Next]_vars
    PROVE  ReadsTrue'
<1>0. /\ \A i \in Jobs : ThreadTrue(i)
      /\ \A i \in Jobs : Works(i) => i \in Live /\ i \in Stored
  BY DEF TaskInv, ReadsTrue, ThreadTrue, SlotKept, Live
<1>1. ASSUME NEW i \in Jobs, thread'[i].at \in {"none", "gone", "created"} PROVE ThreadTrue(i)'
  BY <1>1 DEF ThreadTrue, Reading
<1>2. ASSUME NEW i \in Jobs, Works(i) => jobs'[i].selected = jobs[i].selected,
             thread' = thread, UNCHANGED disk
      PROVE  ThreadTrue(i)'
  <2>1. CASE Works(i)
    <3>1. Path(i)' = Path(i)
      BY <1>2, <2>1 DEF Path
    <3> QED  BY <1>0, <1>2, <3>1 DEF ThreadTrue, disk, Known, Present, Halfway
  <2>2. CASE ~Works(i)
    BY <1>1, <1>2, <2>2 DEF Works
  <2> QED  BY <2>1, <2>2
<1>3. \A i \in Jobs : ThreadTrue(i)'
  <2>1. ASSUME NEW j \in Jobs, NEW kind \in Kinds, NEW selected \in Seq(Models),
               Creates(j, kind, selected), NEW i \in Jobs
        PROVE  ThreadTrue(i)'
    <3>1. thread'[i].at \in {"none", "gone", "created"}
      BY <2>1 DEF Creates, NoThread, TaskInv, TypesOK, ThreadsOK, SlotKept, Works
    <3> QED  BY <1>1, <3>1
  <2>2. ASSUME NEW j \in Jobs, Cancels(j), UNCHANGED <<disk, cache, memo, thread, visit>>, NEW i \in Jobs
        PROVE  ThreadTrue(i)'
    <3>1. Works(i) => jobs'[i].selected = jobs[i].selected
      BY <1>0, <2>2 DEF Cancels, Same
    <3> QED  BY <1>2, <2>2, <3>1
  <2>3. ASSUME NEW j \in Jobs, Works(j), Effect(j), Alone(j), UNCHANGED <<disk, visit>>, NEW i \in Jobs
        PROVE  ThreadTrue(i)'
    <3>1. CASE i = j
      BY <2>3, <3>1, WorkerReads
    <3>2. CASE i # j
      <4>1. thread'[i].at \in {"none", "gone", "created"}
        BY <2>3, <3>2, WorkerFacts DEF Alone, Works
      <4> QED  BY <1>1, <4>1
    <3> QED  BY <3>1, <3>2
  <2>4. ASSUME Forgets, NEW i \in Jobs PROVE ThreadTrue(i)'
    <3>1. Works(i) => jobs'[i].selected = jobs[i].selected
      BY <1>0, <2>4 DEF Forgets, Same, Live
    <3> QED  BY <1>2, <2>4, <3>1 DEF Forgets
  <2>5. ASSUME Loses, NEW i \in Jobs PROVE ThreadTrue(i)'
    BY <1>1, <2>5 DEF Loses, NoThread
  <2>6. ASSUME UNCHANGED <<store, disk, thread>>, NEW i \in Jobs PROVE ThreadTrue(i)'
    BY <1>2, <2>6 DEF store
  <2> QED  BY <2>1, <2>2, <2>3, <2>4, <2>5, <2>6, StepCases, IdleReads
<1>4. (visit.at = "read" => Known(visit.key))'
  <2>1. writes' >= writes /\ writes \in Nat /\ writes' \in Nat
    <3>1. writes' = writes \/ \E m \in Models : Changes(m)
      BY StepCases DEF Creates, Forgets, Loses, disk
    <3>2. writes \in Nat /\ writes + 1 \in Nat
      BY TaskAssumption DEF TaskInv, TypesOK, DiskOK
    <3> QED  BY <3>1, <3>2 DEF Changes
  <2>2. visit'.at = "read" => visit' = visit \/ \E m \in Models : visit'.key = files[m]
    <3>1. ASSUME NEW m \in Worked, Visit(m)
          PROVE  visit'.at = "read" => m \in Models /\ visit'.key = files[m]
      <4>1. visit = NoVisit
        BY <3>1 DEF Visit, TaskInv, TypesOK, VisitOK
      <4> QED  BY <3>1, <4>1, TaskAssumption DEF Visit, NoVisit
    <3>2. VisitReads => visit'.at # "read"
      BY DEF VisitReads, TaskInv, TypesOK, VisitOK, NoVisit
    <3>3. VisitUpserts \/ Restart => visit'.at # "read"
      BY DEF VisitUpserts, Restart, NoVisit
    <3>4. ASSUME NEW m \in Worked, Write(m) \/ Withdraw(m) \/ PutBack(m) \/ Invalidate(m)
          PROVE  visit' = visit
      BY <3>4, FileSteps DEF Changes, Invalidate
    <3>5. DeleteNamespace \/ Watch \/ UNCHANGED vars => visit' = visit
      BY DEF DeleteNamespace, Watch, vars
    <3>6. \A j \in Jobs, kind \in Kinds, selected \in Seq(Models) :
              Create(j, Payload(kind, selected)) => visit' = visit
      BY DEF Create
    <3>7. \A j \in Jobs : Cancel(j) \/ Work(j) => visit' = visit
      BY WorkCases DEF Cancel
    <3> QED  BY <3>1, <3>2, <3>3, <3>4, <3>5, <3>6, <3>7, NextCases DEF VisitStep
  <2>3. \A m \in Models : files[m].mod_sum \in Nat /\ files[m].mod_sum <= writes + 1
    BY DEF TaskInv, TypesOK, DiskOK, DiskKnown, Known, Pairs
  <2>4. visit.at = "read" => visit.key.mod_sum \in Nat /\ visit.key.mod_sum <= writes + 1
    BY DEF TaskInv, TypesOK, VisitOK, ReadsTrue, Known, NoVisit, Pairs
  <2> QED  BY <2>1, <2>2, <2>3, <2>4 DEF Known
<1> QED  BY <1>3, <1>4 DEF ReadsTrue, ThreadTrue

(* The cache keeps its types. *)
LEMMA CacheStep ==
    ASSUME TaskInv, [Next]_vars
    PROVE  CacheOK'
<1>1. ASSUME cache' = cache PROVE CacheOK'
  BY <1>1 DEF TaskInv, TypesOK, CacheOK
<1>2. ASSUME NEW m \in Models, NEW stamp \in Pairs, NEW content \in Pairs, Upsert(m, stamp, content)
      PROVE  CacheOK'
  BY <1>2 DEF TaskInv, TypesOK, CacheOK, Upsert, Entry
<1>3. ASSUME NEW S, Delete(S) PROVE CacheOK'
  BY <1>3 DEF TaskInv, TypesOK, CacheOK, Delete
<1>4. \A m \in Models : files[m] \in Pairs
  BY DEF TaskInv, TypesOK, DiskOK
<1>5. ASSUME NEW j \in Jobs, Commit(j) PROVE CacheOK'
  <2>1. thread[j].at \in Reading /\ Upsert(Path(j), thread[j].stamp, thread[j].content)
    BY <1>5 DEF Commit, At, Reading
  <2>2. Path(j) \in Models /\ thread[j] \in Threads
    BY <2>1, PathFacts, WorkerFacts
  <2>3. thread[j].stamp \in Pairs /\ thread[j].content \in Pairs
    BY <2>2 DEF Threads
  <2> QED  BY <1>2, <2>1, <2>2, <2>3
<1>6. ASSUME NEW j \in Jobs, RefreshUpsert(j) PROVE CacheOK'
  <2>1. thread[j].at = "upsert" /\ thread[j].todo # <<>> /\ Works(j)
    BY <1>6 DEF RefreshUpsert, At, TaskInv, ReadsTrue, Works
  <2>2. thread[j] \in Threads
    BY <2>1, WorkerFacts
  <2>3. Refreshed(j) \in Models /\ thread[j].content \in Pairs
    BY <2>1, <2>2 DEF Threads, Refreshed
  <2> QED  BY <1>1, <1>2, <1>4, <1>6, <2>3 DEF RefreshUpsert
<1>7. ASSUME NEW j \in Jobs, Work(j) PROVE CacheOK'
  <2>1. cache' = cache \/ Commit(j) \/ RefreshUpsert(j) \/ Delete(Range(thread[j].todo))
    BY <1>7 DEF Work, BulkStep, MaintenanceStep, ThreadFails, Begin, NextFolder, StatFolder,
         Lookup, ReadVadat, ReadModSum, StatAgain, AppendRow, BadData, DatabaseFails,
         Stop, EndOfJob, Inspect, RemoveMissing, PickStale, Refresh
  <2> QED  BY <1>1, <1>3, <1>5, <1>6, <2>1
<1>8. ASSUME VisitStep PROVE CacheOK'
  <2>1. cache' = cache \/ VisitUpserts
    BY <1>8 DEF VisitStep, Visit, VisitReads
  <2>2. VisitUpserts => visit.model \in Models /\ visit.content \in Pairs
    BY DEF VisitUpserts, TaskInv, TypesOK, VisitOK, NoVisit
  <2> QED  BY <1>1, <1>2, <1>4, <2>1, <2>2 DEF VisitUpserts
<1>9. ASSUME DeleteNamespace PROVE CacheOK'
  <2>1. DOMAIN cache' = {}
    BY <1>9 DEF DeleteNamespace, NoEntries
  <2> QED  BY <2>1 DEF CacheOK
<1>10. ASSUME (\E m \in Worked : Write(m) \/ Withdraw(m) \/ PutBack(m)) \/ Watch \/ Restart
              \/ UNCHANGED vars \/ \E j \in Jobs : Cancel(j) \/ \E payload : Create(j, payload)
       PROVE  cache' = cache
  <2>1. \A m \in Worked : Write(m) \/ Withdraw(m) \/ PutBack(m) => cache' = cache
    BY FileSteps DEF Changes
  <2> QED  BY <1>10, <2>1 DEF Watch, Restart, vars, Create, Cancel
<1> QED  BY <1>1, <1>3, <1>7, <1>8, <1>9, <1>10, NextCases DEF Invalidate

(* The visit keeps its types. *)
LEMMA VisitOKStep ==
    ASSUME TaskInv, [Next]_vars
    PROVE  VisitOK'
<1>1. ASSUME visit' = visit \/ visit' = NoVisit PROVE VisitOK'
  BY <1>1 DEF TaskInv, TypesOK, VisitOK, NoVisit
<1>2. \A m \in Models : files[m] \in Pairs
  BY DEF TaskInv, TypesOK, DiskOK
<1>3. Blank \in Pairs
  BY DEF Blank, Pairs
<1>4. ASSUME NEW m \in Worked, Visit(m) PROVE VisitOK'
  <2>1. visit = NoVisit /\ m \in Models
    BY <1>4, TaskAssumption DEF Visit, TaskInv, TypesOK, VisitOK
  <2>2. visit' = [NoVisit EXCEPT !.at = "read", !.model = m, !.key = files[m]]
    BY <1>4, <2>1 DEF Visit
  <2> QED  BY <1>2, <1>3, <2>1, <2>2 DEF VisitOK, NoVisit
<1>5. ASSUME VisitReads PROVE VisitOK'
  <2>1. visit \in [at: {"read", "upsert"}, model: Models, key: Pairs, content: Pairs]
    BY <1>5 DEF VisitReads, TaskInv, TypesOK, VisitOK, NoVisit
  <2>2. \A c \in memo : c.content \in Pairs
    BY DEF TaskInv, TypesOK, MemoOK
  <2>3. PICK content \in {files[visit.model]} \cup {c.content : c \in memo} :
            visit' = [visit EXCEPT !.at = "upsert", !.content = content, !.key = Blank]
    BY <1>5 DEF VisitReads
  <2>4. content \in Pairs
    BY <1>2, <2>1, <2>2, <2>3
  <2> QED  BY <1>3, <2>1, <2>3, <2>4 DEF VisitOK
<1>6. VisitUpserts \/ Restart => visit' = NoVisit
  BY DEF VisitUpserts, Restart
<1>7. ASSUME NEW m \in Worked, Write(m) \/ Withdraw(m) \/ PutBack(m) \/ Invalidate(m)
      PROVE  visit' = visit
  BY <1>7, FileSteps DEF Changes, Invalidate
<1>8. DeleteNamespace \/ Watch \/ UNCHANGED vars => visit' = visit
  BY DEF DeleteNamespace, Watch, vars
<1>9. \A j \in Jobs, kind \in Kinds, selected \in Seq(Models) :
        Create(j, Payload(kind, selected)) => visit' = visit
  BY DEF Create
<1>10. \A j \in Jobs : Cancel(j) \/ Work(j) => visit' = visit
  BY WorkCases DEF Cancel
<1> QED  BY <1>1, <1>4, <1>5, <1>6, <1>7, <1>8, <1>9, <1>10, NextCases DEF VisitStep

-----------------------------------------------------------------------------
(* The theorems.                                                           *)

(* The invariant holds when the program starts. *)
LEMMA InitTasks == Init => TaskInv
<1> SUFFICES ASSUME Init PROVE TaskInv
  OBVIOUS
<1>1. /\ jobs = << >> /\ ended = <<>> /\ cache = << >> /\ memo = {} /\ writes = 0
      /\ files = [m \in Models |-> [vadat |-> 1, mod_sum |-> 1]]
      /\ past = [m \in Models |-> {files[m]}]
      /\ thread = [j \in Jobs |-> NoThread] /\ visit = NoVisit
  BY DEF Init, StoreInit
<1>2. DOMAIN << >> = {} /\ <<>> \in Seq(Jobs) /\ <<>> \in Seq(Models)
  OBVIOUS
<1>3. Stored = {} /\ Live = {} /\ Range(ended) = {}
  BY <1>1, <1>2 DEF Stored, Live, Range
<1>4. JobsOK
  BY <1>1, <1>2, <1>3 DEF JobsOK, StoreOK
<1>5. NoThread \in Threads
  BY <1>2 DEF NoThread, Blank, Threads, Points, Pairs
<1>6. ThreadsOK
  BY <1>1, <1>5 DEF ThreadsOK
<1>7. DiskOK /\ DiskKnown
  <2>1. files \in [Models -> Pairs] /\ \A m \in Models : files[m].mod_sum = 1
    BY <1>1 DEF Pairs
  <2>2. past \in [Models -> SUBSET Pairs] /\ \A m \in Models : files[m] \in past[m]
    BY <1>1, <2>1
  <2> QED  BY <1>1, <2>1, <2>2, TaskAssumption DEF DiskOK, DiskKnown, Known
<1>8. CacheOK
  BY <1>1, <1>2 DEF CacheOK
<1>9. MemoOK /\ MemoTrue /\ VisitOK
  BY <1>1 DEF MemoOK, MemoTrue, VisitOK
<1>10. \A j \in Jobs : thread[j].at = "none"
  BY <1>1 DEF NoThread
<1>11. SlotKept /\ Counted /\ Accounts
  BY <1>3, <1>10 DEF SlotKept, Counted, CancelStopsSoon, Accounts, Works, Bulk, Reading
<1>12. ReadsTrue
  BY <1>1, <1>10 DEF ReadsTrue, Reading, NoVisit
<1> QED  BY <1>4, <1>6, <1>7, <1>8, <1>9, <1>11, <1>12 DEF TaskInv, TypesOK

(* What is known of jobs, threads, files, cache and requests holds in every state, for any
   folders, selections and number of jobs. *)
THEOREM TaskInvariant == Spec => []TaskInv
<1>1. ASSUME TaskInv, [Next]_vars PROVE TaskInv'
  BY <1>1, JobsStep, ThreadsStep, DiskStep, CacheStep, MemoStep, VisitOKStep, SlotStep,
     CountedStep, ReadsStep, AccountsStep DEF TaskInv, TypesOK
<1> QED  BY <1>1, InitTasks, PTL DEF Spec

(* run_summary_job stops after the folder it is at when a cancellation is requested: however
   the request falls between two steps of the worker, at most one more folder is counted. *)
THEOREM CancellationsStop == Spec => []CancelStopsSoon
<1>1. TaskInv => CancelStopsSoon
  BY DEF TaskInv, Counted
<1> QED  BY <1>1, TaskInvariant, PTL

(* What run_summary_job stores and reports of a folder is a pair of versions that was on disk
   together, whoever writes, withdraws or puts back files while it reads, and whatever
   read_model remembers from before. *)
THEOREM BulkNeverMixes == Spec => []BulkReadsConsistent
<1>1. TaskInv => BulkReadsConsistent
  BY DEF TaskInv, ReadsTrue, BulkReadsConsistent, At
<1> QED  BY <1>1, TaskInvariant, PTL

(* The invariant gives the types that the runs check. *)
LEMMA TypesGiven == TaskInv => TypeOK
<1> SUFFICES ASSUME TaskInv PROVE TypeOK
  OBVIOUS
<1> USE DEF TaskInv, TypesOK
<1>1. Stored \subseteq Jobs /\ Range(ended) = Stored \ Live
  BY DEF JobsOK, StoreOK
<1>2. \A j \in Stored : jobs[j].status \in Statuses /\ jobs[j].cancel \in BOOLEAN
  BY DEF JobsOK, Payloads
<1>3. \A j \in Jobs : /\ thread[j].at \in Points /\ thread[j].content \in Pairs
                      /\ {thread[j].stamp, thread[j].key} \subseteq Pairs
                      /\ thread[j].todo \in Seq(Models)
  BY DEF ThreadsOK, Threads
<1>4. visit.at \in {"idle", "read", "upsert"}
  BY DEF VisitOK, NoVisit
<1> QED  BY <1>1, <1>2, <1>3, <1>4 DEF TypeOK, DiskOK, CacheOK, MemoOK

(* summary_job_retry_paths leaves out no folder that a finished job has not reported and repeats
   none that it has. *)
THEOREM RetriesComplete == Spec => []RetryCompletes
<1>1. ASSUME TaskInv, NEW j \in Stored \ Live
      PROVE  /\ jobs[j].done \cup Range(RetryPaths(jobs[j])) = Range(jobs[j].selected)
             /\ jobs[j].done \cap Range(RetryPaths(jobs[j])) = {}
  <2> DEFINE s == jobs[j].selected
             n == jobs[j].processed
  <2>1. /\ jobs[j] \in Payloads /\ IsInjective(s) /\ n <= Len(s)
        /\ jobs[j].done \cup jobs[j].failures = {s[k] : k \in 1 .. n}
        /\ jobs[j].done \cap jobs[j].failures = {}
    BY <1>1 DEF TaskInv, TypesOK, JobsOK, Accounts
  <2>2. Range(RetryPaths(jobs[j])) = jobs[j].failures \cup {s[k] : k \in n + 1 .. Len(s)}
    BY <2>1, RetryListed
  <2>3. s \in Seq(Models) /\ n \in Nat /\ Len(s) \in Nat /\ DOMAIN s = 1 .. Len(s)
    BY <2>1 DEF Payloads
  <2> HIDE DEF s, n
  <2>4. {s[k] : k \in 1 .. n} \cap {s[k] : k \in n + 1 .. Len(s)} = {}
    <3>1. \A i \in 1 .. n, k \in n + 1 .. Len(s) : s[i] # s[k]
      <4> SUFFICES ASSUME NEW i \in 1 .. n, NEW k \in n + 1 .. Len(s), s[i] = s[k] PROVE FALSE
        OBVIOUS
      <4>1. i \in DOMAIN s /\ k \in DOMAIN s /\ i # k
        BY <2>1, <2>3
      <4> QED  BY <2>1, <4>1 DEF IsInjective
    <3> QED  BY <3>1
  <2>5. {s[k] : k \in 1 .. n} \cup {s[k] : k \in n + 1 .. Len(s)} = Range(s)
    <3>1. 1 .. Len(s) = (1 .. n) \cup (n + 1 .. Len(s))
      BY <2>1, <2>3
    <3> QED  BY <2>3, <3>1 DEF Range
  <2>6. /\ jobs[j].done \cup Range(RetryPaths(jobs[j])) = Range(s)
        /\ jobs[j].done \cap Range(RetryPaths(jobs[j])) = {}
    BY <2>1, <2>2, <2>4, <2>5
  <2> QED  BY <2>6 DEF s
<1>2. TaskInv => RetryCompletes
  BY <1>1, TypesGiven DEF RetryCompletes
<1> QED  BY <1>2, TaskInvariant, PTL

\* The job in the slot.
Runs == IF Live = {} THEN Nobody ELSE CHOOSE j \in Live : TRUE
(* That is Nobody or the only job that runs. *)
LEMMA RunningJob ==
    ASSUME TaskInv
    PROVE  /\ Live = {} => Runs = Nobody
           /\ \A j \in Jobs : Live = {j} => Runs = j /\ Runs # Nobody
<1>1. \A j \in Jobs : Live = {j} => (CHOOSE i \in Live : TRUE) = j
  OBVIOUS
<1> QED  BY <1>1, StoreAssumption DEF Runs

(* The job store as the web pages see it is one slot with a list of results: every step of
   jobs, requests and restarts creates a job in the free slot, finishes the one in it, forgets
   the oldest results, loses everything, or leaves slot and results alone. *)
THEOREM StoreIsOneSlot == Spec => ImplementsLifecycle
<1> DEFINE Slot == <<Runs, ended>>
           Creating == \E j \in Jobs, k \in 0 .. Len(ended) :
                            Runs = Nobody /\ Runs' = j /\ ended' = Kept(k)
           Finishing == Runs # Nobody /\ ended' = Append(ended, Runs) /\ Runs' = Nobody
           Forgetting == \E k \in 1 .. Len(ended) : ended' = Kept(k) /\ Runs' = Runs
           Restarting == Runs' = Nobody /\ ended' = <<>>
<1>1. Init => Runs = Nobody /\ ended = <<>>
  <2>1. DOMAIN << >> = {}
    OBVIOUS
  <2> QED  BY <2>1 DEF Init, StoreInit, Runs, Live, Stored
<1>2. ASSUME TaskInv, TaskInv', [Next]_vars
      PROVE  Creating \/ Finishing \/ Forgetting \/ Restarting \/ UNCHANGED Slot
  <2>0. /\ Live' = {} => Runs' = Nobody
        /\ \A j \in Jobs : Live' = {j} => Runs' = j /\ Runs' # Nobody
    <3>1. \A j \in Jobs : Live' = {j} => (CHOOSE i \in Live' : TRUE) = j
      OBVIOUS
    <3> QED  BY <3>1, StoreAssumption DEF Runs
  <2>1. ASSUME NEW j \in Jobs, NEW kind \in Kinds, NEW selected \in Seq(Models),
               Creates(j, kind, selected)
        PROVE  Creating
    <3>1. Runs = Nobody /\ Runs' = j /\ \E k \in 0 .. Len(ended) : ended' = Kept(k)
      BY <1>2, <2>0, <2>1, RunningJob DEF Creates
    <3> QED  BY <3>1
  <2>2. ASSUME Live' = Live, ended' = ended PROVE UNCHANGED Slot
    BY <2>2 DEF Runs
  <2>3. ASSUME NEW j \in Jobs, Works(j), Effect(j) PROVE Finishing \/ UNCHANGED Slot
    <3>1. CASE Ends(j)
      <4>1. Runs = j /\ Runs # Nobody /\ Runs' = Nobody
        BY <1>2, <2>0, <2>3, <3>1, RunningJob, WorkerFacts DEF Ends
      <4> QED  BY <3>1, <4>1 DEF Ends
    <3>2. CASE Advances(j)
      BY <2>2, <3>2 DEF Advances
    <3>3. CASE UNCHANGED store
      <4>1. Live' = Live /\ ended' = ended
        BY <3>3 DEF store, Live, Stored
      <4> QED  BY <2>2, <4>1
    <3> QED  BY <2>3, <3>1, <3>2, <3>3 DEF Effect
  <2>4. ASSUME Forgets PROVE Forgetting
    <3>1. Runs' = Runs /\ \E k \in 1 .. Len(ended) : ended' = Kept(k)
      BY <2>4 DEF Forgets, Runs
    <3> QED  BY <3>1
  <2>5. ASSUME Loses PROVE Restarting
    BY <2>0, <2>5 DEF Loses
  <2>6. ASSUME UNCHANGED store PROVE UNCHANGED Slot
    <3>1. Live' = Live /\ ended' = ended
      BY <2>6 DEF store, Live, Stored
    <3> QED  BY <2>2, <3>1
  <2>7. ASSUME NEW j \in Jobs, Cancels(j) PROVE UNCHANGED Slot
    BY <2>2, <2>7 DEF Cancels
  <2> HIDE DEF Slot, Creating, Finishing, Forgetting, Restarting
  <2> QED  BY <1>2, <2>1, <2>3, <2>4, <2>5, <2>6, <2>7, StepCases DEF Changes
<1>3. Runs = Nobody /\ ended = <<>> => Abstract!Empty
  BY DEF Abstract!Empty, Runs
<1>4. Creating \/ Finishing \/ Forgetting \/ Restarting \/ UNCHANGED Slot
        => [Abstract!Create \/ Abstract!Finish \/ Abstract!Forget \/ Abstract!Restart]_(Abstract!lifecycle)
  BY DEF Abstract!Create, Abstract!Finish, Abstract!Forget, Abstract!Restart,
         Abstract!lifecycle, Abstract!Kept, Kept, Runs
<1> HIDE DEF Slot, Creating, Finishing, Forgetting, Restarting
<1> QED  BY <1>1, <1>2, <1>3, <1>4, TaskInvariant, PTL
         DEF Spec, ImplementsLifecycle, Abstract!Lifecycle
=============================================================================
