----------------------------- MODULE GridSearch -----------------------------
(***************************************************************************)
(* Grid searches for an uploaded spectrum (grid_jobs.py, grid_views.py):   *)
(* a worker thread per search fits the candidates one by one or in a pool  *)
(* of processes and reports to the job store of grid searches, where the   *)
(* pages read progress and ask it to stop.  The store belongs to           *)
(* JobStore.tla; every change of it ends, under its lock, with a change    *)
(* notification (live_events.py), which is a step of its own here.         *)
(*                                                                         *)
(* A fit is its candidate's place in the order of results and its rmse.    *)
(***************************************************************************)
EXTENDS JobStore, TLC

CONSTANTS
    Total,   \* candidates of a search
    Scores,  \* values of rmse
    Top      \* GRID_SEARCH_TOP_RESULTS

ASSUME SearchAssumption ==
    /\ Total \in Nat \ {0} /\ Top \in Nat \ {0} /\ Scores \subseteq Nat

VARIABLES
    thread,    \* the worker of each search
    signal,    \* ChangeSignal._version
    notifying  \* the store has changed and its lock is held to notify

search == <<store, thread, signal, notifying>>

Fits == [place: 1 .. Total, rmse: Scores]
NoFit == [place |-> 0, rmse |-> 0]
NoResult == [best |-> NoFit, top |-> <<>>]
Results == [best: Fits \cup {NoFit}, top: UNION {[1 .. n -> Fits] : n \in 0 .. Top}]
NewWorker == [at |-> "none", n |-> 0, good |-> 0, bad |-> 0, result |-> NoResult, fits |-> {}]

TypeOK ==
    /\ Stored \subseteq Jobs /\ Range(ended) = Stored \ Live
    /\ \A j \in Stored :
        jobs[j] \in [status: {"running", "completed", "canceled", "failed"}, cancel: BOOLEAN,
                     seen: 0 .. Total, processed: 0 .. Total, good: 0 .. Total,
                     bad: 0 .. Total, best: Fits \cup {NoFit}, result: Results]
    /\ thread \in [Jobs -> [at: {"none", "lost", "serial", "check", "fit", "pool", "poll", "next",
                                 "last", "end", "gone"},
                            n: 0 .. Total, good: 0 .. Total, bad: 0 .. Total,
                            result: Results, fits: SUBSET Fits]]
    /\ signal \in Nat /\ notifying \in BOOLEAN

SearchInit ==
    /\ StoreInit
    /\ thread = [j \in Jobs |-> NewWorker]
    /\ signal = 0 /\ notifying = FALSE

-----------------------------------------------------------------------------
(* The store's lock and its notification.                                  *)

Changes == ~notifying /\ notifying' = TRUE /\ UNCHANGED signal
Reads == ~notifying /\ UNCHANGED <<store, signal, notifying>>
Notify ==
    /\ notifying /\ notifying' = FALSE
    /\ signal' = signal + 1
    /\ UNCHANGED <<store, thread>>

-----------------------------------------------------------------------------
(* Requests (grid_views.py).                                               *)

Payload == [status |-> "running", cancel |-> FALSE, seen |-> 0, processed |-> 0,
            good |-> 0, bad |-> 0, best |-> NoFit, result |-> NoResult]

\* A request for an upload whose search is running gets that search.  It looks before it
\* collects the candidates, so a search may have been created meanwhile; job ids are
\* never used again.  Without a thread the new job stays as it is.
StartSearch(j) ==
    /\ thread[j].at = "none"
    /\ \E k \in 0 .. Len(ended) : Add(j, Payload, k)
    /\ \E way \in {"serial", "pool", "lost"} : thread' = [thread EXCEPT ![j].at = way]
    /\ Changes

CancelSearch(j) ==
    /\ j \in Live /\ ~jobs[j].cancel
    /\ RequestCancel(j) /\ Changes /\ UNCHANGED thread

\* Reading a status or the list of tasks prunes the store.
ReadStatus ==
    /\ ~notifying
    /\ \E k \in 1 .. Len(ended) : Prune(k)
    /\ UNCHANGED <<thread, signal, notifying>>

-----------------------------------------------------------------------------
(* The worker.                                                             *)

At(j, point) == thread[j].at = point
Go(j, point) == thread' = [thread EXCEPT ![j].at = point]

\* top_models is appended to, sorted (stably) and cut; best_model only gives way to a
\* fit that is strictly better.
Ranked(top, fit) ==
    InsertAt(top, Cardinality({i \in DOMAIN top : top[i].rmse <= fit.rmse}) + 1, fit)
First(s, n) == SubSeq(s, 1, IF Len(s) > n THEN n ELSE Len(s))
Leading(top, fit) == First(Ranked(top, fit), Top)
Better(best, fit) == IF best = NoFit \/ fit.rmse < best.rmse THEN fit ELSE best

Succeeded(t, fit) ==
    [t EXCEPT !.good = @ + 1, !.fits = @ \cup {fit},
              !.result = [best |-> Better(@.best, fit), top |-> Leading(@.top, fit)]]
Failed(t) == [t EXCEPT !.bad = @ + 1]

Progress(t) == [processed |-> t.n, good |-> t.good, bad |-> t.bad, best |-> t.result.best]
Final(t, n, outcome) ==
    [status |-> outcome, processed |-> n, good |-> t.good, bad |-> t.bad,
     best |-> t.result.best, result |-> t.result]
Conclude(j, n, outcome) ==
    /\ FinishWith(j, Final(thread[j], n, outcome)) /\ Changes
    /\ Go(j, "gone")

\* A finished candidate: counted, ranked, reported.
Outcomes(t) == {Failed(t)} \cup {Succeeded(t, [place |-> t.n, rmse |-> r]) : r \in Scores}
Apply(j, point) == \E t \in Outcomes([thread[j] EXCEPT !.n = @ + 1, !.at = point]) :
    /\ Update(j, Progress(t)) /\ Changes
    /\ thread' = [thread EXCEPT ![j] = t]

\* One after the other: report, look for a cancellation, fit; the fit looks as well
\* and then has no result.
SerialNext(j) ==
    /\ At(j, "serial")
    /\ IF thread[j].n < Total
       THEN Update(j, [processed |-> thread[j].n]) /\ Changes /\ Go(j, "check")
       ELSE Reads /\ Go(j, "last")
SerialCheck(j) ==
    /\ At(j, "check")
    /\ IF CancelRequested(j) THEN Conclude(j, thread[j].n, "canceled")
       ELSE Reads /\ Go(j, "fit")
\* The interrupted candidate is not processed.
Interrupted(index) == index - 1
WithInterrupted(index) == index
CountedInterrupted(t) == WithInterrupted(t.n + 1)
CountedFinished(t) == Interrupted(t.n + 1)
SerialFit(j) ==
    /\ At(j, "fit")
    /\ \/ Apply(j, "serial")
       \/ CancelRequested(j) /\ Conclude(j, CountedFinished(thread[j]), "canceled")

\* In a pool: results in any order, waited for 0.25 s at a time.
PoolStarts(j) ==
    /\ At(j, "pool")
    /\ Update(j, [processed |-> 0]) /\ Changes /\ Go(j, "poll")
Poll(j) ==
    /\ At(j, "poll")
    /\ IF thread[j].n = Total THEN Reads /\ Go(j, "last")
       ELSE IF CancelRequested(j) THEN Conclude(j, thread[j].n, "canceled")
       ELSE Reads /\ Go(j, "next")
PoolResult(j) == At(j, "next") /\ Apply(j, "poll")
NeverTimesOut(j) == FALSE
TimesOut(j) == At(j, "next")
PoolTimeout(j) ==
    /\ TimesOut(j) /\ Go(j, "poll")
    /\ UNCHANGED <<store, signal, notifying>>

\* The last look for a cancellation comes before the result is put together.
LastCheck(j) ==
    /\ At(j, "last")
    /\ IF CancelRequested(j) THEN Conclude(j, Total, "canceled") ELSE Reads /\ Go(j, "end")
Complete(j) == At(j, "end") /\ Conclude(j, Total, "completed")

\* An exception: of a fit, here or in a process of the pool, or of the pool itself.
Raises(j) ==
    /\ thread[j].at \in {"fit", "poll", "next"}
    /\ FinishWith(j, [status |-> "failed"]) /\ Changes
    /\ Go(j, "gone")

\* What the thread does by itself, whether or not the pool delivers anything.
Work(j) ==
    \/ SerialNext(j) \/ SerialCheck(j) \/ SerialFit(j)
    \/ PoolStarts(j) \/ Poll(j) \/ PoolTimeout(j)
    \/ LastCheck(j) \/ Complete(j)
Requests == (\E j \in Jobs : StartSearch(j) \/ CancelSearch(j)) \/ ReadStatus
SearchNext ==
    \/ Requests \/ Notify
    \/ \E j \in Jobs : Work(j) \/ PoolResult(j) \/ Raises(j)

SearchFair == WF_search(Notify) /\ \A j \in Jobs : SF_search(Work(j))

-----------------------------------------------------------------------------
\* What a search says fits together whenever and however it ends, and the store never
\* forgets one that has a worker: the processed candidates are those that succeeded and
\* those that failed, at most one of them later than a cancellation; the best model is the
\* first of the top models, and no fit that was left out is better than one of them.
Leads(result, fits) ==
    /\ Range(result.top) \subseteq fits
    /\ Len(result.top) = Smaller(Top, Cardinality(fits))
    /\ result.best = IF fits = {} THEN NoFit ELSE Head(result.top)
    /\ \A i, k \in DOMAIN result.top : i < k => result.top[i].rmse <= result.top[k].rmse
    /\ \A f \in fits \ Range(result.top), g \in Range(result.top) : g.rmse <= f.rmse
SearchCoherent ==
    /\ TypeOK
    /\ \A j \in Jobs : thread[j].at \notin {"none", "gone"} => j \in Live
    /\ \A j \in Stored : jobs[j].processed = jobs[j].good + jobs[j].bad
    /\ \A j \in Stored : jobs[j].status \in {"completed", "canceled"} =>
        /\ jobs[j].good = Cardinality(thread[j].fits)
        /\ Leads(jobs[j].result, thread[j].fits)
    /\ \A j \in Stored : jobs[j].status = "completed" => jobs[j].processed = Total
    /\ \A j \in Stored :
        jobs[j].status = "canceled" => jobs[j].processed <= jobs[j].seen + 1

\* A cancelled search ends, even when no process of the pool ever answers again.
SearchCancelEnds == \A j \in Jobs :
    j \in Live /\ jobs[j].cancel /\ thread[j].at # "lost" ~> j \notin Live
=============================================================================
