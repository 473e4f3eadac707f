----------------------------- MODULE LiveEvents -----------------------------
(***************************************************************************)
(* The event stream of the pages (live_event_views.py): it sends the list  *)
(* of running tasks (task_views.py) whenever it changes.  Searches of this *)
(* process announce their changes; runs of detached workers, read from     *)
(* disk, cannot and are looked for at intervals.                           *)
(*                                                                         *)
(* Time is what has run out since the last look: one second (tasks), then  *)
(* the interval for detached runs (external).  The runtime status of       *)
(* models, read every five seconds, is like a detached run.                *)
(***************************************************************************)
EXTENDS GridSearch

CONSTANT MaxRuns  \* bound on the changes of detached runs

ASSUME RunsAssumption == MaxRuns \in Nat

VARIABLES
    runs,    \* state of the detached runs on disk
    stream   \* the generator of one open page

vars == <<search, runs, stream>>

\* What the pages show of a running search.
Task(j) == [done |-> jobs[j].processed, stopping |-> jobs[j].cancel]
SearchTasks == [j \in Live |-> Task(j)]
NoTasks == << >>

Init ==
    /\ SearchInit
    /\ runs = 0
    /\ stream = [at |-> "read", version |-> 0, tasks |-> NoTasks, shown |-> NoTasks, runs |-> 0,
                 tasksDue |-> FALSE, externalDue |-> FALSE]

RunChanges == runs < MaxRuns /\ runs' = runs + 1 /\ UNCHANGED <<search, stream>>

-----------------------------------------------------------------------------
Stream(point) == stream.at = point
Still == UNCHANGED <<search, runs>>

\* Due at intervals, or after a change no sooner than a second after the last look: a
\* change wakes the stream or, within that second, lets it sleep it out.  (A keepalive
\* wakes it as well: a round that changes nothing.)
Wake ==
    /\ Stream("wait")
    /\ stream.externalDue \/ (signal # stream.version /\ stream.tasksDue)
    /\ stream' = [stream EXCEPT !.at = "read"]
    /\ Still

\* The version is read before the tasks: the searches under their store's lock, the
\* detached runs afterwards.  A variant reads the version last.
ReadVersion ==
    /\ Stream("read")
    /\ stream' = [stream EXCEPT !.at = "tasks", !.version = signal]
    /\ Still
ReadTasks ==
    /\ Stream("tasks") /\ ~notifying
    /\ stream' = [stream EXCEPT !.at = "send", !.tasks = SearchTasks]
    /\ Still
VersionNow == signal
VersionThen == stream.version
Send ==
    /\ Stream("send")
    /\ stream' = [stream EXCEPT !.at = "wait", !.shown = stream.tasks, !.tasks = NoTasks,
                                !.runs = runs, !.version = VersionThen,
                                !.tasksDue = FALSE, !.externalDue = FALSE]
    /\ Still

\* Time that passes during a look counts as well; it shows when the stream waits.
Elapse ==
    /\ Stream("wait") /\ ~stream.externalDue
    /\ \/ ~stream.tasksDue /\ stream' = [stream EXCEPT !.tasksDue = TRUE]
       \/ stream.tasksDue /\ stream' = [stream EXCEPT !.externalDue = TRUE]
    /\ Still

StreamStep == Wake \/ ReadVersion \/ ReadTasks \/ Send
Next ==
    \/ SearchNext /\ UNCHANGED <<runs, stream>>
    \/ RunChanges \/ Elapse \/ StreamStep

Spec == Init /\ [][Next]_vars
\* Threads are scheduled, the lock is handed on in turn, time passes.  Nothing makes a
\* process of a pool answer or a search raise.
FairSpec ==
    /\ Spec /\ SearchFair
    /\ WF_vars(Elapse) /\ SF_vars(StreamStep)

-----------------------------------------------------------------------------
\* "a concurrent write remains visible as a subsequent notification instead of being
\* lost" (live_event_views.py:46): whenever the stream has nothing pending, the page
\* shows the searches as they are; no progress, cancellation or end is missed between
\* two looks, without waiting for the next interval.
NothingMissed ==
    stream.version = signal /\ ~notifying /\ Stream("wait")
        => stream.shown = SearchTasks

\* The page ends up with the current state of everything, detached runs included, which
\* nobody announces: a change of a run is shown although no search changes any more.
StreamCatchesUp == []<>(stream.shown = SearchTasks /\ stream.runs = runs)

\* A page left open never waits for ever: for the end of a search it cancelled, or for news.
PageSettles == SearchCancelEnds /\ StreamCatchesUp
=============================================================================
