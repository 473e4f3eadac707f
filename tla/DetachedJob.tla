---------------------------- MODULE DetachedJob ----------------------------
(***************************************************************************)
(* One detached runner job: the launch hand-over, the worker's life, its   *)
(* cancellation and what a monitor reports about it                        *)
(* (detached_jobs.py, detached_worker.py, run_plan of runner.py).          *)
(*                                                                         *)
(* The parties share nothing but files in the job directory (request,      *)
(* process, start, cancel, stop, state, result), the inherited lock        *)
(* descriptors and SIGTERM.  The worker turns SIGTERM into                 *)
(* KeyboardInterrupt, which Python raises wherever the worker happens to   *)
(* be; a step of the worker ends where such an interrupt would matter.     *)
(*                                                                         *)
(* The plan is one native stage with one temporary control file.  Users'   *)
(* edits of that file belong to another component and are left out here.   *)
(***************************************************************************)
EXTENDS FiniteSets

CONSTANT Viewers   \* requests that try to cancel this job

VARIABLES
    launcher,  \* progress of launch_job
    files,     \* marker files that exist in the job directory
    state,     \* status in state.json
    result,    \* status in result.json
    worker,    \* next step of the worker process
    status,    \* status the worker will write last
    outcome,   \* result["status"] inside run_plan
    native,    \* the solver process
    known,     \* what run_plan's locals record: the Popen object, an owned override
    control,   \* the solver's control file: original or overridden values
    sigterm,   \* SIGTERM is pending for the worker
    canceller, \* progress of each cancel request
    monitor    \* what snapshot_job has read, and what it reports

lvars == <<launcher, files>>
wvars == <<worker, state, result, status, outcome, native, known, control>>
jobVars == <<lvars, wvars, sigterm, canceller, monitor>>

\* "succeeded" stands for tested too, and "failed" for invalid_output.
Ended == {"succeeded", "stopped", "failed", "timeout"}
Final == Ended \cup {"runner_error", "cancelled"}
Active == {"starting", "running"}
Gone == {"exited", "killed"}
Starting == {"waiting", "check", "begin", "guard"}
Staging == {"prepare", "applied", "fork", "forked", "poll", "poked", "finish"}
Cleaning == {"cleanup", "restore", "journal"}
Alive == {"boot", "handler", "final", "close", "returned", "stored"}
         \cup Starting \cup Staging \cup Cleaning
Unread == [at |-> "idle", state |-> "none", identity |-> FALSE, report |-> "none"]

JobTypeOK ==
    /\ launcher \in {"idle", "guarded", "requested", "spawned", "identified",
                     "released", "done", "stopping", "failed", "dead"}
    /\ files \subseteq {"request", "process", "start", "cancel", "stop"}
    /\ worker \in {"none"} \cup Alive \cup Gone
    /\ state \in {"none"} \cup Active \cup Final
    /\ {result, status, outcome} \subseteq {"none"} \cup Final
    /\ native \in {"none", "running", "gone"}
    /\ known \subseteq {"solver", "override"}
    /\ control \in {"original", "override"}
    /\ sigterm \in BOOLEAN
    /\ canceller \in [Viewers -> {"idle", "checked", "touch", "touched", "signal",
                                  "noted", "signalled", "done", "dead"}]
    /\ monitor \in [at: {"idle", "identity", "process", "scan"},
                    state: {"none"} \cup Active, identity: BOOLEAN,
                    report: {"none", "starting", "running", "stopping", "finishing",
                             "orphaned", "interrupted", "unknown"} \cup Final]

JobInit ==
    /\ launcher = "idle" /\ files = {}
    /\ worker = "none" /\ state = "none" /\ result = "none"
    /\ status = "none" /\ outcome = "none"
    /\ native = "none" /\ known = {} /\ control = "original"
    /\ sigterm = FALSE
    /\ canceller = [v \in Viewers |-> "idle"]
    /\ monitor = Unread

-----------------------------------------------------------------------------
(* launch_job: under the mutation guard it takes the run lock, records the  *)
(* request, starts the worker and stores its identity.                      *)

LauncherGuards == launcher \in {"guarded", "requested", "spawned", "identified", "stopping"}

Launch(from, to, marker) ==
    /\ launcher = from
    /\ launcher' = to
    /\ files' = files \cup marker
    /\ UNCHANGED <<sigterm, canceller, monitor>>

Reserve == Launch("idle", "guarded", {}) /\ UNCHANGED wvars
WriteRequest == Launch("guarded", "requested", {"request"}) /\ UNCHANGED wvars
Spawn == /\ Launch("requested", "spawned", {})
         /\ worker' = "boot"
         /\ UNCHANGED <<state, result, status, outcome, native, known, control>>
WriteIdentity == Launch("spawned", "identified", {"process"}) /\ UNCHANGED wvars

\* Leaving the guard closes both descriptors; only then the start marker appears.
ReleaseGuard == Launch("identified", "released", {}) /\ UNCHANGED wvars
TouchStart == Launch("released", "done", {"start"}) /\ UNCHANGED wvars

\* An exception under the guard terminates the child and waits up to 5 s for it.
LaunchFails ==
    /\ launcher \in {"guarded", "requested", "spawned", "identified"}
    /\ launcher' = IF worker = "none" THEN "failed" ELSE "stopping"
    /\ sigterm' = (worker \in Alive)
    /\ UNCHANGED <<files, wvars, canceller, monitor>>
ChildWaited == Launch("stopping", "failed", {}) /\ UNCHANGED wvars

\* The viewer process dies; whatever it had not done yet stays undone.
LauncherDies ==
    /\ LauncherGuards \/ launcher = "released"
    /\ launcher' = "dead"
    /\ UNCHANGED <<files, wvars, sigterm, canceller, monitor>>

-----------------------------------------------------------------------------
(* The worker (main of detached_worker) before it runs the plan.           *)

Others == UNCHANGED <<lvars, sigterm, canceller, monitor>>
Step(from, to) == worker = from /\ worker' = to /\ Others
EndWith(s) == worker' = "final" /\ status' = s
             /\ UNCHANGED <<state, result, outcome, native, known, control>> /\ Others

InstallHandlers ==
    /\ Step("boot", "handler")
    /\ UNCHANGED <<state, result, status, outcome, native, known, control>>

WriteStarting ==
    /\ Step("handler", "waiting")
    /\ state' = "starting"
    /\ UNCHANGED <<result, status, outcome, native, known, control>>

StartSeen == "start" \in files
SeeStart ==
    /\ StartSeen
    /\ Step("waiting", "check")
    /\ UNCHANGED <<state, result, status, outcome, native, known, control>>

HandoffTimeout == worker = "waiting" /\ ~StartSeen /\ EndWith("runner_error")

CancelIgnored == FALSE
CancelSeen == "cancel" \in files
CheckCancel ==
    \/ CancelSeen /\ worker = "check" /\ EndWith("cancelled")
    \/ /\ ~CancelSeen /\ Step("check", "begin")
       /\ UNCHANGED <<state, result, status, outcome, native, known, control>>

WriteRunning ==
    /\ Step("begin", "guard")
    /\ state' = "running"
    /\ UNCHANGED <<result, status, outcome, native, known, control>>

-----------------------------------------------------------------------------
(* run_plan for a native stage, with its try / except / finally.           *)

\* The stage takes the write lock; a held lock or a changed input refuses it.
EnterStage ==
    \/ /\ ~LauncherGuards
       /\ Step("guard", "prepare")
       /\ UNCHANGED <<state, result, status, outcome, native, known, control>>
    \/ worker = "guard" /\ EndWith("runner_error")

Result(s) == worker' = "cleanup" /\ outcome' = s
             /\ UNCHANGED <<state, result, status, known>> /\ Others

\* TemporaryControl.apply replaces the file first and records ownership after.
Override(from, to) ==
    /\ Step(from, to)
    /\ control' = "override"
    /\ UNCHANGED <<state, result, status, outcome, native, known>>
OwnNothing(from, to) ==
    /\ Step(from, to)
    /\ UNCHANGED <<state, result, status, outcome, native, known, control>>
Own(from, to) ==
    /\ Step(from, to)
    /\ known' = known \cup {"override"}
    /\ UNCHANGED <<state, result, status, outcome, native, control>>

\* The plan has overrides to apply, or none, or an inspection of it fails.
ApplyControls ==
    \/ Override("prepare", "applied")
    \/ /\ Step("prepare", "fork")
       /\ UNCHANGED <<state, result, status, outcome, native, known, control>>
    \/ worker = "prepare" /\ Result("runner_error") /\ UNCHANGED <<native, control>>
OwnControls == Own("applied", "fork")

\* Popen starts the solver; the assignment to `process' is a later step.
Fork ==
    /\ Step("fork", "forked")
    /\ native' = "running"
    /\ UNCHANGED <<state, result, status, outcome, known, control>>
Bind ==
    /\ Step("forked", "poll")
    /\ known' = known \cup {"solver"}
    /\ UNCHANGED <<state, result, status, outcome, native, control>>

NativeEnds ==
    /\ native = "running"
    /\ native' = "gone"
    /\ UNCHANGED <<lvars, worker, state, result, status, outcome, known, control,
                   sigterm, canceller, monitor>>

\* The polling loop applies NUM_ITS=1 once when a clean stop was asked for.
NoticeStop ==
    /\ native = "running" /\ "stop" \in files
    /\ \/ Override("poll", "poked")
       \/ worker = "poll" /\ Result("runner_error") /\ UNCHANGED <<native, control>>
OwnStop == Own("poked", "finish")

\* The solver has exited; its exit code and products decide.
SeeExit ==
    /\ worker \in {"poll", "finish"} /\ native = "gone"
    /\ \E s \in {"failed", "runner_error", IF worker = "poll" THEN "succeeded" ELSE "stopped"} :
           Result(s)
    /\ UNCHANGED <<native, control>>

\* _stop kills the whole process group.
Deadline ==
    /\ worker \in {"poll", "finish"} /\ native = "running"
    /\ Result("timeout")
    /\ native' = "gone"
    /\ UNCHANGED control

\* The finally clause stops a solver it knows of, restores what it owns, or notes that
\* this failed, and closes the journal; leaving the guard releases the stage's write lock.
StopNative ==
    /\ Step("cleanup", "restore")
    /\ native' = IF "solver" \in known /\ native = "running" THEN "gone" ELSE native
    /\ UNCHANGED <<state, result, status, outcome, known, control>>
Restore ==
    /\ Step("restore", "journal")
    /\ \/ /\ control' = IF "override" \in known THEN "original" ELSE control
          /\ UNCHANGED outcome
       \/ "override" \in known /\ outcome' = "runner_error" /\ UNCHANGED control
    /\ UNCHANGED <<state, result, status, native, known>>
CloseJournal ==
    /\ Step("journal", "returned")
    /\ UNCHANGED <<state, result, status, outcome, native, known, control>>

WriteResult ==
    /\ Step("returned", "stored")
    /\ result' = outcome
    /\ UNCHANGED <<state, status, outcome, native, known, control>>
TakeStatus ==
    /\ Step("stored", "final")
    /\ status' = outcome
    /\ UNCHANGED <<state, result, outcome, native, known, control>>
WriteFinal ==
    /\ Step("final", "close")
    /\ state' = status
    /\ UNCHANGED <<result, status, outcome, native, known, control>>
CloseLock ==
    /\ Step("close", "exited")
    /\ UNCHANGED <<state, result, status, outcome, native, known, control>>

-----------------------------------------------------------------------------
(* SIGTERM and sudden death.                                               *)

\* Where the exception surfaces decides what the worker still does.
Unhandled == \* the default action, before the handlers are installed
    /\ worker = "boot"
    /\ worker' = "killed"
    /\ UNCHANGED <<status, outcome>>
Uncaught == \* before the try statement and inside its finally clause
    /\ worker \in {"handler", "final", "close"}
    /\ worker' = "exited"
    /\ UNCHANGED <<status, outcome>>
CaughtByPlan ==
    /\ worker \in Staging
    /\ worker' = "cleanup"
    /\ outcome' = "cancelled"
    /\ UNCHANGED status
CaughtByWorker == \* also when it escapes from run_plan's finally clause
    /\ worker \in Starting \cup Cleaning \cup {"handler", "returned", "stored"}
    /\ worker' = "final"
    /\ status' = "cancelled"
    /\ UNCHANGED outcome

Interrupt ==
    /\ sigterm
    /\ sigterm' = FALSE
    /\ Unhandled \/ Uncaught \/ CaughtByPlan \/ CaughtByWorker
    /\ UNCHANGED <<lvars, state, result, native, known, control, canceller, monitor>>

\* SIGKILL, the out-of-memory killer, a power cut of the worker: the solver survives.
Kill ==
    /\ worker \in Alive
    /\ worker' = "killed"
    /\ sigterm' = FALSE
    /\ UNCHANGED <<lvars, state, result, status, outcome, native, known, control,
                   canceller, monitor>>

-----------------------------------------------------------------------------
(* cancel_job and stop_after_iteration_job, in a viewer request each.      *)

Request(v, from, to) == canceller[v] = from /\ canceller' = [canceller EXCEPT ![v] = to]
Quiet == UNCHANGED <<launcher, wvars, monitor>>

\* The job looks active, its identity is known and its worker exists.
CheckJob(v) ==
    /\ "request" \in files
    /\ IF state \in Active \cup {"none"} /\ "process" \in files /\ worker \in Alive
       THEN Request(v, "idle", "checked") ELSE Request(v, "idle", "done")
    /\ Quiet /\ UNCHANGED <<files, sigterm>>

LookForMarker(v) ==
    /\ Request(v, "checked", IF "cancel" \in files THEN "done" ELSE "touch")
    /\ Quiet /\ UNCHANGED <<files, sigterm>>

TouchCancel(v) ==
    /\ Request(v, "touch", "touched")
    /\ files' = files \cup {"cancel"}
    /\ Quiet /\ UNCHANGED sigterm

\* Without state.json the marker is enough: the handlers may not be there yet.
AlwaysSignals == TRUE
NeverSignals == FALSE
NeedsSignal == state # "none"
LookForState(v) ==
    /\ Request(v, "touched", IF NeedsSignal THEN "signal" ELSE "noted")
    /\ Quiet /\ UNCHANGED <<files, sigterm>>

Signal(v) ==
    /\ Request(v, "signal", "signalled")
    /\ sigterm' = (sigterm \/ worker \in Alive)
    /\ Quiet /\ UNCHANGED files

\* The viewer stops in the middle of a cancel request.
ViewerDies(v) ==
    /\ canceller[v] \in {"checked", "touch", "touched", "signal"}
    /\ Request(v, canceller[v], "dead")
    /\ Quiet /\ UNCHANGED <<files, sigterm>>

RequestStop ==
    /\ worker \in Alive /\ "process" \in files /\ state \in Active
    /\ {"cancel", "stop"} \cap files = {}
    /\ files' = files \cup {"stop"}
    /\ UNCHANGED <<launcher, wvars, sigterm, canceller, monitor>>

-----------------------------------------------------------------------------
(* snapshot_job reads one file after the other while the job moves on.     *)

Watch(m) == monitor' = m /\ UNCHANGED <<lvars, wvars, sigterm, canceller>>
Report(s) == Watch([Unread EXCEPT !.identity = monitor.identity, !.report = s])

ReadState ==
    /\ monitor.at = "idle" /\ "request" \in files
    /\ IF state \in Final
       THEN Watch([Unread EXCEPT !.report = state])
       ELSE Watch([Unread EXCEPT !.at = "identity",
                                 !.state = IF state = "none" THEN "starting" ELSE state])
ReadIdentity ==
    /\ monitor.at = "identity"
    /\ Watch([monitor EXCEPT !.at = "process", !.identity = "process" \in files])

\* A job without an identity counts as starting for its first 15 seconds.
WorkerFound == monitor.identity /\ worker \in Alive
FindWorker ==
    /\ monitor.at = "process"
    /\ \/ /\ WorkerFound
          /\ Report(IF "cancel" \in files THEN "stopping"
                    ELSE IF "stop" \in files THEN "finishing" ELSE monitor.state)
       \/ ~monitor.identity /\ Report("starting")
       \/ ~WorkerFound /\ Watch([monitor EXCEPT !.at = "scan"])
       \/ monitor.identity /\ Report("unknown")
ScanNatives ==
    /\ monitor.at = "scan"
    /\ \/ native = "running" /\ Report("orphaned")
       \/ native # "running" /\ \E s \in {"unknown", "interrupted"} : Report(s)

-----------------------------------------------------------------------------
LauncherStep == \/ Reserve \/ WriteRequest \/ Spawn \/ WriteIdentity
                \/ ReleaseGuard \/ TouchStart \/ ChildWaited
WorkerStep ==
    \/ InstallHandlers \/ WriteStarting \/ SeeStart \/ HandoffTimeout \/ CheckCancel
    \/ WriteRunning \/ EnterStage \/ ApplyControls \/ OwnControls \/ Fork \/ Bind
    \/ NoticeStop \/ OwnStop \/ SeeExit \/ StopNative \/ Restore \/ CloseJournal
    \/ WriteResult \/ TakeStatus \/ WriteFinal \/ CloseLock
CancelStep(v) == \/ CheckJob(v) \/ LookForMarker(v) \/ TouchCancel(v)
                 \/ LookForState(v) \/ Signal(v)
MonitorStep == ReadState \/ ReadIdentity \/ FindWorker \/ ScanNatives

JobNext ==
    \/ LauncherStep \/ LaunchFails \/ LauncherDies
    \/ WorkerStep \/ Deadline \/ NativeEnds \/ Interrupt \/ Kill
    \/ \E v \in Viewers : CancelStep(v) \/ ViewerDies(v)
    \/ RequestStop \/ MonitorStep

\* The operating system runs the worker and delivers its signals, and a request
\* that looked for the marker goes on unless its viewer dies.  Nothing makes the
\* solver end by itself and a plan need not have a deadline.
Fairness == /\ WF_jobVars(WorkerStep) /\ WF_jobVars(Interrupt)
            /\ \A v \in Viewers : WF_jobVars(canceller[v] # "idle" /\ CancelStep(v))

JobSpec == JobInit /\ [][JobNext]_jobVars
FairSpec == JobSpec /\ Fairness

-----------------------------------------------------------------------------
\* A cancel request that found no state.json leaves only its marker and relies on
\* the worker seeing it before it launches anything (detached_jobs.py:250).
EarlyCancelHolds == (\E v \in Viewers : canceller[v] = "noted") => native = "none"

\* A launch reported to the user as failed never runs the solver, nor does a job that was
\* cancelled before it had a state, and a worker never meets its own launcher on the write
\* lock: the start marker it waits for appears after the launcher has left its guard.
LaunchSafe ==
    /\ JobTypeOK /\ EarlyCancelHolds
    /\ worker = "guard" => ~LauncherGuards
    /\ launcher \in {"stopping", "failed"} => native = "none"

\* A cancel request never kills a worker that has no handlers yet: only the
\* launcher, giving up, signals one that early.
CancelSparesBoot == sigterm /\ worker = "boot" => launcher \in {"stopping", "failed", "dead"}

\* What users are told of a job that is over is true.  Ended by its own course, which is
\* succeeded, stopped, failed or timeout, it left no override in the control file and no
\* solver process; shown as interrupted, with its worker known, worker and solver are gone,
\* and the answer stays true after it was given.  Not covered: cancelled, where a signal may have
\* cut the cleanup short, and runner_error, where the restoration may have failed.
EndedIsClean ==
    /\ state \in Ended => control = "original" /\ native # "running"
    /\ monitor.report = "interrupted" /\ monitor.identity =>
        worker \in Gone /\ native # "running"

\* Once a request has left the cancel marker the worker ends, however long the
\* solver would run, provided that the viewer lives to finish the request.
CancelEnds == \A v \in Viewers :
    canceller[v] = "touched" ~> (worker \in Gone \/ canceller[v] = "dead")
=============================================================================
