--------------------------------- MODULE Reseed ---------------------------------
(***************************************************************************)
(* Reseeding a model (model_reseed.py): the inputs of a fresh start are    *)
(* replaced by copies of the outputs, as reviewed, and the checkpoints go, *)
(* with a rollback and an archive of what was there.  It holds the guard   *)
(* (see ModelLocks); people edit at any time.                              *)
(***************************************************************************)
EXTENDS Naturals, FiniteSetsExt, TLC

CONSTANTS
    Inputs, Restarts,  \* inputs of a fresh start, and names of checkpoints
    Absent,
    MaxReseeds, MaxEdits, MaxFaults  \* bounds; a kill is a fault

\* The input <<"in", s>> is made from the output <<"out", s>>.
In(s) == <<"in", s>>
Out(s) == <<"out", s>>
Checkpoints == {<<"checkpoint", c>> : c \in Restarts}
Files == {In(s) : s \in Inputs} \cup {Out(s) : s \in Inputs} \cup Checkpoints

VARIABLES
    work,      \* the model: versions
    plan,      \* the reviewed plan
    job,       \* the reseeding, with its archive: staged, previous
    archives,  \* files in archives that ended jobs have left: <<name, version>>
    reseeds, edits, faults,
    start,     \* history: the model when the last job began
    result,    \* history: how it ended
    raced      \* history: people edited during it

reseed == <<work, plan, job, archives, reseeds, edits, faults, start, result, raced>>
limits == <<reseeds, edits, faults>>
Idle == [pc |-> "idle"]
NoPlan == [ready |-> FALSE]
First(s) == CHOOSE x \in s : TRUE
Doing(pc) == job.pc = pc
There(names) == {n \in names : work[n] # Absent}

ReseedInit ==
    /\ \E lost \in SUBSET ({In(s) : s \in Inputs} \cup Checkpoints) :
        work = [f \in Files |-> IF f \in lost THEN Absent ELSE 0]
    /\ plan = NoPlan /\ job = Idle /\ archives = {} /\ reseeds = 0 /\ edits = 0 /\ faults = 0
    /\ start = work /\ result = "none" /\ raced = FALSE

-----------------------------------------------------------------------------
\* build_reseed_plan; signatures are versions.
PlanNow ==
    [ready |-> \A s \in Inputs : work[Out(s)] # Absent,
     outputs |-> [s \in Inputs |-> work[Out(s)]], inputs |-> [s \in Inputs |-> work[In(s)]],
     checkpoints |-> [c \in There(Checkpoints) |-> work[c]]]
Preview ==
    /\ Doing("idle") /\ plan' = PlanNow /\ plan' # plan
    /\ UNCHANGED <<work, job, archives, limits, start, result, raced>>

\* run_reseed_plan.
Begin ==
    /\ Doing("idle") /\ reseeds < MaxReseeds /\ reseeds' = reseeds + 1
    /\ plan.ready /\ plan = PlanNow
    /\ job' = [pc |-> "stage", todo |-> Inputs, staged |-> <<>>, previous |-> <<>>, installed |-> {}]
    /\ start' = work /\ result' = "none" /\ raced' = FALSE
    /\ UNCHANGED <<work, plan, archives, edits, faults>>
Stage ==
    /\ Doing("stage") /\ job.todo # {}
    /\ LET s == First(job.todo)
       IN /\ work[Out(s)] # Absent
          /\ job' = [job EXCEPT !.todo = @ \ {s}, !.staged = (In(s) :> work[Out(s)]) @@ @]
    /\ UNCHANGED <<work, plan, archives, limits, start, result, raced>>
\* All copies are made before anything is replaced, of what was reviewed.
Stands == plan.outputs = PlanNow.outputs /\ plan.inputs = PlanNow.inputs
          /\ \A c \in DOMAIN plan.checkpoints : work[c] = plan.checkpoints[c]
Check ==
    /\ Doing("stage") /\ job.todo = {}
    /\ job' = IF Stands THEN [job EXCEPT !.pc = "replace", !.todo = Inputs] ELSE [job EXCEPT !.pc = "back"]
    /\ UNCHANGED <<work, plan, archives, limits, start, result, raced>>

\* An input that was planned as there is moved away first; then its copy comes.
Aside(n) ==
    /\ work[n] # Absent
    /\ work' = [work EXCEPT ![n] = Absent] /\ job' = [job EXCEPT !.previous = (n :> work[n]) @@ @]
Replace ==
    /\ Doing("replace") /\ job.todo # {}
    /\ LET s == First(job.todo)
       IN IF plan.inputs[s] # Absent /\ In(s) \notin DOMAIN job.previous THEN Aside(In(s))
          ELSE /\ work' = [work EXCEPT ![In(s)] = job.staged[In(s)]]
               /\ job' = [job EXCEPT !.todo = @ \ {s}, !.installed = @ \cup {In(s)}]
    /\ UNCHANGED <<plan, archives, limits, start, result, raced>>
Pending == DOMAIN plan.checkpoints \ DOMAIN job.previous
Retire ==
    /\ Doing("replace") /\ job.todo = {} /\ Pending # {} /\ Aside(First(Pending))
    /\ UNCHANGED <<plan, archives, limits, start, result, raced>>
Left(names) == {<<n, job.previous[n]>> : n \in DOMAIN job.previous \cap names}
\* compact_recovery leaves the inputs, not the checkpoints.
Finish ==
    /\ Doing("replace") /\ job.todo = {} /\ Pending = {}
    /\ job' = Idle /\ archives' = archives \cup Left(Files \ Checkpoints) /\ result' = "done"
    /\ UNCHANGED <<work, plan, limits, start, raced>>

\* Files that are gone, and errors of the file system.
Missing ==
    \/ Doing("stage") /\ \E s \in job.todo : work[Out(s)] = Absent
    \/ Doing("replace") /\ \E s \in job.todo : plan.inputs[s] # Absent /\ work[In(s)] = Absent
                                                /\ In(s) \notin DOMAIN job.previous
    \/ Doing("replace") /\ \E c \in Pending : work[c] = Absent
Fault == faults < MaxFaults /\ faults' = faults + 1 /\ UNCHANGED <<reseeds, edits>>
Fail ==
    /\ job.pc \in {"stage", "replace"} /\ job' = [job EXCEPT !.pc = "back"]
    /\ IF Missing THEN UNCHANGED limits ELSE Fault
    /\ UNCHANGED <<work, plan, archives, start, result, raced>>
\* The rollback ends with its first error, and then leaves the archive.
Stops == job' = Idle /\ archives' = archives \cup Left(Files) /\ result' = "torn"
Undo ==
    /\ Doing("back")
    /\ IF job.installed # {}
       THEN LET n == First(job.installed)
            IN /\ work[n] # Absent /\ work' = [work EXCEPT ![n] = Absent]
               /\ job' = [job EXCEPT !.installed = @ \ {n}] /\ UNCHANGED <<archives, result>>
       ELSE IF DOMAIN job.previous # {}
       THEN LET n == First(DOMAIN job.previous)
            IN /\ work' = [work EXCEPT ![n] = job.previous[n]] /\ UNCHANGED <<archives, result>>
               /\ job' = [job EXCEPT !.previous = [m \in DOMAIN @ \ {n} |-> @[m]]]
       ELSE job' = Idle /\ result' = "undone" /\ UNCHANGED <<work, archives>>
    /\ UNCHANGED <<plan, limits, start, raced>>
UndoFails ==
    /\ Doing("back") /\ job.installed \cup DOMAIN job.previous # {} /\ Stops
    /\ IF \E n \in job.installed : work[n] = Absent THEN UNCHANGED limits ELSE Fault
    /\ UNCHANGED <<work, plan, start, raced>>
Kill ==
    /\ ~Doing("idle") /\ Fault /\ Stops /\ UNCHANGED <<work, plan, start, raced>>

\* People edit, write or remove a file.
Edit ==
    /\ edits < MaxEdits /\ edits' = edits + 1
    /\ \E n \in Files, v \in {edits + 1, Absent} : work' = [work EXCEPT ![n] = v]
    /\ raced' = TRUE
    /\ UNCHANGED <<plan, job, archives, reseeds, faults, start, result>>

ReseedNext ==
    \/ Preview \/ Begin \/ Stage \/ Check \/ Replace \/ Retire \/ Finish
    \/ Fail \/ Undo \/ UndoFails \/ Kill \/ Edit

-----------------------------------------------------------------------------
\* A reseeding ends with every input made of its output of one moment and no checkpoint, or
\* with the model as it began, unless it was killed, its rollback failed or people edited.
ReseedWhole ==
    Doing("idle") /\ ~raced =>
        /\ result = "undone" => work = start
        /\ result = "done" =>
            /\ \A s \in Inputs : work[In(s)] = start[Out(s)] /\ work[Out(s)] = start[Out(s)]
            /\ There(Checkpoints) = {}
\* Whatever happens, even then, the inputs that were there when it began are in the model,
\* in its archive, or were replaced by people.
InputsKept ==
    \A s \in Inputs :
        \/ start[In(s)] \in {Absent, work[In(s)]} \/ raced
        \/ <<In(s), start[In(s)]>> \in archives
        \/ ~Doing("idle") /\ In(s) \in DOMAIN job.previous /\ job.previous[In(s)] = start[In(s)]
\* What was installed is what was reviewed, even when people edit meanwhile.
AsReviewed ==
    Doing("replace") => \A n \in job.installed : \E s \in Inputs : n = In(s) /\ job.staged[n] = plan.outputs[s]
\* A reseeding (model_reseed.py) is done wholly or not at all, loses no input, and installs
\* what was reviewed.
ReseedTrue == ReseedWhole /\ InputsKept /\ AsReviewed
=============================================================================
