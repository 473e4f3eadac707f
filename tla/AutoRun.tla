------------------------------- MODULE AutoRun ------------------------------
(* The automatic convergence loop (runner_auto.run_auto_plan): attempts of   *)
(* the native solver, remedies applied between them, a rolling recovery      *)
(* snapshot, provisional recipes rolled back as a whole, and shared budgets. *)
(*                                                                           *)
(* A checkpoint or a state of the controls is a stamp: each write of either  *)
(* takes the next one; set holds the controls that actions have changed.     *)
(* files is what the model directory holds, dirs the two directories the     *)
(* rolling snapshot alternates between, recorded the one that recovery.json  *)
(* names and recovery the one the controller remembers.                      *)
(*                                                                           *)
(* What an attempt shows is one of the scenes: a record of facts that the    *)
(* policies and validators read, with its batch and the earlier ones; which  *)
(* of these belong to the trend is the controller's business.  Whether the   *)
(* solver starts afresh, what it was asked for and which controls it ran on  *)
(* come from the state.                                                      *)
EXTENDS AutoPolicies

CONSTANTS Models,          \* the controls and facts of a model at the start
          Scenes(_),       \* what an attempt of a model may show
          MaxAttempts,     \* budget of native attempts
          MaxIterations,   \* budget of iterations
          BatchIterations, \* iterations of an ordinary batch
          MaxFaults        \* bound: file errors of one run

ASSUME BudgetAssumption ==
    /\ MaxAttempts \in Nat \ {0, 1} /\ MaxIterations \in Nat \ {0, 1}
    /\ BatchIterations \in Nat \ {0, 1} /\ MaxFaults \in Nat

(* Controls and facts have names of their own.                               *)
ASSUME ModelAssumption == \A m \in Models :
    /\ {"RELAX", "N_FIX_BA"} \subseteq DOMAIN m /\ m.RELAX \in Int
    /\ \A s \in Scenes(m) :
        /\ DOMAIN s \cap DOMAIN m = {} /\ "checkpoint" \in DOMAIN s
        /\ s.checkpoint \in Int /\ Len(s.batch.rows) \in Nat

Names == {"A", "B"}
Absent == -1     \* no such snapshot, cache or recipe
Partial == -2    \* a snapshot whose removal has begun
Missing == -3    \* the file is gone
None == [Act EXCEPT !.kind = "none"]

VARIABLES
    pc, then,        \* where the controller is; where a capture or a restore returns to
    status, review,  \* the reported result; files left for the user to review
    attempt, used, batch, base,   \* loop counters, batch size and the phase outside recipes
    pending, step,   \* the provisional recipe and its current step
    decision,        \* what choose decided last
    native, waiting, \* the last attempt; its verification is deferred
    trend, waits,    \* batches in the history, and in that of a deferred verification
    trial, applied, rejected,  \* fate of the last trial; actions and rejected trials by policy
    files, caches, dirs, recorded, recovery, working, expected,
    stopping, edit, struck, faults,   \* clean stop asked; the controls with a user's edit;
                                      \* where cancelled; errors
    raced,                            \* the edit fell between a check and the end of its section
    starting,                         \* the model as the run found it
    accepted, clock, strayed          \* ghosts: validated checkpoints, stamps, extra work of a recipe

control == <<pc, then, status, review>>
loop == <<attempt, used, batch, base, pending, step, decision, native, waiting,
          trend, waits, trial, applied, rejected, starting>>
disk == <<files, caches, dirs, recorded>>
memory == <<recovery, working, expected>>
world == <<stopping, edit, struck, faults>>
ghosts == <<accepted, clock, strayed>>
vars == <<control, loop, disk, memory, world, ghosts, raced>>

Removed(how) == [pop |-> how, ctl |-> how, set |-> << >>]

(* Continuations: where a capture or a restoration goes on, the status it    *)
(* then reports, and the snapshot a restoration takes.                       *)
Return(p) == [pc |-> p, status |-> "running", source |-> "recovery"]
Ending(s) == [Return("finally") EXCEPT !.status = s]
FromStep(p) == [Return(p) EXCEPT !.source = "working"]
Nowhere == Return("prepare")

(* The locals of an attempt and of the loop, before they are assigned and    *)
(* once nothing reads them any more.                                         *)
NoAttempt == [status |-> "none", restart |-> "none", ctl |-> 0, charged |-> 0, saved |-> FALSE]
Forgotten ==
    /\ batch' = BatchIterations /\ native' = NoAttempt /\ waiting' = FALSE
    /\ trend' = 0 /\ waits' = 0

(* Every policy's actions start at none; the run starts with a captured      *)
(* snapshot of the checked inputs (run_auto_plan up to its try).             *)
Init ==
    /\ pc = "prepare" /\ then = Nowhere /\ status = "running" /\ review = FALSE
    /\ attempt = 0 /\ used = 0 /\ batch = BatchIterations /\ base = "iterate"
    /\ pending = None /\ step = 0 /\ decision = Continue
    /\ native = NoAttempt /\ waiting = FALSE /\ trend = 0 /\ waits = 0
    /\ trial = "none" /\ applied = [id \in {p.id : p \in Range(POLICIES)} |-> 0] /\ rejected = {}
    /\ starting \in Models
    /\ files = [pop |-> 0, ctl |-> 0, set |-> << >>] /\ caches = [c \in AllCaches |-> 0]
    /\ dirs = [n \in Names |-> IF n = "A" THEN files ELSE Removed(Absent)]
    /\ recorded = "A" /\ recovery = "A" /\ working = files /\ expected = 0
    /\ stopping = FALSE /\ edit = 0 /\ struck = "nowhere" /\ faults = 0 /\ raced = FALSE
    /\ accepted = {0} /\ clock = 0 /\ strayed = FALSE

Active == pc \notin {"cancelled", "finally", "done"}
Remaining == MaxIterations - used
PendingStep == pending.steps[step]
Good == native.status \in {"succeeded", "stopped"}

(* The context of a policy or a validator.  A recipe's step may ask for an   *)
(* initialization; without recipe a fresh start takes the plan's.            *)
With(record, fields) ==
    [f \in DOMAIN record \cup DOMAIN fields |-> IF f \in DOMAIN fields THEN fields[f] ELSE record[f]]
Controls == With(starting, files.set)
Initializations == [pop_initialization |-> "POP", hydro_pop_seed |-> "POP", lte_initialization |-> "LTE"]
Planned == IF pending # None
           THEN IF PendingStep.name \in DOMAIN Initializations THEN Initializations[PendingStep.name] ELSE "none"
           ELSE IF native.restart = "fresh" THEN starting.init ELSE "none"
Context(s, when, spent, history) == With(With(Controls, s),
    [when |-> when, phase |-> IF pending # None THEN PendingStep.name ELSE base,
     iters |-> MaxIterations - spent, attempts |-> MaxAttempts - attempt,
     applied |-> applied, rejected |-> rejected, history |-> history, original |-> starting.RELAX,
     restart |-> native.restart, planned |-> Planned, exit |-> IF Good THEN "zero" ELSE s.exit,
     saved |-> IF native.saved THEN s.saved ELSE s.checkpoint])

(* The history that a batch ends: it starts again with the batch after an    *)
(* update of the checkpoint or a change of the source.                       *)
Resets(b) == b.source \/ Followed(b, Updates)
History(s, n) == IF Resets(s.batch) THEN << >> ELSE LastOf(s.earlier, n) \o <<s.batch>>
Longest == 3
Longer(b, n) == IF Resets(b) THEN 0 ELSE IF n < Longest THEN n + 1 ELSE n

(* check_inputs: the controls still are what the controller left.            *)
Unchanged == files.ctl = expected
(* They hold an edit of the user that the controller does not know.          *)
Edited == edit # 0 /\ files.ctl = edit /\ ~Unchanged

Finish(s, left) == pc' = "finally" /\ status' = s /\ review' = left /\ UNCHANGED then
Goto(p) == pc' = p /\ UNCHANGED <<then, status, review>>
Call(p, back) == pc' = p /\ then' = back /\ UNCHANGED <<status, review>>

(* An OSError or ValueError ends the run for review, with no restoration     *)
(* beyond the rollback of a pending recipe.                                  *)
Refuse == Finish("needs_review", TRUE)

(* Before the first attempt: policies may repair the inputs.                 *)
Prepare ==
    /\ pc = "prepare"
    /\ \/ ~Unchanged /\ Refuse /\ UNCHANGED <<decision, attempt>>
       \/ /\ Unchanged
          /\ \E s \in Scenes(starting) : decision' = choose(Context(s, "prepare", used, << >>))
          /\ CASE decision'.kind = "action" -> Goto("act") /\ UNCHANGED attempt
               [] decision'.kind = "continue" -> Goto("top") /\ attempt' = 1
               [] OTHER -> Refuse /\ UNCHANGED attempt
    /\ UNCHANGED <<used, batch, base, pending, step, native, waiting, trend, waits, trial, applied,
                   rejected, starting, disk, memory, world, ghosts>>

Asked == IF pending # None THEN PendingStep.iters
         ELSE IF base = "verify" THEN 3 ELSE batch
Minimum == IF pending # None THEN Requested(pending.steps, step)
           ELSE IF base = "verify" THEN 2 ELSE 1
AttemptsNeeded == IF pending # None THEN Len(pending.steps) - step + 1 ELSE 1
Granted == IF Asked < Remaining THEN Asked ELSE Remaining

(* The head of the loop, up to the check of the inputs.                      *)
BeginAttempt ==
    /\ pc = "top"
    /\ \/ attempt > MaxAttempts /\ Finish("limit_reached", FALSE)
       \/ /\ attempt <= MaxAttempts
          /\ IF stopping THEN Finish("stopped", FALSE)
             ELSE IF Remaining < Minimum \/ MaxAttempts - attempt + 1 < AttemptsNeeded
             THEN Finish("limit_reached", FALSE)
             ELSE \/ Finish("timeout", FALSE)
                  \/ ~Unchanged /\ Refuse
                  \/ Unchanged /\ Goto("plan")
    /\ UNCHANGED <<loop, disk, memory, world, ghosts>>

(* The native plan, the snapshot of a recipe's step and the charge for the   *)
(* attempt.  A recipe whose checkpoint cannot be audited is refused.         *)
PlanAttempt ==
    /\ pc = "plan"
    /\ \/ pending # None /\ Refuse /\ UNCHANGED <<used, working>>
       \/ Finish("preflight_failed", FALSE) /\ UNCHANGED <<used, working>>
       \/ /\ Goto("native")
          /\ working' = IF pending # None THEN files ELSE working
          /\ used' = used + Granted
    /\ native' = [NoAttempt EXCEPT !.charged = used' - used,
                                   !.restart = IF starting.fresh /\ files.pop = 0 THEN "fresh" ELSE "continuation"]
    /\ UNCHANGED <<attempt, batch, base, pending, step, decision, waiting, trend, waits, trial, applied,
                   rejected, starting, disk, recovery, expected, world, ghosts>>

(* run_plan ends.  A solve saves a new checkpoint or fails, before or after  *)
(* it; it leaves new caches; it may change controls of its own, as after a   *)
(* hydro revision, with or (when it fails) without the evidence that         *)
(* native_updates asks for.  A user's edit stays in the controls that it     *)
(* changes, and is no native change: nothing is adopted then, unless the     *)
(* edit had come before the controller read what the solver started from.    *)
Performed(set) ==
    LET h == With(starting, set).hydro
    IN  IF h.left > 0 THEN With(set, [hydro |-> [h EXCEPT !.left = @ - 1, !.done = @ + 1]]) ELSE set
Adopts(change) == IF change # "native" THEN {FALSE} ELSE IF Unchanged THEN {TRUE} ELSE {FALSE, raced}
NativeEnds ==
    /\ pc = "native"
    /\ \E result \in {"succeeded", "stopped", "failed", "timeout", "cancelled"},
          saved \in BOOLEAN, change \in {"none", "native", "unexplained"} : \E adopts \in Adopts(change) :
          LET good == result \in {"succeeded", "stopped"}
              init == pending # None /\ PendingStep.init
              pop == IF saved THEN clock + 1 ELSE files.pop
              ctl == IF change = "none" THEN files.ctl ELSE clock + 2
          IN  /\ result = "stopped" => stopping /\ ~init
              /\ result = "cancelled" => struck = "nowhere"
              /\ good => saved /\ change # "unexplained"
              /\ files' = [pop |-> pop, ctl |-> ctl,
                           set |-> IF change = "native" THEN Performed(files.set) ELSE files.set]
              /\ caches' = [c \in AllCaches |-> clock + 1]
              /\ clock' = IF change = "none" THEN clock + 1 ELSE clock + 2
              /\ native' = [native EXCEPT !.status = IF good /\ stopping /\ ~init
                                                     THEN "stopped" ELSE result,
                                          !.ctl = IF adopts THEN ctl ELSE 0,
                                          !.saved = saved]
              /\ struck' = IF result = "cancelled" THEN "native" ELSE struck
              /\ edit' = IF Edited THEN ctl ELSE edit
    /\ Goto("judge")
    /\ UNCHANGED <<attempt, used, batch, base, pending, step, decision, waiting, trend, waits, trial,
                   applied, rejected, starting, dirs, recorded, memory, stopping, faults, accepted, strayed>>

Interrupted == native.status \in {"cancelled", "timeout"}
LastStep == step = Len(pending.steps)
Initializing == pending # None /\ PendingStep.init
Adopted == IF native.ctl # 0 /\ files.ctl = native.ctl THEN files.ctl ELSE expected

(* The signature that adopts a native change takes what is in the file by    *)
(* then, an edit made since native_updates read it included.                 *)
JudgeSigns ==
    /\ pc = "judge" /\ raced /\ files.ctl = edit /\ native.ctl # 0
    /\ native' = [native EXCEPT !.ctl = files.ctl]
    /\ Goto("judge")
    /\ UNCHANGED <<attempt, used, batch, base, pending, step, decision, waiting, trend, waits, trial, applied,
                   rejected, starting, disk, memory, world, ghosts>>

(* The controls differ from what the controller and the native run left.     *)
JudgeRefuses ==
    /\ pc = "judge" /\ files.ctl # Adopted
    /\ expected' = Adopted
    /\ Refuse
    /\ UNCHANGED <<loop, disk, recovery, working, world, ghosts>>

NotRecipeStop == ~(native.status = "stopped" /\ pending # None)
Accepting == /\ pc = "judge" /\ files.ctl = Adopted /\ NotRecipeStop
             /\ expected' = Adopted
             /\ UNCHANGED <<batch, base, step, native, trial, applied, rejected, starting,
                            disk, recovery, working, world, accepted, clock>>

(* A clean stop in a recipe: the end of the run rolls the recipe back.       *)
JudgeRecipeStop ==
    /\ pc = "judge" /\ files.ctl = Adopted /\ ~NotRecipeStop
    /\ expected' = Adopted
    /\ Finish("stopped", FALSE)
    /\ UNCHANGED <<loop, disk, recovery, working, world, ghosts>>

(* The evidence of a finished attempt: a continuation must be confirmed, and *)
(* the iterations it counts replace the ones that were charged.              *)
Confirmed(s) == Good /\ (native.restart = "continuation" => s.observed = "continuation")
Extra(s) == IF Initializing THEN 0 ELSE Len(s.batch.rows) - native.charged
Fits(s) == Extra(s) <= 0 \/ used + Extra(s) <= MaxIterations
Reply(s) ==
    IF pending = None THEN [verdict |-> "verified", base |-> NoBase]
    ELSE Response(PendingStep.name, Context(s, "success", used + Extra(s), << >>), pending.base)

(* The solver ran more iterations than asked, beyond the shared budget.      *)
JudgeOverrun ==
    /\ Accepting
    /\ \E s \in Scenes(starting) : Confirmed(s) /\ ~Fits(s) /\ used' = used + Extra(s)
    /\ Call("restore", Ending("limit_reached"))
    /\ strayed' = TRUE
    /\ UNCHANGED <<attempt, pending, decision, waiting, trend, waits>>

(* The evidence is accepted, or its verification deferred to another batch.  *)
(* Only a checkpoint outside recipes, or the last of a recipe, is committed. *)
(* A deferred verification must look safe; outside recipes choose decides.   *)
Judged(s, r) ==
    LET deferred == r.verdict = "pending"
        closing == pending # None /\ LastStep /\ ~deferred
        open == pending # None /\ ~closing
        spent == used + Extra(s)
        before == IF closing THEN 0 ELSE trend
        c == [Context(s, "success", spent, History(s, before)) EXCEPT
                 !.phase = IF closing THEN "iterate" ELSE @]
    IN  /\ waiting' = deferred
        /\ used' = spent
        /\ pending' = IF pending = None THEN None ELSE [pending EXCEPT !.base = r.base]
        /\ waits' = IF deferred THEN Longer(s.batch, waits) ELSE 0
        /\ trend' = IF deferred THEN trend ELSE IF Initializing THEN 0 ELSE Longer(s.batch, before)
        /\ decision' = IF deferred
                       THEN IF Unsafe([c EXCEPT !.history = History(s, waits)]) THEN Stop ELSE Continue
                       ELSE IF open \/ native.status = "stopped" THEN decision ELSE choose(c)
        /\ IF open THEN Goto("settle") ELSE Call("copy", Return("settle"))
        /\ strayed' = (strayed \/ deferred \/ Extra(s) > 0)
JudgeAccepts ==
    /\ pc = "judge" /\ files.ctl = Adopted /\ NotRecipeStop
    /\ \E s \in Scenes(starting) :
          /\ Confirmed(s) /\ Fits(s)
          /\ LET r == Reply(s) IN r.verdict \in {"verified", "pending"} /\ Judged(s, r)
    /\ expected' = Adopted
    /\ accepted' = IF pc' = "copy" THEN accepted \cup {files.pop} ELSE accepted
    /\ UNCHANGED <<attempt, batch, base, step, native, trial, applied, rejected, starting,
                   disk, recovery, working, world, clock>>

(* A reversible trial did not pay off: back to the baseline.                 *)
JudgeRejects ==
    /\ Accepting
    /\ pending # None /\ pending.reversible
    /\ \E s \in Scenes(starting) :
          Confirmed(s) /\ Fits(s) /\ Reply(s).verdict = "rejected" /\ used' = used + Extra(s)
    /\ Call("restore", Return("rejected"))
    /\ UNCHANGED <<attempt, pending, decision, waiting, trend, waits, strayed>>

TrialRejected ==
    /\ pc = "rejected"
    /\ trial' = "rejected" /\ rejected' = rejected \cup {pending.policy}
    /\ pending' = None /\ base' = "iterate" /\ attempt' = attempt + 1 /\ trend' = 0
    /\ Goto("top")
    /\ UNCHANGED <<used, batch, step, decision, native, waiting, waits, applied, starting,
                   disk, memory, world, ghosts>>

(* An attempt failed, its evidence is invalid, or (and then it is charged)   *)
(* the validator refutes it.                                                 *)
Failed(s, r) ==
    \/ UNCHANGED <<used, pending>>
    \/ /\ Confirmed(s) /\ Fits(s) /\ r.verdict = "failed"
       /\ used' = used + Extra(s)
       /\ pending' = [pending EXCEPT !.base = r.base]
NotNested(d) ==
    IF pending # None /\ d.kind # "invalid" /\ d.steps # << >> THEN [Stop EXCEPT !.policy = d.policy] ELSE d
JudgeFails ==
    /\ Accepting
    /\ strayed' = (strayed \/ pending # None)
    /\ \E s \in Scenes(starting) :
          /\ Failed(s, Reply(s))
          /\ IF Interrupted
             THEN Call("restore", Ending(native.status)) /\ UNCHANGED decision
             ELSE IF stopping
             THEN Call("restore", Ending("needs_review")) /\ UNCHANGED decision
             ELSE /\ decision' = NotNested(choose(Context(s, "failure", used', << >>)))
                  /\ IF decision'.kind = "invalid" THEN Refuse
                     ELSE IF decision'.kind = "action" /\ decision'.retain THEN Goto("decide")
                     ELSE IF decision'.kind = "action" /\ pending # None
                     THEN Call("restore", FromStep("decide"))
                     ELSE Call("restore", Return("decide"))
    /\ UNCHANGED <<attempt, waiting, trend, waits>>

Other(n) == CHOOSE m \in Names : m # n

(* _capture: copy everything, name the copy in recovery.json, remove the     *)
(* predecessor, and only then does the caller remember the new one.          *)
CaptureOverPredecessor ==
    /\ pc = "copy"
    /\ dirs' = [dirs EXCEPT ![recovery] = Removed(Partial),
                            ![Other(recovery)] = files]
    /\ Goto("name")
    /\ UNCHANGED <<loop, files, caches, recorded, memory, world, ghosts>>

CaptureCopy ==
    /\ pc = "copy"
    /\ dirs' = [dirs EXCEPT ![Other(recovery)] = files]
    /\ Goto("name")
    /\ UNCHANGED <<loop, files, caches, recorded, memory, world, ghosts>>

CaptureName ==
    /\ pc = "name"
    /\ recorded' = Other(recovery)
    /\ Goto("drop")
    /\ UNCHANGED <<loop, files, caches, dirs, memory, world, ghosts>>

CaptureDrop ==
    /\ pc = "drop"
    /\ dirs' = [dirs EXCEPT ![recovery] = Removed(Partial)]
    /\ Goto("assign")
    /\ UNCHANGED <<loop, files, caches, recorded, memory, world, ghosts>>

CaptureAssign ==
    /\ pc = "assign"
    /\ dirs' = [dirs EXCEPT ![recovery] = Removed(Absent)]
    /\ recovery' = Other(recovery)
    /\ pc' = then.pc /\ then' = Nowhere /\ UNCHANGED <<status, review>>
    /\ UNCHANGED <<loop, files, caches, recorded, working, expected, world, ghosts>>

(* The caches are retired whatever the snapshot holds.                       *)
RetiredKept == caches
Retired == [c \in AllCaches |-> Absent]
Source == IF then.source = "working" THEN working ELSE dirs[recovery]
Restored(v) == IF v \in {Absent, Partial} THEN Missing ELSE v

(* _restore: checkpoint files, then controls, then the caches are retired;   *)
(* a file that the snapshot lacks is removed from the model.                 *)
RestoreCheckpoint ==
    /\ pc = "restore"
    /\ files' = [files EXCEPT !.pop = Restored(Source.pop)]
    /\ Goto("restore2")
    /\ UNCHANGED <<loop, caches, dirs, recorded, memory, world, ghosts>>

RestoreControls ==
    /\ pc = "restore2"
    /\ files' = [files EXCEPT !.ctl = Restored(Source.ctl), !.set = Source.set]
    /\ caches' = Retired
    /\ expected' = files'.ctl
    /\ pc' = then.pc /\ then' = Nowhere
    /\ status' = IF then.status = "running" THEN status ELSE then.status
    /\ review' = (review /\ then.pc # "rolled")
    /\ UNCHANGED <<loop, dirs, recorded, recovery, working, world, ghosts>>

(* What follows an accepted attempt: the end of a clean stop, one more       *)
(* verification batch, the next step of the recipe, or a decision.           *)
Settle ==
    /\ pc = "settle"
    /\ LET closing == pending # None /\ ~waiting /\ LastStep
       IN  IF native.status = "stopped"
           THEN Finish("stopped", FALSE) /\ UNCHANGED <<pending, step, trial, base, attempt>>
           ELSE IF waiting
           THEN /\ IF decision.kind = "stop" THEN Finish("needs_review", FALSE) /\ UNCHANGED attempt
                   ELSE Goto("top") /\ attempt' = attempt + 1
                /\ UNCHANGED <<pending, step, trial, base>>
           ELSE /\ pending' = IF closing THEN None ELSE pending
                /\ step' = IF pending = None THEN step ELSE step + 1
                /\ trial' = IF closing /\ pending.reversible THEN "accepted" ELSE trial
                /\ base' = IF closing THEN "iterate" ELSE base
                /\ IF pending' # None THEN Goto("top") /\ attempt' = attempt + 1
                   ELSE Goto("decide") /\ UNCHANGED attempt
    /\ UNCHANGED <<used, batch, decision, native, waiting, trend, waits, applied, rejected, starting,
                   disk, memory, world, ghosts>>

Steps == decision.steps
Unaffordable == /\ Steps # << >>
                /\ \/ Requested(Steps, 1) > Remaining
                   \/ Len(Steps) > MaxAttempts - attempt

(* The decision is carried out.  Converged: the starting reuse settings may  *)
(* have to be restored first.  A recipe starts only if it fits the budgets.  *)
Decide ==
    /\ pc = "decide"
    /\ CASE decision.kind = "continue" ->
              Goto("top") /\ attempt' = attempt + 1 /\ UNCHANGED <<pending, step, strayed>>
         [] decision.kind = "stop" ->
              Finish("needs_review", FALSE) /\ UNCHANGED <<attempt, pending, step, strayed>>
         [] decision.kind = "invalid" -> Refuse /\ UNCHANGED <<attempt, pending, step, strayed>>
         [] decision.kind = "converged" ->
              /\ IF ~Unchanged THEN Refuse
                 ELSE IF Controls.N_FIX_BA = starting.N_FIX_BA THEN Finish("succeeded", FALSE)
                 ELSE Goto("release")
              /\ UNCHANGED <<attempt, pending, step, strayed>>
         [] decision.kind = "action" ->
              /\ UNCHANGED attempt
              /\ IF decision.batch > Remaining
                 THEN Finish("limit_reached", FALSE) /\ UNCHANGED <<pending, step, strayed>>
                 ELSE IF Unaffordable
                 THEN /\ IF ~decision.retain THEN Finish("limit_reached", FALSE)
                         ELSE IF Unchanged THEN Call("restore", Ending("limit_reached")) ELSE Refuse
                      /\ UNCHANGED <<pending, step, strayed>>
                 ELSE /\ Goto("act")
                      /\ IF Steps = << >> THEN UNCHANGED <<pending, step, strayed>>
                         ELSE pending' = decision /\ step' = 1 /\ strayed' = FALSE
    /\ native' = NoAttempt
    /\ UNCHANGED <<used, batch, base, decision, waiting, trend, waits, trial, applied,
                   rejected, starting, disk, memory, world, accepted, clock>>

(* Verified: the starting settings of matrix reuse go into the model's       *)
(* controls and, by a plain copy, into the recovery snapshot.                *)
ReleaseWrite ==
    /\ pc = "release"
    /\ files' = [files EXCEPT !.ctl = clock + 1, !.set = With(@, [N_FIX_BA |-> starting.N_FIX_BA])]
    /\ clock' = clock + 1
    /\ Goto("release2")
    /\ UNCHANGED <<loop, caches, dirs, recorded, memory, world, accepted, strayed>>

ReleaseCopy ==
    /\ pc = "release2"
    /\ dirs' = [dirs EXCEPT ![recovery].ctl = Partial]
    /\ Goto("release3")
    /\ UNCHANGED <<loop, files, caches, recorded, memory, world, ghosts>>

ReleaseDone ==
    /\ pc = "release3"
    /\ dirs' = [dirs EXCEPT ![recovery].ctl = files.ctl, ![recovery].set = files.set]
    /\ expected' = files.ctl
    /\ Finish("succeeded", FALSE)
    /\ UNCHANGED <<loop, files, caches, recorded, recovery, working, world, ghosts>>

(* action: the record first, then a checkpoint mutation and the retired      *)
(* caches, then the controls; a snapshot unless the action is provisional;   *)
(* the new controls are expected only after that.                            *)
ActRecord ==
    /\ pc = "act"
    /\ IF Unchanged
       THEN /\ applied' = [applied EXCEPT ![decision.policy] = @ + 1]
            /\ trial' = IF decision.reversible THEN "open" ELSE trial
            /\ Goto("act2")
       ELSE Refuse /\ UNCHANGED <<applied, trial>>
    /\ UNCHANGED <<attempt, used, batch, base, pending, step, decision, native, waiting, trend, waits,
                   rejected, starting, disk, memory, world, ghosts>>

ActFiles ==
    /\ pc = "act2"
    /\ files' = IF decision.mutates THEN [files EXCEPT !.pop = clock + 1] ELSE files
    /\ clock' = IF decision.mutates THEN clock + 1 ELSE clock
    /\ caches' = [c \in AllCaches |-> IF c \in decision.caches THEN Absent ELSE caches[c]]
    /\ Goto("act3")
    /\ UNCHANGED <<loop, dirs, recorded, memory, world, accepted, strayed>>

ActControls ==
    /\ pc = "act3"
    /\ IF DOMAIN decision.set = {} THEN UNCHANGED <<files, clock>>
       ELSE /\ files' = [files EXCEPT !.ctl = clock + 1, !.set = With(@, decision.set)]
            /\ clock' = clock + 1
    /\ IF Steps = << >> /\ pending = None THEN Call("copy", Return("acted")) ELSE Goto("acted")
    /\ UNCHANGED <<loop, caches, dirs, recorded, memory, world, accepted, strayed>>

Acted ==
    /\ pc = "acted"
    /\ expected' = files.ctl
    /\ batch' = IF decision.batch # 0 THEN decision.batch ELSE batch
    /\ base' = IF Steps = << >> THEN decision.next ELSE base
    /\ attempt' = attempt + 1 /\ trend' = 0 /\ decision' = Continue
    /\ Goto("top")
    /\ UNCHANGED <<used, pending, step, native, waiting, waits, trial, applied, rejected,
                   starting, disk, recovery, working, world, ghosts>>

(* A cancellation (SIGTERM raises KeyboardInterrupt) between two steps.      *)
Interrupt ==
    /\ Active /\ pc # "native" /\ struck = "nowhere"
    /\ struck' = pc /\ pc' = "cancelled" /\ status' = "cancelled" /\ then' = Nowhere
    /\ Forgotten
    /\ UNCHANGED <<review, attempt, used, base, pending, step, decision, trial, applied, rejected, starting,
                   disk, memory, stopping, edit, faults, ghosts>>

CancelledBlindly ==
    /\ pc = "cancelled" /\ Call("restore", Ending("cancelled"))
    /\ UNCHANGED <<loop, disk, memory, world, ghosts>>

Cancelled ==
    /\ pc = "cancelled"
    /\ IF Unchanged THEN Call("restore", Ending("cancelled")) ELSE Finish("cancelled", TRUE)
    /\ UNCHANGED <<loop, disk, memory, world, ghosts>>

(* An OSError at a file operation or a report: _capture itself puts up with  *)
(* one in the removal of the predecessor.  A restoration that fails in the   *)
(* cancellation or in the final rollback is left for review.                 *)
Fault ==
    /\ faults < MaxFaults /\ faults' = faults + 1
    /\ pc \notin {"native", "drop", "assign", "cancelled", "finally", "done"}
    /\ LET closing == pc \in {"restore", "restore2"} /\ then.pc = "rolled"
           cancelling == pc \in {"restore", "restore2"} /\ then.status = "cancelled" /\ struck # "native"
       IN  /\ pc' = IF closing THEN "done" ELSE "finally"
           /\ status' = IF closing \/ cancelling THEN status ELSE "needs_review"
           /\ review' = TRUE /\ then' = Nowhere
    /\ Forgotten
    /\ UNCHANGED <<attempt, used, base, pending, step, decision, trial, applied, rejected, starting,
                   disk, memory, stopping, edit, struck, ghosts>>

(* The finally clause: a recipe still pending is rolled back.                *)
FinallyKeeping ==
    /\ pc = "finally" /\ pc' = "done" /\ UNCHANGED <<then, status, review>>
    /\ UNCHANGED <<loop, disk, memory, world, ghosts>>

Finally ==
    /\ pc = "finally"
    /\ IF pending = None THEN pc' = "done" /\ UNCHANGED <<then, status, review>>
       ELSE IF Unchanged THEN Call("restore", Return("rolled"))
       ELSE pc' = "done" /\ review' = TRUE /\ UNCHANGED <<then, status>>
    /\ Forgotten
    /\ UNCHANGED <<attempt, used, base, pending, step, decision, trial, applied, rejected, starting,
                   disk, memory, world, ghosts>>

RolledBack ==
    /\ pc = "rolled"
    /\ trial' = IF pending.reversible /\ trial = "open" THEN "aborted" ELSE trial
    /\ pc' = "done" /\ UNCHANGED <<then, status, review>>
    /\ UNCHANGED <<attempt, used, batch, base, pending, step, decision, native, waiting, trend, waits,
                   applied, rejected, starting, disk, memory, world, ghosts>>

(* The user: a clean stop, or an edit of a control, at any time.  The        *)
(* controller's checks and what they protect are guarded sections, which     *)
(* keep out the pages of the viewer but not an editor: an edit that falls    *)
(* between a check and the end of its section, or between the reading and    *)
(* the signing of a native change, races with them, up to the judgement of   *)
(* the attempt when that section has planned one.                            *)
Sections == {"plan", "copy", "name", "drop", "assign", "restore", "restore2", "rejected",
             "act2", "act3", "acted", "release", "release2", "release3"}
RequestStop ==
    /\ Active /\ ~stopping /\ stopping' = TRUE
    /\ UNCHANGED <<control, loop, disk, memory, edit, struck, faults, ghosts, raced>>

Edit ==
    /\ edit = 0 /\ pc # "done"
    /\ edit' = clock + 1 /\ clock' = clock + 1
    /\ files' = [files EXCEPT !.ctl = clock + 1]
    /\ raced' = (pc \in Sections \/ (pc = "judge" /\ native.ctl # 0))
    /\ UNCHANGED <<control, loop, caches, dirs, recorded, memory, stopping, struck, faults, accepted, strayed>>

(* The race is over with the section, or with the attempt it planned.        *)
Lapses == raced' = (raced /\ pc' \in Sections \cup {"native", "judge"})

Controller ==
    \/ Prepare \/ BeginAttempt \/ PlanAttempt \/ NativeEnds
    \/ JudgeSigns \/ JudgeRefuses \/ JudgeRecipeStop
    \/ JudgeOverrun \/ JudgeAccepts \/ JudgeRejects \/ JudgeFails
    \/ TrialRejected
    \/ CaptureCopy \/ CaptureName \/ CaptureDrop \/ CaptureAssign
    \/ RestoreCheckpoint \/ RestoreControls
    \/ Settle \/ Decide \/ ReleaseWrite \/ ReleaseCopy \/ ReleaseDone
    \/ ActRecord \/ ActFiles \/ ActControls \/ Acted
    \/ Cancelled \/ Finally \/ RolledBack

Done == pc = "done" /\ UNCHANGED vars

Next == ((Controller \/ Interrupt \/ Fault) /\ Lapses) \/ RequestStop \/ Edit \/ Done

Spec == Init /\ [][Next]_vars

-----------------------------------------------------------------------------
TypeOK ==
    /\ pc \in {"prepare", "top", "plan", "native", "judge", "copy", "name", "drop", "assign", "restore",
               "restore2", "rejected", "settle", "decide", "release", "release2", "release3",
               "act", "act2", "act3", "acted", "cancelled", "finally", "rolled", "done"}
    /\ status \in {"running", "succeeded", "stopped", "timeout", "limit_reached",
                   "preflight_failed", "needs_review", "cancelled"}
    /\ used \in Nat /\ attempt \in 0..MaxAttempts + 1 /\ base \in {"iterate", "verify"}
    /\ pending.kind \in {"none", "action"} /\ step \in 0..4
    /\ {files.pop, files.ctl} \subseteq Nat \cup {Missing} /\ DOMAIN dirs = Names
    /\ trend \in 0..Longest /\ waits \in 0..Longest
    /\ {recorded, recovery} \subseteq Names /\ expected \in Int
    /\ trial \in {"none", "open", "accepted", "rejected", "aborted"}
    /\ accepted \subseteq Nat /\ clock \in Nat

(* Whenever the process or the machine dies, recovery.json names a snapshot  *)
(* of a checkpoint that was accepted, never a provisional or a partly        *)
(* removed one; its controls are whole but for the copy that a converged run *)
(* makes over them.                                                          *)
RecoveryUsable ==
    LET s == dirs[recorded] IN
    /\ TypeOK
    /\ s.pop \in accepted
    /\ s.ctl >= 0 \/ decision.kind = "converged"

(* A run that ends without leaving the files for review holds an accepted    *)
(* checkpoint together with the controls saved with it: the recovery         *)
(* snapshot; a converged one has the matrix reuse that it started with.      *)
(* Excepted is a cancellation between the removal of the previous snapshot   *)
(* and the assignment that follows it, after which the rollback looks for a  *)
(* snapshot that is gone.                                                    *)
EndedCoupled ==
    pc = "done" /\ ~review /\ struck # "assign" =>
        /\ files.pop = dirs[recovery].pop /\ files.pop \in accepted
        /\ edit = 0 => files.ctl = dirs[recovery].ctl /\ files.set = dirs[recovery].set
        /\ status = "succeeded" => Controls.N_FIX_BA = starting.N_FIX_BA

(* An edit of the user that the controller does not know is neither          *)
(* overwritten, by an action or a rollback, nor taken for the controller's   *)
(* own, whatever ends the run: it stays until the run gives up before it.    *)
(* Excepted is an edit that falls between a check and the end of the section *)
(* it opens, or between the reading and the signing of a native change,      *)
(* which only an editor outside the viewer can make: a write of that section *)
(* may replace it, or the signature take it over.  Left alone by the         *)
(* section, it is safe again when the section ends.                          *)
EditPreserved == [][Edited /\ ~raced => files'.ctl = edit' /\ expected' # edit']_vars

(* The solver never starts on budgets already spent, and a recipe is started *)
(* only if it fits them: one that runs out of its budgets had a step         *)
(* repeated, deferred or prolonged by the solver.                            *)
BudgetsKept ==
    /\ pc = "native" => used <= MaxIterations /\ attempt <= MaxAttempts
    /\ status = "limit_reached" /\ pending # None => strayed

(* The solver never starts from a checkpoint beside caches of another one.   *)
CachesMatch == pc = "native" => \A c \in AllCaches : caches[c] \in {Absent, files.pop}

(* Whatever was tried, rolled back or released before: corrections are never *)
(* damped less than at the start, and convergence is verified with fresh     *)
(* matrices.                                                                 *)
ControlsSound ==
    pc = "native" =>
        /\ Controls.RELAX <= starting.RELAX
        /\ base = "verify" /\ pending = None => Controls.N_FIX_BA = 0

(* The solver starts on budgets that are left, on files of one checkpoint,   *)
(* and on controls that no sequence of remedies has loosened.                *)
SolverReady == BudgetsKept /\ CachesMatch /\ ControlsSound
=============================================================================
