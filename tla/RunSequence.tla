----------------------------- MODULE RunSequence -----------------------------
(***************************************************************************)
(* Multi-stage runs of the native programs (runner.py, runner_recipe.py,   *)
(* runner_restart.py): a sequence is previewed, then each stage is planned *)
(* from what its predecessors left, checked again under the guard of the   *)
(* model and executed.                                                     *)
(*                                                                         *)
(* A product of a stage is a record of the run that wrote it, the facts it *)
(* was computed from (file and version, or stage and run) and whether it   *)
(* is complete.  Modification times are what these facts say: an output is *)
(* fresh when it was computed from the present inputs.  The steps inside a *)
(* promotion, an automatic main stage and a temporary control belong to    *)
(* Promotion, AutoRun and TemporaryControls; a promotion here happens or   *)
(* does not.  Locks are those of ModelLocks: others act while no stage     *)
(* holds the guard, and not at all while an automatic sequence owns the    *)
(* run.  Only the flux template is also changed by editors outside.        *)
(***************************************************************************)
EXTENDS Naturals, Sequences, TLC, Functions

CONSTANTS
    Requests,     \* sequences of stages a user may ask for
    Passes,       \* number of flux passes
    Budget,       \* native execution time of a sequence
    MaxForeign    \* bound on changes by others

Native == {"lte", "hydro", "test", "main", "flux"}
Stages == Native \cup {"prepare-lte", "promote-hydro", "cleanup"}
Absent == [run |-> 0, from |-> {}, ok |-> FALSE]  \* a product that does not exist
Controls == {"root", "lte", "hydro", "flux"}
Products == {"table", "wind", "structure", "checkpoint", "solution", "cache"}

ASSUME SequenceAssumption ==
    /\ Requests \subseteq Seq(Stages) /\ Passes \in Nat \ {0}
    /\ Budget \in Nat /\ MaxForeign \in Nat
    /\ \A r \in Requests : Len(r) >= 2 /\ IsInjective(r)

VARIABLES
    ctl,        \* version of each control: VADAT and *_IN of the root, of lte/,
                \* HYDRO_PARAMS, CMF_FLUX_PARAM_INIT
    mu,         \* version of the LTE inputs whose mean atomic weight HYDRO_PARAMS has
    prepared,   \* lte/ exists
    prod,       \* ROSSELAND_LTE_TAB and RVSIG_COL_NEW in lte/; RVSIG_COL, POINT1 and
                \* SCRTEMP, RVTJ and MODEL in the root; radiation caches in obs/
    spectra,    \* what each flux pass published
    request, fresh, auto,  \* the sequence previewed, --fresh-start, --auto
    preview,    \* what the preview saw of the inputs of the first stage
    pc, index,  \* step of the runner and number of the stage
    plan,       \* mode: how a plan expects main to start; retire: checkpoint to retire;
                \* seen: its snapshot of the inputs
    template,   \* version of the template a flux stage works with
    pass,       \* its pass
    left,       \* remaining_timeout
    clock,      \* what is left until the deadline of the stage
    stop,       \* a stop after the iteration was requested
    done,       \* run that completed each stage of completed_stages
    status,     \* status of the sequence
    runs,       \* native runs so far
    foreign,    \* changes by others so far
    disturbed,  \* history: one of them came after the preview
    spent,      \* history: native time used
    begun       \* history: stages begun after a stop was requested

files == <<ctl, mu, prepared, prod, spectra>>
choice == <<request, fresh, auto, preview>>
history == <<disturbed, spent, begun>>
vars == <<files, choice, pc, index, plan, template, pass, left, clock, stop, done,
          status, runs, foreign, history>>

Stage == request[index]
Exists(p) == prod[p] # Absent
Run(p) == <<"run", prod[p].run>>

TableFresh == <<"lte", ctl["lte"]>> \in prod["table"].from
WindFresh == {Run("table"), <<"hydro", ctl["hydro"]>>} \subseteq prod["wind"].from
Aligned == mu = ctl["lte"]
PromotionReady == TableFresh /\ WindFresh /\ Aligned
Promoted == PromotionReady /\ prod["structure"] = prod["wind"]
\* The preflight issue unpromoted-lte-result: a fresh result is newer than the root's.
Unpromoted == \/ TableFresh /\ Run("table") \notin prod["structure"].from
              \/ WindFresh /\ prod["structure"] # prod["wind"]

\* --fresh-start concerns the first test or main stage only.
FreshStage ==
    LET main == {i \in DOMAIN request : request[i] \in {"test", "main"}}
    IN IF fresh /\ main # {} THEN CHOOSE i \in main : \A j \in main : i <= j ELSE 0
Mode(i) == IF Exists("checkpoint") /\ i # FreshStage THEN "continuation" ELSE "fresh"

\* What decides in the preflight of a stage.  A promotion looks at freshness only.
HydroReady == prepared /\ prod["table"].ok /\ TableFresh
Ready(i) ==
    CASE request[i] = "prepare-lte" -> ~prepared
      [] request[i] = "lte" -> prepared
      [] request[i] = "hydro" -> HydroReady
      [] request[i] = "promote-hydro" -> PromotionReady /\ ~Promoted
      [] request[i] = "flux" -> prod["solution"].ok
      [] request[i] = "cleanup" -> TRUE
      [] Mode(i) = "continuation" -> /\ prod["checkpoint"].ok
                                     /\ Exists("solution") => prod["solution"].ok
      [] OTHER -> prod["structure"].ok /\ ~Unpromoted

\* The files a plan takes a snapshot of.  The restart files are among them when they are
\* absent.
ReadBy(s, mode) ==
    CASE s = "lte" -> {"lte"}
      [] s = "hydro" -> {"lte", "hydro", "table"}
      [] s = "promote-hydro" -> {"lte", "root", "table", "wind", "structure",
                                 "checkpoint", "solution"}
      [] s = "flux" -> {"flux", "structure", "solution", "cache"}
      [] s \in {"test", "main"} -> {"root", "structure", "checkpoint"}
                                   \cup (IF mode = "continuation" THEN {"solution"} ELSE {})
      [] OTHER -> {}
State(f) == IF f \in Controls THEN ctl[f] ELSE prod[f].run
Inputs(s, mode) == [f \in ReadBy(s, mode) |-> State(f)]
Unchanged(seen) == \A f \in DOMAIN seen : State(f) = seen[f]

\* A model with a promoted structure and a solution computed on it.
OldModel ==
    LET table == [run |-> 1, from |-> {<<"lte", 0>>}, ok |-> TRUE]
        wind == [run |-> 2, from |-> {<<"lte", 0>>, <<"run", 1>>, <<"hydro", 0>>}, ok |-> TRUE]
        solved == [run |-> 3, from |-> wind.from \cup {<<"run", 2>>, <<"root", 0>>}, ok |-> TRUE]
        cached == [run |-> 3, from |-> solved.from \cup {<<"run", 3>>, <<"flux", 0>>}, ok |-> TRUE]
    IN [p \in Products |-> CASE p = "table" -> table
                             [] p \in {"wind", "structure"} -> wind
                             [] p = "cache" -> cached
                             [] OTHER -> solved]

NoPlan == [mode |-> "none", retire |-> FALSE, seen |-> <<>>]

-----------------------------------------------------------------------------
(* The native programs: what an output is computed from.                    *)

Computed(s) ==
    CASE s = "lte" -> {<<"lte", ctl["lte"]>>}
      [] s = "hydro" -> prod["table"].from \cup {Run("table"), <<"hydro", ctl["hydro"]>>}
      [] s \in {"test", "main"} ->
            LET base == IF Exists("checkpoint") THEN "checkpoint" ELSE "structure"
            IN prod[base].from \cup {Run(base), <<"root", ctl["root"]>>}
      [] OTHER -> IF Exists("cache") THEN prod["cache"].from
                  ELSE prod["solution"].from \cup {Run("solution"), <<"flux", template>>}

Output(s, complete) == [run |-> runs + 1, from |-> Computed(s), ok |-> complete]
Written(s) == CASE s = "lte" -> {"table"}
                [] s = "hydro" -> {"wind"}
                [] s = "flux" -> {"cache"}
                [] OTHER -> {"checkpoint", "solution"}
Write(s, complete) == prod' = [p \in Products |-> IF p \in Written(s) THEN Output(s, complete)
                                                  ELSE prod[p]]

-----------------------------------------------------------------------------
(* Others: the editor, another runner.  Changes outside the guard.          *)

Reserved == auto /\ pc \notin {"idle", "previewed"}
Guarded == Reserved \/ pc \in {"setup", "launch", "run", "idle", "ended"}

Interferes ==
    /\ foreign < MaxForeign /\ foreign' = foreign + 1
    /\ disturbed' = IF pc = "snapshot" \/ disturbed = "inside" THEN "inside" ELSE "between"
    /\ UNCHANGED <<choice, pc, index, plan, template, pass, left, clock, stop, done, status,
                   spent, begun>>

EditControl(f) ==
    /\ ~Guarded /\ (f \in {"lte", "hydro"} => prepared)
    /\ ctl' = [ctl EXCEPT ![f] = @ + 1]
    /\ Interferes /\ UNCHANGED <<mu, prepared, prod, spectra, runs>>

OtherRun(s) ==
    /\ ~Guarded
    /\ s = "hydro" => HydroReady /\ Aligned
    /\ s = "main" => \/ Exists("checkpoint")
                     \/ prod["structure"].ok /\ ~Unpromoted
    /\ Write(s, TRUE) /\ runs' = runs + 1
    /\ Interferes /\ UNCHANGED <<ctl, mu, prepared, spectra>>

\* An editor outside the viewer saves the template while the stage runs.
EditTemplate ==
    /\ pc \in {"launch", "run"} /\ Stage = "flux"
    /\ ctl' = [ctl EXCEPT !["flux"] = @ + 1]
    /\ Interferes /\ UNCHANGED <<mu, prepared, prod, spectra, runs>>

RequestStop ==
    /\ pc \notin {"idle", "previewed", "ended"} /\ ~stop /\ stop' = TRUE
    /\ UNCHANGED <<files, choice, pc, index, plan, template, pass, left, clock, done,
                   status, runs, foreign, history>>

-----------------------------------------------------------------------------
(* build_sequence_plan and the head of _run_sequence_plan                   *)

Preview(r, f, a) ==
    /\ pc = "idle" /\ pc' = "previewed"
    /\ a => r = <<"main", "flux">>
    /\ request' = r /\ fresh' = f /\ auto' = a
    /\ UNCHANGED <<files, index, plan, template, pass, left, clock, stop, done, status,
                   runs, foreign, history>>
    /\ Ready(1)' /\ preview' = Inputs(r[1], Mode(1)')

\* Everything but the files and what belongs to the stage at hand.
Keep == UNCHANGED <<choice, left, done, runs, foreign, stop, history>>
End(s) == pc' = "ended" /\ status' = s
StageLocals == <<plan, template, pass, clock>>

\* An automatic sequence runs what was reviewed; the others plan every stage anew.
PreviewHolds == auto => Unchanged(preview)
Start ==
    /\ pc = "previewed"
    /\ IF PreviewHolds THEN pc' = "check" /\ status' = "running" ELSE End("refused")
    /\ Keep /\ UNCHANGED <<files, index, StageLocals>>

Exhausted == Stage \in Native /\ left = 0
Check ==
    /\ pc = "check"
    /\ CASE index > Len(request) -> End("succeeded")
         [] index <= Len(request) /\ stop -> End("stopped")
         [] index <= Len(request) /\ ~stop /\ Exhausted -> End("timeout")
         [] OTHER -> pc' = "inspect" /\ UNCHANGED status
    /\ Keep /\ UNCHANGED <<files, index, StageLocals>>

\* A plan looks at the files first and takes the snapshot of its inputs last.
Inspect ==
    /\ pc = "inspect"
    /\ IF Ready(index)
       THEN /\ pc' = "snapshot" /\ UNCHANGED status
            /\ plan' = [mode |-> Mode(index), seen |-> <<>>,
                        retire |-> index = FreshStage /\ Exists("checkpoint")]
       ELSE End("preflight_failed") /\ UNCHANGED plan
    /\ Keep /\ UNCHANGED <<files, index, template, pass, clock>>

Snapshot ==
    /\ pc = "snapshot" /\ pc' = "begin"
    /\ plan' = [plan EXCEPT !.seen = Inputs(Stage, plan.mode)]
    /\ Keep /\ UNCHANGED <<files, index, template, pass, clock, status>>

\* The guard is taken, by another caller perhaps, and the inputs are compared.  An
\* exception here ends the sequence, with the stage among the remaining ones.
Begin ==
    /\ pc = "begin" /\ Stage \in Native
    /\ \/ /\ Unchanged(plan.seen) /\ pc' = "setup" /\ UNCHANGED status
          /\ clock' = left /\ pass' = 1
          /\ begun' = IF stop THEN begun + 1 ELSE begun
       \/ End("runner_error") /\ UNCHANGED <<clock, pass, begun>>
    /\ UNCHANGED <<files, choice, index, plan, template, left, stop, done, runs, foreign,
                   disturbed, spent>>

-----------------------------------------------------------------------------
(* run_plan: one native stage, under the guard                              *)

\* The sequence learns the outcome of a stage and what is left of its time.
Return(s, l) ==
    /\ pc' = "returned" /\ status' = s /\ left' = l
    /\ UNCHANGED <<choice, index, plan, template, pass, clock, done, foreign, stop,
                   disturbed, begun>>
\* The preparation and the validation of a stage take time as well.
Deducted(overhead) == IF clock' > overhead THEN clock' - overhead ELSE 0

\* Hydro gets its mean atomic weight from the LTE result, a fresh start retires the
\* checkpoint, flux reads its template.
Retire == IF plan.retire THEN [prod EXCEPT !["checkpoint"] = Absent] ELSE prod
Setup ==
    /\ pc = "setup" /\ pc' = "launch"
    /\ IF Stage = "hydro" /\ ~Aligned
       THEN mu' = ctl["lte"] /\ ctl' = [ctl EXCEPT !["hydro"] = @ + 1]
       ELSE UNCHANGED <<mu, ctl>>
    /\ prod' = Retire
    /\ template' = IF Stage = "flux" THEN ctl["flux"] ELSE template
    /\ UNCHANGED <<prepared, spectra, index, plan, pass, clock, status>> /\ Keep

\* An error or a cancellation, before or after the checkpoint is retired.
SetupFails ==
    /\ pc \in {"setup", "launch"}
    /\ \E s \in {"runner_error", "cancelled"} : Return(s, left)
    /\ prod' \in {prod, IF pc = "setup" THEN Retire ELSE prod}
    /\ UNCHANGED <<ctl, mu, prepared, spectra, runs, spent>>

\* One pass; the radiation caches of the previous one are retired first.
CachesRetired == [prod EXCEPT !["cache"] = Absent]
Launch ==
    /\ pc = "launch" /\ clock > 0
    /\ Stage = "flux" => ctl["flux"] = template
    /\ pc' = "run"
    /\ prod' = IF Stage = "flux" THEN CachesRetired ELSE prod
    /\ UNCHANGED <<ctl, mu, prepared, spectra, index, plan, template, pass, clock, status>>
    /\ Keep

\* The template must be the same for all passes; the deadline is the same for all.
LaunchRefused ==
    /\ pc = "launch"
    /\ \/ Stage = "flux" /\ ctl["flux"] # template /\ Return("runner_error", clock)
       \/ clock = 0 /\ Return("timeout", clock)
    /\ UNCHANGED <<files, runs, spent>>

Ticks(t) == clock' = clock - t /\ spent' = spent + t /\ runs' = runs + 1

\* The program exits with code 0 and new, valid outputs; temporary controls come back.  A
\* main run that was asked to stop has finished its iteration.
RunSucceeds(t) ==
    /\ pc = "run" /\ Ticks(t) /\ Write(Stage, TRUE)
    /\ spectra' = IF Stage = "flux" THEN [spectra EXCEPT ![pass] = Output("flux", TRUE)]
                  ELSE spectra
    /\ IF Stage = "flux" /\ pass < Passes
       THEN /\ pc' = "launch" /\ pass' = pass + 1
            /\ UNCHANGED <<choice, left, index, plan, template, status, done, foreign,
                           stop, disturbed, begun>>
       ELSE /\ pc' = "returned" /\ \E o \in {0, 1} : left' = Deducted(o)
            /\ status' = IF Stage = "main" /\ stop THEN "stopped" ELSE "succeeded"
            /\ UNCHANGED <<choice, index, plan, template, pass, done, foreign, stop,
                           disturbed, begun>>
    /\ UNCHANGED <<ctl, mu, prepared>>

\* It fails, leaves no or an invalid output, hits the deadline or is cancelled; or the
\* user changed an overridden control and the restoration reports a conflict.
RunFails(t) ==
    /\ pc = "run" /\ Ticks(t)
    /\ \E s \in {"failed", "invalid_output", "timeout", "cancelled", "runner_error"} :
        /\ s = "timeout" => t = clock
        /\ pc' = "returned" /\ status' = s
        /\ \E o \in {0, 1} : left' = Deducted(o)
        /\ \/ UNCHANGED prod
           \/ Write(Stage, FALSE)
           \/ s # "invalid_output" /\ Write(Stage, TRUE)
    /\ UNCHANGED <<ctl, mu, prepared, spectra, choice, index, plan, template, pass, done,
                   foreign, stop, disturbed, begun>>

-----------------------------------------------------------------------------
(* The stages without a native program                                      *)

Done(s) == Return(s, left) /\ UNCHANGED <<runs, spent>>

Prepare ==
    /\ pc = "begin" /\ Stage = "prepare-lte"
    /\ \/ ~prepared /\ prepared' = TRUE /\ Done("succeeded")
       \/ UNCHANGED prepared /\ Done("failed")
    /\ UNCHANGED <<ctl, mu, prod, spectra>>

\* The comparison with the plan comes before the guard, the readiness is inspected again
\* under it.
ComparePromotion ==
    /\ pc = "begin" /\ Stage = "promote-hydro"
    /\ IF Unchanged(plan.seen) THEN pc' = "promote" /\ UNCHANGED status
       ELSE End("runner_error")
    /\ Keep /\ UNCHANGED <<files, index, StageLocals>>

\* What Promotion shows of it: all of it or nothing.  The root VADAT gets its radii.  (A
\* variant leaves the checkpoint.)
InstalledOnly == [prod EXCEPT !["structure"] = prod["wind"]]
Installed == [prod EXCEPT !["structure"] = prod["wind"],
                          !["checkpoint"] = Absent, !["solution"] = Absent]
Promote ==
    /\ pc = "promote"
    /\ \/ /\ PromotionReady /\ prod' = Installed
          /\ ctl' = [ctl EXCEPT !["root"] = @ + 1] /\ Done("succeeded")
       \/ UNCHANGED <<prod, ctl>> /\ Done("failed")
    /\ UNCHANGED <<mu, prepared, spectra>>

Cleanup ==
    /\ pc = "begin" /\ Stage = "cleanup"
    /\ \/ prod' = CachesRetired /\ Done("succeeded")
       \/ UNCHANGED prod /\ Done("failed")
    /\ UNCHANGED <<ctl, mu, prepared, spectra>>

-----------------------------------------------------------------------------
Record ==
    /\ pc = "returned"
    /\ IF status = "succeeded"
       THEN /\ pc' = "check" /\ index' = index + 1 /\ status' = "running"
            /\ done' = done @@ (Stage :> runs)
       ELSE End(status) /\ UNCHANGED <<index, done>>
    /\ plan' = NoPlan /\ clock' = 0 /\ pass' = 1
    /\ UNCHANGED <<files, choice, template, left, stop, runs, foreign, history>>

\* A cancellation outside the native part of a stage.
Cancel ==
    /\ pc \in {"check", "inspect", "snapshot", "begin", "promote", "returned"}
    /\ End("cancelled")
    /\ Keep /\ UNCHANGED <<files, index, StageLocals>>

Init ==
    /\ ctl = [f \in Controls |-> 0] /\ mu = 0
    /\ \/ prepared = FALSE /\ prod = [p \in Products |-> Absent]
       \/ prepared = TRUE /\ prod \in {OldModel, [OldModel EXCEPT !["cache"] = Absent]}
    /\ spectra = [p \in 1..Passes |-> Absent]
    /\ request = <<>> /\ fresh = FALSE /\ auto = FALSE /\ preview = <<>>
    /\ pc = "idle" /\ index = 1 /\ plan = NoPlan /\ template = 0 /\ pass = 1
    /\ left = Budget /\ clock = 0 /\ stop = FALSE /\ done = <<>> /\ status = "none"
    /\ runs = 3 /\ foreign = 0 /\ disturbed = "never" /\ spent = 0 /\ begun = 0

Others == \/ \E f \in Controls : EditControl(f)
          \/ \E s \in {"hydro", "main"} : OtherRun(s)
          \/ EditTemplate \/ RequestStop
Runner == \/ \E r \in Requests, f, a \in BOOLEAN : Preview(r, f, a)
          \/ Start \/ Check \/ Inspect \/ Snapshot \/ Begin \/ Record \/ Cancel
NativeStage == \/ Setup \/ SetupFails \/ Launch \/ LaunchRefused
               \/ \E t \in 0..clock : RunSucceeds(t) \/ RunFails(t)
OtherStage == Prepare \/ ComparePromotion \/ Promote \/ Cleanup

Next == Others \/ Runner \/ NativeStage \/ OtherStage
Spec == Init /\ [][Next]_vars

-----------------------------------------------------------------------------
(* Properties                                                               *)

Feeds == {<<"lte", "hydro">>, <<"test", "main">>, <<"main", "flux">>, <<"test", "flux">>}
Result(s) == CASE s = "hydro" -> prod["wind"]
               [] s \in {"test", "main"} -> prod["solution"]
               [] OTHER -> spectra[1]

(* What a successful sequence leaves belongs together, unless others changed the model:
   each stage used the run of the stage before it, not an older or a failed one, and
   after a promotion the solution is on the promoted structure.  All spectra come from
   one solution and one template in any case. *)
SequenceCoherent ==
    pc = "ended" /\ status = "succeeded" =>
        /\ disturbed = "never" =>
            \A i, j \in DOMAIN request :
                i < j /\ <<request[i], request[j]>> \in Feeds =>
                    <<"run", done[request[i]]>> \in Result(request[j]).from
        /\ {"promote-hydro", "main"} \subseteq DOMAIN done /\ disturbed = "never" =>
                Run("wind") \in prod["solution"].from
        /\ "flux" \in DOMAIN done =>
                \A p, q \in 1..Passes : spectra[p].from = spectra[q].from

TypeOK ==
    /\ ctl \in [Controls -> Nat] /\ mu \in Nat /\ prepared \in BOOLEAN
    /\ \A r \in Range(prod) \cup Range(spectra) :
        /\ DOMAIN r = {"run", "from", "ok"} /\ r.run \in 0..runs /\ r.ok \in BOOLEAN
        /\ r.from \subseteq (Controls \cup {"run"}) \X Nat
    /\ DOMAIN prod = Products /\ DOMAIN spectra = 1..Passes
    /\ request \in Requests \cup {<<>>} /\ fresh \in BOOLEAN /\ auto \in BOOLEAN
    /\ pc \in {"idle", "previewed", "check", "inspect", "snapshot", "begin", "promote",
               "setup", "launch", "run", "returned", "ended"}
    /\ index \in 1..(Len(request) + 1) /\ pass \in 1..Passes
    /\ plan.mode \in {"none", "fresh", "continuation"} /\ plan.retire \in BOOLEAN
    /\ left \in 0..Budget /\ clock \in 0..Budget /\ template \in Nat
    /\ stop \in BOOLEAN /\ DOMAIN done \subseteq Range(request)
    /\ status \in {"none", "running", "succeeded", "stopped", "timeout", "refused",
                   "preflight_failed", "runner_error", "failed", "invalid_output",
                   "cancelled"}
    /\ foreign \in 0..MaxForeign /\ disturbed \in {"never", "between", "inside"}

(* A native program starts on what its plan accepted, whatever others did between the
   plan and the guard: main starts fresh or continues as planned, hydro has a current LTE
   result, flux a valid solution; an automatic sequence starts on the files that were
   reviewed.  Not covered: a change while the plan is being made. *)
StartsAsPlanned ==
    /\ TypeOK
    /\ pc = "run" /\ disturbed # "inside" =>
        /\ Stage \in {"test", "main"} =>
              (plan.mode = "continuation" <=> Exists("checkpoint"))
        /\ Stage = "hydro" => TableFresh /\ Aligned
        /\ Stage = "flux" => prod["solution"].ok
    /\ pc = "begin" /\ auto /\ index = 1 => plan.seen = preview

(* What the user has limited: the stages share one execution time, and a stop lets the
   stage at hand finish and starts no other. *)
LimitsHonoured == spent <= Budget /\ begun <= 1
=============================================================================
