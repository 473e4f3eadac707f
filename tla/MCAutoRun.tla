------------------------------ MODULE MCAutoRun -----------------------------
(* Models and scenes: a calm one of each, and what the others differ in.     *)
EXTENDS AutoRun, TLC

Row == [mode |-> "full", ba |-> TRUE, change |-> 20, inc |-> 20, dec |-> 20, scale |-> 1000,
        depth |-> 1, event |-> "none"]
Sized(n) == [Row EXCEPT !.change = n, !.inc = n, !.dec = n]
Filling(n) == [Sized(n) EXCEPT !.mode = "both"]
Vector(t) == <<t, 0, 0>>
Batch(rows) == [rows |-> rows, thermal |-> <<Vector(1), Vector(1)>>, temps |-> <<100, 100, 100>>,
                totals |-> (1 :> 0) @@ (20 :> 0), nt |-> 9, cycle |-> FALSE, source |-> FALSE,
                eps |-> 1, first |-> 11]
Falling == [i \in 1..3 |-> Batch(<<Sized(60 - 10 * i), Sized(55 - 10 * i)>>)]
Calm == [installed |-> "none", observed |-> "continuation", exit |-> "crash", codes |-> {}, log |-> {},
         batch |-> Batch(<<Sized(20), Sized(15)>>), earlier |-> Falling,
         lum |-> [min |-> 90, max |-> 110], inner |-> 60, measured |-> TRUE, physical |-> TRUE,
         conserved |-> TRUE, anchored |-> TRUE, floors |-> {}, checkpoint |-> 10, saved |-> 12,
         spike |-> "none", requests |-> "fine", accelerated |-> FALSE, proposal |-> "none",
         energy |-> 1000, seeded |-> TRUE]
Model == [N_FIX_BA |-> 0, RELAX |-> 8, depths |-> {}, NEG_OPAC_OPT |-> "SRCE_CHK", COMP_F |-> TRUE,
          INCL_dSLdT |-> FALSE, VFRAC_FG |-> 2000, VFRAC_MOM |-> 200000,
          hydro |-> [left |-> 0, done |-> 1, start |-> 2, every |-> 5],
          DO_HYDRO |-> TRUE, STOP_IF_MW |-> TRUE, SCALE_OPT |-> "MAJOR", DC_METH |-> "R",
          LIN_INT |-> TRUE, LTE_EST |-> FALSE, IT_ON_T |-> FALSE, FIX_T |-> FALSE, DO_LAM_IT |-> FALSE,
          DO_LAM_AUTO |-> TRUE, DO_T_AUTO |-> TRUE, DO_NG |-> TRUE, BEG_NG |-> 100, IBEG_NG |-> 5,
          COMP_BA |-> TRUE, STORE_BA |-> TRUE, scoped |-> FALSE, options |-> {}, regridding |-> FALSE,
          scripted |-> FALSE, source |-> TRUE, profile |-> "none", patch |-> 2, nd |-> 3,
          cache |-> "none", init |-> "none", fresh |-> FALSE]

(* What an attempt shows, named for what it leads to.                        *)
Shown(rows) == [Calm EXCEPT !.batch = Batch(rows)]
Tried(s) == [s EXCEPT !.accelerated = TRUE]
Converges == Shown(<<Sized(0), Sized(0)>>)
Progresses == Tried(Calm)
Stalls == Tried([Shown(<<Sized(8), Sized(9)>>) EXCEPT !.earlier = [i \in 1..3 |-> Batch(<<Sized(8), Sized(9)>>)]])
Explodes == Shown(<<Row, [Row EXCEPT !.inc = Huge]>>)
Fills == [Shown(<<Filling(60), Filling(50), Filling(40)>>) EXCEPT
             !.earlier = [i \in 1..3 |-> Batch(<<Filling(100 - i)>>)]]
Swings == [Shown(<<Row, Row, Row>>) EXCEPT !.batch.thermal = <<Vector(9), Vector(-9), Vector(9)>>]
Cycles3 == [Tried(Shown(<<Sized(5), Sized(5), Sized(5)>>)) EXCEPT !.batch.cycle = TRUE]
Spike == [Row EXCEPT !.dec = Huge, !.scale = 5]
Spikes == [Tried(Shown(<<Spike, Spike>>)) EXCEPT !.spike = "requested"]
Reuses == Tried([Shown(<<Sized(4), [Sized(3) EXCEPT !.ba = FALSE]>>) EXCEPT !.energy = 900])
Revises == Shown(<<[Row EXCEPT !.event = "hydro"]>>)

Fails(codes) == [Calm EXCEPT !.codes = codes]
Overflows == [Shown(<<[Row EXCEPT !.inc = Huge]>>) EXCEPT !.exit = "guard", !.log = {"max_change"}, !.saved = 11]
Misreads == [Calm EXCEPT !.log = {"eddfactor"}]
Invalid == Fails({"invalid_checkpoint"})
Floor == [known |-> TRUE, depth |-> 2, chi |-> 0, absorption |-> -1, scattering |-> 1]
Floors == [Fails({"source_opacity_floor"}) EXCEPT !.floors = {Floor}]
Unstarted == [Fails({"initial_population_scaling"}) EXCEPT !.observed = "none"]
Unsolved1 == <<[Row EXCEPT !.change = Unknown]>>
Guards(startup, low) ==
    [Fails({"inner_flux_accuracy"}) EXCEPT !.exit = "guard", !.observed = startup, !.lum.min = low,
        !.batch = [Batch(Unsolved1) EXCEPT !.first = IF startup = "fresh" THEN 1 ELSE 11],
        !.checkpoint = IF startup = "fresh" THEN 0 ELSE 10, !.log = {"pop", "lte", "charge"}]
Seeded == [Shown(<<Row>>) EXCEPT !.observed = "fresh", !.batch.first = 1, !.log = {"pop"}, !.saved = 1,
                                 !.installed = "POP"]

(* Every policy decides in one of these contexts, and choose takes it.       *)
Asked1 == [when |-> "success", phase |-> "iterate", iters |-> 50, attempts |-> 50,
           applied |-> [id \in {p.id : p \in Range(POLICIES)} |-> 0], rejected |-> {},
           original |-> 8, restart |-> "continuation", planned |-> "none"]
On(model, s) == [history |-> s.earlier \o <<s.batch>>] @@ Asked1 @@ model @@ s
Alone(c) == [c EXCEPT !.history = LastOf(@, 1)]
Failing(c) == [c EXCEPT !.when = "failure"]
Fresh(c) == [Failing(c) EXCEPT !.restart = "fresh"]
Slow == LET At(n, a, z) == [Batch(<<Sized(a), Sized(z)>>) EXCEPT !.first = n]
        IN  [Tried(Calm) EXCEPT !.batch = At(11, 48, 47), !.proposal = "new",
                                !.earlier = <<At(5, 50, 50), At(7, 50, 50), At(9, 49, 49)>>]
Small3 == LET At(i) == Batch(<<Sized(11 - 2 * i), Sized(10 - 2 * i)>>)
          IN  [Tried(Calm) EXCEPT !.batch = At(4), !.earlier = [i \in 1..3 |-> At(i)]]
Damped == [Model EXCEPT !.RELAX = 2, !.INCL_dSLdT = TRUE]
Unhydro(left) == [Model EXCEPT !.hydro = [left |-> left, done |-> 0, start |-> 2, every |-> 3], !.DC_METH = "POP"]
Leading ==
    [nonfinite_radiation_cache |->
        [On([Model EXCEPT !.COMP_F = FALSE, !.cache = "nonfinite"], Calm) EXCEPT !.when = "prepare"],
     invalid_numerical_state |-> Failing(On(Model, Invalid)),
     source_opacity |-> Failing(On(Model, Floors)),
     pop_initialization |-> Fresh(On(Model, Unstarted)),
     lte_initialization |-> Fresh(On([Model EXCEPT !.LIN_INT = FALSE], Unstarted)),
     opacity_lte_seed |-> Fresh(On([Model EXCEPT !.LIN_INT = FALSE, !.DC_METH = "LTE", !.profile = "usable"],
                                   Guards("fresh", -5))),
     startup_hydro |-> Fresh(On(Unhydro(0), Guards("fresh", 30))),
     hydro_bootstrap |-> Failing(On(Unhydro(1), Guards("continuation", 30))),
     radiation_cache |-> Failing(On(Model, Misreads)),
     population_guard |-> Failing(On(Model, Overflows)),
     ray_refinement |-> Failing(On(Model, Guards("continuation", -5))),
     verified_convergence |-> [On(Model, Converges) EXCEPT !.phase = "verify"],
     verify_candidate |-> On(Model, Converges),
     superlevel_temperature |-> Alone(On(Model, Swings)),
     localized_population_projection |-> Alone(On([Model EXCEPT !.INCL_dSLdT = TRUE], Spikes)),
     population_bootstrap |-> Alone(On(Model, Explodes)),
     ng_cadence |-> On(Model, Calm),
     bounded_ng |-> On(Model, Slow),
     population_relaxation |-> Alone(On(Model, Cycles3)),
     local_relaxation |-> Alone(On(Damped, Swings)),
     relaxation_release |-> [On(Damped, Small3) EXCEPT !.applied["local_relaxation"] = 1],
     ba_reuse_trial |-> On(Model, Progresses),
     stalled_transfer_refinement |-> On(Model, Stalls),
     stalled_corrections |-> On([Model EXCEPT !.N_FIX_BA = 1], Stalls),
     fixed_temperature |-> On(Model, Fills)]
ASSUME EveryPolicyDecides == \A p \in Range(POLICIES) : choose(Leading[p.id]).policy = p.id

(* A model that goes on, a new one that cannot start as it is, and one whose *)
(* corrections cycle; the last two reuse matrices, which is released.        *)
Reusing == [Model EXCEPT !.N_FIX_BA = 1]
Going == [Model EXCEPT !.INCL_dSLdT = TRUE]
New == [Reusing EXCEPT !.fresh = TRUE]
Cycling == [Reusing EXCEPT !.INCL_dSLdT = TRUE]
MCModels == {Going, New, Cycling}
MCScenes(model) ==
    {Converges} \cup
    CASE model = Going -> {Calm, Progresses, Explodes, Fills, Reuses, Overflows, Spikes}
      [] model = New -> {Unstarted, Seeded, Floors, Stalls, Misreads}
      [] model = Cycling -> {Swings, Cycles3, Revises}

(* Stamps matter by which of them are equal, whether they are 0 and, for     *)
(* checkpoints, whether they were accepted (the caches that are there all    *)
(* have one stamp); a run that is ending reads no loop counter or record of  *)
(* actions any more.  States that agree in this have the same future, so TLC *)
(* visits one of them.                                                       *)
Stamps == <<files.pop, files.ctl, dirs["A"].pop, dirs["A"].ctl, dirs["B"].pop, dirs["B"].ctl,
            working.pop, working.ctl, expected, native.ctl, edit, Max(Range(caches))>>
Disk ==
    LET list == Stamps
        Place(x) == IF x <= 0 THEN x ELSE CHOOSE i \in DOMAIN list : list[i] = x /\ \A j \in 1..i - 1 : list[j] # x
        held == <<files, working, dirs["A"], dirs["B"]>>
    IN  <<[i \in DOMAIN list |-> Place(list[i])], [i \in DOMAIN held |-> held[i].set],
          [i \in DOMAIN held |-> held[i].pop \in accepted], {c \in AllCaches : caches[c] = Absent},
          recorded, recovery>>
Course == <<pc, then, status, review, starting, pending, trial, strayed, decision.kind = "converged",
            stopping, faults, raced, IF struck \in {"nowhere", "native", "assign"} THEN struck ELSE "elsewhere">>
Counters == <<attempt, used, batch, base, step, decision, [native EXCEPT !.ctl = 0], waiting,
              trend, waits, applied, rejected>>
MCView == IF Active /\ then.pc \notin {"finally", "rolled"} THEN <<Disk, Course, Counters>> ELSE <<Disk, Course>>
=============================================================================
