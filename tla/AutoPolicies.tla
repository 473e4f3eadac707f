---------------------------- MODULE AutoPolicies ----------------------------
(* The registry of automatic remedies (auto_policies.POLICIES): each policy  *)
(* reads the context of an attempt and decides, declines or does not match;  *)
(* choose takes the first decision; Response validates a step of a recipe.   *)
(*                                                                           *)
(* A context is a record of what the controller knows (when, phase, iters    *)
(* and attempts left, applied: actions per policy, rejected: policies with a *)
(* rejected trial, history, original: RELAX at the start), of the facts that *)
(* the attempt and the files show (restart and observed: the startup, as     *)
(* planned and as confirmed; planned and installed: the initialization, as   *)
(* asked for and as carried out; exit, codes and log: how the solver ended,  *)
(* the errors diagnosed, the marks of its text; batch; lum: the normalized   *)
(* luminosity in percent; measured, physical, conserved, anchored: fresh     *)
(* luminosity and depths, a checkpoint that passes the audit, that keeps the *)
(* conservation laws, one to compare with; patch: the revision of the native *)
(* program; checkpoint and saved: its iteration before and after; ...) and   *)
(* of the model's controls, under their native names.  N_FIX_BA stands for   *)
(* FIX_BA too: 0 keeps the Jacobians fresh.  RELAX is in eighths, VFRAC_FG   *)
(* and VFRAC_MOM in tenths; hydro is the schedule of HYDRO_DEFAULTS.         *)
(*                                                                           *)
(* A batch holds, for each solve, a row [mode, ba, change, inc, dec, scale,  *)
(* depth, event]: full, Lambda or fixed-temperature solve (both: the last    *)
(* two together); whether its Jacobians are fresh; the native measure of its *)
(* corrections and the raw extrema; the scale of the major species, in       *)
(* percent; the depth of the greatest decrease; the checkpoint update that   *)
(* followed it.  Beside the rows: thermal, the complete temperature requests *)
(* of its full solves, by depth; temps, the temperatures at its end; totals, *)
(* how many corrections exceed each threshold; nt, the number of variables;  *)
(* cycle, raw population requests that reverse their sign; source, a change  *)
(* of the X-ray source or another native transition; eps, EPS_TERM.          *)
EXTENDS Integers, Sequences, FiniteSetsExt, Functions

-----------------------------------------------------------------------------
(* What a batch shows of the convergence: auto_diagnostics, and the measures *)
(* that the policies share.                                                  *)

Percent == 10                \* corrections are in tenths of a percent,
Cap == 10000000 * Percent    \* the native measure is capped at 1e7 percent,
Huge == 1000000000           \* stands for 1e12 percent
Unknown == -1                \* and this for a missing or nonfinite measurement

Full(r) == r.mode = "full"
Lambda(r) == r.mode \in {"lambda", "both"}
Sizes(r) == {r.change, r.inc, r.dec}
Known(v) == v # Unknown
Measured(r) == \A v \in Sizes(r) : Known(v)
Largest(r) == CHOOSE v \in Sizes(r) : \A w \in Sizes(r) : w <= v
Abs(x) == IF x < 0 THEN -x ELSE x

LastOf(s, n) == IF Len(s) <= n THEN s ELSE SubSeq(s, Len(s) - n + 1, Len(s))
Last(s) == s[Len(s)]
Depths(b) == 1..Len(b.temps)
FullRows(b) == SelectSeq(b.rows, Full)
AllFull(b) == \A r \in Range(b.rows) : Full(r)
AllFresh(rows) == \A r \in Range(rows) : r.ba
Updates == {"hydro", "ng", "update"}
Followed(b, events) == \E r \in Range(b.rows) : r.event \in events

(* Two last full solves below EPS_TERM in every measure, with no update      *)
(* after them and no significant correction counted.                         *)
Converged(r, eps) == Measured(r) /\ \A v \in Sizes(r) : v < eps
Candidate(b) ==
    /\ ~b.source /\ Len(b.rows) >= 2
    /\ \A r \in Range(LastOf(b.rows, 2)) : Full(r) /\ Converged(r, b.eps) /\ r.event = "none"
    /\ \A t \in DOMAIN b.totals : t >= b.eps => b.totals[t] = 0
FreshVerified(b) == Candidate(b) /\ AllFresh(LastOf(b.rows, 2))

(* The raw requests cycle, in three full solves without an update.           *)
PopulationCycle(b) ==
    /\ b.cycle /\ ~b.source /\ ~Followed(b, Updates)
    /\ Len(b.rows) >= 3 /\ \A r \in Range(LastOf(b.rows, 3)) : Full(r)

(* The depths where the temperature requests keep changing their sign at a   *)
(* size that does not decay.  Fewer than three requests are replaced by the  *)
(* relative changes of temperature over the last four batches.               *)
Changes(history) ==
    LET h == LastOf(history, 4)
    IN  [i \in 1..3 |-> [d \in Depths(h[1]) |->
            (100 * Percent * (h[i + 1].temps[d] - h[i].temps[d])) \div h[i].temps[d]]]
Requests(thermal, history) ==
    IF Len(thermal) < 3 /\ Len(history) >= 4 THEN Changes(history) ELSE LastOf(thermal, 5)
Cycles(x, eps) ==
    LET n == Len(x)
    IN  /\ Cardinality({i \in 1..n - 1 : x[i] * x[i + 1] < 0}) >= 2
        /\ \A i \in n - 2..n : Abs(x[i]) > eps
        /\ 10 * Abs(x[n]) >= 6 * Abs(x[1])
OscillatingDepths(b, thermal, history) ==
    LET vectors == Requests(thermal, history)
    IN  {d \in Depths(b) : Len(vectors) >= 3 /\ Cycles([i \in DOMAIN vectors |-> vectors[i][d]], b.eps)}
Third(n) == IF n < 6 THEN 1 ELSE n \div 3
Localized(b, depths) == \A a, z \in depths : z - a < Third(Len(b.temps))

(* Whether some measure of the last three batches falls from each to the     *)
(* next, or below 98 percent of the first: the corrections, the counts that  *)
(* matter (between solves of one mode) and the steepest temperature request. *)
(* Unknown after an update, a change of the grid or a missing measure;       *)
(* changes at the native cap are replaced by the raw extrema.                *)
LastRow(b, fullOnly) == Last(IF fullOnly THEN FullRows(b) ELSE b.rows)
Steepest(v) == CHOOSE s \in {Abs(v[d]) : d \in DOMAIN v} : \A d \in DOMAIN v : Abs(v[d]) <= s
Falls(t) == \/ t[1] > t[2] /\ t[2] > t[3]
            \/ 100 * t[2] < 98 * t[1] \/ 100 * t[3] < 98 * t[1]
Progress(history, fullOnly) ==
    LET w == LastOf(history, 3)
        Comparable == /\ Len(history) >= 3
                      /\ \A b \in Range(w) :
                            /\ ~b.source /\ ~Followed(b, Updates)
                            /\ b.nt = w[1].nt /\ Len(b.temps) = Len(w[1].temps)
                            /\ fullOnly => FullRows(b) # << >>
        Valid(t) == \A i \in 1..3 : Known(t[i])
        change == [i \in 1..3 |-> LastRow(w[i], fullOnly).change]
        extrema == {[i \in 1..3 |-> LastRow(w[i], fullOnly).inc],
                    [i \in 1..3 |-> LastRow(w[i], fullOnly).dec]}
        saturated == \E i \in 1..3 : change[i] >= Cap
        thermal == IF \A b \in Range(w) : b.thermal # << >>
                   THEN {[i \in 1..3 |-> Steepest(Last(w[i].thermal))]} ELSE {}
        counts == IF \A b \in Range(w) : Last(b.rows).mode = Last(w[1].rows).mode
                  THEN {[i \in 1..3 |-> w[i].totals[t]] : t \in {u \in DOMAIN w[1].totals : u >= w[3].eps}}
                  ELSE {}
        trends == {t \in extrema : Valid(t)} \cup thermal \cup counts
                  \cup IF saturated THEN {} ELSE {change}
    IN  IF ~Comparable THEN "unknown"
        ELSE IF ~Valid(change) \/ (saturated /\ \E t \in extrema : ~Valid(t)) THEN "unknown"
        ELSE IF \E t \in trends : Falls(t) THEN "improving" ELSE "stalled"

(* What the guarded trials compare.                                          *)
ThermalComplete(b) == Len(b.thermal) >= 2
AllMeasured(b) == b.rows # << >> /\ \A r \in Range(b.rows) : Measured(r)
SameGrid(b, a) == b.nt = a.nt /\ Len(b.temps) = Len(a.temps) /\ DOMAIN b.totals = DOMAIN a.totals
CountsKept(b, a, least) ==
    SameGrid(b, a) /\ \A t \in DOMAIN b.totals : t >= least => b.totals[t] <= a.totals[t]

-----------------------------------------------------------------------------
(* The policies.                                                             *)

Step(name, n) == [name |-> name, iters |-> n, repeat |-> FALSE, init |-> FALSE]
RepeatedStep(name, n) == [Step(name, n) EXCEPT !.repeat = TRUE]
SeedStep(name) == [Step(name, 0) EXCEPT !.init = TRUE]

BaCaches == {"BAMAT"}
RadiationCaches == {"EDDFACTOR"}
AllCaches == BaCaches \cup RadiationCaches
FreshBa == [N_FIX_BA |-> 0]

(* A decision; set holds the controls it writes, base what the validators of *)
(* its steps compare with.                                                   *)
NoBase == [raw |-> 0, batch |-> << >>, lum |-> << >>, thermal |-> << >>, energy |-> 0,
           seen |-> {}, tries |-> 0]
Baseline(c, thermal) ==
    [NoBase EXCEPT !.raw = Largest(Last(c.batch.rows)), !.batch = c.batch, !.lum = c.lum,
                   !.thermal = LastOf(thermal, 3), !.energy = c.energy]
Act == [kind |-> "action", policy |-> "", next |-> "iterate", steps |-> << >>, caches |-> {},
        set |-> << >>, reversible |-> FALSE, retain |-> FALSE, mutates |-> FALSE, batch |-> 0,
        base |-> NoBase]
Matrix == [Act EXCEPT !.set = FreshBa, !.caches = BaCaches]
Stop == [Act EXCEPT !.kind = "stop"]
Continue == [Act EXCEPT !.kind = "continue"]
NotMatched == [Act EXCEPT !.kind = "not_matched"]
Declined == [Act EXCEPT !.kind = "ineligible"]

-----------------------------------------------------------------------------
(* What the policies ask of the files.                                       *)
Repaired(c) == c.patch >= 1
Continues(c) == c.restart = "continuation"
HydroExhausted(c) == c.DO_HYDRO /\ c.hydro.left = 0 /\ c.hydro.done >= 1
structure_fixed(c) ==
    /\ ~c.regridding
    /\ \/ ~c.DO_HYDRO \/ HydroExhausted(c)
       \/ c.hydro.left = 0 /\ c.hydro.done = 0 /\ c.hydro.start >= 1 /\ c.hydro.every >= 1
Scheduled(c, iteration) == c.hydro.left > 0 /\ c.hydro.every > 0 /\ iteration >= c.hydro.start
                           /\ (iteration - c.hydro.start) % c.hydro.every = 0
Guarded(c) == c.measured /\ c.lum.min > 0
Balanced(c) == Guarded(c) /\ c.lum.min >= 50 /\ c.lum.max <= 200

(* A luminosity stop before the first solve of the given iteration.          *)
GuardStop(c) == c.exit = "guard" /\ c.codes = {"inner_flux_accuracy"}
Unsolved(c, iteration) ==
    /\ Len(c.batch.rows) = 1 /\ c.batch.rows[1].change = Unknown
    /\ c.batch.first = iteration

-----------------------------------------------------------------------------
(* Policies on failures.                                                     *)
NonfiniteCache(c) ==
    IF c.COMP_F \/ c.cache # "nonfinite" THEN NotMatched
    ELSE IF "USE_FIXED_J" \in c.options THEN Stop
    ELSE [Act EXCEPT !.caches = RadiationCaches, !.set = [COMP_F |-> TRUE]]

InvalidState(c) ==
    IF c.codes \cap {"nonfinite_model_state", "invalid_checkpoint"} = {} THEN NotMatched ELSE Stop

LimitedFloor(m, nd) == /\ m.known /\ m.depth \in 1..nd
                       /\ m.chi <= 0 /\ m.absorption < 0 /\ m.scattering > 0
SourceOpacity(c) ==
    IF "source_opacity_floor" \notin c.codes THEN NotMatched
    ELSE IF \/ c.codes # {"source_opacity_floor"} \/ c.NEG_OPAC_OPT # "SRCE_CHK"
            \/ \E m \in c.floors : ~LimitedFloor(m, c.nd)
    THEN Declined
    ELSE [Matrix EXCEPT !.caches = AllCaches, !.set = [NEG_OPAC_OPT |-> "ESEC_CHK", N_FIX_BA |-> 0]]

(* A fresh start failed on its populations, and nothing else: with           *)
(* interpolation another source is tried, without it LTE estimates.          *)
FailedStart(c) == "initial_population_scaling" \in c.codes
OnlyStarted(c) == /\ c.codes = {"initial_population_scaling"} /\ c.restart = "fresh"
                  /\ "iteration" \notin c.log /\ {c.planned, c.installed} = {"none"}
Pop(c) ==
    IF ~(FailedStart(c) /\ c.LIN_INT) THEN NotMatched
    ELSE IF ~(OnlyStarted(c) /\ c.DC_METH \in {"R", "TR", "ED", "SPH_TAU"} /\ c.source) THEN Declined
    ELSE [Act EXCEPT !.steps = <<Step("pop_initialization", 2), Step("pop_continuation", 2)>>]
Lte(c) ==
    IF ~FailedStart(c) \/ c.LIN_INT THEN NotMatched
    ELSE IF ~(OnlyStarted(c) /\ c.DC_METH # "LTE" /\ c.source) THEN Declined
    ELSE [Act EXCEPT !.steps = <<Step("lte_initialization", 2), Step("lte_continuation", 2)>>]

(* The radiation of a fresh start is negative before its first solve: the    *)
(* populations are seeded by LTE, filled by Lambda steps and verified.       *)
ConfirmedMethod(c) ==
    IF c.DC_METH = "POP" /\ c.LIN_INT
    THEN "pop" \in c.log /\ (c.applied["source_opacity"] > 0 => c.NEG_OPAC_OPT = "ESEC_CHK")
    ELSE /\ c.DC_METH = "LTE" /\ ~c.LIN_INT
         /\ c.profile # "none" /\ {"lte", "charge"} \subseteq c.log
         /\ ~(c.LTE_EST /\ ~c.IT_ON_T)
OpacityLteSeed(c) ==
    IF c.codes # {"inner_flux_accuracy"} \/ (c.applied["source_opacity"] = 0 /\ c.profile = "none")
    THEN NotMatched
    ELSE IF ~(/\ GuardStop(c) /\ c.observed = "fresh" /\ c.restart = "fresh"
              /\ ConfirmedMethod(c) /\ Unsolved(c, 1) /\ Repaired(c))
    THEN Declined
    ELSE IF ~c.measured THEN Stop
    ELSE IF c.lum.min >= 0 THEN NotMatched
    ELSE IF c.profile = "unusable" \/ ~structure_fixed(c) \/ c.SCALE_OPT # "MAJOR" THEN Declined
    ELSE IF ~c.source THEN Stop
    ELSE [Matrix EXCEPT !.caches = AllCaches,
                        !.steps = <<SeedStep("opacity_lte_seed"), Step("opacity_population_lambda", 3),
                                    RepeatedStep("opacity_population_full", 2)>>]

(* A luminosity stop where the schedule allows no revision yet, or where it  *)
(* has one at this very iteration.                                           *)
StartupHydro(c) ==
    LET fresh == c.restart = "fresh"
        iteration == IF fresh THEN 1 ELSE 2
    IN  IF ~("inner_flux_accuracy" \in c.codes /\ c.DO_HYDRO /\ c.hydro.left = 0 /\ c.hydro.done = 0)
        THEN NotMatched
        ELSE IF ~(/\ GuardStop(c) /\ c.STOP_IF_MW /\ c.hydro.start = 2 /\ c.hydro.every > 0
                  /\ c.DC_METH = "POP" /\ ~c.FIX_T /\ ~c.DO_LAM_IT /\ Repaired(c)
                  /\ c.observed = c.restart /\ (IF fresh THEN "pop" \in c.log ELSE c.physical)
                  /\ Unsolved(c, iteration) /\ c.checkpoint = iteration - 1
                  /\ Guarded(c) /\ c.lum.min \in 25..49 /\ c.lum.max <= 200)
        THEN Declined
        ELSE [Matrix EXCEPT !.caches = AllCaches,
                            !.set = [hydro |-> [c.hydro EXCEPT !.left = 1], N_FIX_BA |-> 0],
                            !.steps = (IF fresh THEN <<Step("hydro_pop_seed", 1)>> ELSE << >>)
                                      \o <<Step("hydro_bridge", 1), Step("hydro_guarded", 2)>>]
Hydro(c) ==
    IF "inner_flux_accuracy" \notin c.codes THEN NotMatched
    ELSE IF ~(/\ GuardStop(c) /\ c.STOP_IF_MW /\ c.DO_HYDRO
              /\ Continues(c) /\ c.observed = "continuation" /\ c.checkpoint >= 1
              /\ Unsolved(c, c.checkpoint + 1) /\ Scheduled(c, c.checkpoint + 1)
              /\ Guarded(c) /\ ~Balanced(c))
    THEN Declined
    ELSE [Act EXCEPT !.steps = <<Step("hydro_bridge", 1), Step("hydro_guarded", 2)>>]

RadiationCache(c) ==
    IF "eddfactor" \in c.log THEN [Act EXCEPT !.caches = RadiationCaches] ELSE NotMatched

(* Population increases beyond every limit are filled by Lambda steps and    *)
(* verified; after the native stop on them, from the checkpoint it saved.    *)
Rises(r, limit) == r.ba /\ Known(r.inc) /\ r.inc >= limit
Extreme(rows) == \/ Len(rows) >= 2 /\ \A r \in Range(LastOf(rows, 2)) : Rises(r, Cap)
                 \/ Len(rows) >= 1 /\ Rises(Last(rows), Huge)
PopulationBootstrap(c) ==
    IF Followed(c.batch, {"hydro"}) \/ ~Extreme(c.batch.rows) \/ ~Continues(c) THEN NotMatched
    ELSE IF ~(structure_fixed(c) /\ c.SCALE_OPT = "MAJOR" /\ Repaired(c) /\ c.physical) THEN Declined
    ELSE [Matrix EXCEPT !.steps = <<Step("population_lambda", 3), RepeatedStep("population_full", 2)>>]
PopulationGuard(c) ==
    LET rows == c.batch.rows
        filled == PopulationBootstrap(c)
    IN  IF "max_change" \notin c.log THEN NotMatched
        ELSE IF ~(/\ c.exit \in {"guard", "zero"} /\ c.anchored /\ Continues(c)
                  /\ Len(rows) = 1 /\ c.batch.first = c.checkpoint + 1 /\ c.saved = c.batch.first
                  /\ Known(rows[1].change) /\ Rises(rows[1], Huge) /\ c.physical)
        THEN Declined
        ELSE IF filled.kind = "action" THEN [filled EXCEPT !.retain = TRUE] ELSE filled

Coarsest == 200000
RayRefinement(c) ==
    IF "inner_flux_accuracy" \notin c.codes \/ ~Continues(c) THEN NotMatched
    ELSE IF ~structure_fixed(c) \/ ~c.measured THEN Declined
    ELSE IF c.lum.min >= 0 THEN NotMatched
    ELSE IF \/ c.VFRAC_FG <= 1
            \/ /\ c.options \cap {"USE_J_REL", "USE_DJDT_RTE", "INC_GRID"} # {} \/ c.VFRAC_MOM # Coarsest
               /\ ~Repaired(c)
    THEN Declined
    ELSE [Matrix EXCEPT !.caches = AllCaches, !.set = [VFRAC_FG |-> 1, N_FIX_BA |-> 0],
                        !.steps = <<Step("refined_ray_check", 2)>>]

-----------------------------------------------------------------------------
(* Policies on validated batches.                                            *)
Verified(c) ==
    IF c.phase = "verify" /\ FreshVerified(c.batch) THEN [Act EXCEPT !.kind = "converged"] ELSE NotMatched
VerifyCandidate(c) ==
    IF ~Candidate(c.batch) \/ (c.phase = "advisory" /\ FreshVerified(c.batch)) THEN NotMatched
    ELSE [Matrix EXCEPT !.next = "verify"]

LocalCycle(c, thermal) ==
    LET depths == OscillatingDepths(c.batch, thermal, c.history)
    IN  IF Localized(c.batch, depths) THEN depths ELSE {}
TemperatureCoupling(c) ==
    IF Followed(c.batch, {"hydro"}) \/ c.INCL_dSLdT \/ LocalCycle(c, c.batch.thermal) = {} THEN NotMatched
    ELSE [Matrix EXCEPT !.set = [INCL_dSLdT |-> TRUE, N_FIX_BA |-> 0]]

(* Two fresh full solves ask for impossible decreases at one depth; spike    *)
(* tells whether the checkpoint has an isolated ionization spike there, and  *)
(* whether the raw requests are of that ion.                                 *)
Impossible(r) == r.ba /\ Known(r.dec) /\ r.dec >= 1000000 * Percent /\ r.scale \in 1..10
Projection(c) ==
    LET full == LastOf(FullRows(c.batch), 2)
    IN  IF ~(/\ Continues(c) /\ ~Candidate(c.batch) /\ ~c.batch.source /\ structure_fixed(c)
             /\ c.options = {} /\ ~c.FIX_T /\ c.SCALE_OPT = "MAJOR" /\ c.INCL_dSLdT /\ c.N_FIX_BA = 0
             /\ ~Followed(c.batch, Updates)
             /\ Len(full) = 2 /\ Impossible(full[1]) /\ Impossible(full[2]) /\ full[1].depth = full[2].depth)
        THEN NotMatched
        ELSE IF ~Repaired(c) \/ c.spike \in {"unreadable", "other_grid"} THEN Declined
        ELSE IF c.spike # "requested" THEN NotMatched
        ELSE [Matrix EXCEPT !.caches = AllCaches, !.mutates = TRUE,
                            !.steps = <<RepeatedStep("population_projection_full", 2)>>]

NgCadence(c) ==
    IF /\ Len(c.history) >= 2 /\ ~Candidate(c.batch)
       /\ c.DO_NG /\ ~c.accelerated /\ c.saved >= c.IBEG_NG
       /\ \A b \in Range(LastOf(c.history, 2)) :
             /\ ~Followed(b, {"hydro", "ng"}) /\ Len(b.rows) \in 2..5 /\ AllFull(b)
             /\ \A r \in Range(b.rows) : Known(r.change) /\ r.change < c.BEG_NG
    THEN [Act EXCEPT !.batch = 8] ELSE NotMatched

(* Six full solves of one regime that fall slowly, and a proposal of the     *)
(* native acceleration that was rejected and not tried here before.          *)
Joined(s) == LET t[k \in 0..Len(s)] == IF k = 0 THEN << >> ELSE t[k - 1] \o s[k] IN t[Len(s)]
Thermal(h) == Joined([i \in DOMAIN h |-> h[i].thermal])
Rows(h) == Joined([i \in DOMAIN h |-> h[i].rows])
Iterations(b) == [i \in DOMAIN b.rows |-> b.first + i - 1]
Steady(b) ==
    /\ Len(b.rows) >= 2 /\ AllFull(b) /\ AllFresh(b.rows) /\ ~Followed(b, Updates)
    /\ ~b.source /\ ~PopulationCycle(b)
    /\ \A r \in Range(b.rows) : r.scale = 100 * Percent
    /\ Len(b.thermal) = Len(b.rows) /\ \A v \in Range(b.thermal) : Steepest(v) <= Percent \div 10
SlowTail(c) ==
    LET h == LastOf(c.history, 3)
        rows == LastOf(Rows(h), 6)
        size == [i \in DOMAIN rows |-> Largest(rows[i])]
    IN  /\ \A b \in Range(h) : Steady(b)
        /\ Len(rows) = 6
        /\ LastOf(Joined([i \in DOMAIN h |-> Iterations(h[i])]), 6) = [i \in 1..6 |-> c.saved - 6 + i]
        /\ \A i \in 1..6 : Measured(rows[i]) /\ size[i] \in Percent..10 * Percent - 1
        /\ size[6] < size[1] /\ 10 * size[6] >= 9 * size[1]
        /\ \A i \in 1..5 : 10 * size[i + 1] <= 11 * size[i]
        /\ OscillatingDepths(c.batch, LastOf(Thermal(h), 6), << >>) = {}
Deviation(lum) == IF 100 - lum.min > lum.max - 100 THEN 100 - lum.min ELSE lum.max - 100
BoundedNg(c) ==
    IF ~(/\ c.phase = "iterate" /\ ~Candidate(c.batch) /\ c.iters >= 9 /\ c.attempts >= 4
         /\ c.applied["bounded_ng"] = 0 /\ c.patch >= 2 /\ structure_fixed(c) /\ c.DO_NG /\ c.COMP_BA
         /\ c.SCALE_OPT = "MAJOR" /\ c.N_FIX_BA = 0 /\ SlowTail(c))
    THEN NotMatched
    ELSE IF ~Guarded(c) THEN Declined
    ELSE IF ~(c.inner >= 50 /\ Balanced(c) /\ Deviation(c.lum) >= 2) THEN NotMatched
    ELSE IF c.proposal \in {"none", "tried"} THEN NotMatched
    ELSE IF c.proposal = "unreadable" \/ ~c.physical \/ c.energy = Unknown THEN Declined
    ELSE IF c.energy <= 0 THEN NotMatched
    ELSE [Matrix EXCEPT !.caches = AllCaches, !.mutates = TRUE, !.reversible = TRUE,
                        !.set = [COMP_F |-> TRUE, N_FIX_BA |-> 0],
                        !.steps = <<Step("bounded_ng_settle1", 2), Step("bounded_ng_settle2", 2),
                                    Step("bounded_ng_check", 2)>>,
                        !.base = Baseline(c, << >>)]

(* Small corrections in fresh full solves of a sound checkpoint.             *)
Small(c) ==
    /\ ~Followed(c.batch, {"hydro", "ng"}) /\ ~c.batch.source /\ ~Candidate(c.batch)
    /\ structure_fixed(c) /\ Repaired(c)
    /\ Len(c.batch.rows) >= 2 /\ AllFull(c.batch) /\ AllFresh(c.batch.rows)
    /\ \A r \in Range(c.batch.rows) : Measured(r) /\ Largest(r) <= Percent
    /\ c.physical /\ Balanced(c)
PopulationRelaxation(c) ==
    IF ~PopulationCycle(c.batch) THEN NotMatched
    ELSE IF c.SCALE_OPT # "MAJOR" \/ c.scoped THEN Declined
    ELSE IF c.RELAX # 8 \/ c.depths \notin {{}, Depths(c.batch)} \/ ~Small(c) THEN NotMatched
    ELSE [Matrix EXCEPT !.set = [RELAX |-> 4, depths |-> Depths(c.batch), N_FIX_BA |-> 0],
                        !.steps = <<RepeatedStep("population_relaxation_check", 3)>>,
                        !.base = Baseline(c, << >>)]

(* Damping of a local temperature cycle: by quarters, then eighths, over a   *)
(* range that includes the one the model has and no third of the grid.       *)
Oscillation(c, thermal) ==
    LET region == LocalCycle(c, thermal)
        damped == Min(region \cup c.depths)..Max(region \cup c.depths)
    IN  IF Followed(c.batch, {"hydro"}) \/ region = {} THEN NotMatched
        ELSE IF \/ c.SCALE_OPT # "MAJOR" \/ c.scoped \/ ~(damped \subseteq Depths(c.batch))
                \/ Cardinality(damped) > Third(Len(c.batch.temps)) \/ c.RELAX \notin 2..8
        THEN Stop
        ELSE [Act EXCEPT !.set = [RELAX |-> IF c.RELAX > 2 THEN 2 ELSE 1, depths |-> damped]]

(* Sustained progress of a sound run, over two or three batches.             *)
Sustained(c, n, reuse) ==
    LET h == LastOf(c.history, n)
        size == [i \in DOMAIN h |-> Largest(Last(h[i].rows))]
    IN  /\ c.phase = "iterate" /\ ~Candidate(c.batch) /\ c.iters >= 5 /\ c.attempts >= 2 /\ Repaired(c)
        /\ Len(h) = n
        /\ \A b \in Range(h) : /\ ~Followed(b, {"hydro", "ng"}) /\ Len(b.rows) >= 2
                               /\ AllFull(b) /\ ThermalComplete(b) /\ AllMeasured(b)
        /\ \A i \in 1..n - 1 : CountsKept(h[i + 1], h[i], 0) /\ size[i + 1] < size[i]
        /\ OscillatingDepths(c.batch, Thermal(h), c.history) = {}
        /\ reuse \/ \A r \in Range(Rows(h)) : Largest(r) <= Percent
        /\ size[n] > 0 /\ size[1] - size[n] >= (size[1] + 4) \div 5
        /\ c.physical /\ Balanced(c)
Releasable(c) ==
    /\ c.applied["relaxation_release"] < 3 /\ "relaxation_release" \notin c.rejected
    /\ c.applied["local_relaxation"] > 0
    /\ 0 < c.RELAX /\ c.RELAX < c.original /\ c.original <= 8 /\ c.N_FIX_BA = 0
RelaxationRelease(c) ==
    IF ~Releasable(c) \/ ~Sustained(c, 3, FALSE) THEN NotMatched
    ELSE [Act EXCEPT !.set = [RELAX |-> IF 2 * c.RELAX < c.original THEN 2 * c.RELAX ELSE c.original],
                     !.reversible = TRUE, !.steps = <<Step("relaxation_release_check", 2)>>,
                     !.base = Baseline(c, Thermal(LastOf(c.history, 3)))]
BaReuseTrial(c) ==
    IF \/ c.applied["ba_reuse_trial"] > 0 \/ c.N_FIX_BA # 0 \/ ~c.COMP_BA \/ ~c.STORE_BA
       \/ Releasable(c) \/ ~Sustained(c, 2, TRUE)
    THEN NotMatched
    ELSE [Act EXCEPT !.set = [N_FIX_BA |-> 1], !.reversible = TRUE, !.steps = <<Step("ba_reuse_check", 2)>>,
                     !.base = Baseline(c, Thermal(LastOf(c.history, 2)))]

(* A stall is first given fresh matrices; with fresh ones, finer transfer.   *)
Stall(c) ==
    LET progress == Progress(c.history, TRUE)
    IN  IF progress = "unknown" THEN NotMatched
        ELSE IF progress = "improving" THEN Continue
        ELSE IF c.N_FIX_BA # 0 THEN Matrix ELSE Stop
Fine(v) == IF v > 1 THEN 1 ELSE v
TransferRefinement(c) ==
    IF \/ Stall(c).kind # "stop"
       \/ c.options \cap {"USE_J_REL", "USE_DJDT_RTE", "INC_GRID", "SN_MODEL", "USE_FIXED_J"} # {}
       \/ (c.VFRAC_FG <= 1 /\ c.VFRAC_MOM <= 1) \/ ~Small(c)
    THEN NotMatched
    ELSE [Matrix EXCEPT !.caches = AllCaches,
                        !.set = [VFRAC_FG |-> Fine(c.VFRAC_FG), VFRAC_MOM |-> Fine(c.VFRAC_MOM),
                                 COMP_F |-> TRUE, N_FIX_BA |-> 0],
                        !.steps = <<RepeatedStep("transfer_refinement_check", 3)>>,
                        !.base = Baseline(c, << >>)]

(* Three batches without a full solve go on only if the native release of    *)
(* the fixed temperature and of Lambda steps is open and progress is shown.  *)
Fixed(c) ==
    LET h == LastOf(c.history, 3)
        lambda == \E r \in Range(Rows(h)) : Lambda(r)
        released == c.scripted \/ ((lambda => c.DO_LAM_AUTO) /\ (c.FIX_T => c.DO_T_AUTO))
    IN  IF Len(h) < 3 \/ \E b \in Range(h) : FullRows(b) # << >> THEN NotMatched
        ELSE IF released /\ Progress(h, FALSE) = "improving" THEN Continue ELSE Stop

(* A recipe whose verification is deferred must not be cycling or stalled.   *)
Unsafe(c) ==
    \/ Fixed(c).kind = "stop" \/ Stall(c).kind \in {"stop", "action"}
    \/ Oscillation(c, LastOf(Thermal(c.history), 5)).kind \in {"stop", "action"}

-----------------------------------------------------------------------------
(* The registry, in its order, with the most applications of each action.    *)
Unlimited == 1000
POLICIES == <<
    [id |-> "nonfinite_radiation_cache", when |-> "prepare", max |-> 1],
    [id |-> "invalid_numerical_state", when |-> "failure", max |-> Unlimited],
    [id |-> "source_opacity", when |-> "failure", max |-> 1],
    [id |-> "pop_initialization", when |-> "failure", max |-> 1],
    [id |-> "lte_initialization", when |-> "failure", max |-> 1],
    [id |-> "opacity_lte_seed", when |-> "failure", max |-> 1],
    [id |-> "startup_hydro", when |-> "failure", max |-> 1],
    [id |-> "hydro_bootstrap", when |-> "failure", max |-> 1],
    [id |-> "radiation_cache", when |-> "failure", max |-> 1],
    [id |-> "population_guard", when |-> "failure", max |-> 1],
    [id |-> "ray_refinement", when |-> "failure", max |-> 1],
    [id |-> "verified_convergence", when |-> "success", max |-> Unlimited],
    [id |-> "verify_candidate", when |-> "success", max |-> Unlimited],
    [id |-> "superlevel_temperature", when |-> "success", max |-> 1],
    [id |-> "localized_population_projection", when |-> "success", max |-> 1],
    [id |-> "population_bootstrap", when |-> "success", max |-> 1],
    [id |-> "ng_cadence", when |-> "success", max |-> 1],
    [id |-> "bounded_ng", when |-> "success", max |-> 1],
    [id |-> "population_relaxation", when |-> "success", max |-> 1],
    [id |-> "local_relaxation", when |-> "success", max |-> 2],
    [id |-> "relaxation_release", when |-> "success", max |-> 3],
    [id |-> "ba_reuse_trial", when |-> "success", max |-> 1],
    [id |-> "stalled_transfer_refinement", when |-> "success", max |-> 1],
    [id |-> "stalled_corrections", when |-> "success", max |-> 1],
    [id |-> "fixed_temperature", when |-> "success", max |-> Unlimited]>>

Evaluate(id, c) ==
    CASE id = "nonfinite_radiation_cache" -> NonfiniteCache(c)
      [] id = "invalid_numerical_state" -> InvalidState(c)
      [] id = "source_opacity" -> SourceOpacity(c)
      [] id = "pop_initialization" -> Pop(c)
      [] id = "lte_initialization" -> Lte(c)
      [] id = "opacity_lte_seed" -> OpacityLteSeed(c)
      [] id = "startup_hydro" -> StartupHydro(c)
      [] id = "hydro_bootstrap" -> Hydro(c)
      [] id = "radiation_cache" -> RadiationCache(c)
      [] id = "population_guard" -> PopulationGuard(c)
      [] id = "ray_refinement" -> RayRefinement(c)
      [] id = "verified_convergence" -> Verified(c)
      [] id = "verify_candidate" -> VerifyCandidate(c)
      [] id = "superlevel_temperature" -> TemperatureCoupling(c)
      [] id = "localized_population_projection" -> Projection(c)
      [] id = "population_bootstrap" -> PopulationBootstrap(c)
      [] id = "ng_cadence" -> NgCadence(c)
      [] id = "bounded_ng" -> BoundedNg(c)
      [] id = "population_relaxation" -> PopulationRelaxation(c)
      [] id = "local_relaxation" -> Oscillation(c, c.batch.thermal)
      [] id = "relaxation_release" -> RelaxationRelease(c)
      [] id = "ba_reuse_trial" -> BaReuseTrial(c)
      [] id = "stalled_transfer_refinement" -> TransferRefinement(c)
      [] id = "stalled_corrections" -> Stall(c)
      [] id = "fixed_temperature" -> Fixed(c)

(* What choose refuses: a decision whose parts do not fit together.          *)
Trials == {"ba_reuse_trial", "relaxation_release", "bounded_ng"}
Valid(d, when) ==
    /\ d.kind \in {"continue", "action", "stop", "converged"}
    /\ when = "prepare" => d.kind # "converged" /\ d.steps = << >> /\ d.batch = 0 /\ ~d.retain
    /\ d.next \in {"iterate", "verify"}
    /\ d.steps # << >> => d.kind = "action"
    /\ d.reversible => /\ d.policy \in Trials /\ d.kind = "action"
                       /\ Len(d.steps) = IF d.policy = "bounded_ng" THEN 3 ELSE 1
    /\ d.retain => d.steps # << >> /\ d.policy = "population_guard"
    /\ d.batch # 0 => d.kind = "action" /\ d.batch \in 2..20
    /\ \A s \in Range(d.steps) : /\ IF s.init THEN s.iters = 0 ELSE s.iters >= 1
                                 /\ s.init => ~s.repeat /\ ~d.reversible
                                 /\ s.repeat => ~d.reversible /\ s.iters >= 2

(* The first policy that decides; its action is refused when it is used up.  *)
Deciding(c) == {i \in DOMAIN POLICIES :
                   /\ POLICIES[i].when = c.when
                   /\ Evaluate(POLICIES[i].id, c).kind \notin {"not_matched", "ineligible"}}
Taken(p, d, c) ==
    IF ~Valid(d, c.when) THEN [d EXCEPT !.kind = "invalid"]
    ELSE IF d.kind = "action" /\ c.applied[p.id] >= p.max THEN [Stop EXCEPT !.policy = p.id]
    ELSE d
Undecided(c) ==
    IF c.when = "failure" THEN [Stop EXCEPT !.policy = "unhandled"] ELSE [Continue EXCEPT !.policy = "continue"]
First(deciding, c) ==
    IF deciding = {} THEN Undecided(c)
    ELSE LET p == POLICIES[Min(deciding)] IN Taken(p, [Evaluate(p.id, c) EXCEPT !.policy = p.id], c)
choose(c) == First(Deciding(c), c)

-----------------------------------------------------------------------------
(* The validator of a step: verified, pending (one more batch), rejected (a  *)
(* trial goes back) or failed, with what it remembers for the next call.     *)
Requires(condition) == IF condition THEN "verified" ELSE "failed"
Approves(condition) == IF condition THEN "verified" ELSE "rejected"
Continued(c) == c.planned = "none" /\ Continues(c) /\ c.observed = "continuation"
BothFull(rows) == \A r \in Range(LastOf(rows, 2)) : Full(r)

(* Fixed-temperature Lambda solves reduce the increases and decreases, or    *)
(* the native program stops early with two converged ones.                   *)
BootstrapCheck(c) ==
    LET rows == c.batch.rows
        early == Len(rows) = 2 /\ \A r \in Range(rows) : Converged(r, c.batch.eps)
        extreme(r) == IF r.inc > r.dec THEN r.inc ELSE r.dec
    IN  Requires(/\ Len(rows) >= 3 \/ early
                 /\ ~Followed(c.batch, {"ng"})
                 /\ \A r \in Range(rows) : r.mode = "both" /\ r.ba /\ Known(r.inc) /\ Known(r.dec)
                 /\ early \/ extreme(Last(rows)) < extreme(rows[1])
                 /\ c.physical)
PopulationFullCheck(c) ==
    IF ~c.physical \/ Len(c.batch.rows) < 2 \/ ~AllFresh(c.batch.rows) THEN "failed"
    ELSE IF c.batch.source \/ Followed(c.batch, {"update", "ng"}) \/ ~BothFull(c.batch.rows)
    THEN "pending"
    ELSE "verified"

(* After a change of the source the comparison starts anew.                  *)
ConvergenceCheck(c, base) ==
    LET rows == c.batch.rows
        anew == IF c.batch.source
                THEN [base EXCEPT !.raw = Largest(Last(rows)), !.batch = c.batch] ELSE base
        least == IF Candidate(c.batch) THEN c.batch.eps ELSE 0
    IN  IF ~c.physical \/ ~Balanced(c) \/ Len(rows) < 2 \/ ~AllFresh(rows) \/ ~Measured(Last(rows))
        THEN [verdict |-> "failed", base |-> base]
        ELSE IF c.batch.source \/ Followed(c.batch, Updates) \/ ~BothFull(rows)
        THEN [verdict |-> "pending", base |-> anew]
        ELSE [verdict |-> Requires(/\ Largest(Last(rows)) < base.raw \/ Candidate(c.batch)
                                   /\ CountsKept(c.batch, base.batch, least)),
              base |-> base]

(* Two full fresh solves, each counted once, no longer ask for nonpositive   *)
(* populations where the spike was, in at most two batches.                  *)
ProjectionResponse(c, base) ==
    LET rows == c.batch.rows
        full == {i \in DOMAIN rows : Full(rows[i]) /\ rows[i].ba}
        numbers == {Iterations(c.batch)[i] : i \in full}
        seen == [base EXCEPT !.seen = @ \cup numbers]
        counted == [seen EXCEPT !.tries = @ + 1]
    IN  IF \/ ~c.physical \/ ~Balanced(c) \/ Followed(c.batch, Updates) \/ c.requests = "unreadable"
           \/ (full # {} /\ c.requests = "nonpositive") \/ numbers \cap base.seen # {}
        THEN [verdict |-> "failed", base |-> base]
        ELSE IF c.spike \in {"present", "requested"} THEN [verdict |-> "failed", base |-> seen]
        ELSE IF Cardinality(counted.seen) >= 2 THEN [verdict |-> "verified", base |-> counted]
        ELSE IF counted.tries >= 2 THEN [verdict |-> "failed", base |-> counted]
        ELSE [verdict |-> "pending", base |-> counted]

(* The guarded trials: nothing may get worse.                                *)
Undegraded(c, old, tolerance) ==
    /\ Guarded(c)
    /\ c.lum.min >= 50 /\ c.lum.min >= old.min - tolerance
    /\ c.lum.max <= 200 /\ c.lum.max <= old.max + tolerance
PerformanceCheck(c, base, schedule) ==
    LET rows == c.batch.rows
    IN  Approves(/\ ~Followed(c.batch, Updates) /\ ~c.batch.source /\ AllFull(c.batch) /\ Len(rows) = 2
                 /\ ThermalComplete(c.batch)
                 /\ <<rows[1].ba, rows[2].ba>> = schedule
                 /\ AllMeasured(c.batch)
                 /\ Largest(rows[1]) <= base.raw /\ Largest(rows[2]) < base.raw
                 /\ CountsKept(c.batch, base.batch, 0)
                 /\ OscillatingDepths(c.batch, base.thermal \o c.batch.thermal, c.history) = {}
                 /\ Undegraded(c, base.lum, 1) /\ c.physical)
Twice(x) == IF 2 * x < 10 * Percent THEN 2 * x ELSE 10 * Percent
BoundedNgCheck(c, base, pair) ==
    LET b == c.batch
        size == [i \in 1..2 |-> Largest(b.rows[i])]
        Settled == /\ size[2] < base.raw /\ size[2] <= size[1] /\ size[1] <= base.raw
                   /\ CountsKept(b, base.batch, base.batch.eps)
                   /\ 1000 * c.energy <= 995 * base.energy
                   /\ Deviation(c.lum) < Deviation(base.lum)
    IN  Approves(/\ Steady(b) /\ Len(b.rows) = 2
                 /\ b.first = Last(Iterations(base.batch)) + 2 * pair - 1
                 /\ AllMeasured(b) /\ \A i \in 1..2 : size[i] <= Twice(base.raw)
                 /\ c.physical /\ c.conserved /\ Undegraded(c, base.lum, 0) /\ Known(c.energy)
                 /\ pair = 3 => Settled)

Revisions(b) == {i \in DOMAIN b.rows : b.rows[i].event = "hydro"}
Response(step, c, base) ==
    LET b == c.batch
        Only(verdict) == [verdict |-> verdict, base |-> base]
    IN  CASE step = "pop_initialization" ->
               Only(Requires(c.planned = "POP" /\ c.installed = "POP" /\ "pop" \in c.log))
          [] step = "lte_initialization" -> Only(Requires(c.planned = "LTE" /\ c.installed = "LTE"))
          [] step \in {"pop_continuation", "lte_continuation"} -> Only(Requires(Continued(c)))
          [] step = "opacity_lte_seed" -> Only(Requires(c.seeded))
          [] step = "hydro_bridge" -> Only(Requires(Cardinality(Revisions(b)) = 1))
          [] step = "hydro_guarded" -> Only(Requires(c.STOP_IF_MW /\ Balanced(c)))
          [] step = "hydro_pop_seed" ->
               Only(Requires(/\ c.STOP_IF_MW /\ c.observed = "fresh" /\ "pop" \in c.log
                             /\ Len(b.rows) = 1 /\ b.first = 1 /\ AllFull(b) /\ Revisions(b) = {}
                             /\ c.saved = 1 /\ c.physical))
          [] step = "refined_ray_check" ->
               Only(Requires(Balanced(c) /\ Len(b.rows) >= 2 /\ AllFresh(b.rows)))
          [] step \in {"population_lambda", "opacity_population_lambda"} -> Only(BootstrapCheck(c))
          [] step \in {"population_full", "opacity_population_full"} -> Only(PopulationFullCheck(c))
          [] step \in {"population_relaxation_check", "transfer_refinement_check"} -> ConvergenceCheck(c, base)
          [] step = "population_projection_full" -> ProjectionResponse(c, base)
          [] step = "ba_reuse_check" -> Only(PerformanceCheck(c, base, <<TRUE, FALSE>>))
          [] step = "relaxation_release_check" -> Only(PerformanceCheck(c, base, <<TRUE, TRUE>>))
          [] step = "bounded_ng_settle1" -> Only(BoundedNgCheck(c, base, 1))
          [] step = "bounded_ng_settle2" -> Only(BoundedNgCheck(c, base, 2))
          [] step = "bounded_ng_check" -> Only(BoundedNgCheck(c, base, 3))

(* The iterations that the first steps ask for, and those from the i-th on.  *)
AskedBy(steps) == LET sum[n \in 0..Len(steps)] == IF n = 0 THEN 0 ELSE sum[n - 1] + steps[n].iters IN sum
Requested(steps, i) == AskedBy(steps)[Len(steps)] - AskedBy(steps)[i - 1]
=============================================================================
