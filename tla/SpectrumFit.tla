----------------------------- MODULE SpectrumFit -----------------------------
(***************************************************************************)
(* The fit of one model to an observation (spectrum_fitting.py): bounds,   *)
(* seeds, a first stage at redshift zero, the fit, the final score and the *)
(* report, with a request to cancel noticed at every evaluation.           *)
(*                                                                         *)
(* Wavelengths are logarithms: pixel i of the model lies at 2i, a redshift *)
(* adds to them, and a broadening of s pixels reaches 4s pixels.  The      *)
(* optimizer (scipy) is external: any point inside the bounds it is given, *)
(* an exception, or something that is not finite.  problem is              *)
(* [mode, free, photometry, uniform, grid, observed, initial, given,       *)
(* ratio, best, dark, error]: free is the free normalization, grid the     *)
(* first and last pixel, observed a sequence of [x, half], given the       *)
(* bounds of the request, best the parameters of the least cost, dark the  *)
(* reddenings at which no normalization exists, error what the cost of the *)
(* prepared photometry is wrong by.                                        *)
(***************************************************************************)
EXTENDS Integers, SequencesExt

CONSTANTS
    None,
    LeastPoints  \* points of a spectrum that a fit needs

VARIABLES
    problem, canceled,
    stage,       \* prepare, first, fit, score, compare, report, done
    bounds,      \* of the parameters that are fitted or fixed
    window,      \* the pixels that are kept
    seed,        \* x0
    best,        \* the optimizer's answer
    sampler,     \* quadrature (prepared for bands) or native
    final,       \* the evaluation to be reported
    outcome

fit == <<problem, canceled, stage, bounds, window, seed, best, sampler, final, outcome>>
Pending == [status |-> "pending"]
Failed == [status |-> "failed"]
Canceled == [status |-> "canceled"]

-----------------------------------------------------------------------------
(* Bounds and seeds.                                                       *)

Both == problem.mode = "both"
Clip(value, b) == Min({Max({value, b[1]}), b[2]})

\* spectrum_fit_bounds; small numbers stand for the limits.
DefaultBounds(mode) ==
    [n \in {"redshift", "broadening"} \cup (IF mode = "both" THEN {"ebv", "distance"} ELSE {}) |->
        CASE n = "redshift" -> <<-2, 2>>
          [] n = "broadening" -> <<0, 2>>
          [] n = "ebv" -> <<0, 2>>
          [] OTHER -> <<1, 3>>]

\* _normalize_fit_bounds: what the form leaves out is the default, swapped limits are
\* put right, broadening and distance have least values.
Least(n) == CASE n = "broadening" -> 0 [] n = "distance" -> 1 [] OTHER -> -9
Limits(n, default, given) ==
    LET side == [k \in 1 .. 2 |-> IF given[n][k] = None THEN default[n][k] ELSE given[n][k]]
    IN [k \in 1 .. 2 |-> Max({Least(n), IF k = 1 THEN Min(Range(side)) ELSE Max(Range(side))})]
FitBounds(mode, free, given) ==
    LET default == DefaultBounds(mode)
    IN [n \in DOMAIN default \ (IF free THEN {"distance"} ELSE {}) |-> Limits(n, default, given)]

Names == {n \in DOMAIN bounds : bounds[n][1] # bounds[n][2]}
Fixed == [n \in DOMAIN bounds \ Names |-> bounds[n][1]]
Parameters == Cardinality(Names) + (IF problem.free THEN 1 ELSE 0)

\* A seed is never where the fit is flat: zero redshift of a normalized spectrum, no
\* broadening, no reddening.
Initial(n, default) == IF problem.initial[n] = None THEN default ELSE problem.initial[n]
SeedOf(n, b) ==
    LET default == IF n # "distance" THEN 0 ELSE IF Both /\ ~problem.free THEN problem.ratio ELSE 1
        value == Clip(Initial(n, default), b)
        flat == \/ n = "redshift" /\ ~Both /\ value = 0
                \/ n = "broadening" /\ value <= 0
                \/ n = "ebv" /\ Both /\ value <= 0
    IN IF flat THEN Clip(1, b) ELSE value

-----------------------------------------------------------------------------
(* Evaluations (FitResiduals, the transform and its samplers).             *)

\* _crop_model_for_fit: the pixels that any redshift in the bounds, or the first stage
\* at zero, and the widest broadening may reach.
Redshifts(b) == Range(b.redshift) \cup {0}
LastBelow(x, grid) == Max({grid[1]} \cup {i \in grid[1] .. grid[2] : 2 * i < x})
FirstAbove(x, grid) == Min({grid[2]} \cup {i \in grid[1] .. grid[2] : 2 * i > x})
Cropped(b) ==
    LET support == 2 * (4 * b.broadening[2] + 3)
        low == Min({o.x - o.half : o \in Range(problem.observed)}) - Max(Redshifts(b)) - support
        high == Max({o.x + o.half : o \in Range(problem.observed)}) - Min(Redshifts(b)) + support
        kept == <<LastBelow(low, problem.grid), FirstAbove(high, problem.grid)>>
    IN IF problem.uniform /\ kept[2] - kept[1] >= 2 THEN kept ELSE problem.grid

\* The part of the model an observation looks at: a point between two pixels, a band as far
\* as the model reaches; None outside.  A convolution reaches further and counts the ends
\* of a vector as often as it needs them (mode "nearest").
Span(o, at, w) ==
    LET from == o.x - o.half - at.redshift
        to == o.x + o.half - at.redshift
        inside == IF o.half = 0 THEN 2 * w[1] <= from /\ to <= 2 * w[2]
                  ELSE Max({from, 2 * w[1]}) < Min({to, 2 * w[2]})
    IN IF inside THEN <<Max({from, 2 * w[1]}) \div 2, (Min({to, 2 * w[2]}) + 1) \div 2>> ELSE None
Blurred(span, broadening, w) ==
    {Clip(i, w) : i \in span[1] - 4 * broadening .. span[2] + 4 * broadening}
Seen(o, at, w) ==
    LET span == Span(o, at, w) IN IF span = None THEN {} ELSE Blurred(span, at.broadening, w)
\* The prepared integration over bands is an approximation, for a spectrum without broadening.
Approximation(at, by) == IF by = "quadrature" /\ at.broadening = 0 THEN problem.error ELSE 0
Magnitude(n) == IF n < 0 THEN -n ELSE n
Cost(at, by) ==
    Magnitude(at.redshift - problem.best.redshift) + Magnitude(at.broadening - problem.best.broadening)
    + (IF Both THEN Magnitude(at.ebv - problem.best.ebv) ELSE 0)
    + Approximation(at, by)

\* Every point of photometry has to be covered, and there must be more than parameters.
MinValid ==
    IF problem.photometry THEN Max({Parameters + 1, Len(problem.observed)}) ELSE LeastPoints
Flat == 99  \* the cost where nothing can be compared
\* _solve_free_normalization: a factor above zero, or none.
Scales(at) == problem.free /\ at.ebv \notin problem.dark
Evaluation(at, w, by) ==
    LET seen == [i \in DOMAIN problem.observed |-> Seen(problem.observed[i], at, w)]
        count == Cardinality({i \in DOMAIN seen : seen[i] # {}})
    IN [at |-> at, seen |-> seen, count |-> count, by |-> by,
        cost |-> IF count < MinValid \/ (problem.free /\ ~Scales(at)) THEN Flat ELSE Cost(at, by),
        normalization |-> IF count >= MinValid /\ Scales(at) THEN at ELSE None]

\* parameter_from_theta.
Value(theta, n, fallback) ==
    IF n \in DOMAIN bounds \ Names THEN Fixed[n] ELSE IF n \in DOMAIN theta THEN theta[n] ELSE fallback
At(theta) ==
    [redshift |-> Value(theta, "redshift", 0), broadening |-> Value(theta, "broadening", 0),
     ebv |-> Value(theta, "ebv", Initial("ebv", 0)),
     distance |-> Value(theta, "distance", Initial("distance", 1))]
Values(n) == bounds[n][1] .. bounds[n][2]
Points(names) == {t \in [names -> UNION {Values(n) : n \in names}] : \A n \in names : t[n] \in Values(n)}

-----------------------------------------------------------------------------
(* fit_model_to_observed.                                                  *)

FitInit(problems) ==
    /\ problem \in problems
    /\ bounds = FitBounds(problem.mode, problem.free, problem.given)
    /\ canceled = FALSE /\ stage = "prepare" /\ window = problem.grid
    /\ seed = <<>> /\ best = <<>> /\ final = None /\ outcome = Pending
    /\ sampler = IF Both /\ problem.photometry THEN "quadrature" ELSE "native"

Ends(as) == outcome' = as /\ stage' = "done" /\ UNCHANGED <<problem, canceled, bounds>>
Goes(next) == stage' = next /\ UNCHANGED <<problem, canceled, bounds, outcome>>
\* An evaluation after the request to cancel raises, whoever called it.
Stops == canceled /\ Ends(Canceled) /\ UNCHANGED <<window, seed, best, sampler, final>>

Cancel ==
    /\ stage # "done" /\ ~canceled
    /\ canceled' = TRUE
    /\ UNCHANGED <<problem, stage, bounds, window, seed, best, sampler, final, outcome>>

\* The observation is of the other kind, or has too few points.
Refuse ==
    /\ stage = "prepare" /\ Ends(Failed)
    /\ UNCHANGED <<window, seed, best, sampler, final>>
Prepare ==
    /\ stage = "prepare" /\ Goes("first")
    /\ window' = Cropped(bounds)
    /\ seed' = [n \in Names |-> SeedOf(n, bounds[n])]
    /\ UNCHANGED <<best, sampler, final>>

\* Absolute fluxes are first fitted at redshift zero without broadening; what this finds
\* is only a seed, taken if enough points are covered there.
AtRest == bounds.redshift = <<0, 0>> /\ bounds.broadening = <<0, 0>>
Staged == {"ebv"} \cup (IF problem.free THEN {} ELSE {"distance"})
Started == [n \in Names |-> IF n = "redshift" THEN Clip(0, bounds[n]) ELSE seed[n]]
Rest(t) == [At(t) EXCEPT !.redshift = 0, !.broadening = 0]
First ==
    /\ stage = "first"
    /\ \/ /\ (~Both \/ AtRest) /\ seed' = seed
          /\ Goes("fit") /\ UNCHANGED <<window, best, sampler, final>>
       \/ /\ Both /\ ~AtRest /\ ~(Staged \subseteq Names)
          /\ seed' = Started
          /\ Goes("fit") /\ UNCHANGED <<window, best, sampler, final>>
       \/ /\ Both /\ ~AtRest /\ Staged \subseteq Names
          /\ \/ Stops
             \/ /\ ~canceled
                /\ \/ seed' = Started
                   \/ \E t \in Points(Staged) :
                        /\ Evaluation(Rest(t), window, sampler).count >= MinValid
                        /\ seed' = [n \in Names |-> IF n \in Staged THEN t[n] ELSE Started[n]]
                /\ Goes("fit") /\ UNCHANGED <<window, best, sampler, final>>

\* least_squares: refuses a seed outside the bounds.
Feasible == \A n \in Names : seed[n] \in Values(n)
Fit ==
    /\ stage = "fit"
    /\ \/ /\ Names = {}
          /\ Goes("score") /\ UNCHANGED <<window, seed, best, sampler, final>>
       \/ Names # {} /\ Stops
       \/ /\ Names # {} /\ ~canceled
          /\ Ends(Failed) /\ UNCHANGED <<window, seed, best, sampler, final>>
       \/ /\ Names # {} /\ ~canceled /\ Feasible
          /\ best' \in Points(Names)
          /\ Goes("score") /\ UNCHANGED <<window, seed, sampler, final>>

\* The score is not the optimizer's: it comes from the native spectrum.  A variant
\* scores as it fitted.
FittedSampler == sampler
FinalSampler == "native"
Score ==
    /\ stage = "score"
    /\ \/ Stops
       \/ /\ ~canceled /\ sampler' = FinalSampler
          /\ final' = Evaluation(At(best), window, sampler')
          /\ Goes("compare") /\ UNCHANGED <<window, seed, best>>

\* The seed of the broadening is above zero, so zero is compared by itself.
Compare ==
    /\ stage = "compare"
    /\ \/ /\ "broadening" \notin Names \/ bounds.broadening[1] # 0
          /\ Goes("report") /\ UNCHANGED <<window, seed, best, sampler, final>>
       \/ "broadening" \in Names /\ bounds.broadening[1] = 0 /\ Stops
       \/ /\ "broadening" \in Names /\ bounds.broadening[1] = 0 /\ ~canceled
          /\ LET zero == Evaluation([At(best) EXCEPT !.broadening = 0], window, sampler)
             IN IF zero.count = final.count /\ zero.cost < final.cost
                THEN best' = [best EXCEPT !.broadening = 0] /\ final' = zero
                ELSE UNCHANGED <<best, final>>
          /\ Goes("report") /\ UNCHANGED <<window, seed, sampler>>

\* Bands are independent; the autocorrelation of a spectrum's residuals leaves any number.
EffectivePoints(count) == IF problem.photometry THEN {count} ELSE 1 .. count
Freedom(points) == Max({1, points - Parameters})
Report ==
    /\ stage = "report"
    /\ IF final.count < MinValid THEN Ends(Failed)
       ELSE \E n \in EffectivePoints(final.count) :
            Ends([status |-> "success", final |-> final,
                  params |-> IF problem.free THEN [At(best) EXCEPT !.distance = 1] ELSE At(best),
                  dof |-> Freedom(final.count), effective |-> Freedom(n)])
    /\ UNCHANGED <<window, seed, best, sampler, final>>

FitNext == Cancel \/ Refuse \/ Prepare \/ First \/ Fit \/ Score \/ Compare \/ Report

-----------------------------------------------------------------------------
\* What a fit reports belongs together and is worth comparing: its parameters are inside
\* the bounds asked for; evaluated on the whole model, without a shortcut, they give
\* exactly the points, cost and normalization of the report; no broadening at all would
\* not have been better; and photometry is covered to its last point.  The optimizer is
\* never given a seed it refuses, and only a request cancels.
FitReported ==
    /\ stage = "fit" => Feasible
    /\ outcome = Canceled => canceled
    /\ outcome.status = "success" =>
        LET p == outcome.params
            whole(at) == Evaluation(at, problem.grid, "native")
            still == whole([p EXCEPT !.broadening = 0])
        IN /\ \A n \in DOMAIN bounds : p[n] \in Values(n)
           /\ outcome.final = whole(p)
           /\ problem.photometry => outcome.final.count = Len(problem.observed)
           /\ bounds.broadening[1] = 0 /\ "broadening" \in Names
                /\ still.count = outcome.final.count => still.cost >= outcome.final.cost
=============================================================================
