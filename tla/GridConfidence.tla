---------------------------- MODULE GridConfidence ----------------------------
(***************************************************************************)
(* The confidence intervals of a grid search (grid_catalog.py, as the      *)
(* worker of grid_jobs.py calls it): for every value of every parameter    *)
(* the best chi2 of the models that have it, and of these the values that  *)
(* are close enough to the best model.  Results come in any order, and a   *)
(* search may be canceled after any of them.                               *)
(*                                                                         *)
(* A result is [chi2, points, effective, known, values]: effective degrees *)
(* of freedom or None, whether the errors are known photometric ones, and  *)
(* the parameters of its model (None when unknown).  All results of a      *)
(* search have as many residuals, so rmse orders them as chi2 does.        *)
(***************************************************************************)
EXTENDS Integers, Sequences, FiniteSetsExt, Functions

CONSTANTS
    None,
    Profiled,    \* TLUSTY_CONFIDENCE_PARAM_SPECS
    Fitted       \* parameters of the fit: fit_param_count

VARIABLES
    waiting,   \* the results to come
    arrived,   \* those that came
    top,       \* best_model, or None
    profiles   \* of each parameter: value -> best chi2

confidence == <<waiting, arrived, top, profiles>>

ConfidenceInit(searches) ==
    /\ waiting \in searches
    /\ arrived = {} /\ top = None
    /\ profiles = [p \in Profiled |-> [v \in {} |-> 0]]

-----------------------------------------------------------------------------
\* _update_tlusty_confidence_profiles: the least chi2 of a value stays.
LeastStays(profile, v, chi2) ==
    [x \in DOMAIN profile \cup {v} |->
        IF x = v /\ (v \notin DOMAIN profile \/ chi2 < profile[v]) THEN chi2 ELSE profile[x]]
Updated(r) ==
    [p \in Profiled |->
        IF r.values[p] = None THEN profiles[p] ELSE LeastStays(profiles[p], r.values[p], r.chi2)]

\* apply_candidate_result.
Arrive == \E r \in waiting :
    /\ waiting' = waiting \ {r}
    /\ arrived' = arrived \cup {r}
    /\ profiles' = Updated(r)
    /\ top' = IF top = None \/ r.chi2 < top.chi2 THEN r ELSE top

-----------------------------------------------------------------------------
(* _summarize_tlusty_confidence_profiles, of what has arrived.             *)

\* TLUSTY_CHI2_CONFIDENCE_LEVELS in hundredths.
Levels == {100, 271, 384}
\* 1000 exp(level / freedom), for the few degrees of freedom there are.
Exp(level, freedom) ==
    CASE freedom = 1 -> (CASE level = 100 -> 2718 [] level = 271 -> 14962 [] OTHER -> 46594)
      [] freedom = 2 -> (CASE level = 100 -> 1649 [] level = 271 -> 3868 [] OTHER -> 6826)
      [] OTHER -> (CASE level = 100 -> 1396 [] level = 271 -> 2464 [] OTHER -> 3598)

\* The fit's effective freedom if it has one, never more than the nominal one.
Freedom(r) ==
    LET nominal == Max({1, r.points - Fitted})
    IN IF r.effective = None THEN nominal ELSE Max({1, Min({nominal, r.effective})})
\* With known errors and a good fit delta chi2 counts as it is; with known errors and a bad
\* fit all errors are scaled up; otherwise the best fit gives the variance.
Close(chi2, b, level) ==
    LET n == Freedom(b)
    IN IF b.known /\ b.chi2 <= 2 * n THEN 100 * (chi2 - b.chi2) <= level
       ELSE IF b.known THEN chi2 > 0 /\ 1000 * chi2 <= b.chi2 * Exp(level, n)
       ELSE IF b.chi2 > 0 THEN 100 * (chi2 - b.chi2) * n <= level * b.chi2
       ELSE 100 * chi2 <= level
Allowed(p, b, level) == {v \in DOMAIN profiles[p] : Close(profiles[p][v], b, level)}
Intervals(b) ==
    [p \in {p \in Profiled : DOMAIN profiles[p] # {}} |->
        [l \in {l \in Levels : Allowed(p, b, l) # {}} |->
            <<Min(Allowed(p, b, l)), Max(Allowed(p, b, l))>>]]

-----------------------------------------------------------------------------
\* Whatever the order, and wherever the search was stopped: the interval of a parameter
\* spans exactly the models close enough to the best of all that have come, it holds the
\* best model's value at every level, and a higher level only widens it.
ConfidenceSound ==
    top # None =>
        /\ \A r \in arrived : top.chi2 <= r.chi2
        /\ \A p \in DOMAIN Intervals(top), l \in Levels :
            LET shown == Intervals(top)[p]
                close == {r \in arrived : r.values[p] # None /\ Close(r.chi2, top, l)}
            IN IF close = {} THEN l \notin DOMAIN shown
               ELSE /\ l \in DOMAIN shown
                    /\ \A r \in close \cup {top} : r.values[p] # None =>
                        shown[l][1] <= r.values[p] /\ r.values[p] <= shown[l][2]
                    /\ Range(shown[l]) \subseteq {r.values[p] : r \in close}
                    /\ \A k \in DOMAIN shown : k > l =>
                        shown[k][1] <= shown[l][1] /\ shown[l][2] <= shown[k][2]
=============================================================================
