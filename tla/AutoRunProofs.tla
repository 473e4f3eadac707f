---------------------------- MODULE AutoRunProofs ----------------------------
(* The automatic convergence loop, for any models, scenes and budgets.       *)
EXTENDS AutoRun, WellFoundedInduction, TLAPS

-----------------------------------------------------------------------------
(* What the policies decide.                                                 *)

Fields == {"kind", "policy", "next", "steps", "caches", "set", "reversible", "retain",
           "mutates", "batch", "base"}
Recipe(steps) ==
    /\ Len(steps) \in 0..3 /\ (steps # << >> => Len(steps) > 0)
    /\ \A i \in 1..Len(steps) : steps[i].iters \in Nat

Parts(d, c) ==
    /\ DOMAIN d = Fields
    /\ Recipe(d.steps)
    /\ d.batch \in Nat /\ d.next \in {"iterate", "verify"}
    /\ {d.reversible, d.retain, d.mutates} \subseteq BOOLEAN
    /\ d.mutates => d.caches = AllCaches /\ d.steps # << >>
    /\ d.retain => d.batch = 0 /\ c.saved = c.checkpoint + 1
    /\ d.next = "verify" => d.steps = << >> /\ "N_FIX_BA" \in DOMAIN d.set /\ d.set["N_FIX_BA"] = 0
    /\ "RELAX" \in DOMAIN d.set => d.set["RELAX"] \in Int /\ d.set["RELAX"] <= c.original

Fit(d, c) ==
    /\ Parts(d, c)
    /\ d.kind \in {"continue", "action", "stop", "converged", "not_matched", "ineligible"}

(* Every policy decides within these limits. *)
LEMMA PoliciesFit ==
    ASSUME NEW c, c.RELAX \in Int, c.original \in Int, c.RELAX <= c.original,
           c.checkpoint \in Int
    PROVE  /\ Fit(NonfiniteCache(c), c) /\ Fit(InvalidState(c), c) /\ Fit(SourceOpacity(c), c)
           /\ Fit(Pop(c), c) /\ Fit(Lte(c), c) /\ Fit(OpacityLteSeed(c), c)
           /\ Fit(StartupHydro(c), c) /\ Fit(Hydro(c), c) /\ Fit(RadiationCache(c), c)
           /\ Fit(PopulationGuard(c), c) /\ Fit(RayRefinement(c), c) /\ Fit(Verified(c), c)
           /\ Fit(VerifyCandidate(c), c) /\ Fit(TemperatureCoupling(c), c) /\ Fit(Projection(c), c)
           /\ Fit(PopulationBootstrap(c), c) /\ Fit(NgCadence(c), c) /\ Fit(BoundedNg(c), c)
           /\ Fit(PopulationRelaxation(c), c) /\ Fit(Oscillation(c, c.batch.thermal), c)
           /\ Fit(RelaxationRelease(c), c) /\ Fit(BaReuseTrial(c), c)
           /\ Fit(TransferRefinement(c), c) /\ Fit(Stall(c), c) /\ Fit(Fixed(c), c)
<1> USE DEF Fit, Parts, Fields, Act, Matrix, FreshBa, Stop, Continue, NotMatched, Declined
<1>1. Recipe(<< >>)
  BY DEF Recipe
<1>2. Fit(NotMatched, c) /\ Fit(Declined, c)
  BY <1>1
<1>3. Fit(NonfiniteCache(c), c)
  BY <1>1 DEF NonfiniteCache
<1>4. Fit(InvalidState(c), c)
  BY <1>1 DEF InvalidState
<1>5. Fit(SourceOpacity(c), c)
  BY <1>1 DEF SourceOpacity
<1>6. Fit(Pop(c), c)
  <2>1. Recipe(<<Step("pop_initialization", 2), Step("pop_continuation", 2)>>)
    BY DEF Recipe, Step
  <2> QED  BY <1>1, <2>1 DEF Pop
<1>7. Fit(Lte(c), c)
  <2>1. Recipe(<<Step("lte_initialization", 2), Step("lte_continuation", 2)>>)
    BY DEF Recipe, Step
  <2> QED  BY <1>1, <2>1 DEF Lte
<1>8. Fit(OpacityLteSeed(c), c)
  <2>1. Recipe(<<SeedStep("opacity_lte_seed"), Step("opacity_population_lambda", 3),
                 RepeatedStep("opacity_population_full", 2)>>)
    BY DEF Recipe, Step, SeedStep, RepeatedStep
  <2> QED  BY <1>1, <2>1 DEF OpacityLteSeed
<1>9. Fit(StartupHydro(c), c)
  <2> DEFINE bridge == <<Step("hydro_bridge", 1), Step("hydro_guarded", 2)>>
             steps == (IF c.restart = "fresh" THEN <<Step("hydro_pop_seed", 1)>> ELSE << >>) \o bridge
  <2>1. Recipe(steps)
    BY DEF Recipe, Step
  <2> HIDE DEF steps
  <2> QED  BY <1>1, <2>1 DEF StartupHydro, steps
<1>10. Fit(Hydro(c), c)
  <2>1. Recipe(<<Step("hydro_bridge", 1), Step("hydro_guarded", 2)>>)
    BY DEF Recipe, Step
  <2> QED  BY <1>1, <2>1 DEF Hydro
<1>11. Fit(RadiationCache(c), c)
  BY <1>1 DEF RadiationCache
<1>12. Fit(PopulationBootstrap(c), c) /\ ~PopulationBootstrap(c).retain /\ PopulationBootstrap(c).batch = 0
  <2>1. Recipe(<<Step("population_lambda", 3), RepeatedStep("population_full", 2)>>)
    BY DEF Recipe, Step, RepeatedStep
  <2> QED  BY <1>1, <2>1 DEF PopulationBootstrap
<1>13. Fit(PopulationGuard(c), c)
  <2> DEFINE d == PopulationBootstrap(c)
  <2>1. Fit(d, c) /\ d.batch = 0
    BY <1>12
  <2> HIDE DEF d
  <2>2. ASSUME c.saved = c.checkpoint + 1 PROVE Fit([d EXCEPT !.retain = TRUE], c)
    BY <2>1, <2>2
  <2> HIDE DEF Fit, NotMatched, Declined
  <2> QED  BY <1>2, <2>1, <2>2 DEF PopulationGuard, d
<1>14. Fit(RayRefinement(c), c)
  <2>1. Recipe(<<Step("refined_ray_check", 2)>>)
    BY DEF Recipe, Step
  <2> QED  BY <1>1, <2>1 DEF RayRefinement
<1>15. Fit(Verified(c), c) /\ Fit(VerifyCandidate(c), c) /\ Fit(TemperatureCoupling(c), c)
  BY <1>1 DEF Verified, VerifyCandidate, TemperatureCoupling
<1>16. Fit(Projection(c), c)
  <2>1. Recipe(<<RepeatedStep("population_projection_full", 2)>>)
    BY DEF Recipe, Step, RepeatedStep
  <2> QED  BY <1>1, <2>1 DEF Projection
<1>17. Fit(NgCadence(c), c)
  BY <1>1 DEF NgCadence
<1>18. Fit(BoundedNg(c), c)
  <2>1. Recipe(<<Step("bounded_ng_settle1", 2), Step("bounded_ng_settle2", 2), Step("bounded_ng_check", 2)>>)
    BY DEF Recipe, Step
  <2> QED  BY <1>1, <2>1 DEF BoundedNg
<1>19. Fit(PopulationRelaxation(c), c)
  <2>1. Recipe(<<RepeatedStep("population_relaxation_check", 3)>>)
    BY DEF Recipe, Step, RepeatedStep
  <2> QED  BY <1>1, <2>1 DEF PopulationRelaxation
<1>20. Fit(Oscillation(c, c.batch.thermal), c)
  BY <1>1 DEF Oscillation
<1>21. Fit(RelaxationRelease(c), c)
  <2>1. Recipe(<<Step("relaxation_release_check", 2)>>)
    BY DEF Recipe, Step
  <2> DEFINE relax == IF 2 * c.RELAX < c.original THEN 2 * c.RELAX ELSE c.original
  <2>2. relax \in Int /\ relax <= c.original
    OBVIOUS
  <2> HIDE DEF relax
  <2>3. ASSUME NEW b
        PROVE  Fit([Act EXCEPT !.set = [RELAX |-> relax], !.reversible = TRUE,
                               !.steps = <<Step("relaxation_release_check", 2)>>, !.base = b], c)
    BY <2>1, <2>2
  <2> HIDE DEF Fit, NotMatched, Act
  <2> QED  BY <1>2, <2>3 DEF RelaxationRelease, relax
<1>22. Fit(BaReuseTrial(c), c)
  <2>1. Recipe(<<Step("ba_reuse_check", 2)>>)
    BY DEF Recipe, Step
  <2>2. ASSUME NEW b
        PROVE  Fit([Act EXCEPT !.set = [N_FIX_BA |-> 1], !.reversible = TRUE,
                               !.steps = <<Step("ba_reuse_check", 2)>>, !.base = b], c)
    BY <2>1
  <2> HIDE DEF Fit, NotMatched, Act
  <2> QED  BY <1>2, <2>2 DEF BaReuseTrial
<1>23. Fit(TransferRefinement(c), c)
  <2>1. Recipe(<<RepeatedStep("transfer_refinement_check", 3)>>)
    BY DEF Recipe, Step, RepeatedStep
  <2> QED  BY <1>1, <2>1 DEF TransferRefinement
<1>24. Fit(Stall(c), c)
  BY <1>1 DEF Stall
<1>25. Fit(Fixed(c), c)
  BY <1>1 DEF Fixed
<1> HIDE DEF Fit
<1> QED  BY <1>3, <1>4, <1>5, <1>6, <1>7, <1>8, <1>9, <1>10, <1>11, <1>12, <1>13, <1>14, <1>15,
            <1>16, <1>17, <1>18, <1>19, <1>20, <1>21, <1>22, <1>23, <1>24, <1>25
(* No remedy of a failure concludes that the model has converged. *)
LEMMA FailuresDiverge ==
    ASSUME NEW c
    PROVE  \A d \in {NonfiniteCache(c), InvalidState(c), SourceOpacity(c), Pop(c), Lte(c),
                     OpacityLteSeed(c), StartupHydro(c), Hydro(c), RadiationCache(c),
                     PopulationGuard(c), RayRefinement(c)} : d.kind # "converged"
<1> USE DEF Act, Matrix, Stop, NotMatched, Declined
<1>1. NonfiniteCache(c).kind # "converged" /\ InvalidState(c).kind # "converged"
  BY DEF NonfiniteCache, InvalidState
<1>2. SourceOpacity(c).kind # "converged" /\ Pop(c).kind # "converged" /\ Lte(c).kind # "converged"
  BY DEF SourceOpacity, Pop, Lte
<1>3. OpacityLteSeed(c).kind # "converged"
  BY DEF OpacityLteSeed
<1>4. StartupHydro(c).kind # "converged"
  BY DEF StartupHydro
<1>5. Hydro(c).kind # "converged" /\ RadiationCache(c).kind # "converged" /\ RayRefinement(c).kind # "converged"
  BY DEF Hydro, RadiationCache, RayRefinement
<1>6. PopulationGuard(c).kind # "converged"
  <2>1. PopulationBootstrap(c).kind # "converged"
    BY DEF PopulationBootstrap
  <2> QED  BY <2>1 DEF PopulationGuard
<1> QED  BY <1>1, <1>2, <1>3, <1>4, <1>5, <1>6

LEMMA EvaluateFits ==
    ASSUME NEW c, c.RELAX \in Int, c.original \in Int, c.RELAX <= c.original,
           c.checkpoint \in Int, NEW i \in 1..25
    PROVE  /\ Fit(Evaluate(POLICIES[i].id, c), c)
           /\ Evaluate(POLICIES[i].id, c).kind = "converged" => POLICIES[i].when = "success"
<1>1. CASE i = 1
  <2>1. Evaluate(POLICIES[i].id, c) = NonfiniteCache(c) /\ POLICIES[i].when = "prepare"
    BY <1>1 DEF POLICIES, Evaluate
  <2> QED  BY <2>1, PoliciesFit, FailuresDiverge
<1>2. CASE i = 2
  <2>1. Evaluate(POLICIES[i].id, c) = InvalidState(c) /\ POLICIES[i].when = "failure"
    BY <1>2 DEF POLICIES, Evaluate
  <2> QED  BY <2>1, PoliciesFit, FailuresDiverge
<1>3. CASE i = 3
  <2>1. Evaluate(POLICIES[i].id, c) = SourceOpacity(c) /\ POLICIES[i].when = "failure"
    BY <1>3 DEF POLICIES, Evaluate
  <2> QED  BY <2>1, PoliciesFit, FailuresDiverge
<1>4. CASE i = 4
  <2>1. Evaluate(POLICIES[i].id, c) = Pop(c) /\ POLICIES[i].when = "failure"
    BY <1>4 DEF POLICIES, Evaluate
  <2> QED  BY <2>1, PoliciesFit, FailuresDiverge
<1>5. CASE i = 5
  <2>1. Evaluate(POLICIES[i].id, c) = Lte(c) /\ POLICIES[i].when = "failure"
    BY <1>5 DEF POLICIES, Evaluate
  <2> QED  BY <2>1, PoliciesFit, FailuresDiverge
<1>6. CASE i = 6
  <2>1. Evaluate(POLICIES[i].id, c) = OpacityLteSeed(c) /\ POLICIES[i].when = "failure"
    BY <1>6 DEF POLICIES, Evaluate
  <2> QED  BY <2>1, PoliciesFit, FailuresDiverge
<1>7. CASE i = 7
  <2>1. Evaluate(POLICIES[i].id, c) = StartupHydro(c) /\ POLICIES[i].when = "failure"
    BY <1>7 DEF POLICIES, Evaluate
  <2> QED  BY <2>1, PoliciesFit, FailuresDiverge
<1>8. CASE i = 8
  <2>1. Evaluate(POLICIES[i].id, c) = Hydro(c) /\ POLICIES[i].when = "failure"
    BY <1>8 DEF POLICIES, Evaluate
  <2> QED  BY <2>1, PoliciesFit, FailuresDiverge
<1>9. CASE i = 9
  <2>1. Evaluate(POLICIES[i].id, c) = RadiationCache(c) /\ POLICIES[i].when = "failure"
    BY <1>9 DEF POLICIES, Evaluate
  <2> QED  BY <2>1, PoliciesFit, FailuresDiverge
<1>10. CASE i = 10
  <2>1. Evaluate(POLICIES[i].id, c) = PopulationGuard(c) /\ POLICIES[i].when = "failure"
    BY <1>10 DEF POLICIES, Evaluate
  <2> QED  BY <2>1, PoliciesFit, FailuresDiverge
<1>11. CASE i = 11
  <2>1. Evaluate(POLICIES[i].id, c) = RayRefinement(c) /\ POLICIES[i].when = "failure"
    BY <1>11 DEF POLICIES, Evaluate
  <2> QED  BY <2>1, PoliciesFit, FailuresDiverge
<1>12. CASE i = 12
  <2>1. Evaluate(POLICIES[i].id, c) = Verified(c) /\ POLICIES[i].when = "success"
    BY <1>12 DEF POLICIES, Evaluate
  <2> QED  BY <2>1, PoliciesFit
<1>13. CASE i = 13
  <2>1. Evaluate(POLICIES[i].id, c) = VerifyCandidate(c) /\ POLICIES[i].when = "success"
    BY <1>13 DEF POLICIES, Evaluate
  <2> QED  BY <2>1, PoliciesFit
<1>14. CASE i = 14
  <2>1. Evaluate(POLICIES[i].id, c) = TemperatureCoupling(c) /\ POLICIES[i].when = "success"
    BY <1>14 DEF POLICIES, Evaluate
  <2> QED  BY <2>1, PoliciesFit
<1>15. CASE i = 15
  <2>1. Evaluate(POLICIES[i].id, c) = Projection(c) /\ POLICIES[i].when = "success"
    BY <1>15 DEF POLICIES, Evaluate
  <2> QED  BY <2>1, PoliciesFit
<1>16. CASE i = 16
  <2>1. Evaluate(POLICIES[i].id, c) = PopulationBootstrap(c) /\ POLICIES[i].when = "success"
    BY <1>16 DEF POLICIES, Evaluate
  <2> QED  BY <2>1, PoliciesFit
<1>17. CASE i = 17
  <2>1. Evaluate(POLICIES[i].id, c) = NgCadence(c) /\ POLICIES[i].when = "success"
    BY <1>17 DEF POLICIES, Evaluate
  <2> QED  BY <2>1, PoliciesFit
<1>18. CASE i = 18
  <2>1. Evaluate(POLICIES[i].id, c) = BoundedNg(c) /\ POLICIES[i].when = "success"
    BY <1>18 DEF POLICIES, Evaluate
  <2> QED  BY <2>1, PoliciesFit
<1>19. CASE i = 19
  <2>1. Evaluate(POLICIES[i].id, c) = PopulationRelaxation(c) /\ POLICIES[i].when = "success"
    BY <1>19 DEF POLICIES, Evaluate
  <2> QED  BY <2>1, PoliciesFit
<1>20. CASE i = 20
  <2>1. Evaluate(POLICIES[i].id, c) = Oscillation(c, c.batch.thermal) /\ POLICIES[i].when = "success"
    BY <1>20 DEF POLICIES, Evaluate
  <2> QED  BY <2>1, PoliciesFit
<1>21. CASE i = 21
  <2>1. Evaluate(POLICIES[i].id, c) = RelaxationRelease(c) /\ POLICIES[i].when = "success"
    BY <1>21 DEF POLICIES, Evaluate
  <2> QED  BY <2>1, PoliciesFit
<1>22. CASE i = 22
  <2>1. Evaluate(POLICIES[i].id, c) = BaReuseTrial(c) /\ POLICIES[i].when = "success"
    BY <1>22 DEF POLICIES, Evaluate
  <2> QED  BY <2>1, PoliciesFit
<1>23. CASE i = 23
  <2>1. Evaluate(POLICIES[i].id, c) = TransferRefinement(c) /\ POLICIES[i].when = "success"
    BY <1>23 DEF POLICIES, Evaluate
  <2> QED  BY <2>1, PoliciesFit
<1>24. CASE i = 24
  <2>1. Evaluate(POLICIES[i].id, c) = Stall(c) /\ POLICIES[i].when = "success"
    BY <1>24 DEF POLICIES, Evaluate
  <2> QED  BY <2>1, PoliciesFit
<1>25. CASE i = 25
  <2>1. Evaluate(POLICIES[i].id, c) = Fixed(c) /\ POLICIES[i].when = "success"
    BY <1>25 DEF POLICIES, Evaluate
  <2> QED  BY <2>1, PoliciesFit
<1> QED  BY <1>1, <1>2, <1>3, <1>4, <1>5, <1>6, <1>7, <1>8, <1>9, <1>10, <1>11, <1>12, <1>13, <1>14, <1>15, <1>16, <1>17, <1>18, <1>19, <1>20, <1>21, <1>22, <1>23, <1>24, <1>25

LEMMA LeastMember ==
    ASSUME NEW S, S \subseteq Nat, S # {} PROVE Min(S) \in S
<1> DEFINE R == {p \in Nat \X Nat : p[1] < p[2]}
<1>1. IsWellFoundedOn(R, Nat)
  BY NatLessThanWellFounded, Zenon DEF OpToRel
<1>2. PICK x \in S : \A y \in S : <<y, x>> \notin R
  <2> HIDE DEF R
  <2> QED  BY <1>1, WFMin
<1>3. ASSUME NEW y \in S PROVE x <= y
  <2>1. x \in Nat /\ y \in Nat /\ ~(<<y, x>> \in Nat \X Nat /\ y < x)
    BY <1>2, <1>3
  <2> QED  BY <2>1
<1> HIDE DEF R
<1> QED  BY <1>3 DEF Min

\* What choose decides, and what the controller may rely on.
Decided(d, c) ==
    /\ Parts(d, c)
    /\ d.kind \in {"continue", "action", "stop", "converged", "invalid"}
    /\ d.kind = "converged" => c.when = "success"
    /\ d.kind # "invalid" => /\ d.steps # << >> => d.kind = "action"
                             /\ d.retain => d.steps # << >>
                             /\ c.when = "prepare" => d.steps = << >>

LEMMA ChooseFits ==
    ASSUME NEW c, c.RELAX \in Int, c.original \in Int, c.RELAX <= c.original,
           c.checkpoint \in Int
    PROVE  Decided(choose(c), c)
<1>1. CASE Deciding(c) = {}
  <2>1. Recipe(<< >>)
    BY DEF Recipe
  <2>2. choose(c) = Undecided(c)
    BY <1>1 DEF choose, First
  <2> QED  BY <2>1, <2>2 DEF Undecided, Decided, Parts, Fields, Stop, Continue, Act
<1>2. CASE Deciding(c) # {}
  <2> DEFINE i == Min(Deciding(c))
             p == POLICIES[i]
             e == Evaluate(p.id, c)
             d == [e EXCEPT !.policy = p.id]
  <2>1. DOMAIN POLICIES = 1..25
    BY DEF POLICIES
  <2>2. i \in Deciding(c)
    <3>1. Deciding(c) \subseteq Nat
      BY <2>1 DEF Deciding
    <3> QED  BY <1>2, <3>1, LeastMember
  <2>3. i \in 1..25 /\ p.when = c.when /\ e.kind \notin {"not_matched", "ineligible"}
    BY <2>1, <2>2 DEF Deciding
  <2>4. Fit(e, c) /\ (e.kind = "converged" => p.when = "success")
    BY <2>3, EvaluateFits
  <2>5. choose(c) = Taken(p, d, c)
    BY <1>2 DEF choose, First
  <2> HIDE DEF i, p, e
  <2>6. Parts(d, c) /\ d.kind = e.kind
    BY <2>4 DEF Fit, Parts, Fields
  <2>7. d.kind \in {"continue", "action", "stop", "converged"}
    BY <2>3, <2>4, <2>6 DEF Fit
  <2> HIDE DEF d
  <2>8. CASE ~Valid(d, c.when)
    <3>1. choose(c) = [d EXCEPT !.kind = "invalid"]
      BY <2>5, <2>8 DEF Taken
    <3> DEFINE bad == [d EXCEPT !.kind = "invalid"]
    <3>2. /\ DOMAIN bad = DOMAIN d /\ bad.kind = "invalid"
          /\ bad.steps = d.steps /\ bad.batch = d.batch /\ bad.next = d.next
          /\ bad.reversible = d.reversible /\ bad.retain = d.retain /\ bad.mutates = d.mutates
          /\ bad.caches = d.caches /\ bad.set = d.set
      BY <2>6 DEF Parts, Fields
    <3> HIDE DEF bad
    <3> QED  BY <2>6, <3>1, <3>2 DEF Decided, Parts, bad
  <2>9. CASE Valid(d, c.when) /\ d.kind = "action" /\ c.applied[p.id] >= p.max
    <3>1. choose(c) = [Stop EXCEPT !.policy = p.id]
      BY <2>5, <2>9 DEF Taken
    <3>2. Recipe(<< >>)
      BY DEF Recipe
    <3> QED  BY <3>1, <3>2 DEF Decided, Parts, Fields, Stop, Act
  <2>10. CASE Valid(d, c.when) /\ ~(d.kind = "action" /\ c.applied[p.id] >= p.max)
    <3>1. choose(c) = d
      BY <2>5, <2>10 DEF Taken
    <3> QED  BY <2>3, <2>4, <2>6, <2>7, <2>10, <3>1 DEF Decided, Valid
  <2> QED  BY <2>8, <2>9, <2>10
<1> QED  BY <1>1, <1>2

-----------------------------------------------------------------------------
(* What holds in every state.                                                *)

Stamps == Nat \cup {Absent, Partial, Missing}
Locations == {"prepare", "top", "plan", "native", "judge", "copy", "name", "drop", "assign", "restore",
              "restore2", "rejected", "settle", "decide", "release", "release2", "release3",
              "act", "act2", "act3", "acted", "cancelled", "finally", "rolled", "done"}
Statuses == {"running", "succeeded", "stopped", "timeout", "limit_reached",
             "preflight_failed", "needs_review", "cancelled"}
Results == {"none", "succeeded", "stopped", "failed", "timeout", "cancelled"}
Startups == {"none", "fresh", "continuation"}
Restoring == {"restore", "restore2"}
Capturing == {"copy", "name", "drop", "assign"}
Acting == {"act", "act2", "act3", "acted"}

RestoringFor(p) == pc \in Restoring /\ then.pc = p
CapturingFor(p) == pc \in Capturing /\ then.pc = p

(* The run can only end any more. *)
Closing == pc \in {"cancelled", "finally", "rolled", "done"} \/ RestoringFor("finally") \/ RestoringFor("rolled")

(* No control ever written loosens the damping of the start. *)
Damping(set) == "RELAX" \in DOMAIN set => set["RELAX"] \in Int /\ set["RELAX"] <= starting.RELAX
Whole(f, n) == /\ DOMAIN f = {"pop", "ctl", "set"}
               /\ f.pop \in Stamps /\ f.ctl \in Stamps /\ f.pop <= n /\ f.ctl <= n
               /\ Damping(f.set)

(* A decision, as choose makes it and as NotNested limits it. *)
Sound(d) ==
    /\ DOMAIN d = Fields
    /\ Recipe(d.steps)
    /\ d.kind \in {"none", "continue", "action", "stop", "converged", "invalid"}
    /\ d.batch \in Nat /\ d.next \in {"iterate", "verify"}
    /\ {d.reversible, d.retain, d.mutates} \subseteq BOOLEAN
    /\ d.mutates => d.caches = AllCaches /\ d.steps # << >>
    /\ d.retain => d.batch = 0
    /\ d.next = "verify" => d.steps = << >> /\ "N_FIX_BA" \in DOMAIN d.set /\ d.set["N_FIX_BA"] = 0
    /\ d.kind # "invalid" => /\ d.steps # << >> => d.kind \in {"action", "none"}
                             /\ d.retain => d.steps # << >>
    /\ Damping(d.set)

ControlTypes ==
    /\ pc \in Locations /\ status \in Statuses /\ review \in BOOLEAN
    /\ then \in [pc : {"prepare", "finally", "rejected", "decide", "rolled", "settle", "acted"},
                 status : Statuses, source : {"recovery", "working"}]
    /\ pc \in Restoring => then.pc \in {"finally", "rejected", "decide", "rolled"}
    /\ pc \in Capturing => then.pc \in {"settle", "acted"}
    /\ pc \in Restoring /\ then.source = "working" => then.pc = "decide" /\ pending # None
LoopTypes ==
    /\ starting \in Models
    /\ attempt \in 0..MaxAttempts + 1 /\ used \in Nat /\ batch \in Nat /\ base \in {"iterate", "verify"}
    /\ ~Closing /\ pc # "top" => attempt <= MaxAttempts
    /\ ~Closing => used <= MaxIterations
    /\ native \in [status : Results, restart : Startups, ctl : Nat, charged : Nat, saved : BOOLEAN]
    /\ pc \in {"native", "judge"} => native.charged <= used
    /\ waiting \in BOOLEAN /\ trend \in 0..Longest /\ waits \in 0..Longest
    /\ trial \in {"none", "open", "accepted", "rejected", "aborted"}
DecisionTypes ==
    /\ Sound(decision) /\ decision.kind # "none" /\ Sound(pending) /\ step \in 0..4
    /\ pending # None => pending.kind = "action" /\ pending.steps # << >> /\ step \in 1..Len(pending.steps)
DiskTypes ==
    /\ Whole(files, clock) /\ Whole(working, clock) /\ {files.pop, files.ctl} \subseteq Nat \cup {Missing}
    /\ DOMAIN dirs = Names /\ Whole(dirs["A"], clock) /\ Whole(dirs["B"], clock)
    /\ native.ctl \in Nat /\ native.ctl <= clock
    /\ pc = "judge" /\ Good => files.pop \in Nat
    /\ DOMAIN caches = AllCaches
    /\ {recorded, recovery} \subseteq Names /\ expected \in Int /\ expected <= clock
    /\ stopping \in BOOLEAN /\ edit \in Nat /\ edit <= clock
    /\ accepted \subseteq Nat /\ clock \in Nat /\ strayed \in BOOLEAN
Types == ControlTypes /\ LoopTypes /\ DecisionTypes /\ DiskTypes

(* An edit that the controller does not know is not in the sections that     *)
(* write, unless it fell into one, and is nothing the solver left.           *)
EditApart ==
    Edited /\ ~raced =>
        /\ pc \notin Sections
        /\ pc = "judge" => native.ctl # edit

(* The snapshots: which one is recorded, what the two hold, and where the    *)
(* model holds an accepted checkpoint.                                       *)
Split == pc \in {"drop", "assign"} \/ struck \in {"drop", "assign"}
Overwriting == pc \in {"release", "release2", "release3"}
Abandoned == pc \in {"release3", "finally", "done"} \/ (pc = "cancelled" /\ files.ctl # expected)
Intact(s) == s.pop \in accepted /\ (s.ctl >= 0 \/ (decision.kind = "converged" /\ pending = None /\ Abandoned))
Chain ==
    /\ struck \in {"nowhere", "native"} \/ Closing
    /\ recorded = IF Split THEN Other(recovery) ELSE recovery
    /\ Intact(dirs[recorded])
    /\ pc = "assign" \/ struck = "assign" \/ Intact(dirs[recovery])
    /\ pc \in {"name", "drop", "assign"} =>
           LET s == dirs[Other(recovery)] IN
           s.pop = files.pop /\ s.set = files.set /\ s.ctl >= 0 /\ (s.ctl = files.ctl \/ edit # 0)
    /\ ~Closing => files.ctl >= 0
    /\ working.ctl >= 0
    /\ Overwriting => decision.kind = "converged" /\ pending = None
    /\ pc \in {"release2", "release3"} => files.ctl # expected
    /\ pc \in Restoring => ~Overwriting
Chosen ==
    /\ (pc = "decide" \/ RestoringFor("decide")) /\ pending # None =>
            /\ decision.kind \in {"continue", "action", "stop"}
                             /\ decision.steps = << >> /\ ~decision.retain
    /\ RestoringFor("decide") => decision.kind \in {"continue", "action", "stop"}
    /\ pc \in Acting => /\ decision.kind = "action"
                        /\ decision.steps = << >> \/ decision = pending
    /\ CapturingFor("acted") =>
           pending = None /\ decision.kind = "action" /\ decision.steps = << >>
    /\ RestoringFor("rejected") => pending # None
    /\ pc = "rejected" => pending # None
AcceptedAt ==
    /\ pc \in {"prepare"} \cup Capturing => files.pop \in accepted
    /\ pc \in {"decide"} \cup Acting /\ pending = None /\ decision.steps = << >> => files.pop \in accepted
    /\ pc = "settle" /\ (pending # None => step = Len(pending.steps) /\ ~waiting) => files.pop \in accepted
    /\ pc = "restore2" /\ then.source = "recovery" /\ struck # "assign" => files.pop = dirs[recovery].pop

(* The model and the recovery snapshot hold the same. *)
Paired == /\ files.pop = dirs[recovery].pop /\ files.set = dirs[recovery].set
          /\ files.ctl = dirs[recovery].ctl \/ edit # 0
Coupled ==
    /\ pc \in {"prepare", "top", "plan", "acted"} /\ pending = None => Paired
    /\ pc = "decide" /\ pending = None /\ ~decision.retain => Paired
    /\ pc = "settle" /\ (pending # None => step = Len(pending.steps) /\ ~waiting) => Paired
    /\ pc = "rejected" => Paired
    /\ Overwriting => files.pop = dirs[recovery].pop
    /\ struck # "assign" =>
        /\ pc = "rolled" => Paired
        /\ pc = "finally" /\ ~review /\ pending = None => Paired
        /\ pc = "done" /\ ~review => Paired /\ files.pop \in accepted
    /\ status = "succeeded" => /\ pc \in {"finally", "done"} /\ pending = None
                               /\ Controls.N_FIX_BA = starting.N_FIX_BA
    /\ pc \in {"release2", "release3"} => Controls.N_FIX_BA = starting.N_FIX_BA
    /\ then.status # "succeeded"

(* Caches beside the checkpoint they belong to. *)
Matching == \A c \in AllCaches : caches[c] \in {Absent, files.pop}
CachesInv ==
    /\ pc \in {"prepare", "top", "plan", "native", "settle", "decide", "rejected"} \cup Capturing \cup Acting => Matching
    /\ pc = "judge" => (native.saved => Matching) /\ (Good => native.saved)

(* The verification keeps its fresh matrices, in the model and for a         *)
(* rollback.                                                                 *)
Zero(set) == "N_FIX_BA" \in DOMAIN set /\ set["N_FIX_BA"] = 0
FreshInv ==
    /\ base = "verify" /\ pending = None /\ ~Closing /\ ~Overwriting
         /\ pc # "acted" /\ ~CapturingFor("acted") =>
           /\ Zero(files.set) \/ pc \in Restoring \cup {"act3"}
           /\ pc = "assign" \/ Zero(dirs[recovery].set)
    /\ pending = None /\ decision.next = "verify"
         /\ (pc = "acted" \/ CapturingFor("acted")) => Zero(files.set)

(* A recipe that nothing prolonged can be paid for to its end. *)
LeftFrom(i) == Requested(pending.steps, i) <= Remaining
BudgetInv ==
    /\ pc = "prepare" => pending = None
    /\ status = "limit_reached" => Closing
    /\ then.status = "limit_reached" => RestoringFor("finally")
    /\ pc \in {"settle"} \cup Capturing /\ pending # None /\ waiting => strayed
    /\ pending # None /\ (status = "limit_reached" \/ then.status = "limit_reached") => strayed
    /\ pending # None /\ ~strayed =>
        /\ pc # "decide" /\ ~RestoringFor("decide")
        /\ pc \in Acting => LeftFrom(step) /\ MaxAttempts - attempt >= Len(pending.steps) - step + 1
        /\ pc \in {"top", "plan"} => LeftFrom(step) /\ MaxAttempts - attempt >= Len(pending.steps) - step
        /\ pc \in {"native", "judge", "settle"} \cup Capturing =>
               LeftFrom(step + 1) /\ MaxAttempts - attempt >= Len(pending.steps) - step

-----------------------------------------------------------------------------
(* The model's helpers.                                                      *)

LEMMA Others == \A n \in Names : Other(n) \in Names /\ Other(n) # n /\ Other(Other(n)) = n
<1>1. Other("A") = "B" /\ Other("B") = "A"
  BY DEF Other, Names
<1> QED  BY <1>1 DEF Names

(* AskedBy sums up the iterations of a recipe's steps; a recipe has at most  *)
(* three, so the sums can be written down.                                   *)
LEMMA AskedEquations ==
    ASSUME NEW steps, Recipe(steps)
    PROVE  \A n \in 0..Len(steps) :
               AskedBy(steps)[n] = IF n = 0 THEN 0 ELSE AskedBy(steps)[n - 1] + steps[n].iters
<1> DEFINE sums(n) == IF n = 0 THEN 0 ELSE IF n = 1 THEN steps[1].iters
                      ELSE IF n = 2 THEN steps[1].iters + steps[2].iters
                      ELSE steps[1].iters + steps[2].iters + steps[3].iters
           f == [n \in 0..Len(steps) |-> sums(n)]
           P(g) == g = [n \in 0..Len(steps) |-> IF n = 0 THEN 0 ELSE g[n - 1] + steps[n].iters]
<1>1. Len(steps) \in 0..3 /\ \A i \in 1..Len(steps) : steps[i].iters \in Nat
  BY DEF Recipe
<1>2. ASSUME NEW n \in 0..Len(steps)
      PROVE  f[n] = IF n = 0 THEN 0 ELSE f[n - 1] + steps[n].iters
  <2>1. n \in {0, 1, 2, 3}
    BY <1>1, <1>2
  <2>2. n # 0 => n - 1 \in 0..Len(steps) /\ n \in 1..Len(steps)
    BY <1>1, <1>2
  <2>3. f[n] = sums(n) /\ (n # 0 => f[n - 1] = sums(n - 1))
    BY <2>2
  <2>4. n # 0 => sums(n) = sums(n - 1) + steps[n].iters
    BY <1>1, <2>1, <2>2
  <2> HIDE DEF sums, f
  <2>5. n = 0 => f[n] = 0
    BY <2>3 DEF sums
  <2> QED  BY <2>3, <2>4, <2>5
<1>3. P(f)
  <2>1. f = [n \in 0..Len(steps) |-> f[n]]
    OBVIOUS
  <2> HIDE DEF f, sums
  <2> QED  BY <1>2, <2>1
<1>4. AskedBy(steps) = CHOOSE g : P(g)
  BY DEF AskedBy
<1> HIDE DEF f, sums
<1>5. P(AskedBy(steps))
  <2> HIDE DEF P
  <2> QED  BY <1>3, <1>4
<1> QED  BY <1>5

LEMMA RequestedSteps ==
    ASSUME NEW steps, Recipe(steps)
    PROVE  /\ \A i \in 1..Len(steps) + 1 : Requested(steps, i) \in Nat
           /\ \A i \in 1..Len(steps) : Requested(steps, i) = steps[i].iters + Requested(steps, i + 1)
<1> DEFINE sum(n) == AskedBy(steps)[n]
<1>1. Len(steps) \in 0..3 /\ \A i \in 1..Len(steps) : steps[i].iters \in Nat
  BY DEF Recipe
<1>2. sum(0) = 0 /\ \A n \in 1..Len(steps) : sum(n) = sum(n - 1) + steps[n].iters
  BY <1>1, AskedEquations
<1> HIDE DEF sum
<1>3. /\ sum(0) = 0
      /\ Len(steps) >= 1 => sum(1) = sum(0) + steps[1].iters /\ steps[1].iters \in Nat
      /\ Len(steps) >= 2 => sum(2) = sum(1) + steps[2].iters /\ steps[2].iters \in Nat
      /\ Len(steps) >= 3 => sum(3) = sum(2) + steps[3].iters /\ steps[3].iters \in Nat
  BY <1>1, <1>2
<1>4. \A i \in 1..Len(steps) + 1 : Requested(steps, i) = sum(Len(steps)) - sum(i - 1)
  BY DEF Requested, sum
<1>5. ASSUME NEW n \in 0..Len(steps) PROVE sum(n) \in Nat /\ sum(Len(steps)) - sum(n) \in Nat
  <2>1. CASE Len(steps) = 0
    <3>1. n = 0
      BY <2>1
    <3> QED  BY <1>3, <2>1, <3>1
  <2>2. CASE Len(steps) = 1
    <3>1. n = 0 \/ n = 1
      BY <2>2
    <3> QED  BY <1>3, <2>2, <3>1
  <2>3. CASE Len(steps) = 2
    <3>1. n = 0 \/ n = 1 \/ n = 2
      BY <2>3
    <3> QED  BY <1>3, <2>3, <3>1
  <2>4. CASE Len(steps) = 3
    <3>1. n = 0 \/ n = 1 \/ n = 2 \/ n = 3
      BY <2>4
    <3> QED  BY <1>3, <2>4, <3>1
  <2> QED  BY <1>1, <2>1, <2>2, <2>3, <2>4
<1>6. \A i \in 1..Len(steps) + 1 : Requested(steps, i) \in Nat
  BY <1>1, <1>4, <1>5
<1>7. ASSUME NEW i \in 1..Len(steps)
      PROVE  Requested(steps, i) = steps[i].iters + Requested(steps, i + 1)
  <2>1. Requested(steps, i) = sum(Len(steps)) - sum(i - 1) /\ Requested(steps, i + 1) = sum(Len(steps)) - sum(i)
    BY <1>1, <1>4
  <2>2. sum(i) = sum(i - 1) + steps[i].iters /\ steps[i].iters \in Nat
    BY <1>1, <1>2
  <2>3. sum(i) \in Nat /\ sum(i - 1) \in Nat /\ sum(Len(steps)) \in Nat
    BY <1>1, <1>5
  <2> QED  BY <2>1, <2>2, <2>3
<1> QED  BY <1>6, <1>7

(* What choose makes of an attempt of the model. *)
LEMMA ContextFacts ==
    ASSUME starting \in Models, Damping(files.set), NEW s \in Scenes(starting), NEW when, NEW spent, NEW history
    PROVE  LET c == Context(s, when, spent, history) IN
           /\ {"RELAX", "original", "checkpoint", "saved", "when", "phase"} \subseteq DOMAIN c
           /\ c.RELAX \in Int /\ c.original = starting.RELAX /\ c.original \in Int /\ c.RELAX <= c.original
           /\ c.checkpoint = s.checkpoint /\ c.checkpoint \in Int /\ c.when = when
           /\ ~native.saved => c.saved = c.checkpoint
<1>1. /\ {"RELAX", "N_FIX_BA"} \subseteq DOMAIN starting /\ starting.RELAX \in Int
      /\ DOMAIN s \cap DOMAIN starting = {} /\ "checkpoint" \in DOMAIN s /\ s.checkpoint \in Int
  BY ModelAssumption
<1>2. "RELAX" \in DOMAIN Controls /\ Controls.RELAX \in Int /\ Controls.RELAX <= starting.RELAX
  BY <1>1 DEF Controls, With, Damping
<1> DEFINE last == [when |-> when, phase |-> IF pending # None THEN PendingStep.name ELSE base,
     iters |-> MaxIterations - spent, attempts |-> MaxAttempts - attempt,
     applied |-> applied, rejected |-> rejected, history |-> history, original |-> starting.RELAX,
     restart |-> native.restart, planned |-> Planned, exit |-> IF Good THEN "zero" ELSE s.exit,
     saved |-> IF native.saved THEN s.saved ELSE s.checkpoint]
<1>3. /\ DOMAIN last = {"when", "phase", "iters", "attempts", "applied", "rejected", "history", "original",
                        "restart", "planned", "exit", "saved"}
      /\ last.when = when /\ last.original = starting.RELAX /\ (~native.saved => last.saved = s.checkpoint)
  OBVIOUS
<1>4. Context(s, when, spent, history) = With(With(Controls, s), last)
  BY DEF Context
<1> HIDE DEF last
<1> DEFINE middle == With(Controls, s)
<1>5. /\ "RELAX" \in DOMAIN middle /\ middle.RELAX = Controls.RELAX
      /\ "checkpoint" \in DOMAIN middle /\ middle.checkpoint = s.checkpoint
  BY <1>1, <1>2 DEF With
<1> HIDE DEF middle
<1>6. Context(s, when, spent, history) = With(middle, last)
  BY <1>4 DEF middle
<1> QED  BY <1>1, <1>2, <1>3, <1>5, <1>6 DEF With

LEMMA ChoiceSound ==
    ASSUME NEW c, NEW s, "RELAX" \in DOMAIN c,
           c.RELAX \in Int, c.original = starting.RELAX, c.original \in Int, c.RELAX <= c.original,
           c.checkpoint = s.checkpoint, c.checkpoint \in Int,
           ~native.saved => c.saved = c.checkpoint
    PROVE  LET d == choose(c) IN
           /\ Sound(d) /\ d.kind \in {"continue", "action", "stop", "converged", "invalid"}
           /\ d.kind = "converged" => c.when = "success"
           /\ c.when = "prepare" /\ d.kind # "invalid" => d.steps = << >>
           /\ d.retain => native.saved
<1> DEFINE d == choose(c)
<1>1. Decided(d, c)
  BY ChooseFits
<1> HIDE DEF d
<1>2. Sound(d)
  BY <1>1 DEF Decided, Parts, Sound, Damping
<1>3. d.retain => native.saved
  BY <1>1 DEF Decided, Parts
<1> QED  BY <1>1, <1>2, <1>3 DEF Decided, d

(* Two recipes that differ in what the validators remember. *)
Alike(e, d) == /\ DOMAIN e = DOMAIN d
               /\ e.kind = d.kind /\ e.steps = d.steps /\ e.next = d.next /\ e.batch = d.batch /\ e.set = d.set
               /\ e.caches = d.caches /\ e.policy = d.policy
               /\ e.reversible = d.reversible /\ e.retain = d.retain /\ e.mutates = d.mutates

LEMMA AlikeSound == ASSUME NEW d, NEW e, Sound(d), Alike(e, d) PROVE Sound(e)
BY DEF Sound, Alike

LEMMA Rebased ==
    ASSUME NEW d, Sound(d), NEW b
    PROVE  Alike([d EXCEPT !.base = b], d)
BY DEF Sound, Alike, Fields

LEMMA Constants ==
    /\ Sound(None) /\ None.kind = "none" /\ None.steps = << >> /\ ~None.retain
    /\ Sound(Stop) /\ Stop.kind = "stop" /\ Stop.steps = << >> /\ ~Stop.retain /\ Stop.next = "iterate"
    /\ Sound(Continue) /\ Continue.kind = "continue" /\ Continue.steps = << >> /\ ~Continue.retain
    /\ Continue.next = "iterate"
    /\ \A p : LET d == [Stop EXCEPT !.policy = p] IN
              Sound(d) /\ d.kind = "stop" /\ d.steps = << >> /\ ~d.retain /\ d.next = "iterate"
<1>1. Recipe(<< >>)
  BY DEF Recipe
<1> QED  BY <1>1 DEF Sound, None, Stop, Continue, Act, Fields, Damping

LEMMA SoundKept ==
    ASSUME starting' = starting
    PROVE  (Sound(decision') => Sound(decision)') /\ (Sound(pending') => Sound(pending)')
BY DEF Sound, Damping

LEMMA WholeKept ==
    ASSUME starting' = starting
    PROVE  /\ Whole(files', clock') => Whole(files, clock)'
           /\ Whole(working', clock') => Whole(working, clock)'
           /\ Whole(dirs'["A"], clock') => Whole(dirs["A"], clock)'
           /\ Whole(dirs'["B"], clock') => Whole(dirs["B"], clock)'
BY DEF Whole, Damping

LEMMA WholeGrows ==
    ASSUME NEW f, NEW n \in Nat, NEW m \in Nat, n <= m, Whole(f, n)
    PROVE  Whole(f, m)
BY DEF Whole, Stamps, Absent, Partial, Missing

(* What the larger actions do to the variables the invariants read. *)
Counted == /\ used' \in Nat /\ used' <= MaxIterations /\ (~strayed' => used' <= used)
           /\ strayed' \in BOOLEAN /\ (strayed => strayed')
Rest == UNCHANGED <<attempt, batch, base, step, native, trial, applied, rejected, starting,
                    files, caches, dirs, recorded, recovery, working, stopping, edit, struck, faults, clock>>
Carried == /\ pending = None => pending' = None
           /\ pending # None => pending' # None /\ Alike(pending', pending)

LEMMA ExtraFacts ==
    ASSUME Types, pc = "judge", NEW s \in Scenes(starting), Fits(s)
    PROVE  used + Extra(s) \in Nat /\ used + Extra(s) <= MaxIterations /\ (Extra(s) <= 0 => used + Extra(s) <= used)
<1>1. Len(s.batch.rows) \in Nat /\ native.charged \in Nat /\ native.charged <= used
      /\ used \in Nat /\ used <= MaxIterations /\ MaxIterations \in Nat
  BY ModelAssumption, BudgetAssumption DEF Types, LoopTypes, Closing, RestoringFor, Restoring
<1> QED  BY <1>1 DEF Extra, Fits

LEMMA CarriedPending ==
    ASSUME Types, NEW b, pending # None
    PROVE  [pending EXCEPT !.base = b] # None /\ Alike([pending EXCEPT !.base = b], pending)
<1>1. Alike([pending EXCEPT !.base = b], pending)
  BY Rebased DEF Types, DecisionTypes
<1> QED  BY <1>1, Constants DEF Types, DecisionTypes, Alike

LEMMA AcceptsEffect ==
    ASSUME Types, JudgeAccepts
    PROVE  /\ pc = "judge" /\ files.ctl = Adopted /\ expected' = Adopted /\ NotRecipeStop /\ Good
           /\ Rest /\ Carried /\ Counted /\ UNCHANGED <<status, review>>
           /\ waiting' \in BOOLEAN /\ trend' \in 0..Longest /\ waits' \in 0..Longest
           /\ Sound(decision') /\ decision'.kind # "none" /\ (waiting' => strayed' /\ pending # None)
           /\ \/ /\ pc' = "settle" /\ then' = then /\ accepted' = accepted
                 /\ pending # None /\ (step = Len(pending.steps) => waiting')
              \/ /\ pc' = "copy" /\ then' = Return("settle") /\ accepted' = accepted \cup {files.pop}
                 /\ pending # None => step = Len(pending.steps) /\ ~waiting'
<1>1. PICK s \in Scenes(starting) :
          /\ Confirmed(s) /\ Fits(s) /\ Reply(s).verdict \in {"verified", "pending"} /\ Judged(s, Reply(s))
  BY DEF JudgeAccepts
<1> DEFINE r == Reply(s)
           deferred == r.verdict = "pending"
           closing == pending # None /\ LastStep /\ ~deferred
           open == pending # None /\ ~closing
<1>2. pending = None => ~deferred
  BY DEF Reply
<1> HIDE DEF r
<1>3. Counted
  <2>1. used' = used + Extra(s) /\ strayed' = (strayed \/ deferred \/ Extra(s) > 0)
    BY <1>1 DEF Judged, r
  <2>2. Extra(s) \in Int
    BY ModelAssumption DEF Extra, Types, LoopTypes
  <2>3. pc = "judge" /\ strayed \in BOOLEAN
    BY DEF Types, DiskTypes, JudgeAccepts
  <2>4. strayed' \in BOOLEAN /\ (strayed => strayed') /\ (~strayed' => ~(Extra(s) > 0))
    BY <2>1, <2>3, Zenon
  <2>5. used' \in Nat /\ used' <= MaxIterations /\ (Extra(s) <= 0 => used' <= used)
    BY <1>1, <2>1, <2>3, ExtraFacts
  <2> QED  BY <2>2, <2>4, <2>5 DEF Counted
<1>4. Carried
  <2>1. pending' = IF pending = None THEN None ELSE [pending EXCEPT !.base = r.base]
    BY <1>1 DEF Judged, r
  <2> QED  BY <2>1, CarriedPending DEF Carried
<1>5. waiting' = deferred /\ strayed' = (strayed \/ deferred \/ Extra(s) > 0)
  BY <1>1 DEF Judged, r
<1>6. trend' \in 0..Longest /\ waits' \in 0..Longest
  <2>1. trend \in 0..Longest /\ waits \in 0..Longest
    BY DEF Types, LoopTypes
  <2>2. \A b, n : n \in 0..Longest => Longer(b, n) \in 0..Longest
    BY DEF Longer, Longest
  <2>3. waits' = IF deferred THEN Longer(s.batch, waits) ELSE 0
    BY <1>1 DEF Judged, r
  <2>4. trend' = IF deferred THEN trend ELSE IF Initializing THEN 0
                 ELSE Longer(s.batch, IF closing THEN 0 ELSE trend)
    BY <1>1 DEF Judged, r
  <2> QED  BY <2>1, <2>2, <2>3, <2>4 DEF Longest
<1>7. Sound(decision') /\ decision'.kind # "none"
  <2> DEFINE spent == used + Extra(s)
             before == IF closing THEN 0 ELSE trend
             base0 == Context(s, "success", spent, History(s, before))
             c == [base0 EXCEPT !.phase = IF closing THEN "iterate" ELSE @]
  <2>1. \/ decision' \in {Stop, Continue}
        \/ decision' = decision
        \/ decision' = choose(c)
    BY <1>1 DEF Judged, r
  <2>2. Sound(choose(c)) /\ choose(c).kind # "none"
    <3>1. starting \in Models /\ Damping(files.set)
      BY DEF Types, LoopTypes, DiskTypes, Whole
    <3>2. /\ {"RELAX", "original", "checkpoint", "saved", "when", "phase"} \subseteq DOMAIN base0
          /\ base0.RELAX \in Int /\ base0.original = starting.RELAX /\ base0.original \in Int
          /\ base0.RELAX <= base0.original
          /\ base0.checkpoint = s.checkpoint /\ base0.checkpoint \in Int
          /\ ~native.saved => base0.saved = base0.checkpoint
      BY <3>1, ContextFacts
    <3> HIDE DEF base0
    <3>3. /\ DOMAIN c = DOMAIN base0 /\ c.RELAX = base0.RELAX /\ c.original = base0.original
          /\ c.checkpoint = base0.checkpoint /\ c.saved = base0.saved
      BY <3>2
    <3> HIDE DEF c
    <3>4. /\ "RELAX" \in DOMAIN c /\ c.RELAX \in Int /\ c.original = starting.RELAX /\ c.original \in Int
          /\ c.RELAX <= c.original /\ c.checkpoint = s.checkpoint /\ c.checkpoint \in Int
          /\ ~native.saved => c.saved = c.checkpoint
      BY <3>2, <3>3
    <3> QED  BY <3>4, ChoiceSound
  <2> HIDE DEF c
  <2> QED  BY <2>1, <2>2, Constants DEF Types, DecisionTypes
<1>8. /\ pc = "judge" /\ files.ctl = Adopted /\ expected' = Adopted /\ NotRecipeStop /\ Good /\ Rest
  BY <1>1 DEF JudgeAccepts, Confirmed, Rest, disk, world
<1>9. IF open THEN Goto("settle") ELSE Call("copy", Return("settle"))
  BY <1>1 DEF Judged, r
<1>10. accepted' = IF pc' = "copy" THEN accepted \cup {files.pop} ELSE accepted
  BY DEF JudgeAccepts
<1> QED  BY <1>2, <1>3, <1>4, <1>5, <1>6, <1>7, <1>8, <1>9, <1>10 DEF Goto, Call, LastStep

LEMMA FailsEffect ==
    ASSUME Types, JudgeFails
    PROVE  /\ pc = "judge" /\ files.ctl = Adopted /\ expected' = Adopted /\ NotRecipeStop
           /\ Rest /\ Carried /\ Counted /\ UNCHANGED <<waiting, trend, waits, accepted>>
           /\ strayed' = (strayed \/ pending # None)
           /\ Sound(decision') /\ decision'.kind # "none"
           /\ \/ pc' = "finally" /\ status' = "needs_review" /\ review' = TRUE /\ then' = then
              \/ /\ pc' = "restore" /\ decision' = decision /\ UNCHANGED <<status, review>>
                 /\ \E st \in {"cancelled", "timeout", "needs_review"} : then' = Ending(st)
              \/ /\ pc' = "decide" /\ UNCHANGED <<then, status, review>>
                 /\ decision'.kind = "action" /\ decision'.retain /\ native.saved /\ pending = None
              \/ /\ pc' = "restore" /\ UNCHANGED <<status, review>>
                 /\ then' = Return("decide") \/ (then' = FromStep("decide") /\ pending # None)
                 /\ decision'.kind \in {"continue", "action", "stop"} /\ ~decision'.retain
                 /\ pending # None => decision'.steps = << >>
<1>1. PICK s \in Scenes(starting) :
          /\ Failed(s, Reply(s))
          /\ IF Interrupted
             THEN Call("restore", Ending(native.status)) /\ UNCHANGED decision
             ELSE IF stopping
             THEN Call("restore", Ending("needs_review")) /\ UNCHANGED decision
             ELSE /\ decision' = NotNested(choose(Context(s, "failure", used', << >>)))
                  /\ IF decision'.kind = "invalid" THEN Refuse
                     ELSE IF decision'.kind = "action" /\ decision'.retain THEN Goto("decide")
                     ELSE IF decision'.kind = "action" /\ pending # None
                     THEN Call("restore", FromStep("decide"))
                     ELSE Call("restore", Return("decide"))
  BY DEF JudgeFails
<1> DEFINE r == Reply(s)
<1>2. pending = None => r.verdict # "failed"
  BY DEF Reply
<1> HIDE DEF r
<1>3. /\ pc = "judge" /\ files.ctl = Adopted /\ expected' = Adopted /\ NotRecipeStop /\ Rest
      /\ UNCHANGED <<waiting, trend, waits, accepted>>
      /\ strayed' = (strayed \/ pending # None)
  BY DEF JudgeFails, Accepting, Rest, disk, world
<1>4. UNCHANGED <<used, pending>> \/ (/\ Fits(s) /\ used' = used + Extra(s) /\ pending # None
                                      /\ pending' = [pending EXCEPT !.base = r.base])
  BY <1>1, <1>2 DEF Failed, r
<1>5. Carried
  BY <1>4, CarriedPending, AlikeSound DEF Carried, Alike
<1>6. Counted
  <2>1. used \in Nat /\ used <= MaxIterations /\ strayed \in BOOLEAN
    BY <1>3 DEF Types, LoopTypes, DiskTypes, Closing, RestoringFor, Restoring
  <2>2. strayed' \in BOOLEAN /\ (strayed => strayed') /\ (~strayed' => pending = None)
    BY <1>3, <2>1, Zenon
  <2>3. used' \in Nat /\ used' <= MaxIterations /\ (pending = None => used' <= used)
    BY <1>3, <1>4, <2>1, ExtraFacts
  <2> QED  BY <2>2, <2>3 DEF Counted
<1>7. CASE Interrupted \/ stopping
  <2>1. pc' = "restore" /\ decision' = decision /\ UNCHANGED <<status, review>>
    BY <1>1, <1>7 DEF Call
  <2>2. \E st \in {"cancelled", "timeout", "needs_review"} : then' = Ending(st)
    BY <1>1, <1>7 DEF Call, Interrupted
  <2> QED  BY <1>3, <1>5, <1>6, <2>1, <2>2 DEF Types, DecisionTypes
<1>8. CASE ~Interrupted /\ ~stopping
  <2> DEFINE c == Context(s, "failure", used', << >>)
             d == choose(c)
  <2>1. /\ Sound(d) /\ d.kind \in {"continue", "action", "stop", "converged", "invalid"}
        /\ d.kind # "converged" /\ (d.retain => native.saved)
    <3>1. starting \in Models /\ Damping(files.set)
      BY DEF Types, LoopTypes, DiskTypes, Whole
    <3>2. /\ "RELAX" \in DOMAIN c /\ c.RELAX \in Int /\ c.original = starting.RELAX /\ c.original \in Int
          /\ c.RELAX <= c.original /\ c.checkpoint = s.checkpoint /\ c.checkpoint \in Int
          /\ c.when = "failure" /\ (~native.saved => c.saved = c.checkpoint)
      BY <3>1, ContextFacts
    <3> HIDE DEF c
    <3> QED  BY <3>2, ChoiceSound
  <2>2. decision' = NotNested(d)
    BY <1>1, <1>8
  <2> HIDE DEF d
  <2>3. /\ Sound(decision') /\ decision'.kind \in {"continue", "action", "stop", "invalid"}
        /\ decision'.retain => native.saved
        /\ pending # None /\ decision'.kind # "invalid" => decision'.steps = << >>
    BY <2>1, <2>2, Constants DEF NotNested
  <2>4. decision'.kind # "invalid" /\ decision'.retain => decision'.kind = "action" /\ decision'.steps # << >>
    BY <2>3 DEF Sound
  <2>5. IF decision'.kind = "invalid" THEN Refuse
        ELSE IF decision'.kind = "action" /\ decision'.retain THEN Goto("decide")
        ELSE IF decision'.kind = "action" /\ pending # None
        THEN Call("restore", FromStep("decide"))
        ELSE Call("restore", Return("decide"))
    BY <1>1, <1>8
  <2> QED  BY <1>3, <1>5, <1>6, <2>3, <2>4, <2>5 DEF Refuse, Finish, Goto, Call
<1> QED  BY <1>7, <1>8

(* Where the controller goes after a failure. *)
LEMMA FailsMoves ==
    ASSUME Types, JudgeFails
    PROVE  \/ pc' = "finally" /\ status' = "needs_review" /\ review' = TRUE /\ then' = then
           \/ /\ pc' = "restore" /\ decision' = decision /\ UNCHANGED <<status, review>>
              /\ then'.pc = "finally" /\ then'.source = "recovery"
              /\ then'.status \in {"cancelled", "timeout", "needs_review"}
           \/ /\ pc' = "decide" /\ UNCHANGED <<then, status, review>> /\ pending = None /\ pending' = None
              /\ decision'.kind = "action" /\ decision'.retain /\ native.saved
           \/ /\ pc' = "restore" /\ UNCHANGED <<status, review>>
              /\ then'.pc = "decide" /\ then'.status = "running"
              /\ then'.source = "recovery" \/ (then'.source = "working" /\ pending # None)
              /\ decision'.kind \in {"continue", "action", "stop"} /\ ~decision'.retain
              /\ pending' # None => decision'.steps = << >>
<1>1. /\ \/ pc' = "finally" /\ status' = "needs_review" /\ review' = TRUE /\ then' = then
         \/ /\ pc' = "restore" /\ decision' = decision /\ UNCHANGED <<status, review>>
            /\ \E st \in {"cancelled", "timeout", "needs_review"} : then' = Ending(st)
         \/ /\ pc' = "decide" /\ UNCHANGED <<then, status, review>>
            /\ decision'.kind = "action" /\ decision'.retain /\ native.saved /\ pending = None
         \/ /\ pc' = "restore" /\ UNCHANGED <<status, review>>
            /\ then' = Return("decide") \/ (then' = FromStep("decide") /\ pending # None)
            /\ decision'.kind \in {"continue", "action", "stop"} /\ ~decision'.retain
            /\ pending # None => decision'.steps = << >>
      /\ pending = None => pending' = None
  BY FailsEffect DEF Carried
<1>2. ASSUME NEW st \in {"cancelled", "timeout", "needs_review"}, then' = Ending(st)
      PROVE  then'.pc = "finally" /\ then'.source = "recovery" /\ then'.status = st
  BY <1>2 DEF Ending, Return
<1>3. then' = Return("decide") =>
        then'.pc = "decide" /\ then'.status = "running" /\ then'.source = "recovery"
  BY DEF Return
<1>4. then' = FromStep("decide") =>
        then'.pc = "decide" /\ then'.status = "running" /\ then'.source = "working"
  BY DEF FromStep, Return
<1>5. CASE pc' = "finally" /\ status' = "needs_review" /\ review' = TRUE /\ then' = then
  BY <1>5
<1>6. CASE /\ pc' = "restore" /\ decision' = decision /\ UNCHANGED <<status, review>>
           /\ \E st \in {"cancelled", "timeout", "needs_review"} : then' = Ending(st)
  BY <1>2, <1>6
<1>7. CASE /\ pc' = "decide" /\ UNCHANGED <<then, status, review>>
           /\ decision'.kind = "action" /\ decision'.retain /\ native.saved /\ pending = None
  BY <1>1, <1>7
<1>8. CASE /\ pc' = "restore" /\ UNCHANGED <<status, review>>
           /\ then' = Return("decide") \/ (then' = FromStep("decide") /\ pending # None)
           /\ decision'.kind \in {"continue", "action", "stop"} /\ ~decision'.retain
           /\ pending # None => decision'.steps = << >>
  BY <1>1, <1>3, <1>4, <1>8
<1> QED  BY <1>1, <1>5, <1>6, <1>7, <1>8

LEMMA PrepareEffect ==
    ASSUME Types, Prepare
    PROVE  /\ pc = "prepare"
           /\ UNCHANGED <<used, batch, base, pending, step, native, waiting, trend, waits, trial, applied,
                          rejected, starting, disk, memory, world, ghosts>>
           /\ Sound(decision') /\ decision'.kind # "none" /\ UNCHANGED then
           /\ \/ pc' = "finally" /\ status' = "needs_review" /\ review' = TRUE /\ attempt' = attempt
              \/ /\ Unchanged /\ pc' = "act" /\ UNCHANGED <<status, review, attempt>>
                 /\ decision'.kind = "action" /\ decision'.steps = << >>
              \/ /\ Unchanged /\ pc' = "top" /\ UNCHANGED <<status, review>> /\ attempt' = 1
<1>1. CASE ~Unchanged
  BY <1>1 DEF Prepare, Refuse, Finish, Types, DecisionTypes
<1>2. CASE Unchanged
  <2>1. PICK s \in Scenes(starting) : decision' = choose(Context(s, "prepare", used, << >>))
    BY <1>2 DEF Prepare
  <2> DEFINE c == Context(s, "prepare", used, << >>)
             d == choose(c)
  <2>2. Sound(d) /\ d.kind # "none" /\ (d.kind # "invalid" => d.steps = << >>)
    <3>1. starting \in Models /\ Damping(files.set)
      BY DEF Types, LoopTypes, DiskTypes, Whole
    <3>2. /\ "RELAX" \in DOMAIN c /\ c.RELAX \in Int /\ c.original = starting.RELAX /\ c.original \in Int
          /\ c.RELAX <= c.original /\ c.checkpoint = s.checkpoint /\ c.checkpoint \in Int
          /\ c.when = "prepare" /\ (~native.saved => c.saved = c.checkpoint)
      BY <3>1, ContextFacts
    <3> HIDE DEF c
    <3> QED  BY <3>2, ChoiceSound
  <2> HIDE DEF d
  <2>3. decision' = d
    BY <2>1 DEF d
  <2> QED  BY <1>2, <2>2, <2>3 DEF Prepare, Goto, Refuse, Finish
<1> QED  BY <1>1, <1>2

(* What the solver leaves behind. *)
SolverLeaves(result, saved, change, own) ==
    /\ native' = [native EXCEPT !.status = result, !.ctl = own, !.saved = saved]
    /\ own # 0 => change = "native"
    /\ Edited /\ ~raced => own = 0
    /\ files' = [pop |-> IF saved THEN clock + 1 ELSE files.pop,
                 ctl |-> IF change = "none" THEN files.ctl ELSE clock + 2,
                 set |-> IF change = "native" THEN Performed(files.set) ELSE files.set]
    /\ clock' = IF change = "none" THEN clock + 1 ELSE clock + 2
    /\ result \in {"succeeded", "stopped"} => saved
    /\ edit' = IF Edited THEN files'.ctl ELSE edit

LEMMA NativeEffect ==
    ASSUME NativeEnds
    PROVE  /\ pc = "native" /\ pc' = "judge" /\ UNCHANGED <<then, status, review>>
           /\ UNCHANGED <<attempt, used, batch, base, pending, step, decision, waiting, trend, waits, trial,
                   applied, rejected, starting, dirs, recorded, memory, stopping, faults, accepted, strayed>>
           /\ struck' = struck \/ struck' = "native"
           /\ caches' = [c \in AllCaches |-> clock + 1]
           /\ \E result \in {"succeeded", "stopped", "failed", "timeout", "cancelled"}, saved \in BOOLEAN,
                 change \in {"none", "native", "unexplained"}, own \in {0, clock + 2} :
                SolverLeaves(result, saved, change, own)
<1>1. /\ pc = "native" /\ pc' = "judge" /\ UNCHANGED <<then, status, review>>
      /\ UNCHANGED <<attempt, used, batch, base, pending, step, decision, waiting, trend, waits, trial,
                   applied, rejected, starting, dirs, recorded, memory, stopping, faults, accepted, strayed>>
  BY DEF NativeEnds, Goto
<1>8. PICK result \in {"succeeded", "stopped", "failed", "timeout", "cancelled"},
          saved \in BOOLEAN, change \in {"none", "native", "unexplained"} : \E adopts \in Adopts(change) :
          LET good == result \in {"succeeded", "stopped"}
              init == pending # None /\ PendingStep.init
              pop == IF saved THEN clock + 1 ELSE files.pop
              ctl == IF change = "none" THEN files.ctl ELSE clock + 2
          IN  /\ result = "stopped" => stopping /\ ~init
              /\ result = "cancelled" => struck = "nowhere"
              /\ good => saved /\ change # "unexplained"
              /\ files' = [pop |-> pop, ctl |-> ctl,
                           set |-> IF change = "native" THEN Performed(files.set) ELSE files.set]
              /\ caches' = [c \in AllCaches |-> clock + 1]
              /\ clock' = IF change = "none" THEN clock + 1 ELSE clock + 2
              /\ native' = [native EXCEPT !.status = IF good /\ stopping /\ ~init
                                                     THEN "stopped" ELSE result,
                                          !.ctl = IF adopts THEN ctl ELSE 0,
                                          !.saved = saved]
              /\ struck' = IF result = "cancelled" THEN "native" ELSE struck
              /\ edit' = IF Edited THEN ctl ELSE edit
  BY Zenon DEF NativeEnds
<1>3. PICK adopts \in Adopts(change) :
          LET good == result \in {"succeeded", "stopped"}
              init == pending # None /\ PendingStep.init
              pop == IF saved THEN clock + 1 ELSE files.pop
              ctl == IF change = "none" THEN files.ctl ELSE clock + 2
          IN  /\ result = "stopped" => stopping /\ ~init
              /\ result = "cancelled" => struck = "nowhere"
              /\ good => saved /\ change # "unexplained"
              /\ files' = [pop |-> pop, ctl |-> ctl,
                           set |-> IF change = "native" THEN Performed(files.set) ELSE files.set]
              /\ caches' = [c \in AllCaches |-> clock + 1]
              /\ clock' = IF change = "none" THEN clock + 1 ELSE clock + 2
              /\ native' = [native EXCEPT !.status = IF good /\ stopping /\ ~init
                                                     THEN "stopped" ELSE result,
                                          !.ctl = IF adopts THEN ctl ELSE 0,
                                          !.saved = saved]
              /\ struck' = IF result = "cancelled" THEN "native" ELSE struck
              /\ edit' = IF Edited THEN ctl ELSE edit
  BY <1>8
<1>2. caches' = [c \in AllCaches |-> clock + 1] /\ (struck' = struck \/ struck' = "native")
  BY <1>3
<1> DEFINE own == IF adopts THEN IF change = "none" THEN files.ctl ELSE clock + 2 ELSE 0
<1>6. own \in {0, clock + 2} /\ (own # 0 => change = "native") /\ (Edited /\ ~raced => own = 0)
  BY <1>3 DEF Adopts, Edited
<1>7. edit' = IF Edited THEN files'.ctl ELSE edit
  BY <1>3
<1>4. PICK shown \in {"succeeded", "stopped", "failed", "timeout", "cancelled"} :
         /\ native' = [native EXCEPT !.status = shown, !.ctl = own, !.saved = saved]
         /\ shown \in {"succeeded", "stopped"} => saved
  <2>1. CASE result \in {"succeeded", "stopped"} /\ stopping /\ ~(pending # None /\ PendingStep.init)
    <3>1. native' = [native EXCEPT !.status = "stopped", !.ctl = own, !.saved = saved] /\ saved
      BY <1>3, <2>1
    <3> HIDE DEF own
    <3> QED  BY <3>1
  <2>2. CASE ~(result \in {"succeeded", "stopped"} /\ stopping /\ ~(pending # None /\ PendingStep.init))
    <3>1. native' = [native EXCEPT !.status = result, !.ctl = own, !.saved = saved]
          /\ (result \in {"succeeded", "stopped"} => saved)
      BY <1>3, <2>2
    <3> HIDE DEF own
    <3> QED  BY <3>1
  <2> QED  BY <2>1, <2>2
<1>5. /\ files' = [pop |-> IF saved THEN clock + 1 ELSE files.pop,
                  ctl |-> IF change = "none" THEN files.ctl ELSE clock + 2,
                  set |-> IF change = "native" THEN Performed(files.set) ELSE files.set]
      /\ clock' = IF change = "none" THEN clock + 1 ELSE clock + 2
  BY <1>3
<1> HIDE DEF own
<1> QED  BY <1>1, <1>2, <1>4, <1>5, <1>6, <1>7 DEF SolverLeaves

(* The controller stays where it can be. *)
LEMMA ControlStep ==
    ASSUME Types, [Next]_vars
    PROVE  ControlTypes'
<1> USE DEF Types, ControlTypes, Locations, Statuses, Restoring, Capturing, control, loop, disk,
            memory, world, ghosts, vars, Finish, Goto, Call, Refuse, Return, Ending, FromStep,
            Nowhere
<1>1. CASE Prepare
  BY <1>1, Constants, PrepareEffect
<1>2. CASE BeginAttempt
  BY <1>2, Constants DEF BeginAttempt
<1>3. CASE NativeEnds
  BY <1>3, Constants DEF NativeEnds
<1>4. CASE JudgeRefuses
  BY <1>4, Constants DEF JudgeRefuses
<1>5. CASE JudgeRecipeStop
  BY <1>5, Constants DEF JudgeRecipeStop
<1>6. CASE JudgeOverrun
  BY <1>6, Constants DEF JudgeOverrun
<1>7. CASE JudgeAccepts
  BY <1>7, Constants, AcceptsEffect DEF Rest
<1>8. CASE JudgeRejects
  BY <1>8, Constants DEF JudgeRejects
<1>9. CASE JudgeFails
  <2>1. /\ pc = "judge" /\ (pending # None => pending' # None)
        /\ \/ pc' = "finally" /\ status' = "needs_review" /\ review' = TRUE /\ then' = then
           \/ /\ pc' = "restore" /\ UNCHANGED <<status, review>>
              /\ \E st \in {"cancelled", "timeout", "needs_review"} : then' = Ending(st)
           \/ pc' = "decide" /\ UNCHANGED <<then, status, review>>
           \/ /\ pc' = "restore" /\ UNCHANGED <<status, review>>
              /\ then' = Return("decide") \/ (then' = FromStep("decide") /\ pending # None)
    BY <1>9, FailsEffect DEF Carried
  <2> HIDE DEF LoopTypes, DecisionTypes, DiskTypes
  <2>2. CASE \E st \in {"cancelled", "timeout", "needs_review"} : then' = Ending(st) /\ pc' = "restore"
    <3>1. then'.pc = "finally" /\ then'.source = "recovery" /\ then'.status \in Statuses
          /\ DOMAIN then' = {"pc", "status", "source"}
      BY <2>2
    <3>2. then' \in [pc : {"finally"}, status : Statuses, source : {"recovery"}]
      BY <2>2
    <3>3. pc' = "restore" /\ UNCHANGED <<status, review>>
      BY <2>1, <2>2
    <3> QED  BY <3>1, <3>2, <3>3
  <2>3. CASE pc' = "finally" /\ status' = "needs_review" /\ review' = TRUE /\ then' = then
    BY <2>3
  <2>4. CASE pc' = "decide" /\ UNCHANGED <<then, status, review>>
    BY <2>4
  <2>5. CASE pc' = "restore" /\ UNCHANGED <<status, review>> /\ then' = Return("decide")
    BY <2>5
  <2>6. CASE pc' = "restore" /\ UNCHANGED <<status, review>> /\ then' = FromStep("decide") /\ pending # None
    BY <2>1, <2>6
  <2> QED  BY <2>1, <2>2, <2>3, <2>4, <2>5, <2>6
<1>10. CASE TrialRejected
  BY <1>10, Constants DEF TrialRejected
<1>11. CASE CaptureCopy
  BY <1>11, Constants DEF CaptureCopy
<1>12. CASE CaptureName
  BY <1>12, Constants DEF CaptureName
<1>13. CASE CaptureDrop
  BY <1>13, Constants DEF CaptureDrop
<1>14. CASE CaptureAssign
  BY <1>14, Constants DEF CaptureAssign
<1>15. CASE RestoreCheckpoint
  BY <1>15, Constants DEF RestoreCheckpoint
<1>16. CASE RestoreControls
  BY <1>16, Constants DEF RestoreControls
<1>17. CASE Settle
  BY <1>17, Constants DEF Settle
<1>18. CASE Decide
  <2>1. /\ pc = "decide"
        /\ \/ pc' \in {"top", "finally", "release", "act"} /\ then' = then
           \/ pc' = "restore" /\ then' = Ending("limit_reached")
    BY <1>18 DEF Decide, DecisionTypes, Sound
  <2>2. status' \in Statuses /\ review' \in BOOLEAN
    BY <1>18 DEF Decide, DecisionTypes, Sound
  <2> QED  BY <2>1, <2>2
<1>19. CASE ReleaseWrite
  BY <1>19, Constants DEF ReleaseWrite
<1>20. CASE ReleaseCopy
  BY <1>20, Constants DEF ReleaseCopy
<1>21. CASE ReleaseDone
  BY <1>21, Constants DEF ReleaseDone
<1>22. CASE ActRecord
  BY <1>22, Constants DEF ActRecord
<1>23. CASE ActFiles
  BY <1>23, Constants DEF ActFiles
<1>24. CASE ActControls
  BY <1>24, Constants DEF ActControls
<1>25. CASE Acted
  BY <1>25, Constants DEF Acted
<1>26. CASE Cancelled
  BY <1>26, Constants DEF Cancelled
<1>27. CASE Finally
  <2>1. /\ pc = "finally"
        /\ \/ pc' = "done" /\ then' = then
           \/ pc' = "restore" /\ then' = Return("rolled")
    BY <1>27 DEF Finally
  <2>2. status' \in Statuses /\ review' \in BOOLEAN
    BY <1>27 DEF Finally
  <2> QED  BY <2>1, <2>2
<1>28. CASE RolledBack
  BY <1>28, Constants DEF RolledBack
<1>29. CASE Interrupt
  BY <1>29, Constants DEF Interrupt
<1>30. CASE Fault
  BY <1>30, Constants DEF Fault
<1>31. CASE RequestStop
  BY <1>31 DEF RequestStop
<1>32. CASE Edit
  BY <1>32, Constants DEF Edit
<1>33. CASE Done
  BY <1>33 DEF Done
<1>34. CASE UNCHANGED vars
  BY <1>34
<1>35. CASE PlanAttempt
  BY <1>35, Constants DEF PlanAttempt
<1>36. CASE JudgeSigns
  BY <1>36, Constants DEF JudgeSigns
<1> QED  BY <1>1, <1>2, <1>3, <1>4, <1>5, <1>6, <1>7, <1>8, <1>9, <1>10, <1>11, <1>12, <1>13, <1>14,
            <1>15, <1>16, <1>17, <1>18, <1>19, <1>20, <1>21, <1>22, <1>23, <1>24, <1>25, <1>26,
            <1>27, <1>28, <1>29, <1>30, <1>31, <1>32, <1>33, <1>34, <1>35, <1>36 DEF Next, Controller

(* Attempts and iterations are counted within the budgets. *)
LEMMA LoopStep ==
    ASSUME Types, [Next]_vars
    PROVE  LoopTypes'
<1> USE DEF Types, LoopTypes, Closing, RestoringFor, Restoring, Results, Startups, control, loop,
            disk, memory, world, ghosts, vars, Finish, Goto, Call, Refuse, Return, Ending, FromStep,
            Nowhere, Forgotten, NoAttempt, Longest, LastStep
<1>1. CASE Prepare
  <2>1. /\ pc = "prepare" /\ UNCHANGED <<starting, used, batch, base, native, waiting, trend, waits, trial, then>>
        /\ \/ pc' = "finally" /\ attempt' = attempt
           \/ pc' = "act" /\ attempt' = attempt
           \/ pc' = "top" /\ attempt' = 1
    BY <1>1, PrepareEffect
  <2> QED  BY <2>1, BudgetAssumption
<1>2. CASE BeginAttempt
  BY <1>2, BudgetAssumption DEF BeginAttempt
<1>3. CASE NativeEnds
  <2>1. /\ pc = "native" /\ pc' = "judge" /\ then' = then
        /\ UNCHANGED <<attempt, used, batch, base, waiting, trend, waits, trial, starting>>
    BY <1>3, NativeEffect
  <2>0. PICK result \in {"succeeded", "stopped", "failed", "timeout", "cancelled"}, saved \in BOOLEAN,
             change \in {"none", "native", "unexplained"}, own \in {0, clock + 2} :
            SolverLeaves(result, saved, change, own)
    BY <1>3, NativeEffect, Zenon
  <2>2. native' = [native EXCEPT !.status = result, !.ctl = own, !.saved = saved]
    BY <2>0 DEF SolverLeaves
  <2>3. clock \in Nat
    BY DEF DiskTypes
  <2>4. /\ native' \in [status : Results, restart : Startups, ctl : Nat, charged : Nat, saved : BOOLEAN]
        /\ native'.charged = native.charged
    <3>1. result \in Results /\ own \in Nat
      BY <2>3
    <3> HIDE DEF LoopTypes, DiskTypes, Results, Startups
    <3>2. native \in [status : Results, restart : Startups, ctl : Nat, charged : Nat, saved : BOOLEAN]
      BY DEF LoopTypes
    <3>3. ASSUME NEW c \in Nat
          PROVE  LET r == [native EXCEPT !.status = result, !.ctl = c, !.saved = saved] IN
                 /\ r \in [status : Results, restart : Startups, ctl : Nat, charged : Nat, saved : BOOLEAN]
                 /\ r.charged = native.charged
      BY <3>1, <3>2
    <3> QED  BY <2>2, <3>1, <3>3
  <2> QED  BY <2>1, <2>4
<1>4. CASE JudgeRefuses
  BY <1>4, BudgetAssumption DEF JudgeRefuses
<1>5. CASE JudgeRecipeStop
  BY <1>5, BudgetAssumption DEF JudgeRecipeStop
<1>6. CASE JudgeOverrun
  <2>1. PICK s \in Scenes(starting) : used' = used + Extra(s) /\ ~Fits(s)
    BY <1>6 DEF JudgeOverrun
  <2>2. /\ pc = "judge" /\ pc' = "restore" /\ then' = Ending("limit_reached")
        /\ UNCHANGED <<attempt, batch, base, native, waiting, trend, waits, trial, starting>>
    BY <1>6 DEF JudgeOverrun, Accepting
  <2>3. used' \in Nat
    <3>1. Extra(s) > 0 /\ Extra(s) \in Int
      BY <2>1, <2>2, ModelAssumption DEF Fits, Extra
    <3> QED  BY <2>1, <3>1
  <2>4. Closing' /\ pc' \notin {"native", "judge"}
    BY <2>2
  <2> HIDE DEF Closing
  <2> QED  BY <2>2, <2>3, <2>4
<1>7. CASE JudgeAccepts
  BY <1>7, BudgetAssumption, AcceptsEffect DEF Rest, Counted
<1>8. CASE JudgeRejects
  <2>1. PICK s \in Scenes(starting) : used' = used + Extra(s) /\ Fits(s)
    BY <1>8 DEF JudgeRejects
  <2>2. /\ pc = "judge" /\ pc' = "restore" /\ then' = Return("rejected")
        /\ UNCHANGED <<attempt, batch, base, native, waiting, trend, waits, trial, starting>>
    BY <1>8 DEF JudgeRejects, Accepting
  <2>3. used' \in Nat /\ used' <= MaxIterations
    BY <2>1, <2>2, ExtraFacts
  <2> QED  BY <2>2, <2>3
<1>9. CASE JudgeFails
  BY <1>9, BudgetAssumption, FailsEffect DEF Rest, Counted
<1>10. CASE TrialRejected
  BY <1>10, BudgetAssumption DEF TrialRejected
<1>11. CASE CaptureCopy
  BY <1>11, BudgetAssumption DEF CaptureCopy
<1>12. CASE CaptureName
  BY <1>12, BudgetAssumption DEF CaptureName
<1>13. CASE CaptureDrop
  BY <1>13, BudgetAssumption DEF CaptureDrop
<1>14. CASE CaptureAssign
  BY <1>14, BudgetAssumption DEF CaptureAssign, ControlTypes, Capturing
<1>15. CASE RestoreCheckpoint
  BY <1>15, BudgetAssumption DEF RestoreCheckpoint
<1>16. CASE RestoreControls
  BY <1>16, BudgetAssumption DEF RestoreControls, ControlTypes
<1>17. CASE Settle
  BY <1>17, BudgetAssumption DEF Settle
<1>18. CASE Decide
  <2>1. /\ pc = "decide" /\ pc' \notin {"native", "judge"} /\ native' = NoAttempt
        /\ UNCHANGED <<used, batch, base, waiting, trend, waits, trial, starting>>
        /\ \/ pc' = "top" /\ attempt' = attempt + 1
           \/ pc' \in {"finally", "release", "act", "restore"} /\ attempt' = attempt
    BY <1>18 DEF Decide, DecisionTypes, Sound
  <2> QED  BY <2>1, BudgetAssumption
<1>19. CASE ReleaseWrite
  BY <1>19, BudgetAssumption DEF ReleaseWrite
<1>20. CASE ReleaseCopy
  BY <1>20, BudgetAssumption DEF ReleaseCopy
<1>21. CASE ReleaseDone
  BY <1>21, BudgetAssumption DEF ReleaseDone
<1>22. CASE ActRecord
  BY <1>22, BudgetAssumption DEF ActRecord
<1>23. CASE ActFiles
  BY <1>23, BudgetAssumption DEF ActFiles
<1>24. CASE ActControls
  BY <1>24, BudgetAssumption DEF ActControls
<1>25. CASE Acted
  BY <1>25, BudgetAssumption DEF Acted, DecisionTypes, Sound
<1>26. CASE Cancelled
  BY <1>26, BudgetAssumption DEF Cancelled
<1>27. CASE Finally
  <2>1. /\ Closing' /\ pc' \notin {"native", "judge"} /\ UNCHANGED <<attempt, used, base, trial, starting>>
        /\ batch' = BatchIterations /\ native' = NoAttempt /\ waiting' = FALSE /\ trend' = 0 /\ waits' = 0
    BY <1>27 DEF Finally
  <2>2. batch' \in Nat
    BY <2>1, BudgetAssumption
  <2>3. native' \in [status : Results, restart : Startups, ctl : Nat, charged : Nat, saved : BOOLEAN]
    BY <2>1
  <2>4. trend' \in 0..Longest /\ waits' \in 0..Longest
    BY <2>1
  <2> HIDE DEF NoAttempt
  <2> QED  BY <2>1, <2>2, <2>3, <2>4
<1>28. CASE RolledBack
  BY <1>28, BudgetAssumption DEF RolledBack
<1>29. CASE Interrupt
  <2>1. /\ Closing' /\ pc' \notin {"native", "judge"} /\ UNCHANGED <<attempt, used, base, trial, starting>>
        /\ batch' = BatchIterations /\ native' = NoAttempt /\ waiting' = FALSE /\ trend' = 0 /\ waits' = 0
    BY <1>29 DEF Interrupt
  <2>2. batch' \in Nat
    BY <2>1, BudgetAssumption
  <2>3. native' \in [status : Results, restart : Startups, ctl : Nat, charged : Nat, saved : BOOLEAN]
    BY <2>1
  <2>4. trend' \in 0..Longest /\ waits' \in 0..Longest
    BY <2>1
  <2> HIDE DEF NoAttempt
  <2> QED  BY <2>1, <2>2, <2>3, <2>4
<1>30. CASE Fault
  <2>1. /\ pc' \in {"done", "finally"} /\ UNCHANGED <<attempt, used, base, trial, starting>>
        /\ batch' = BatchIterations /\ native' = NoAttempt /\ waiting' = FALSE /\ trend' = 0 /\ waits' = 0
    BY <1>30 DEF Fault
  <2>2. batch' \in Nat
    BY <2>1, BudgetAssumption
  <2>3. native' \in [status : Results, restart : Startups, ctl : Nat, charged : Nat, saved : BOOLEAN]
    BY <2>1
  <2>4. trend' \in 0..Longest /\ waits' \in 0..Longest
    BY <2>1
  <2> HIDE DEF NoAttempt
  <2> QED  BY <2>1, <2>2, <2>3, <2>4
<1>31. CASE RequestStop
  BY <1>31 DEF RequestStop
<1>32. CASE Edit
  BY <1>32, BudgetAssumption DEF Edit
<1>33. CASE Done
  BY <1>33 DEF Done
<1>34. CASE UNCHANGED vars
  BY <1>34
<1>35. CASE PlanAttempt
  <2>1. /\ pc = "plan" /\ then' = then /\ pc' \in {"finally", "native"}
        /\ pc' = "finally" => used' = used
        /\ pc' = "native" => /\ attempt <= MaxAttempts /\ used' = used + Granted
        /\ UNCHANGED <<attempt, batch, base, pending, step, waiting, trend, waits, trial, starting>>
    BY <1>35 DEF PlanAttempt
  <2>2. native' = [NoAttempt EXCEPT !.charged = used' - used,
                          !.restart = IF starting.fresh /\ files.pop = 0 THEN "fresh" ELSE "continuation"]
    BY <1>35 DEF PlanAttempt
  <2>3. Minimum \in Nat /\ Asked \in Nat
    <3>1. CASE pending = None
      BY <3>1 DEF Minimum, Asked
    <3>2. CASE pending # None
      <4>1. Recipe(pending.steps) /\ step \in 1..Len(pending.steps)
        BY <3>2 DEF DecisionTypes, Sound
      <4>2. Len(pending.steps) \in 0..3 /\ step \in 1..Len(pending.steps) + 1
        BY <4>1 DEF Recipe
      <4>3. Requested(pending.steps, step) \in Nat /\ PendingStep.iters \in Nat
        BY <4>1, <4>2, RequestedSteps DEF Recipe, PendingStep
      <4> QED  BY <3>2, <4>3 DEF Minimum, Asked
    <3> QED  BY <3>1, <3>2
  <2>4. pc' = "native" => used' - used \in Nat /\ used' \in Nat /\ used' <= MaxIterations
    <3>1. used \in Nat /\ used <= MaxIterations /\ MaxIterations \in Nat
      BY <2>1, BudgetAssumption
    <3> QED  BY <2>1, <2>3, <3>1 DEF Granted, Remaining
  <2>5. used' - used \in Nat /\ used' \in Nat
    BY <2>1, <2>4
  <2>6. /\ native' \in [status : Results, restart : Startups, ctl : Nat, charged : Nat, saved : BOOLEAN]
        /\ native'.status = "none" /\ native'.charged = used' - used
    BY <2>2, <2>5
  <2> HIDE DEF NoAttempt
  <2>7. ~Closing' /\ pc' # "top" => attempt' <= MaxAttempts
    BY <2>1
  <2>8. ~Closing' => used' <= MaxIterations
    BY <2>1, <2>4
  <2>9. native'.charged <= used'
    <3>1. used \in Nat /\ native'.charged = used' - used /\ used' \in Nat
      BY <2>5, <2>6
    <3>2. \A a, b \in Nat : b - a <= b
      OBVIOUS
    <3> QED  BY <3>1, <3>2, Zenon
  <2> HIDE DEF Closing
  <2>10. UNCHANGED <<attempt, batch, base, waiting, trend, waits, trial, starting>>
    BY <2>1
  <2> QED  BY <2>5, <2>6, <2>7, <2>8, <2>9, <2>10
<1>36. CASE JudgeSigns
  <2>1. /\ pc = "judge" /\ files.ctl = edit /\ native' = [native EXCEPT !.ctl = files.ctl]
        /\ UNCHANGED <<pc, then, attempt, used, batch, base, waiting, trend, waits, trial, starting>>
    BY <1>36 DEF JudgeSigns
  <2>2. edit \in Nat
    BY DEF DiskTypes
  <2>3. native' \in [status : Results, restart : Startups, ctl : Nat, charged : Nat, saved : BOOLEAN]
        /\ native'.charged = native.charged
    BY <2>1, <2>2
  <2> QED  BY <2>1, <2>3
<1> QED  BY <1>1, <1>2, <1>3, <1>4, <1>5, <1>6, <1>7, <1>8, <1>9, <1>10, <1>11, <1>12, <1>13, <1>14,
            <1>15, <1>16, <1>17, <1>18, <1>19, <1>20, <1>21, <1>22, <1>23, <1>24, <1>25, <1>26,
            <1>27, <1>28, <1>29, <1>30, <1>31, <1>32, <1>33, <1>34, <1>35, <1>36 DEF Next, Controller

(* Decisions and recipes are as choose makes them. *)
LEMMA DecisionStep ==
    ASSUME Types, [Next]_vars
    PROVE  DecisionTypes'
<1> USE DEF Types, DecisionTypes, control, loop, disk, memory, world, ghosts, vars, Finish, Goto,
            Call, Refuse, Return, Ending, FromStep, Nowhere, LastStep, Steps
<1>1. CASE Prepare
  BY <1>1, Constants, SoundKept, PrepareEffect
<1>2. CASE BeginAttempt
  BY <1>2, Constants, SoundKept DEF BeginAttempt
<1>3. CASE NativeEnds
  BY <1>3, Constants, SoundKept DEF NativeEnds
<1>4. CASE JudgeRefuses
  BY <1>4, Constants, SoundKept DEF JudgeRefuses
<1>5. CASE JudgeRecipeStop
  BY <1>5, Constants, SoundKept DEF JudgeRecipeStop
<1>6. CASE JudgeOverrun
  BY <1>6, SoundKept DEF JudgeOverrun, Accepting
<1>7. CASE JudgeAccepts
  BY <1>7, Constants, SoundKept, AcceptsEffect, AlikeSound DEF Rest, Carried, Alike
<1>8. CASE JudgeRejects
  BY <1>8, SoundKept DEF JudgeRejects, Accepting
<1>9. CASE JudgeFails
  BY <1>9, Constants, SoundKept, FailsEffect, AlikeSound DEF Rest, Carried, Alike
<1>10. CASE TrialRejected
  BY <1>10, Constants, SoundKept DEF TrialRejected
<1>11. CASE CaptureCopy
  BY <1>11, Constants, SoundKept DEF CaptureCopy
<1>12. CASE CaptureName
  BY <1>12, Constants, SoundKept DEF CaptureName
<1>13. CASE CaptureDrop
  BY <1>13, Constants, SoundKept DEF CaptureDrop
<1>14. CASE CaptureAssign
  BY <1>14, Constants, SoundKept DEF CaptureAssign
<1>15. CASE RestoreCheckpoint
  BY <1>15, Constants, SoundKept DEF RestoreCheckpoint
<1>16. CASE RestoreControls
  BY <1>16, Constants, SoundKept DEF RestoreControls
<1>17. CASE Settle
  BY <1>17, Constants, SoundKept DEF Settle, Sound, Recipe
<1>18. CASE Decide
  <2>1. UNCHANGED <<decision, starting>> /\ Recipe(decision.steps)
    BY <1>18 DEF Decide, Sound
  <2>2. \/ UNCHANGED <<pending, step>>
        \/ decision.kind = "action" /\ Steps # << >> /\ pending' = decision /\ step' = 1
    BY <1>18 DEF Decide, Sound
  <2>3. CASE UNCHANGED <<pending, step>>
    BY <2>1, <2>3, SoundKept
  <2>4. CASE decision.kind = "action" /\ Steps # << >> /\ pending' = decision /\ step' = 1
    <3>1. step' \in 1..Len(pending'.steps) /\ step' \in 0..4
      BY <2>1, <2>4 DEF Recipe
    <3> QED  BY <2>1, <2>4, <3>1, SoundKept
  <2> QED  BY <2>2, <2>3, <2>4
<1>19. CASE ReleaseWrite
  BY <1>19, Constants, SoundKept DEF ReleaseWrite
<1>20. CASE ReleaseCopy
  BY <1>20, Constants, SoundKept DEF ReleaseCopy
<1>21. CASE ReleaseDone
  BY <1>21, Constants, SoundKept DEF ReleaseDone
<1>22. CASE ActRecord
  BY <1>22, Constants, SoundKept DEF ActRecord
<1>23. CASE ActFiles
  BY <1>23, Constants, SoundKept DEF ActFiles
<1>24. CASE ActControls
  BY <1>24, Constants, SoundKept DEF ActControls
<1>25. CASE Acted
  BY <1>25, Constants, SoundKept DEF Acted
<1>26. CASE Cancelled
  BY <1>26, Constants, SoundKept DEF Cancelled
<1>27. CASE Finally
  BY <1>27, Constants, SoundKept DEF Finally
<1>28. CASE RolledBack
  BY <1>28, Constants, SoundKept DEF RolledBack
<1>29. CASE Interrupt
  BY <1>29, Constants, SoundKept DEF Interrupt
<1>30. CASE Fault
  BY <1>30, Constants, SoundKept DEF Fault
<1>31. CASE RequestStop
  BY <1>31, SoundKept DEF RequestStop
<1>32. CASE Edit
  BY <1>32, Constants, SoundKept DEF Edit
<1>33. CASE Done
  BY <1>33, SoundKept DEF Done
<1>34. CASE UNCHANGED vars
  BY <1>34, SoundKept
<1>35. CASE PlanAttempt
  BY <1>35, Constants, SoundKept DEF PlanAttempt
<1>36. CASE JudgeSigns
  BY <1>36, Constants, SoundKept DEF JudgeSigns
<1> QED  BY <1>1, <1>2, <1>3, <1>4, <1>5, <1>6, <1>7, <1>8, <1>9, <1>10, <1>11, <1>12, <1>13, <1>14,
            <1>15, <1>16, <1>17, <1>18, <1>19, <1>20, <1>21, <1>22, <1>23, <1>24, <1>25, <1>26,
            <1>27, <1>28, <1>29, <1>30, <1>31, <1>32, <1>33, <1>34, <1>35, <1>36 DEF Next, Controller

(* Files, snapshots and stamps. *)
LEMMA DiskStep ==
    ASSUME Types, [Next]_vars
    PROVE  DiskTypes'
<1> USE DEF Types, DiskTypes, control, loop, disk, memory, world, ghosts, vars, Finish, Goto, Call,
            Refuse, Return, Ending, FromStep, Nowhere, NoAttempt, Forgotten
<1>0. /\ clock \in Nat /\ clock + 1 \in Nat /\ clock + 1 \in Stamps /\ {Absent, Partial, Missing} \subseteq Stamps
      /\ {files.ctl, files.pop, working.ctl, working.pop} \subseteq Stamps
      /\ \A n \in Names : {dirs[n].pop, dirs[n].ctl} \subseteq Stamps /\ dirs[n].pop <= clock /\ dirs[n].ctl <= clock
      /\ \A n \in Names : Whole(dirs[n], clock)
      /\ files.ctl \in Int /\ files.ctl <= clock /\ files.pop \in Int /\ files.pop <= clock
      /\ clock <= clock + 1 /\ Stamps \subseteq Int
  BY DEF Types, DiskTypes, Whole, Stamps, Names, Absent, Partial, Missing
<1>01. \A s : s \in {Removed(Absent), Removed(Partial)} => Whole(s, clock)
  <2>1. Whole(Removed(Absent), clock) /\ Whole(Removed(Partial), clock)
    BY <1>0 DEF Whole, Removed, Damping, Absent, Partial
  <2> QED  BY <2>1
<1>1. CASE Prepare
  BY <1>1, <1>0, WholeKept, PrepareEffect
<1>2. CASE BeginAttempt
  BY <1>2, <1>0, WholeKept DEF BeginAttempt
<1>3. CASE NativeEnds
  <2>1. /\ UNCHANGED <<starting, dirs, recorded, recovery, working, expected, stopping, accepted, strayed>>
        /\ DOMAIN caches' = AllCaches
    BY <1>3, NativeEffect
  <2>0. PICK result \in {"succeeded", "stopped", "failed", "timeout", "cancelled"}, saved \in BOOLEAN,
             change \in {"none", "native", "unexplained"}, own \in {0, clock + 2} :
            SolverLeaves(result, saved, change, own)
    BY <1>3, NativeEffect, Zenon
  <2>2. /\ native' = [native EXCEPT !.status = result, !.ctl = own, !.saved = saved]
        /\ own # 0 => change = "native"
        /\ own \in {0, clock + 2} /\ change \in {"none", "native", "unexplained"} /\ saved \in BOOLEAN
        /\ files' = [pop |-> IF saved THEN clock + 1 ELSE files.pop,
                     ctl |-> IF change = "none" THEN files.ctl ELSE clock + 2,
                     set |-> IF change = "native" THEN Performed(files.set) ELSE files.set]
        /\ clock' = IF change = "none" THEN clock + 1 ELSE clock + 2
        /\ result \in {"succeeded", "stopped"} => saved
        /\ edit' = IF Edited THEN files'.ctl ELSE edit
    BY <2>0, Zenon DEF SolverLeaves
  <2>3. clock' \in Nat /\ clock <= clock' /\ clock + 1 <= clock' /\ (change # "none" => clock' = clock + 2)
    BY <1>0, <2>2
  <2>4. Damping(Performed(files.set)) /\ Damping(files.set)
    BY DEF Damping, Performed, With, Whole
  <2>5. Whole(files', clock') /\ {files'.pop, files'.ctl} \subseteq Nat \cup {Missing}
    <3>1. DOMAIN files' = {"pop", "ctl", "set"} /\ Damping(files'.set)
      BY <2>2, <2>4
    <3>2. files'.pop \in Nat \cup {Missing} /\ files'.pop <= clock'
      BY <1>0, <2>2, <2>3
    <3>3. files'.ctl \in Nat \cup {Missing} /\ files'.ctl <= clock'
      BY <1>0, <2>2, <2>3
    <3> QED  BY <3>1, <3>2, <3>3 DEF Whole, Stamps
  <2>6. native'.ctl \in Nat /\ native'.ctl <= clock'
    <3>1. native'.ctl = own
      BY <2>2 DEF LoopTypes
    <3> QED  BY <1>0, <2>2, <2>3, <3>1
  <2>7. /\ Whole(working, clock') /\ Whole(dirs["A"], clock') /\ Whole(dirs["B"], clock')
        /\ expected <= clock' /\ edit <= clock'
    BY <1>0, <2>3, WholeGrows
  <2>9. edit' \in Nat /\ edit' <= clock'
    <3>1. Edited => files.ctl \in Nat
      BY DEF Edited
    <3>2. Edited => files'.ctl \in Nat /\ files'.ctl <= clock'
      BY <1>0, <2>2, <2>3, <3>1
    <3> QED  BY <1>0, <2>2, <2>7, <3>2
  <2>8. Good' => files'.pop \in Nat
    <3>1. native'.status = result
      BY <2>2 DEF LoopTypes
    <3> QED  BY <1>0, <2>2, <3>1 DEF Good
  <2> QED  BY <2>1, <2>3, <2>5, <2>6, <2>7, <2>8, <2>9, WholeKept
<1>4. CASE JudgeRefuses
  BY <1>4, <1>0, WholeKept DEF JudgeRefuses, Adopted
<1>5. CASE JudgeRecipeStop
  BY <1>5, <1>0, WholeKept DEF JudgeRecipeStop, Adopted
<1>6. CASE JudgeOverrun
  BY <1>6, <1>0, WholeKept DEF JudgeOverrun, Accepting, Adopted
<1>7. CASE JudgeAccepts
  BY <1>7, <1>0, WholeKept, AcceptsEffect, <1>0 DEF Rest, Counted, Adopted
<1>8. CASE JudgeRejects
  BY <1>8, <1>0, WholeKept DEF JudgeRejects, Accepting, Adopted
<1>9. CASE JudgeFails
  BY <1>9, <1>0, WholeKept, FailsEffect DEF Rest, Counted, Adopted
<1>10. CASE TrialRejected
  BY <1>10, <1>0, WholeKept DEF TrialRejected
<1>11. CASE CaptureCopy
  <2>1. dirs' = [dirs EXCEPT ![Other(recovery)] = files] /\ Other(recovery) \in Names
    BY <1>11, Others DEF CaptureCopy
  <2>2. DOMAIN dirs' = Names /\ \A n \in Names : dirs'[n] \in {dirs[n], files}
    BY <2>1
  <2>3. Whole(dirs'["A"], clock) /\ Whole(dirs'["B"], clock)
    BY <1>0, <2>2 DEF Names
  <2> QED  BY <1>11, <2>2, <2>3, WholeKept DEF CaptureCopy
<1>12. CASE CaptureName
  BY <1>12, <1>0, WholeKept, Others DEF CaptureName
<1>13. CASE CaptureDrop
  <2>1. dirs' = [dirs EXCEPT ![recovery] = Removed(Partial)] /\ recovery \in Names
    BY <1>13 DEF CaptureDrop
  <2>2. DOMAIN dirs' = Names /\ \A n \in Names : dirs'[n] \in {dirs[n], Removed(Partial)}
    BY <2>1
  <2>3. Whole(dirs'["A"], clock) /\ Whole(dirs'["B"], clock)
    BY <1>0, <1>01, <2>2 DEF Names
  <2> QED  BY <1>13, <2>2, <2>3, WholeKept DEF CaptureDrop
<1>14. CASE CaptureAssign
  <2>1. dirs' = [dirs EXCEPT ![recovery] = Removed(Absent)] /\ recovery \in Names /\ recovery' \in Names
    BY <1>14, Others DEF CaptureAssign
  <2>2. DOMAIN dirs' = Names /\ \A n \in Names : dirs'[n] \in {dirs[n], Removed(Absent)}
    BY <2>1
  <2>3. Whole(dirs'["A"], clock) /\ Whole(dirs'["B"], clock)
    BY <1>0, <1>01, <2>2 DEF Names
  <2> QED  BY <1>14, <2>1, <2>2, <2>3, WholeKept DEF CaptureAssign, ControlTypes, Capturing
<1>15. CASE RestoreCheckpoint
  <2>1. Whole(Source, clock) /\ Source.pop \in Stamps /\ Source.pop <= clock
    BY <1>0 DEF Source, Whole
  <2>2. Restored(Source.pop) \in Nat \cup {Missing} /\ Restored(Source.pop) <= clock
    BY <1>0, <2>1 DEF Restored, Stamps, Missing
  <2>3. files' = [files EXCEPT !.pop = Restored(Source.pop)]
    BY <1>15 DEF RestoreCheckpoint
  <2>4. Restored(Source.pop) \in Stamps
    BY <2>2 DEF Stamps
  <2>5. Whole(files', clock) /\ files'.pop \in Nat \cup {Missing} /\ files'.ctl = files.ctl
    BY <1>0, <2>2, <2>3, <2>4 DEF Whole
  <2> QED  BY <1>15, <2>5, WholeKept DEF RestoreCheckpoint
<1>16. CASE RestoreControls
  <2>1. Whole(Source, clock) /\ Source.ctl \in Stamps /\ Source.ctl <= clock /\ Damping(Source.set)
    BY <1>0 DEF Source, Whole
  <2>2. Restored(Source.ctl) \in Nat \cup {Missing} /\ Restored(Source.ctl) <= clock
    BY <1>0, <2>1 DEF Restored, Stamps, Missing
  <2>3. files' = [files EXCEPT !.ctl = Restored(Source.ctl), !.set = Source.set]
    BY <1>16 DEF RestoreControls
  <2>4. Restored(Source.ctl) \in Stamps
    BY <2>2 DEF Stamps
  <2>5. Whole(files', clock) /\ files'.ctl = Restored(Source.ctl) /\ files'.pop = files.pop
    BY <1>0, <2>1, <2>2, <2>3, <2>4 DEF Whole
  <2>6. files'.ctl \in Int /\ files'.ctl <= clock /\ files'.ctl \in Nat \cup {Missing}
    BY <1>0, <2>2, <2>4, <2>5
  <2>7. DOMAIN caches' = AllCaches
    BY <1>16 DEF RestoreControls, Retired
  <2> QED  BY <1>16, <2>5, <2>6, <2>7, WholeKept DEF RestoreControls, ControlTypes, Restoring
<1>17. CASE Settle
  BY <1>17, <1>0, WholeKept DEF Settle
<1>18. CASE Decide
  <2>1. /\ UNCHANGED <<starting, disk, memory, world, accepted, clock>> /\ native' = NoAttempt
        /\ strayed' \in BOOLEAN /\ pc' # "judge"
    BY <1>18 DEF Decide, DecisionTypes, Sound
  <2>2. native'.ctl = 0
    BY <2>1
  <2> QED  BY <2>1, <2>2, WholeKept
<1>19. CASE ReleaseWrite
  <2>1. files' = [files EXCEPT !.ctl = clock + 1, !.set = With(@, [N_FIX_BA |-> starting.N_FIX_BA])]
        /\ clock' = clock + 1
    BY <1>19 DEF ReleaseWrite
  <2>2. Damping(With(files.set, [N_FIX_BA |-> starting.N_FIX_BA]))
    BY DEF Damping, With, Whole
  <2>3. Whole(files', clock') /\ files'.ctl = clock + 1 /\ files'.pop = files.pop
    BY <1>0, <2>1, <2>2 DEF Whole, Stamps
  <2> QED  BY <1>19, <1>0, <2>1, <2>3, WholeKept, WholeGrows DEF ReleaseWrite
<1>20. CASE ReleaseCopy
  <2>1. dirs' = [dirs EXCEPT ![recovery].ctl = Partial] /\ recovery \in Names
    BY <1>20 DEF ReleaseCopy
  <2>2. DOMAIN dirs' = Names /\ \A n \in Names : dirs'[n] \in {dirs[n], [dirs[n] EXCEPT !.ctl = Partial]}
    BY <2>1
  <2>3. \A n \in Names : Whole([dirs[n] EXCEPT !.ctl = Partial], clock)
    <3>1. Partial <= clock
      BY <1>0 DEF Partial
    <3> QED  BY <1>0, <3>1 DEF Whole
  <2>4. Whole(dirs'["A"], clock) /\ Whole(dirs'["B"], clock)
    BY <1>0, <2>2, <2>3 DEF Names
  <2> QED  BY <1>20, <2>2, <2>4, WholeKept DEF ReleaseCopy
<1>21. CASE ReleaseDone
  <2>1. /\ dirs' = [dirs EXCEPT ![recovery].ctl = files.ctl, ![recovery].set = files.set] /\ recovery \in Names
        /\ expected' = files.ctl
    BY <1>21 DEF ReleaseDone
  <2>2. DOMAIN dirs' = Names /\ \A n \in Names :
            dirs'[n] \in {dirs[n], [dirs[n] EXCEPT !.ctl = files.ctl, !.set = files.set]}
    BY <2>1
  <2>3. \A n \in Names : Whole([dirs[n] EXCEPT !.ctl = files.ctl, !.set = files.set], clock)
    <3>1. Damping(files.set)
      BY DEF Whole
    <3> QED  BY <1>0, <3>1 DEF Whole
  <2>4. Whole(dirs'["A"], clock) /\ Whole(dirs'["B"], clock)
    BY <1>0, <2>2, <2>3 DEF Names
  <2> QED  BY <1>21, <1>0, <2>1, <2>2, <2>4, WholeKept DEF ReleaseDone
<1>22. CASE ActRecord
  BY <1>22, <1>0, WholeKept DEF ActRecord
<1>23. CASE ActFiles
  <2>1. \/ files' = files /\ clock' = clock
        \/ files' = [files EXCEPT !.pop = clock + 1] /\ clock' = clock + 1
    BY <1>23 DEF ActFiles
  <2>2. Whole(files', clock') /\ {files'.pop, files'.ctl} \subseteq Nat \cup {Missing}
    BY <1>0, <2>1 DEF Whole, Stamps
  <2>3. DOMAIN caches' = AllCaches
    BY <1>23 DEF ActFiles
  <2> QED  BY <1>23, <1>0, <2>1, <2>2, <2>3, WholeKept, WholeGrows DEF ActFiles
<1>24. CASE ActControls
  <2>1. \/ files' = files /\ clock' = clock
        \/ files' = [files EXCEPT !.ctl = clock + 1, !.set = With(@, decision.set)] /\ clock' = clock + 1
    BY <1>24 DEF ActControls
  <2>2. Damping(With(files.set, decision.set))
    BY DEF Damping, With, Whole, DecisionTypes, Sound
  <2>3. CASE files' = files /\ clock' = clock
    BY <1>24, <2>3, WholeKept DEF ActControls
  <2>4. CASE files' = [files EXCEPT !.ctl = clock + 1, !.set = With(@, decision.set)] /\ clock' = clock + 1
    <3>1. Whole(files', clock') /\ {files'.pop, files'.ctl} \subseteq Nat \cup {Missing}
      BY <1>0, <2>2, <2>4 DEF Whole, Stamps
    <3> QED  BY <1>24, <1>0, <2>4, <3>1, WholeKept, WholeGrows DEF ActControls
  <2> QED  BY <2>1, <2>3, <2>4
<1>25. CASE Acted
  BY <1>25, <1>0, WholeKept DEF Acted
<1>26. CASE Cancelled
  BY <1>26, <1>0, WholeKept DEF Cancelled
<1>27. CASE Finally
  BY <1>27, <1>0, WholeKept DEF Finally
<1>28. CASE RolledBack
  BY <1>28, <1>0, WholeKept DEF RolledBack
<1>29. CASE Interrupt
  BY <1>29, <1>0, WholeKept DEF Interrupt
<1>30. CASE Fault
  BY <1>30, <1>0, WholeKept DEF Fault
<1>31. CASE RequestStop
  BY <1>31, WholeKept DEF RequestStop, Good
<1>32. CASE Edit
  <2>1. files' = [files EXCEPT !.ctl = clock + 1] /\ clock' = clock + 1 /\ edit' = clock + 1
    BY <1>32 DEF Edit
  <2>2. Whole(files', clock') /\ {files'.pop, files'.ctl} \subseteq Nat \cup {Missing}
    BY <1>0, <2>1 DEF Whole, Stamps
  <2> QED  BY <1>32, <1>0, <2>1, <2>2, WholeKept, WholeGrows DEF Edit, Good
<1>33. CASE Done
  BY <1>33, WholeKept DEF Done
<1>34. CASE UNCHANGED vars
  BY <1>34, WholeKept DEF Good
<1>35. CASE PlanAttempt
  <2>1. /\ UNCHANGED <<starting, files, caches, dirs, recorded, recovery, expected, stopping, edit, accepted, strayed, clock>>
        /\ working' \in {working, files} /\ pc' # "judge"
    BY <1>35 DEF PlanAttempt
  <2>2. native'.ctl = 0
    BY <1>35 DEF PlanAttempt
  <2> QED  BY <2>1, <2>2, WholeKept
<1>36. CASE JudgeSigns
  <2>1. /\ UNCHANGED <<starting, disk, memory, stopping, edit, accepted, strayed, clock>>
        /\ pc = "judge" /\ files.ctl = edit /\ native' = [native EXCEPT !.ctl = files.ctl]
    BY <1>36 DEF JudgeSigns
  <2>2. native'.ctl = edit /\ native'.status = native.status
    BY <2>1 DEF LoopTypes
  <2> QED  BY <2>1, <2>2, <1>0, WholeKept DEF Good
<1> QED  BY <1>1, <1>2, <1>3, <1>4, <1>5, <1>6, <1>7, <1>8, <1>9, <1>10, <1>11, <1>12, <1>13, <1>14,
            <1>15, <1>16, <1>17, <1>18, <1>19, <1>20, <1>21, <1>22, <1>23, <1>24, <1>25, <1>26,
            <1>27, <1>28, <1>29, <1>30, <1>31, <1>32, <1>33, <1>34, <1>35, <1>36 DEF Next, Controller

LEMMA InitTypes == Init => Types
<1> SUFFICES ASSUME Init PROVE Types
  OBVIOUS
<1>1. ControlTypes
  BY DEF Init, ControlTypes, Locations, Statuses, Nowhere, Return, Restoring, Capturing
<1>2. LoopTypes
  <2>1. native = NoAttempt /\ native \in [status : Results, restart : Startups, ctl : Nat, charged : Nat, saved : BOOLEAN]
    BY DEF Init, NoAttempt, Results, Startups
  <2>2. starting \in Models /\ waiting \in BOOLEAN /\ trial \in {"none", "open", "accepted", "rejected", "aborted"}
        /\ base \in {"iterate", "verify"} /\ pc = "prepare"
    BY DEF Init
  <2>3. /\ attempt \in 0..MaxAttempts + 1 /\ used \in Nat /\ batch \in Nat /\ attempt <= MaxAttempts
        /\ used <= MaxIterations /\ trend \in 0..Longest /\ waits \in 0..Longest
    BY BudgetAssumption DEF Init, Longest
  <2> QED  BY <2>1, <2>2, <2>3 DEF LoopTypes
<1>3. DecisionTypes
  BY Constants DEF Init, DecisionTypes
<1>4. DiskTypes
  <2>1. Whole(files, 0) /\ Whole(Removed(Absent), 0)
    BY DEF Init, Whole, Damping, Stamps, Removed, Absent
  <2>2. dirs["A"] = files /\ dirs["B"] = Removed(Absent) /\ DOMAIN dirs = Names
    BY DEF Init, Names
  <2>3. native.ctl = 0 /\ DOMAIN caches = AllCaches /\ working = files /\ files.pop = 0 /\ files.ctl = 0
        /\ pc = "prepare" /\ clock = 0 /\ expected = 0 /\ edit = 0 /\ accepted = {0}
        /\ recorded = "A" /\ recovery = "A"
    BY DEF Init, NoAttempt
  <2>4. stopping \in BOOLEAN /\ strayed \in BOOLEAN
    BY DEF Init
  <2> QED  BY <2>1, <2>2, <2>3, <2>4 DEF DiskTypes, Names
<1> QED  BY <1>1, <1>2, <1>3, <1>4 DEF Types

LEMMA TypesStep == Types /\ [Next]_vars => Types'
BY ControlStep, LoopStep, DecisionStep, DiskStep DEF Types

(* The controller, the counters, the decisions and the files stay within     *)
(* their types: budgets are never exceeded, every recipe has its steps, and  *)
(* no control ever written loosens the damping of the start.                 *)
THEOREM TypesHold == Spec => []Types
BY InitTypes, TypesStep, PTL DEF Spec

(* The sections that write begin with a look at the controls, and nothing in *)
(* them brings back an edit that the controller does not know.               *)
LEMMA EditApartStep ==
    ASSUME Types, EditApart, [Next]_vars
    PROVE  EditApart'
<1> USE DEF EditApart, Edited, Unchanged, Sections, control, loop, disk, memory, world, ghosts, vars, Finish,
            Goto, Call, Refuse, Return, Ending, FromStep, Nowhere
<1>0. /\ edit \in Nat /\ clock \in Nat /\ edit <= clock /\ clock + 1 \in Nat
      /\ expected <= clock /\ expected \in Int /\ files.ctl \in Int /\ files.ctl <= clock
      /\ DOMAIN files = {"pop", "ctl", "set"}
  BY DEF Types, DiskTypes, Whole, Stamps, Absent, Partial, Missing
<1>. DEFINE Moves == Controller \/ Interrupt \/ Fault
<1>50. CASE Moves /\ Lapses
  <2>0. raced' = (raced /\ pc' \in Sections \cup {"native", "judge"})
    BY <1>50 DEF Lapses
  <2> SUFFICES ASSUME Edited', ~raced'
               PROVE  pc' \notin Sections /\ (pc' = "judge" => native'.ctl # edit')
    OBVIOUS
  <2>1. CASE Prepare
    BY <1>0, <2>0, <2>1, PrepareEffect
  <2>2. CASE BeginAttempt
    BY <1>0, <2>0, <2>2 DEF BeginAttempt
  <2>3. CASE PlanAttempt
    BY <1>0, <2>0, <2>3 DEF PlanAttempt
  <2>4. CASE NativeEnds
    <3>1. pc' = "judge" /\ expected' = expected /\ ~raced
      BY <2>0, <2>4, NativeEffect
    <3>0. PICK result \in {"succeeded", "stopped", "failed", "timeout", "cancelled"}, saved \in BOOLEAN,
               change \in {"none", "native", "unexplained"}, own \in {0, clock + 2} :
              SolverLeaves(result, saved, change, own)
      BY <2>4, NativeEffect, Zenon
    <3>2. /\ native' = [native EXCEPT !.status = result, !.ctl = own, !.saved = saved]
          /\ Edited /\ ~raced => own = 0
          /\ own \in {0, clock + 2}
          /\ files' = [pop |-> IF saved THEN clock + 1 ELSE files.pop,
                       ctl |-> IF change = "none" THEN files.ctl ELSE clock + 2,
                       set |-> IF change = "native" THEN Performed(files.set) ELSE files.set]
      BY <3>0, Zenon DEF SolverLeaves
    <3>3. files'.ctl = (IF change = "none" THEN files.ctl ELSE clock + 2) /\ native'.ctl = own
      BY <3>2 DEF Types, LoopTypes
    <3>4. Edited
      <4>1. edit' = IF Edited THEN files'.ctl ELSE edit
        BY <3>0, Zenon DEF SolverLeaves
      <4>2. Edited' /\ clock \in Nat /\ edit <= clock /\ edit \in Nat
        BY <1>0, <2>0 DEF Types, DiskTypes
      <4>3. ~Edited => files.ctl # edit \/ expected = edit \/ edit = 0
        BY DEF Edited, Unchanged
      <4> QED  BY <3>1, <3>3, <4>1, <4>2, <4>3 DEF Edited, Unchanged
    <3>5. native'.ctl = 0
      BY <3>1, <3>2, <3>3, <3>4
    <3> QED  BY <3>1, <3>5
  <2>5. CASE JudgeSigns
    BY <2>0, <2>5 DEF JudgeSigns
  <2>6. CASE JudgeRefuses \/ JudgeRecipeStop \/ JudgeOverrun \/ JudgeRejects
    BY <1>0, <2>0, <2>6 DEF JudgeRefuses, JudgeRecipeStop, JudgeOverrun, JudgeRejects, Accepting
  <2>7. CASE JudgeAccepts
    BY <1>0, <2>0, <2>7, AcceptsEffect DEF Rest, JudgeAccepts
  <2>8. CASE JudgeFails
    BY <1>0, <2>0, <2>8, FailsEffect DEF Rest, JudgeFails, Accepting
  <2>9. CASE TrialRejected \/ CaptureCopy \/ CaptureName \/ CaptureDrop
    BY <1>0, <2>0, <2>9 DEF TrialRejected, CaptureCopy, CaptureName, CaptureDrop
  <2>10. CASE CaptureAssign
    BY <1>0, <2>0, <2>10 DEF CaptureAssign, Types, ControlTypes, Capturing
  <2>11. CASE RestoreCheckpoint \/ RestoreControls
    BY <1>0, <2>0, <2>11 DEF RestoreCheckpoint, RestoreControls
  <2>12. CASE Settle
    BY <1>0, <2>0, <2>12 DEF Settle
  <2>13. CASE Decide
    BY <1>0, <2>0, <2>13 DEF Decide, Types, DecisionTypes, Sound
  <2>14. CASE ReleaseWrite
    <3>1. UNCHANGED <<expected, edit>> /\ files'.ctl = clock + 1
      BY <1>0, <2>14 DEF ReleaseWrite
    <3> QED  BY <1>0, <3>1
  <2>20. CASE ReleaseCopy \/ ReleaseDone
    BY <1>0, <2>0, <2>20 DEF ReleaseCopy, ReleaseDone
  <2>15. CASE ActRecord \/ ActFiles \/ Acted
    BY <1>0, <2>0, <2>15 DEF ActRecord, ActFiles, Acted
  <2>16. CASE ActControls
    <3>1. pc = "act3" /\ UNCHANGED <<expected, edit>> /\ pc' \in {"copy", "acted"}
          /\ files'.ctl \in {files.ctl, clock + 1}
      BY <1>0, <2>16 DEF ActControls
    <3>2. ~raced
      BY <2>0, <3>1
    <3> QED  BY <1>0, <3>1, <3>2
  <2>17. CASE Cancelled
    BY <1>0, <2>0, <2>17 DEF Cancelled
  <2>18. CASE Finally \/ RolledBack
    BY <1>0, <2>0, <2>18 DEF Finally, RolledBack
  <2>19. CASE Interrupt \/ Fault
    BY <1>0, <2>0, <2>19 DEF Interrupt, Fault
  <2> QED  BY <1>50, <2>1, <2>2, <2>3, <2>4, <2>5, <2>6, <2>7, <2>8, <2>9, <2>10, <2>11, <2>12, <2>13,
              <2>14, <2>15, <2>16, <2>17, <2>18, <2>19, <2>20 DEF Controller
<1>51. CASE RequestStop \/ Done \/ UNCHANGED vars
  BY <1>51 DEF RequestStop, Done
<1>52. CASE Edit
  BY <1>52, <1>0 DEF Edit
<1> QED  BY <1>50, <1>51, <1>52 DEF Next


LEMMA EditApartHolds == Spec => []EditApart
<1>1. Init => EditApart
  BY DEF Init, EditApart, Edited
<1>2. Types /\ EditApart /\ [Next]_vars => EditApart'
  BY EditApartStep
<1> QED  BY <1>1, <1>2, TypesHold, PTL DEF Spec

(* EditPreserved: an edit that the controller does not know stays, and is    *)
(* not taken for its own, until the run gives up before it; only one that    *)
(* falls into a section, between its check and its end, may be lost.         *)
THEOREM EditsArePreserved == Spec => EditPreserved
<1>1. ASSUME Types, EditApart, [Next]_vars, Edited, ~raced
      PROVE  files'.ctl = edit' /\ expected' # edit'
  <2> USE DEF control, loop, disk, memory, world, ghosts, vars
  <2>1. pc \notin Sections /\ (pc = "judge" => native.ctl # edit) /\ edit # 0 /\ files.ctl = edit /\ expected # edit
    BY <1>1 DEF EditApart, Edited, Unchanged
  <2>2. CASE NativeEnds
    <3>0. PICK result \in {"succeeded", "stopped", "failed", "timeout", "cancelled"}, saved \in BOOLEAN,
               change \in {"none", "native", "unexplained"}, own \in {0, clock + 2} :
              SolverLeaves(result, saved, change, own)
      BY <2>2, NativeEffect, Zenon
    <3>1. /\ files' = [pop |-> IF saved THEN clock + 1 ELSE files.pop,
                       ctl |-> IF change = "none" THEN files.ctl ELSE clock + 2,
                       set |-> IF change = "native" THEN Performed(files.set) ELSE files.set]
          /\ edit' = IF Edited THEN files'.ctl ELSE edit
      BY <3>0 DEF SolverLeaves
    <3>2. expected' = expected /\ expected \in Int /\ expected <= clock /\ clock \in Nat
      BY <1>1, <2>2, NativeEffect DEF Types, DiskTypes
    <3> QED  BY <1>1, <2>1, <3>1, <3>2
  <2>3. CASE \/ TrialRejected \/ CaptureCopy \/ CaptureName \/ CaptureDrop \/ CaptureAssign \/ PlanAttempt
             \/ RestoreCheckpoint \/ RestoreControls \/ ReleaseWrite \/ ReleaseCopy \/ ReleaseDone
             \/ ActFiles \/ ActControls \/ Acted
    BY <2>1, <2>3 DEF TrialRejected, CaptureCopy, CaptureName, CaptureDrop, CaptureAssign, PlanAttempt,
                      RestoreCheckpoint, RestoreControls, ReleaseWrite, ReleaseCopy, ReleaseDone,
                      ActFiles, ActControls, Acted, Sections
  <2>4. CASE \/ JudgeSigns \/ JudgeRefuses \/ JudgeRecipeStop \/ JudgeOverrun \/ JudgeAccepts
             \/ JudgeRejects \/ JudgeFails
    BY <1>1, <2>1, <2>4 DEF JudgeSigns, JudgeRefuses, JudgeRecipeStop, JudgeOverrun, JudgeAccepts,
                            JudgeRejects, JudgeFails, Accepting, Adopted
  <2>5. CASE \/ Prepare \/ BeginAttempt \/ Settle \/ Decide \/ ActRecord \/ Cancelled \/ Finally
             \/ RolledBack \/ Interrupt \/ Fault \/ RequestStop \/ Edit \/ Done \/ UNCHANGED vars
    BY <2>1, <2>5 DEF Prepare, BeginAttempt, Settle, Decide, ActRecord, Cancelled, Finally, RolledBack,
                      Interrupt, Fault, RequestStop, Edit, Done
  <2> QED  BY <1>1, <2>2, <2>3, <2>4, <2>5 DEF Next, Controller
<1>2. Types /\ EditApart /\ [Next]_vars => [Edited /\ ~raced => files'.ctl = edit' /\ expected' # edit']_vars
  BY <1>1
<1> QED  BY <1>2, TypesHold, EditApartHolds, PTL DEF Spec, EditPreserved


(* The part of the types that the proofs below read, for the provers. *)
LEMMA DiskFacts ==
    ASSUME Types
    PROVE  /\ recovery \in {"A", "B"} /\ recorded \in {"A", "B"} /\ DOMAIN dirs = {"A", "B"}
           /\ Other(recovery) \in {"A", "B"} /\ Other(recovery) # recovery /\ Other(Other(recovery)) = recovery
           /\ accepted \subseteq Nat /\ clock \in Nat /\ expected \in Int /\ expected <= clock
           /\ {files.ctl, files.pop} \subseteq Nat \cup {Missing} /\ DOMAIN files = {"pop", "ctl", "set"}
           /\ \A f \in {files, working, dirs["A"], dirs["B"]} : f.ctl \in Int /\ f.pop \in Int
           /\ DOMAIN dirs["A"] = {"pop", "ctl", "set"} /\ DOMAIN dirs["B"] = {"pop", "ctl", "set"}
BY Others DEF Types, DiskTypes, Whole, Stamps, Absent, Partial, Missing, Names

LEMMA ControlFacts ==
    ASSUME Types
    PROVE  /\ pc \in Capturing => then.pc \in {"settle", "acted"}
           /\ pc \in Restoring => then.pc \in {"finally", "rejected", "decide", "rolled"}
           /\ pc \in Restoring /\ then.source = "working" => then.pc = "decide" /\ pending # None
           /\ then.source \in {"recovery", "working"}
BY DEF Types, ControlTypes

LEMMA DecisionFacts ==
    ASSUME Types
    PROVE  /\ decision.kind \in {"continue", "action", "stop", "converged", "invalid"}
           /\ decision.kind # "invalid" => /\ decision.steps # << >> => decision.kind = "action"
                                           /\ decision.retain => decision.steps # << >>
           /\ decision.mutates => decision.steps # << >>
           /\ pending # None => step \in 1..Len(pending.steps) /\ pending.steps # << >>
BY DEF Types, DecisionTypes, Sound

(* A recipe whose attempt failed gets no further recipe, and what is carried *)
(* out is an action.                                                         *)
LEMMA ChosenStep ==
    ASSUME Types, Chosen, [Next]_vars
    PROVE  Chosen'
<1> USE DEF Chosen, Acting, Capturing, Restoring, RestoringFor, CapturingFor, Steps, control, loop,
            disk, memory, world, ghosts, vars, Finish, Goto, Call, Refuse, Return, Ending, FromStep,
            Nowhere
<1>1. CASE Prepare
  BY <1>1, ControlFacts, DecisionFacts, PrepareEffect
<1>2. CASE BeginAttempt
  BY <1>2, ControlFacts, DecisionFacts DEF BeginAttempt
<1>3. CASE NativeEnds
  BY <1>3, ControlFacts, DecisionFacts DEF NativeEnds
<1>4. CASE JudgeRefuses
  BY <1>4, ControlFacts, DecisionFacts DEF JudgeRefuses
<1>5. CASE JudgeRecipeStop
  BY <1>5, ControlFacts, DecisionFacts DEF JudgeRecipeStop
<1>6. CASE JudgeOverrun
  BY <1>6, ControlFacts, DecisionFacts DEF JudgeOverrun, Accepting
<1>7. CASE JudgeAccepts
  BY <1>7, ControlFacts, DecisionFacts, AcceptsEffect DEF Rest, Carried
<1>8. CASE JudgeRejects
  BY <1>8, ControlFacts, DecisionFacts DEF JudgeRejects, Accepting
<1>9. CASE JudgeFails
  BY <1>9, FailsMoves
<1>10. CASE TrialRejected
  BY <1>10, ControlFacts, DecisionFacts DEF TrialRejected
<1>11. CASE CaptureCopy
  BY <1>11, ControlFacts, DecisionFacts DEF CaptureCopy
<1>12. CASE CaptureName
  BY <1>12, ControlFacts, DecisionFacts DEF CaptureName
<1>13. CASE CaptureDrop
  BY <1>13, ControlFacts, DecisionFacts DEF CaptureDrop
<1>14. CASE CaptureAssign
  BY <1>14, ControlFacts, DecisionFacts DEF CaptureAssign
<1>15. CASE RestoreCheckpoint
  BY <1>15, ControlFacts, DecisionFacts DEF RestoreCheckpoint
<1>16. CASE RestoreControls
  BY <1>16, ControlFacts, DecisionFacts DEF RestoreControls
<1>17. CASE Settle
  BY <1>17, ControlFacts, DecisionFacts DEF Settle
<1>18. CASE Decide
  BY <1>18, ControlFacts, DecisionFacts DEF Decide
<1>19. CASE ReleaseWrite
  BY <1>19, ControlFacts, DecisionFacts DEF ReleaseWrite
<1>20. CASE ReleaseCopy
  BY <1>20, ControlFacts, DecisionFacts DEF ReleaseCopy
<1>21. CASE ReleaseDone
  BY <1>21, ControlFacts, DecisionFacts DEF ReleaseDone
<1>22. CASE ActRecord
  BY <1>22, ControlFacts, DecisionFacts DEF ActRecord
<1>23. CASE ActFiles
  BY <1>23, ControlFacts, DecisionFacts DEF ActFiles
<1>24. CASE ActControls
  BY <1>24, ControlFacts, DecisionFacts DEF ActControls
<1>25. CASE Acted
  BY <1>25, ControlFacts, DecisionFacts DEF Acted
<1>26. CASE Cancelled
  BY <1>26, ControlFacts, DecisionFacts DEF Cancelled
<1>27. CASE Finally
  BY <1>27, ControlFacts, DecisionFacts DEF Finally
<1>28. CASE RolledBack
  BY <1>28, ControlFacts, DecisionFacts DEF RolledBack
<1>29. CASE Interrupt
  BY <1>29, ControlFacts, DecisionFacts DEF Interrupt
<1>30. CASE Fault
  BY <1>30, ControlFacts, DecisionFacts DEF Fault
<1>31. CASE RequestStop
  BY <1>31 DEF RequestStop
<1>32. CASE Edit
  BY <1>32, ControlFacts, DecisionFacts DEF Edit
<1>33. CASE Done
  BY <1>33 DEF Done
<1>34. CASE UNCHANGED vars
  BY <1>34
<1>35. CASE PlanAttempt
  BY <1>35, ControlFacts, DecisionFacts DEF PlanAttempt
<1>36. CASE JudgeSigns
  BY <1>36, ControlFacts, DecisionFacts DEF JudgeSigns
<1> QED  BY <1>1, <1>2, <1>3, <1>4, <1>5, <1>6, <1>7, <1>8, <1>9, <1>10, <1>11, <1>12, <1>13, <1>14,
            <1>15, <1>16, <1>17, <1>18, <1>19, <1>20, <1>21, <1>22, <1>23, <1>24, <1>25, <1>26,
            <1>27, <1>28, <1>29, <1>30, <1>31, <1>32, <1>33, <1>34, <1>35, <1>36 DEF Next, Controller


LEMMA ChosenHolds == Spec => []Chosen
<1>1. Init => Chosen
  BY DEF Init, Chosen, RestoringFor, CapturingFor, Restoring, Capturing, Acting
<1>2. Types /\ Chosen /\ [Next]_vars => Chosen'
  BY ChosenStep
<1> QED  BY <1>1, <1>2, TypesHold, PTL DEF Spec


(* While the run goes on, the snapshots are as Chain has them. *)
LEMMA SnapshotFacts ==
    ASSUME Types, Chain, ~Closing
    PROVE  /\ struck \in {"nowhere", "native"} /\ files.ctl >= 0
           /\ recorded = IF pc \in {"drop", "assign"} THEN Other(recovery) ELSE recovery
           /\ dirs[recorded].pop \in accepted
           /\ pc # "release3" => dirs[recorded].ctl >= 0
           /\ pc # "assign" => dirs[recovery].pop \in accepted
           /\ pc \notin {"assign", "release3"} => dirs[recovery].ctl >= 0
BY DEF Chain, Split, Intact, Abandoned, Closing

(* The recorded snapshot stays whole through every capture. *)
LEMMA ChainStep ==
    ASSUME Types, Chosen, Chain, AcceptedAt, [Next]_vars
    PROVE  Chain'
<1> USE DEF Acting, Capturing, Restoring, RestoringFor, CapturingFor, Closing, Steps, control, loop,
            disk, memory, world, ghosts, vars, Finish, Goto, Call, Refuse, Return, Ending, FromStep,
            Nowhere
<1>1. CASE Prepare
  BY <1>1, DiskFacts, ControlFacts, DecisionFacts, PrepareEffect DEF Chain, Chosen, AcceptedAt,
       Split, Overwriting, Abandoned, Intact
<1>2. CASE BeginAttempt
  BY <1>2, DiskFacts, ControlFacts, DecisionFacts DEF BeginAttempt, Unchanged, Chain, Chosen,
       AcceptedAt, Split, Overwriting, Abandoned, Intact
<1>3. CASE NativeEnds
  BY <1>3, DiskFacts, ControlFacts, DecisionFacts DEF NativeEnds, Chain, Chosen, AcceptedAt,
       Split, Overwriting, Abandoned, Intact
<1>4. CASE JudgeRefuses
  BY <1>4, DiskFacts, ControlFacts, DecisionFacts DEF JudgeRefuses, Chain, Chosen, AcceptedAt,
       Split, Overwriting, Abandoned, Intact
<1>5. CASE JudgeRecipeStop
  BY <1>5, DiskFacts, ControlFacts, DecisionFacts DEF JudgeRecipeStop, Chain, Chosen, AcceptedAt,
       Split, Overwriting, Abandoned, Intact
<1>6. CASE JudgeOverrun
  BY <1>6, DiskFacts, ControlFacts, DecisionFacts DEF JudgeOverrun, Accepting, Chain, Chosen,
       AcceptedAt, Split, Overwriting, Abandoned, Intact
<1>7. CASE JudgeAccepts
  BY <1>7, DiskFacts, ControlFacts, DecisionFacts, AcceptsEffect DEF Rest, Carried, Chain, Chosen,
       AcceptedAt, Split, Overwriting, Abandoned, Intact
<1>8. CASE JudgeRejects
  BY <1>8, DiskFacts, ControlFacts, DecisionFacts DEF JudgeRejects, Accepting, Chain, Chosen,
       AcceptedAt, Split, Overwriting, Abandoned, Intact
<1>9. CASE JudgeFails
  <2>1. /\ pc = "judge" /\ pc' \in {"finally", "restore", "decide"} /\ (pending = None => pending' = None)
        /\ UNCHANGED <<struck, recorded, recovery, dirs, files, working, accepted>>
    BY <1>9, FailsEffect, FailsMoves DEF Rest, Carried
  <2>2. ~Closing /\ working.ctl >= 0
    BY <2>1 DEF Chain
  <2>3. ~Split' /\ Intact(dirs[recorded])' /\ Intact(dirs[recovery])'
    BY SnapshotFacts, <2>1, <2>2 DEF Split, Intact
  <2> QED  BY SnapshotFacts, <2>1, <2>2, <2>3 DEF Chain, Chosen, AcceptedAt, Split, Overwriting,
       Abandoned, Intact
<1>10. CASE TrialRejected
  BY <1>10, DiskFacts, ControlFacts, DecisionFacts DEF TrialRejected, Chain, Chosen, AcceptedAt,
       Split, Overwriting, Abandoned, Intact
<1>11. CASE CaptureCopy
  BY <1>11, DiskFacts, ControlFacts, DecisionFacts DEF CaptureCopy, Chain, Chosen, AcceptedAt,
       Split, Overwriting, Abandoned, Intact
<1>12. CASE CaptureName
  BY <1>12, DiskFacts, ControlFacts, DecisionFacts DEF CaptureName, Chain, Chosen, AcceptedAt,
       Split, Overwriting, Abandoned, Intact
<1>13. CASE CaptureDrop
  BY <1>13, DiskFacts, ControlFacts, DecisionFacts DEF CaptureDrop, Chain, Chosen, AcceptedAt,
       Split, Overwriting, Abandoned, Intact
<1>14. CASE CaptureAssign
  <2>1. /\ pc = "assign" /\ pc' \in {"settle", "acted"} /\ recovery' = Other(recovery)
        /\ dirs' = [dirs EXCEPT ![recovery] = Removed(Absent)]
        /\ UNCHANGED <<struck, recorded, files, working, accepted, decision, pending, expected>>
    BY <1>14, ControlFacts DEF CaptureAssign
  <2>2. recorded' = recovery' /\ dirs'[recovery'] = dirs[recorded] /\ struck' \in {"nowhere", "native"}
    BY DiskFacts, SnapshotFacts, <2>1
  <2>3. ~Split' /\ Intact(dirs[recorded])' /\ Intact(dirs[recovery])'
    BY SnapshotFacts, <2>1, <2>2 DEF Split, Intact
  <2> QED  BY SnapshotFacts, <2>1, <2>2, <2>3 DEF Chain, Chosen, AcceptedAt, Split, Overwriting,
       Abandoned, Intact
<1>15. CASE RestoreCheckpoint
  BY <1>15, DiskFacts, ControlFacts, DecisionFacts DEF RestoreCheckpoint, Chain, Chosen,
       AcceptedAt, Split, Overwriting, Abandoned, Intact
<1>16. CASE RestoreControls
  <2>1. /\ pc = "restore2" /\ pc' = then.pc
        /\ UNCHANGED <<struck, recorded, recovery, dirs, working, accepted, decision, pending>>
        /\ files'.ctl = Restored(Source.ctl)
    BY <1>16, DiskFacts DEF RestoreControls
  <2>2. ~Closing => files'.ctl >= 0
    <3>1. ~Closing => Source.ctl >= 0 /\ Source.ctl \in Int
      BY DiskFacts, ControlFacts, SnapshotFacts, <2>1 DEF Source, Chain
    <3> QED  BY <2>1, <3>1 DEF Restored, Absent, Partial
  <2>3. (~Closing' => ~Closing) /\ (Closing => Closing')
    BY ControlFacts, <2>1
  <2> QED  BY DiskFacts, ControlFacts, SnapshotFacts, <2>1, <2>2, <2>3 DEF Chain, Chosen,
       AcceptedAt, Split, Overwriting, Abandoned, Intact
<1>17. CASE Settle
  BY <1>17, DiskFacts, ControlFacts, DecisionFacts DEF Settle, Chain, Chosen, AcceptedAt, Split,
       Overwriting, Abandoned, Intact
<1>18. CASE Decide
  <2>1. /\ pc = "decide"
        /\ UNCHANGED <<struck, recorded, recovery, dirs, files, working, accepted, decision>>
        /\ pc' \in {"top", "finally", "release", "act", "restore"}
        /\ pc' = "release" => decision.kind = "converged" /\ pending' = pending
    BY <1>18, DecisionFacts DEF Decide
  <2>2. ~Split' /\ Intact(dirs[recorded])' /\ Intact(dirs[recovery])'
    BY SnapshotFacts, <2>1 DEF Split, Intact
  <2>3. pc' = "release" => pending' = None
    BY ControlFacts, <2>1 DEF Chosen
  <2> QED  BY SnapshotFacts, <2>1, <2>2, <2>3 DEF Chain, Chosen, AcceptedAt, Split, Overwriting,
       Abandoned, Intact
<1>19. CASE ReleaseWrite
  BY <1>19, DiskFacts, ControlFacts, DecisionFacts DEF ReleaseWrite, Chain, Chosen, AcceptedAt,
       Split, Overwriting, Abandoned, Intact
<1>20. CASE ReleaseCopy
  BY <1>20, DiskFacts, ControlFacts, DecisionFacts DEF ReleaseCopy, Chain, Chosen, AcceptedAt,
       Split, Overwriting, Abandoned, Intact
<1>21. CASE ReleaseDone
  BY <1>21, DiskFacts, ControlFacts, DecisionFacts DEF ReleaseDone, Chain, Chosen, AcceptedAt,
       Split, Overwriting, Abandoned, Intact
<1>22. CASE ActRecord
  BY <1>22, DiskFacts, ControlFacts, DecisionFacts DEF ActRecord, Chain, Chosen, AcceptedAt,
       Split, Overwriting, Abandoned, Intact
<1>23. CASE ActFiles
  BY <1>23, DiskFacts, ControlFacts, DecisionFacts DEF ActFiles, Chain, Chosen, AcceptedAt, Split,
       Overwriting, Abandoned, Intact
<1>24. CASE ActControls
  <2>1. /\ pc = "act3" /\ pc' \in {"copy", "acted"}
        /\ UNCHANGED <<struck, recorded, recovery, dirs, working, accepted, decision, pending, expected>>
        /\ files'.ctl \in {files.ctl, clock + 1}
    BY <1>24, DiskFacts DEF ActControls
  <2>2. ~Split' /\ Intact(dirs[recorded])' /\ Intact(dirs[recovery])' /\ files'.ctl >= 0
    BY DiskFacts, SnapshotFacts, <2>1 DEF Split, Intact
  <2> QED  BY SnapshotFacts, <2>1, <2>2 DEF Chain, Chosen, AcceptedAt, Split, Overwriting,
       Abandoned, Intact
<1>25. CASE Acted
  BY <1>25, DiskFacts, ControlFacts, DecisionFacts DEF Acted, Chain, Chosen, AcceptedAt, Split,
       Overwriting, Abandoned, Intact
<1>26. CASE Cancelled
  BY <1>26, DiskFacts, ControlFacts, DecisionFacts DEF Cancelled, Unchanged, Chain, Chosen,
       AcceptedAt, Split, Overwriting, Abandoned, Intact
<1>27. CASE Finally
  BY <1>27, DiskFacts, ControlFacts, DecisionFacts DEF Finally, Chain, Chosen, AcceptedAt, Split,
       Overwriting, Abandoned, Intact
<1>28. CASE RolledBack
  BY <1>28, DiskFacts, ControlFacts, DecisionFacts DEF RolledBack, Chain, Chosen, AcceptedAt,
       Split, Overwriting, Abandoned, Intact
<1>29. CASE Interrupt
  <2>1. /\ pc \notin {"cancelled", "finally", "done", "native"} /\ struck = "nowhere" /\ struck' = pc /\ pc' = "cancelled"
        /\ UNCHANGED <<recorded, recovery, dirs, files, working, accepted, decision, pending, expected>>
    BY <1>29 DEF Interrupt, Active
  <2>2. (Split' <=> Split) /\ recorded' = IF Split' THEN Other(recovery') ELSE recovery'
    BY <2>1 DEF Chain, Split
  <2>3. pc = "release3" => Abandoned'
    BY <2>1 DEF Chain, Abandoned
  <2>4. pc \notin {"finally", "done"} /\ (Abandoned => pc = "release3")
    BY <2>1 DEF Abandoned
  <2>5. Intact(dirs[recorded])' /\ (pc # "assign" => Intact(dirs[recovery])')
    BY DiskFacts, <2>1, <2>3, <2>4 DEF Chain, Intact
  <2> QED  BY <2>1, <2>2, <2>5 DEF Chain, Chosen, AcceptedAt, Split, Overwriting, Abandoned, Intact
<1>30. CASE Fault
  BY <1>30, DiskFacts, ControlFacts, DecisionFacts DEF Fault, Chain, Chosen, AcceptedAt, Split,
       Overwriting, Abandoned, Intact
<1>31. CASE RequestStop
  BY <1>31 DEF RequestStop, Chain, Chosen, AcceptedAt, Split, Overwriting, Abandoned, Intact
<1>32. CASE Edit
  BY <1>32, DiskFacts, ControlFacts, DecisionFacts DEF Edit, Chain, Chosen, AcceptedAt, Split,
       Overwriting, Abandoned, Intact
<1>33. CASE Done
  BY <1>33 DEF Done, Chain, Chosen, AcceptedAt, Split, Overwriting, Abandoned, Intact
<1>34. CASE UNCHANGED vars
  BY <1>34 DEF Chain, Chosen, AcceptedAt, Split, Overwriting, Abandoned, Intact
<1>35. CASE PlanAttempt
  BY <1>35, DiskFacts, ControlFacts, DecisionFacts DEF PlanAttempt, Chain, Chosen,
       AcceptedAt, Split, Overwriting, Abandoned, Intact
<1>36. CASE JudgeSigns
  BY <1>36, DiskFacts, ControlFacts, DecisionFacts DEF JudgeSigns, Chain, Chosen,
       AcceptedAt, Split, Overwriting, Abandoned, Intact
<1> QED  BY <1>1, <1>2, <1>3, <1>4, <1>5, <1>6, <1>7, <1>8, <1>9, <1>10, <1>11, <1>12, <1>13, <1>14,
            <1>15, <1>16, <1>17, <1>18, <1>19, <1>20, <1>21, <1>22, <1>23, <1>24, <1>25, <1>26,
            <1>27, <1>28, <1>29, <1>30, <1>31, <1>32, <1>33, <1>34, <1>35, <1>36 DEF Next, Controller

(* Where a snapshot is taken, the model holds an accepted checkpoint. *)
LEMMA AcceptedAtStep ==
    ASSUME Types, Chosen, Chain, AcceptedAt, [Next]_vars
    PROVE  AcceptedAt'
<1> USE DEF Acting, Capturing, Restoring, RestoringFor, CapturingFor, Closing, Steps, control, loop,
            disk, memory, world, ghosts, vars, Finish, Goto, Call, Refuse, Return, Ending, FromStep,
            Nowhere
<1>1. CASE Prepare
  BY <1>1, DiskFacts, ControlFacts, DecisionFacts, PrepareEffect DEF AcceptedAt, Chosen
<1>2. CASE BeginAttempt
  BY <1>2, DiskFacts, ControlFacts, DecisionFacts DEF BeginAttempt, Unchanged, AcceptedAt, Chosen
<1>3. CASE NativeEnds
  BY <1>3, DiskFacts, ControlFacts, DecisionFacts DEF NativeEnds, AcceptedAt, Chosen
<1>4. CASE JudgeRefuses
  BY <1>4, DiskFacts, ControlFacts, DecisionFacts DEF JudgeRefuses, AcceptedAt, Chosen
<1>5. CASE JudgeRecipeStop
  BY <1>5, DiskFacts, ControlFacts, DecisionFacts DEF JudgeRecipeStop, AcceptedAt, Chosen
<1>6. CASE JudgeOverrun
  BY <1>6, DiskFacts, ControlFacts, DecisionFacts DEF JudgeOverrun, Accepting, AcceptedAt, Chosen
<1>7. CASE JudgeAccepts
  <2>1. /\ pc = "judge" /\ UNCHANGED <<files, struck, dirs, recovery, step>>
        /\ \/ pc' = "settle" /\ accepted' = accepted /\ pending' # None /\ (step = Len(pending'.steps) => waiting')
           \/ pc' = "copy" /\ accepted' = accepted \cup {files.pop}
    BY <1>7, AcceptsEffect DEF Rest, Carried, Alike
  <2> QED  BY <2>1 DEF AcceptedAt, Chosen
<1>8. CASE JudgeRejects
  BY <1>8, DiskFacts, ControlFacts, DecisionFacts DEF JudgeRejects, Accepting, AcceptedAt, Chosen
<1>9. CASE JudgeFails
  <2>1. pc = "judge" /\ pc' \in {"finally", "restore", "decide"}
    BY <1>9, FailsEffect, FailsMoves
  <2>2. pc' = "decide" => decision'.steps # << >>
    <3>1. pc' = "decide" => decision'.kind = "action" /\ decision'.retain
      BY <1>9, FailsMoves, Zenon
    <3>2. Sound(decision')
      BY <1>9, FailsEffect
    <3> QED  BY <3>1, <3>2 DEF Sound
  <2> QED  BY <2>1, <2>2 DEF AcceptedAt, Chosen
<1>10. CASE TrialRejected
  BY <1>10, DiskFacts, ControlFacts, DecisionFacts DEF TrialRejected, AcceptedAt, Chosen
<1>11. CASE CaptureCopy
  BY <1>11, DiskFacts, ControlFacts, DecisionFacts DEF CaptureCopy, AcceptedAt, Chosen
<1>12. CASE CaptureName
  BY <1>12, DiskFacts, ControlFacts, DecisionFacts DEF CaptureName, AcceptedAt, Chosen
<1>13. CASE CaptureDrop
  BY <1>13, DiskFacts, ControlFacts, DecisionFacts DEF CaptureDrop, AcceptedAt, Chosen
<1>14. CASE CaptureAssign
  <2>1. /\ pc = "assign" /\ pc' \in {"settle", "acted"} /\ files' = files /\ accepted' = accepted
    BY <1>14, ControlFacts DEF CaptureAssign
  <2> QED  BY <2>1 DEF AcceptedAt, Chosen
<1>15. CASE RestoreCheckpoint
  <2>1. /\ pc = "restore" /\ pc' = "restore2" /\ files'.pop = Restored(Source.pop)
        /\ UNCHANGED <<then, struck, dirs, recovery, accepted>>
    BY <1>15, DiskFacts DEF RestoreCheckpoint
  <2>2. then.source = "recovery" /\ struck # "assign" => files'.pop = dirs[recovery].pop
    <3>1. struck # "assign" => dirs[recovery].pop \in Nat
      BY DiskFacts, <2>1 DEF Chain, Intact
    <3> QED  BY <2>1, <3>1 DEF Source, Restored, Absent, Partial
  <2> QED  BY <2>1, <2>2 DEF AcceptedAt, Chosen
<1>16. CASE RestoreControls
  <2>1. /\ pc = "restore2" /\ pc' = then.pc /\ files'.pop = files.pop
        /\ UNCHANGED <<accepted, decision, pending>>
    BY <1>16, DiskFacts DEF RestoreControls
  <2>2. pc' = "decide" /\ pending = None => files.pop \in accepted
    <3>1. pc' = "decide" => ~Closing
      BY <2>1
    <3> QED  BY ControlFacts, SnapshotFacts, <2>1, <3>1 DEF AcceptedAt
  <2> QED  BY ControlFacts, <2>1, <2>2 DEF AcceptedAt, Chosen
<1>17. CASE Settle
  <2>1. /\ pc = "settle" /\ files' = files /\ accepted' = accepted /\ pc' \in {"finally", "top", "decide"}
        /\ pc' = "decide" => ~waiting /\ (pending # None => LastStep)
    BY <1>17 DEF Settle
  <2> QED  BY <2>1 DEF LastStep, AcceptedAt, Chosen
<1>18. CASE Decide
  <2>1. /\ pc = "decide" /\ files' = files /\ accepted' = accepted /\ decision' = decision
        /\ pc' \in {"top", "finally", "release", "act", "restore"}
        /\ pc' = "act" => decision.steps # << >> \/ pending' = pending
    BY <1>18, DecisionFacts DEF Decide
  <2> QED  BY <2>1 DEF AcceptedAt, Chosen
<1>19. CASE ReleaseWrite
  BY <1>19, DiskFacts, ControlFacts, DecisionFacts DEF ReleaseWrite, AcceptedAt, Chosen
<1>20. CASE ReleaseCopy
  BY <1>20, DiskFacts, ControlFacts, DecisionFacts DEF ReleaseCopy, AcceptedAt, Chosen
<1>21. CASE ReleaseDone
  BY <1>21, DiskFacts, ControlFacts, DecisionFacts DEF ReleaseDone, AcceptedAt, Chosen
<1>22. CASE ActRecord
  BY <1>22, DiskFacts, ControlFacts, DecisionFacts DEF ActRecord, AcceptedAt, Chosen
<1>23. CASE ActFiles
  <2>1. /\ pc = "act2" /\ pc' = "act3" /\ UNCHANGED <<accepted, decision, pending>>
        /\ ~decision.mutates => files' = files
    BY <1>23 DEF ActFiles
  <2> QED  BY DecisionFacts, <2>1 DEF AcceptedAt, Chosen
<1>24. CASE ActControls
  BY <1>24, DiskFacts, ControlFacts, DecisionFacts DEF ActControls, AcceptedAt, Chosen
<1>25. CASE Acted
  BY <1>25, DiskFacts, ControlFacts, DecisionFacts DEF Acted, AcceptedAt, Chosen
<1>26. CASE Cancelled
  BY <1>26, DiskFacts, ControlFacts, DecisionFacts DEF Cancelled, Unchanged, AcceptedAt, Chosen
<1>27. CASE Finally
  BY <1>27, DiskFacts, ControlFacts, DecisionFacts DEF Finally, AcceptedAt, Chosen
<1>28. CASE RolledBack
  BY <1>28, DiskFacts, ControlFacts, DecisionFacts DEF RolledBack, AcceptedAt, Chosen
<1>29. CASE Interrupt
  BY <1>29, DiskFacts, ControlFacts, DecisionFacts DEF Interrupt, AcceptedAt, Chosen
<1>30. CASE Fault
  BY <1>30, DiskFacts, ControlFacts, DecisionFacts DEF Fault, AcceptedAt, Chosen
<1>31. CASE RequestStop
  BY <1>31 DEF RequestStop, AcceptedAt, Chosen
<1>32. CASE Edit
  BY <1>32, DiskFacts, ControlFacts, DecisionFacts DEF Edit, AcceptedAt, Chosen
<1>33. CASE Done
  BY <1>33 DEF Done, AcceptedAt, Chosen
<1>34. CASE UNCHANGED vars
  BY <1>34 DEF AcceptedAt, Chosen
<1>35. CASE PlanAttempt
  BY <1>35, DiskFacts, ControlFacts, DecisionFacts DEF PlanAttempt, AcceptedAt, Chosen
<1>36. CASE JudgeSigns
  BY <1>36, DiskFacts, ControlFacts, DecisionFacts DEF JudgeSigns, AcceptedAt, Chosen
<1> QED  BY <1>1, <1>2, <1>3, <1>4, <1>5, <1>6, <1>7, <1>8, <1>9, <1>10, <1>11, <1>12, <1>13, <1>14,
            <1>15, <1>16, <1>17, <1>18, <1>19, <1>20, <1>21, <1>22, <1>23, <1>24, <1>25, <1>26,
            <1>27, <1>28, <1>29, <1>30, <1>31, <1>32, <1>33, <1>34, <1>35, <1>36 DEF Next, Controller


LEMMA ChainHolds == Spec => [](Chain /\ AcceptedAt)
<1>1. Init => Chain /\ AcceptedAt
  BY DEF Init, Chain, AcceptedAt, Split, Overwriting, Abandoned, Intact, Restoring, Capturing, Acting, Closing,
         RestoringFor, Names
<1>2. Types /\ Chosen /\ Chain /\ AcceptedAt /\ [Next]_vars => (Chain /\ AcceptedAt)'
  BY ChainStep, AcceptedAtStep
<1> QED  BY <1>1, <1>2, TypesHold, ChosenHolds, PTL DEF Spec

(* RecoveryUsable: whenever the process dies, recovery.json names a snapshot *)
(* of an accepted checkpoint, whole but for the copy of a converged run.     *)
THEOREM RecoveryAlwaysUsable == Spec => []RecoveryUsable
<1>1. Types => TypeOK
  <2> SUFFICES ASSUME Types PROVE TypeOK
    OBVIOUS
  <2>1. /\ pc \in Locations /\ status \in Statuses /\ used \in Nat /\ attempt \in 0..MaxAttempts + 1
        /\ base \in {"iterate", "verify"} /\ trend \in 0..Longest /\ waits \in 0..Longest
        /\ trial \in {"none", "open", "accepted", "rejected", "aborted"}
    BY DEF Types, ControlTypes, LoopTypes
  <2>2. pending.kind \in {"none", "action"} /\ step \in 0..4
    BY Constants DEF Types, DecisionTypes
  <2>3. /\ {files.pop, files.ctl} \subseteq Nat \cup {Missing} /\ DOMAIN dirs = Names
        /\ {recorded, recovery} \subseteq Names /\ expected \in Int /\ accepted \subseteq Nat /\ clock \in Nat
    BY DEF Types, DiskTypes
  <2> QED  BY <2>1, <2>2, <2>3 DEF TypeOK, Locations, Statuses
<1>2. Chain /\ TypeOK => RecoveryUsable
  BY DEF Chain, Intact, RecoveryUsable
<1> QED  BY <1>1, <1>2, TypesHold, ChainHolds, PTL

(* What a run leaves behind is its recovery snapshot. *)
LEMMA CoupledStep ==
    ASSUME Types, Chosen, Chain, AcceptedAt, Coupled, [Next]_vars
    PROVE  Coupled'
<1> USE DEF Acting, Capturing, Restoring, RestoringFor, CapturingFor, Closing, Steps, control, loop,
            disk, memory, world, ghosts, vars, Finish, Goto, Call, Refuse, Return, Ending, FromStep,
            Nowhere
<1>1. CASE Prepare
  BY <1>1, DiskFacts, ControlFacts, PrepareEffect DEF Coupled, Paired, Overwriting, Controls
<1>2. CASE BeginAttempt
  BY <1>2, DiskFacts, ControlFacts DEF BeginAttempt, Unchanged, Coupled, Paired, Overwriting,
       Controls
<1>3. CASE NativeEnds
  BY <1>3, DiskFacts, ControlFacts DEF NativeEnds, Coupled, Paired, Overwriting, Controls
<1>4. CASE JudgeRefuses
  BY <1>4, DiskFacts, ControlFacts DEF JudgeRefuses, Coupled, Paired, Overwriting, Controls
<1>5. CASE JudgeRecipeStop
  <2>1. /\ pc = "judge" /\ pc' = "finally" /\ status' = "stopped" /\ then' = then
        /\ pending # None /\ pending' = pending
    BY <1>5 DEF JudgeRecipeStop, NotRecipeStop
  <2> QED  BY <2>1 DEF Coupled, Paired, Overwriting, Controls
<1>6. CASE JudgeOverrun
  BY <1>6, DiskFacts, ControlFacts DEF JudgeOverrun, Accepting, Coupled, Paired, Overwriting,
       Controls
<1>7. CASE JudgeAccepts
  <2>1. /\ pc = "judge" /\ UNCHANGED <<status, step>>
        /\ \/ pc' = "settle" /\ then' = then /\ pending' # None /\ (step = Len(pending'.steps) => waiting')
           \/ pc' = "copy" /\ then'.status = "running"
    BY <1>7, AcceptsEffect DEF Rest, Carried, Alike
  <2> QED  BY <2>1 DEF Coupled, Paired, Overwriting, Controls
<1>8. CASE JudgeRejects
  BY <1>8, DiskFacts, ControlFacts DEF JudgeRejects, Accepting, Coupled, Paired, Overwriting,
       Controls
<1>9. CASE JudgeFails
  BY <1>9, DiskFacts, ControlFacts, FailsEffect, FailsMoves DEF Rest, Carried, Coupled, Paired,
       Overwriting, Controls
<1>10. CASE TrialRejected
  BY <1>10, DiskFacts, ControlFacts DEF TrialRejected, Coupled, Paired, Overwriting, Controls
<1>11. CASE CaptureCopy
  BY <1>11, DiskFacts, ControlFacts DEF CaptureCopy, Coupled, Paired, Overwriting, Controls
<1>12. CASE CaptureName
  BY <1>12, DiskFacts, ControlFacts DEF CaptureName, Coupled, Paired, Overwriting, Controls
<1>13. CASE CaptureDrop
  BY <1>13, DiskFacts, ControlFacts DEF CaptureDrop, Coupled, Paired, Overwriting, Controls
<1>14. CASE CaptureAssign
  <2>1. /\ pc = "assign" /\ pc' = then.pc /\ pc' \in {"settle", "acted"} /\ recovery' = Other(recovery)
        /\ dirs' = [dirs EXCEPT ![recovery] = Removed(Absent)] /\ then'.status = "running"
        /\ UNCHANGED <<status, struck, files, edit>>
    BY <1>14, ControlFacts DEF CaptureAssign
  <2>2. LET copy == dirs'[recovery'] IN
        copy.pop = files.pop /\ copy.set = files.set /\ (copy.ctl = files.ctl \/ edit # 0)
    BY DiskFacts, <2>1 DEF Chain
  <2>3. Paired'
    BY <2>1, <2>2 DEF Paired
  <2> QED  BY <2>1, <2>3 DEF Coupled, Paired, Overwriting, Controls
<1>15. CASE RestoreCheckpoint
  BY <1>15, DiskFacts, ControlFacts DEF RestoreCheckpoint, Coupled, Paired, Overwriting, Controls
<1>16. CASE RestoreControls
  <2>1. /\ pc = "restore2" /\ pc' = then.pc /\ then'.status = "running"
        /\ status' = (IF then.status = "running" THEN status ELSE then.status)
        /\ UNCHANGED <<struck, dirs, recovery, edit, decision, pending, accepted>>
        /\ files'.pop = files.pop /\ files'.ctl = Restored(Source.ctl) /\ files'.set = Source.set
    BY <1>16, DiskFacts DEF RestoreControls
  <2>2. status' # "succeeded"
    BY <2>1 DEF Coupled
  <2>3. CASE then.source = "recovery" /\ struck # "assign"
    <3>1. dirs[recovery].ctl >= 0 /\ files.pop = dirs[recovery].pop
      BY <2>1, <2>3 DEF Chain, Intact, Abandoned, AcceptedAt
    <3>2. Paired'
      BY <2>1, <2>3, <3>1 DEF Paired, Source, Restored, Absent, Partial
    <3> QED  BY ControlFacts, <2>1, <2>2, <3>2 DEF Coupled, Paired, Overwriting, Controls
  <2>4. CASE then.source = "recovery" /\ struck = "assign"
    <3>1. Closing
      BY <2>4 DEF Chain
    <3> QED  BY ControlFacts, <2>1, <2>2, <2>4, <3>1 DEF Coupled, Paired, Overwriting, Controls
  <2>5. CASE then.source = "working"
    BY ControlFacts, <2>1, <2>2, <2>5 DEF Coupled, Paired, Overwriting, Controls
  <2> QED  BY ControlFacts, <2>3, <2>4, <2>5
<1>17. CASE Settle
  <2>1. /\ pc = "settle" /\ UNCHANGED <<then, files, dirs, recovery, edit, struck>>
        /\ \/ pc' = "finally" /\ status' # "succeeded" /\ pending' = pending
           \/ pc' = "top" /\ status' = status /\ pending' = pending
           \/ pc' \in {"top", "decide"} /\ status' = status /\ ~waiting /\ (pending # None /\ pending' = None => LastStep)
    BY <1>17 DEF Settle
  <2>2. Paired' <=> Paired
    BY <2>1 DEF Paired
  <2>3. CASE pending' = None
    <3>1. Paired
      BY <2>1, <2>3 DEF Coupled, LastStep
    <3> QED  BY <2>1, <2>2, <3>1 DEF Coupled, Paired, Overwriting, Controls
  <2>4. CASE pending' # None
    <3>1. pc' # "decide"
      BY <1>17, <2>4 DEF Settle
    <3> QED  BY <2>1, <2>4, <3>1 DEF Coupled, Paired, Overwriting, Controls
  <2> QED  BY <2>3, <2>4
<1>18. CASE Decide
  <2>1. /\ pc = "decide" /\ UNCHANGED <<files, dirs, recovery, edit, struck, starting, decision>>
        /\ then' = then \/ then'.status = "limit_reached"
    BY <1>18, DecisionFacts DEF Decide
  <2>2. Paired' <=> Paired
    BY <2>1 DEF Paired
  <2>3. status # "succeeded" /\ then'.status # "succeeded"
    BY <2>1 DEF Coupled
  <2>4. CASE decision.kind \in {"continue", "stop"}
    <3>1. ~decision.retain
      <4>1. decision.kind \notin {"invalid", "action"}
        BY <2>4
      <4>2. decision.steps = << >>
        BY DecisionFacts, <4>1
      <4> QED  BY DecisionFacts, <4>1, <4>2, Zenon
    <3>2. pending = None => Paired
      BY <2>1, <3>1 DEF Coupled
    <3>3. pc' \in {"top", "finally"} /\ pending' = pending /\ status' # "succeeded"
      BY <1>18, <2>3, <2>4 DEF Decide
    <3> QED  BY <2>2, <2>3, <3>2, <3>3 DEF Coupled, Paired, Overwriting, Controls
  <2>5. CASE decision.kind = "invalid"
    <3>1. pc' = "finally" /\ review' = TRUE /\ status' = "needs_review"
      BY <1>18, <2>5 DEF Decide
    <3> QED  BY <2>3, <3>1 DEF Coupled, Paired, Overwriting, Controls
  <2>6. CASE decision.kind = "converged"
    <3>1. pending = None /\ ~decision.retain
      <4>1. decision.kind \notin {"invalid", "action"}
        BY <2>6
      <4>2. decision.steps = << >>
        BY DecisionFacts, <4>1
      <4>3. ~decision.retain
        BY DecisionFacts, <4>1, <4>2, Zenon
      <4>4. pending = None
        BY <2>1, <2>6 DEF Chosen
      <4> QED  BY <4>3, <4>4
    <3>2. Paired
      BY <2>1, <3>1 DEF Coupled
    <3>3. /\ pending' = pending
          /\ \/ pc' = "finally" /\ status' = "needs_review"
             \/ pc' = "finally" /\ Controls.N_FIX_BA = starting.N_FIX_BA
             \/ pc' = "release" /\ status' = status
      BY <1>18, <2>6 DEF Decide
    <3>4. Controls' = Controls
      BY <2>1 DEF Controls
    <3> QED  BY <2>1, <2>2, <2>3, <3>1, <3>2, <3>3, <3>4 DEF Coupled, Overwriting, Paired
  <2>7. CASE decision.kind = "action"
    <3>1. /\ \/ pc' = "finally" /\ review' = TRUE
             \/ pc' = "finally" /\ pending' = pending /\ (decision.batch > Remaining \/ ~decision.retain)
             \/ pc' \in {"restore", "act"}
          /\ status' # "succeeded"
      BY <1>18, <2>3, <2>7 DEF Decide
    <3>2. decision.retain => ~(decision.batch > Remaining)
      <4> SUFFICES ASSUME decision.retain PROVE ~(decision.batch > Remaining)
        OBVIOUS
      <4>1. decision.batch = 0
        BY Zenon DEF Types, DecisionTypes, Sound
      <4>2. Remaining \in Int /\ Remaining >= 0
        BY <2>1, BudgetAssumption DEF Types, LoopTypes, Remaining
      <4> HIDE DEF Closing
      <4> QED  BY <4>1, <4>2
    <3> QED  BY <2>1, <2>2, <2>3, <3>1, <3>2 DEF Coupled, Paired, Overwriting, Controls
  <2> QED  BY DecisionFacts, <2>4, <2>5, <2>6, <2>7
<1>19. CASE ReleaseWrite
  <2>1. /\ pc = "release" /\ pc' = "release2" /\ UNCHANGED <<then, status, dirs, recovery, starting>>
        /\ files'.pop = files.pop /\ files'.set = With(files.set, [N_FIX_BA |-> starting.N_FIX_BA])
    BY <1>19, DiskFacts DEF ReleaseWrite
  <2>2. Controls'.N_FIX_BA = starting'.N_FIX_BA
    <3>1. "N_FIX_BA" \in DOMAIN starting
      BY ModelAssumption DEF Types, LoopTypes
    <3>2. /\ "N_FIX_BA" \in DOMAIN files'.set
          /\ files'.set["N_FIX_BA"] = starting.N_FIX_BA
      BY <2>1 DEF With
    <3>3. Controls' = With(starting, files'.set)
      BY <2>1 DEF Controls
    <3> QED  BY <2>1, <3>1, <3>2, <3>3 DEF With
  <2>3. files'.pop = dirs[recovery].pop
    BY <2>1 DEF Coupled, Overwriting
  <2> QED  BY <2>1, <2>2, <2>3 DEF Coupled, Overwriting
<1>20. CASE ReleaseCopy
  BY <1>20, DiskFacts, ControlFacts DEF ReleaseCopy, Coupled, Paired, Overwriting, Controls
<1>21. CASE ReleaseDone
  <2>1. /\ pc = "release3" /\ pc' = "finally" /\ UNCHANGED <<then, files, recovery, starting, pending, edit>>
        /\ dirs' = [dirs EXCEPT ![recovery].ctl = files.ctl, ![recovery].set = files.set]
    BY <1>21 DEF ReleaseDone
  <2>2. /\ dirs'[recovery].ctl = files.ctl /\ dirs'[recovery].set = files.set
        /\ dirs'[recovery].pop = dirs[recovery].pop
    BY DiskFacts, <2>1
  <2>3. Paired'
    BY <2>1, <2>2 DEF Coupled, Overwriting, Paired
  <2>4. pending' = None /\ Controls'.N_FIX_BA = starting'.N_FIX_BA
    BY <2>1 DEF Coupled, Chain, Overwriting, Controls
  <2> QED  BY <2>1, <2>3, <2>4 DEF Coupled, Overwriting
<1>22. CASE ActRecord
  BY <1>22, DiskFacts, ControlFacts DEF ActRecord, Coupled, Paired, Overwriting, Controls
<1>23. CASE ActFiles
  BY <1>23, DiskFacts, ControlFacts DEF ActFiles, Coupled, Paired, Overwriting, Controls
<1>24. CASE ActControls
  <2>1. /\ pc = "act3" /\ status' = status /\ pending' = pending
        /\ \/ pc' = "copy" /\ then'.status = "running"
           \/ pc' = "acted" /\ then' = then /\ (decision.steps # << >> \/ pending # None)
    BY <1>24 DEF ActControls
  <2>2. pc' = "acted" => pending # None
    <3>1. decision.steps = << >> \/ decision = pending
      BY <2>1 DEF Chosen
    <3>2. decision.kind = "action" /\ None.kind = "none"
      BY <2>1, Constants DEF Chosen
    <3> QED  BY <2>1, <3>1, <3>2
  <2> QED  BY <2>1, <2>2 DEF Coupled, Paired, Overwriting, Controls
<1>25. CASE Acted
  BY <1>25, DiskFacts, ControlFacts DEF Acted, Coupled, Paired, Overwriting, Controls
<1>26. CASE Cancelled
  BY <1>26, DiskFacts, ControlFacts DEF Cancelled, Unchanged, Coupled, Paired, Overwriting,
       Controls
<1>27. CASE Finally
  <2>1. /\ pc = "finally" /\ UNCHANGED <<status, files, dirs, recovery, edit, struck, pending, starting, accepted>>
        /\ \/ pc' = "done" /\ pending = None /\ UNCHANGED <<then, review>>
           \/ pc' = "done" /\ review' = TRUE /\ then' = then /\ pending # None
           \/ pc' = "restore" /\ then'.status = "running" /\ pending # None
    BY <1>27 DEF Finally
  <2>2. (Paired' <=> Paired) /\ Controls' = Controls
    BY <2>1 DEF Paired, Controls
  <2>3. struck # "assign" => dirs[recovery].pop \in accepted
    BY <2>1 DEF Chain, Intact
  <2>4. CASE pc' = "done" /\ pending = None /\ UNCHANGED <<then, review>>
    <3>1. ~review /\ struck # "assign" => Paired /\ files.pop \in accepted
      BY <2>1, <2>3, <2>4 DEF Coupled, Paired
    <3> QED  BY <2>1, <2>2, <2>4, <3>1 DEF Coupled, Overwriting
  <2>5. CASE pc' = "done" /\ review' = TRUE /\ then' = then /\ pending # None
    BY <2>1, <2>2, <2>5 DEF Coupled, Overwriting
  <2>6. CASE pc' = "restore" /\ then'.status = "running" /\ pending # None
    BY <2>1, <2>2, <2>6 DEF Coupled, Overwriting
  <2> QED  BY <2>1, <2>4, <2>5, <2>6
<1>28. CASE RolledBack
  <2>1. /\ pc = "rolled" /\ pc' = "done" /\ UNCHANGED <<then, status, files, dirs, recovery, edit, struck, pending, starting, accepted>>
    BY <1>28 DEF RolledBack
  <2>2. struck # "assign" => dirs[recovery].pop \in accepted
    BY <2>1 DEF Chain, Intact
  <2>3. struck # "assign" => Paired' /\ files'.pop \in accepted'
    BY <2>1, <2>2 DEF Coupled, Paired
  <2> QED  BY <2>1, <2>3 DEF Coupled, Overwriting
<1>29. CASE Interrupt
  BY <1>29, DiskFacts, ControlFacts DEF Interrupt, Coupled, Paired, Overwriting, Controls
<1>30. CASE Fault
  BY <1>30, DiskFacts, ControlFacts DEF Fault, Coupled, Paired, Overwriting, Controls
<1>31. CASE RequestStop
  BY <1>31 DEF RequestStop, Coupled, Paired, Overwriting, Controls
<1>32. CASE Edit
  BY <1>32, DiskFacts, ControlFacts DEF Edit, Coupled, Paired, Overwriting, Controls
<1>33. CASE Done
  BY <1>33 DEF Done, Coupled, Paired, Overwriting, Controls
<1>34. CASE UNCHANGED vars
  BY <1>34 DEF Coupled, Paired, Overwriting, Controls
<1>35. CASE PlanAttempt
  BY <1>35, DiskFacts, ControlFacts DEF PlanAttempt, Coupled, Paired, Overwriting, Controls
<1>36. CASE JudgeSigns
  BY <1>36, DiskFacts, ControlFacts DEF JudgeSigns, Coupled, Paired, Overwriting, Controls
<1> QED  BY <1>1, <1>2, <1>3, <1>4, <1>5, <1>6, <1>7, <1>8, <1>9, <1>10, <1>11, <1>12, <1>13, <1>14,
            <1>15, <1>16, <1>17, <1>18, <1>19, <1>20, <1>21, <1>22, <1>23, <1>24, <1>25, <1>26,
            <1>27, <1>28, <1>29, <1>30, <1>31, <1>32, <1>33, <1>34, <1>35, <1>36 DEF Next, Controller


LEMMA CoupledHolds == Spec => []Coupled
<1>1. Init => Coupled
  BY DEF Init, Coupled, Paired, Overwriting, Nowhere, Return, Names
<1>2. Types /\ Chosen /\ Chain /\ AcceptedAt /\ Coupled /\ [Next]_vars => Coupled'
  BY CoupledStep
<1> QED  BY <1>1, <1>2, TypesHold, ChosenHolds, ChainHolds, PTL DEF Spec

(* EndedCoupled: a run that ends without leaving files for review holds an   *)
(* accepted checkpoint together with the controls saved with it.             *)
THEOREM EndsCoupled == Spec => []EndedCoupled
<1>1. Coupled => EndedCoupled
  BY DEF Coupled, Paired, EndedCoupled
<1> QED  BY <1>1, CoupledHolds, PTL

(* Caches stay beside their checkpoint, or are retired. *)
LEMMA CachesStep ==
    ASSUME Types, Chosen, CachesInv, [Next]_vars
    PROVE  CachesInv'
<1> USE DEF Acting, Capturing, Restoring, RestoringFor, CapturingFor, Closing, Steps, control, loop,
            disk, memory, world, ghosts, vars, Finish, Goto, Call, Refuse, Return, Ending, FromStep,
            Nowhere
<1>1. CASE Prepare
  BY <1>1, ControlFacts, PrepareEffect DEF CachesInv, Matching, Good
<1>2. CASE BeginAttempt
  BY <1>2, ControlFacts DEF BeginAttempt, Unchanged, CachesInv, Matching, Good
<1>3. CASE NativeEnds
  <2>1. /\ pc' = "judge" /\ caches' = [c \in AllCaches |-> clock + 1]
    BY <1>3, NativeEffect
  <2>0. PICK result \in {"succeeded", "stopped", "failed", "timeout", "cancelled"}, saved \in BOOLEAN,
             change \in {"none", "native", "unexplained"}, own \in {0, clock + 2} :
            SolverLeaves(result, saved, change, own)
    BY <1>3, NativeEffect, Zenon
  <2>2. /\ native' = [native EXCEPT !.status = result, !.ctl = own, !.saved = saved]
        /\ saved \in BOOLEAN
        /\ files' = [pop |-> IF saved THEN clock + 1 ELSE files.pop,
                     ctl |-> IF change = "none" THEN files.ctl ELSE clock + 2,
                     set |-> IF change = "native" THEN Performed(files.set) ELSE files.set]
        /\ result \in {"succeeded", "stopped"} => saved
    BY <2>0, Zenon DEF SolverLeaves
  <2>3. native'.status = result /\ native'.saved = saved
    BY <2>2 DEF Types, LoopTypes
  <2>4. saved => Matching'
    BY <2>1, <2>2 DEF Matching
  <2>5. (native'.saved => Matching') /\ (Good' => native'.saved)
    BY <2>2, <2>3, <2>4, Zenon DEF Good
  <2> QED  BY <2>1, <2>5 DEF CachesInv
<1>4. CASE JudgeRefuses
  BY <1>4, ControlFacts DEF JudgeRefuses, CachesInv, Matching, Good
<1>5. CASE JudgeRecipeStop
  BY <1>5, ControlFacts DEF JudgeRecipeStop, CachesInv, Matching, Good
<1>6. CASE JudgeOverrun
  BY <1>6, ControlFacts DEF JudgeOverrun, Accepting, CachesInv, Matching, Good
<1>7. CASE JudgeAccepts
  <2>1. Matching
    <3>1. pc = "judge" /\ Good
      BY <1>7, AcceptsEffect
    <3> QED  BY <3>1 DEF CachesInv
  <2>2. pc' \in {"settle", "copy"} /\ UNCHANGED <<files, caches>>
    BY <1>7, AcceptsEffect DEF Rest
  <2> QED  BY <2>1, <2>2 DEF CachesInv, Matching
<1>8. CASE JudgeRejects
  BY <1>8, ControlFacts DEF JudgeRejects, Accepting, CachesInv, Matching, Good
<1>9. CASE JudgeFails
  <2>1. pc = "judge" /\ pc' \in {"finally", "restore", "decide"} /\ UNCHANGED <<files, caches>>
    BY <1>9, FailsEffect, FailsMoves DEF Rest
  <2>2. pc' = "decide" => native.saved
    BY <1>9, FailsMoves, Zenon
  <2>3. pc' = "decide" => Matching
    BY <2>1, <2>2 DEF CachesInv
  <2> QED  BY <2>1, <2>3 DEF CachesInv, Matching
<1>10. CASE TrialRejected
  BY <1>10, ControlFacts DEF TrialRejected, CachesInv, Matching, Good
<1>11. CASE CaptureCopy
  BY <1>11, ControlFacts DEF CaptureCopy, CachesInv, Matching, Good
<1>12. CASE CaptureName
  BY <1>12, ControlFacts DEF CaptureName, CachesInv, Matching, Good
<1>13. CASE CaptureDrop
  BY <1>13, ControlFacts DEF CaptureDrop, CachesInv, Matching, Good
<1>14. CASE CaptureAssign
  BY <1>14, ControlFacts DEF CaptureAssign, CachesInv, Matching, Good
<1>15. CASE RestoreCheckpoint
  BY <1>15, ControlFacts DEF RestoreCheckpoint, CachesInv, Matching, Good
<1>16. CASE RestoreControls
  <2>1. pc' \in {"finally", "rejected", "decide", "rolled"} /\ caches' = [c \in AllCaches |-> Absent]
    BY <1>16, ControlFacts DEF RestoreControls, Retired
  <2> QED  BY <2>1 DEF CachesInv, Matching
<1>17. CASE Settle
  <2>1. pc = "settle" /\ pc' \in {"finally", "top", "decide"} /\ UNCHANGED <<files, caches>>
    BY <1>17 DEF Settle
  <2> QED  BY <2>1 DEF CachesInv, Matching
<1>18. CASE Decide
  <2>1. pc = "decide" /\ pc' \in {"top", "finally", "release", "act", "restore"} /\ UNCHANGED <<files, caches>>
    BY <1>18, DecisionFacts DEF Decide
  <2> QED  BY <2>1 DEF CachesInv, Matching
<1>19. CASE ReleaseWrite
  BY <1>19, ControlFacts DEF ReleaseWrite, CachesInv, Matching, Good
<1>20. CASE ReleaseCopy
  BY <1>20, ControlFacts DEF ReleaseCopy, CachesInv, Matching, Good
<1>21. CASE ReleaseDone
  BY <1>21, ControlFacts DEF ReleaseDone, CachesInv, Matching, Good
<1>22. CASE ActRecord
  BY <1>22, ControlFacts DEF ActRecord, CachesInv, Matching, Good
<1>23. CASE ActFiles
  <2>1. pc = "act2" /\ pc' = "act3" /\ caches' = [c \in AllCaches |-> IF c \in decision.caches THEN Absent ELSE caches[c]]
    BY <1>23 DEF ActFiles
  <2>2. CASE decision.mutates
    <3>1. decision.caches = AllCaches
      BY <2>2 DEF Types, DecisionTypes, Sound
    <3> QED  BY <2>1, <3>1 DEF CachesInv, Matching
  <2>3. CASE ~decision.mutates
    <3>1. files' = files
      BY <1>23, <2>3 DEF ActFiles
    <3> QED  BY <2>1, <3>1 DEF CachesInv, Matching
  <2> QED  BY <2>2, <2>3
<1>24. CASE ActControls
  <2>1. pc = "act3" /\ pc' \in {"copy", "acted"} /\ files'.pop = files.pop /\ caches' = caches
    BY <1>24, DiskFacts DEF ActControls
  <2> QED  BY <2>1 DEF CachesInv, Matching
<1>25. CASE Acted
  BY <1>25, ControlFacts DEF Acted, CachesInv, Matching, Good
<1>26. CASE Cancelled
  BY <1>26, ControlFacts DEF Cancelled, Unchanged, CachesInv, Matching, Good
<1>27. CASE Finally
  BY <1>27, ControlFacts DEF Finally, CachesInv, Matching, Good
<1>28. CASE RolledBack
  BY <1>28, ControlFacts DEF RolledBack, CachesInv, Matching, Good
<1>29. CASE Interrupt
  BY <1>29, ControlFacts DEF Interrupt, CachesInv, Matching, Good
<1>30. CASE Fault
  BY <1>30, ControlFacts DEF Fault, CachesInv, Matching, Good
<1>31. CASE RequestStop
  BY <1>31 DEF RequestStop, CachesInv, Matching, Good
<1>32. CASE Edit
  <2>1. pc' = pc /\ files'.pop = files.pop /\ caches' = caches /\ native' = native
    BY <1>32, DiskFacts DEF Edit
  <2> QED  BY <2>1 DEF CachesInv, Matching, Good
<1>33. CASE Done
  BY <1>33 DEF Done, CachesInv, Matching, Good
<1>34. CASE UNCHANGED vars
  BY <1>34 DEF CachesInv, Matching, Good
<1>35. CASE PlanAttempt
  BY <1>35, ControlFacts DEF PlanAttempt, CachesInv, Matching, Good
<1>36. CASE JudgeSigns
  <2>1. /\ UNCHANGED <<pc, files, caches>> /\ pc = "judge"
        /\ native'.saved = native.saved /\ native'.status = native.status
    BY <1>36 DEF JudgeSigns, Types, LoopTypes
  <2> QED  BY <2>1 DEF CachesInv, Matching, Good
<1> QED  BY <1>1, <1>2, <1>3, <1>4, <1>5, <1>6, <1>7, <1>8, <1>9, <1>10, <1>11, <1>12, <1>13, <1>14,
            <1>15, <1>16, <1>17, <1>18, <1>19, <1>20, <1>21, <1>22, <1>23, <1>24, <1>25, <1>26,
            <1>27, <1>28, <1>29, <1>30, <1>31, <1>32, <1>33, <1>34, <1>35, <1>36 DEF Next, Controller

(* Every control the verification is left with keeps its matrices fresh. *)
LEMMA FreshStep ==
    ASSUME Types, Chosen, Chain, Coupled, FreshInv, [Next]_vars
    PROVE  FreshInv'
<1> USE DEF Acting, Capturing, Restoring, RestoringFor, CapturingFor, Closing, Steps, control, loop,
            disk, memory, world, ghosts, vars, Finish, Goto, Call, Refuse, Return, Ending, FromStep,
            Nowhere
<1>1. CASE Prepare
  BY <1>1, ControlFacts, PrepareEffect DEF FreshInv, Overwriting
<1>2. CASE BeginAttempt
  BY <1>2, ControlFacts DEF BeginAttempt, Unchanged, FreshInv, Overwriting
<1>3. CASE NativeEnds
  <2>1. pc = "native" /\ pc' = "judge" /\ UNCHANGED <<base, pending, then, dirs, recovery, decision>>
    BY <1>3, NativeEffect
  <2>2. Zero(files.set) => Zero(files'.set)
    <3>0. PICK result \in {"succeeded", "stopped", "failed", "timeout", "cancelled"}, saved \in BOOLEAN,
               change \in {"none", "native", "unexplained"}, own \in {0, clock + 2} :
              SolverLeaves(result, saved, change, own)
      BY <1>3, NativeEffect, Zenon
    <3>1. files' = [pop |-> IF saved THEN clock + 1 ELSE files.pop,
                    ctl |-> IF change = "none" THEN files.ctl ELSE clock + 2,
                    set |-> IF change = "native" THEN Performed(files.set) ELSE files.set]
      BY <3>0 DEF SolverLeaves
    <3>2. Zero(files.set) => Zero(Performed(files.set))
      BY DEF Performed, With, Zero
    <3> QED  BY <3>1, <3>2
  <2> QED  BY <2>1, <2>2 DEF FreshInv, Overwriting
<1>4. CASE JudgeRefuses
  BY <1>4, ControlFacts DEF JudgeRefuses, FreshInv, Overwriting
<1>5. CASE JudgeRecipeStop
  BY <1>5, ControlFacts DEF JudgeRecipeStop, FreshInv, Overwriting
<1>6. CASE JudgeOverrun
  BY <1>6, ControlFacts DEF JudgeOverrun, Accepting, FreshInv, Overwriting
<1>7. CASE JudgeAccepts
  <2>1. /\ pc = "judge" /\ UNCHANGED <<base, files, dirs, recovery>> /\ (pending' = None <=> pending = None)
        /\ \/ pc' = "settle"
           \/ pc' = "copy" /\ then'.pc = "settle"
    BY <1>7, AcceptsEffect DEF Rest, Carried
  <2> QED  BY <2>1 DEF FreshInv, Overwriting
<1>8. CASE JudgeRejects
  BY <1>8, ControlFacts DEF JudgeRejects, Accepting, FreshInv, Overwriting
<1>9. CASE JudgeFails
  <2>1. /\ pc = "judge" /\ UNCHANGED <<base, files, dirs, recovery>> /\ (pending' = None <=> pending = None)
        /\ pc' \in {"finally", "restore", "decide"}
    BY <1>9, FailsEffect, FailsMoves DEF Rest, Carried
  <2> QED  BY <2>1 DEF FreshInv, Overwriting
<1>10. CASE TrialRejected
  BY <1>10, ControlFacts DEF TrialRejected, FreshInv, Overwriting
<1>11. CASE CaptureCopy
  <2>1. /\ pc = "copy" /\ pc' = "name" /\ UNCHANGED <<base, pending, then, files, recovery, decision>>
        /\ dirs'[recovery] = dirs[recovery]
    BY <1>11, DiskFacts DEF CaptureCopy
  <2> QED  BY <2>1 DEF FreshInv, Overwriting
<1>12. CASE CaptureName
  BY <1>12, ControlFacts DEF CaptureName, FreshInv, Overwriting
<1>13. CASE CaptureDrop
  <2>1. /\ pc = "drop" /\ pc' = "assign" /\ UNCHANGED <<base, pending, then, files, recovery, decision>>
    BY <1>13 DEF CaptureDrop
  <2> QED  BY <2>1 DEF FreshInv, Overwriting
<1>14. CASE CaptureAssign
  <2>1. /\ pc = "assign" /\ pc' = then.pc /\ pc' \in {"settle", "acted"} /\ recovery' = Other(recovery)
        /\ dirs' = [dirs EXCEPT ![recovery] = Removed(Absent)]
        /\ UNCHANGED <<base, pending, files, decision>>
    BY <1>14, ControlFacts DEF CaptureAssign
  <2>2. dirs'[recovery'].set = files.set
    BY DiskFacts, <2>1 DEF Chain
  <2> QED  BY <2>1, <2>2 DEF FreshInv, Overwriting
<1>15. CASE RestoreCheckpoint
  BY <1>15, ControlFacts DEF RestoreCheckpoint, FreshInv, Overwriting
<1>16. CASE RestoreControls
  <2>1. /\ pc = "restore2" /\ pc' = then.pc /\ pc' \in {"finally", "rejected", "decide", "rolled"}
        /\ UNCHANGED <<base, dirs, recovery, decision, pending>> /\ files'.set = Source.set
    BY <1>16, DiskFacts, ControlFacts DEF RestoreControls
  <2>2. pending = None => Source.set = dirs[recovery].set
    BY ControlFacts, <2>1 DEF Source
  <2> QED  BY ControlFacts, <2>1, <2>2 DEF FreshInv, Overwriting
<1>17. CASE Settle
  <2>1. /\ pc = "settle" /\ UNCHANGED <<files, dirs, recovery>> /\ pc' \in {"finally", "top", "decide"}
        /\ (UNCHANGED <<base, pending>> \/ base' = "iterate" \/ pending' # None)
        /\ pending = None => base' = base
    BY <1>17 DEF Settle
  <2> QED  BY <2>1 DEF FreshInv, Overwriting
<1>18. CASE Decide
  <2>1. /\ pc = "decide" /\ UNCHANGED <<files, dirs, recovery, base>>
        /\ pc' \in {"top", "finally", "release", "act", "restore"}
    BY <1>18, DecisionFacts DEF Decide
  <2>2. pending' = pending \/ pending' # None
    <3>1. pending' = pending \/ (decision.kind = "action" /\ pending' = decision)
      BY <1>18, DecisionFacts DEF Decide
    <3> QED  BY <3>1, Constants
  <2> QED  BY <2>1, <2>2 DEF FreshInv, Overwriting
<1>19. CASE ReleaseWrite
  BY <1>19, ControlFacts DEF ReleaseWrite, FreshInv, Overwriting
<1>20. CASE ReleaseCopy
  BY <1>20, ControlFacts DEF ReleaseCopy, FreshInv, Overwriting
<1>21. CASE ReleaseDone
  BY <1>21, ControlFacts DEF ReleaseDone, FreshInv, Overwriting
<1>22. CASE ActRecord
  BY <1>22, ControlFacts DEF ActRecord, FreshInv, Overwriting
<1>23. CASE ActFiles
  BY <1>23, ControlFacts DEF ActFiles, FreshInv, Overwriting
<1>24. CASE ActControls
  <2>1. /\ pc = "act3" /\ UNCHANGED <<base, pending, dirs, recovery, decision>>
        /\ \/ pc' = "copy" /\ then'.pc = "acted"
           \/ pc' = "acted"
    BY <1>24 DEF ActControls
  <2>2. decision.next = "verify" => Zero(files'.set)
    <3> SUFFICES ASSUME decision.next = "verify" PROVE Zero(files'.set)
      OBVIOUS
    <3>1. "N_FIX_BA" \in DOMAIN decision.set /\ decision.set["N_FIX_BA"] = 0
      BY DEF Types, DecisionTypes, Sound
    <3>2. files'.set = With(files.set, decision.set)
      BY <1>24, DiskFacts, <3>1 DEF ActControls
    <3> QED  BY <3>1, <3>2 DEF With, Zero
  <2> QED  BY <2>1, <2>2 DEF FreshInv, Overwriting
<1>25. CASE Acted
  <2>1. /\ pc = "acted" /\ pc' = "top" /\ UNCHANGED <<pending, files, dirs, recovery>>
        /\ base' = (IF Steps = << >> THEN decision.next ELSE base)
    BY <1>25 DEF Acted
  <2>2. pending = None => Steps = << >>
    <3>1. decision.kind = "action" /\ (Steps = << >> \/ decision = pending)
      BY <2>1 DEF Chosen
    <3> QED  BY <3>1, Constants
  <2>3. pending = None => files.set = dirs[recovery].set
    BY <2>1 DEF Coupled, Paired
  <2> QED  BY <2>1, <2>2, <2>3 DEF FreshInv, Overwriting
<1>26. CASE Cancelled
  BY <1>26, ControlFacts DEF Cancelled, Unchanged, FreshInv, Overwriting
<1>27. CASE Finally
  BY <1>27, ControlFacts DEF Finally, FreshInv, Overwriting
<1>28. CASE RolledBack
  BY <1>28, ControlFacts DEF RolledBack, FreshInv, Overwriting
<1>29. CASE Interrupt
  BY <1>29, ControlFacts DEF Interrupt, FreshInv, Overwriting
<1>30. CASE Fault
  BY <1>30, ControlFacts DEF Fault, FreshInv, Overwriting
<1>31. CASE RequestStop
  BY <1>31 DEF RequestStop, FreshInv, Overwriting
<1>32. CASE Edit
  <2>1. UNCHANGED <<pc, base, pending, then, dirs, recovery, decision>> /\ files'.set = files.set
    BY <1>32, DiskFacts DEF Edit
  <2> QED  BY <2>1 DEF FreshInv, Overwriting
<1>33. CASE Done
  BY <1>33 DEF Done, FreshInv, Overwriting
<1>34. CASE UNCHANGED vars
  BY <1>34 DEF FreshInv, Overwriting
<1>35. CASE PlanAttempt
  BY <1>35, ControlFacts DEF PlanAttempt, FreshInv, Overwriting
<1>36. CASE JudgeSigns
  BY <1>36, ControlFacts DEF JudgeSigns, FreshInv, Overwriting
<1> QED  BY <1>1, <1>2, <1>3, <1>4, <1>5, <1>6, <1>7, <1>8, <1>9, <1>10, <1>11, <1>12, <1>13, <1>14,
            <1>15, <1>16, <1>17, <1>18, <1>19, <1>20, <1>21, <1>22, <1>23, <1>24, <1>25, <1>26,
            <1>27, <1>28, <1>29, <1>30, <1>31, <1>32, <1>33, <1>34, <1>35, <1>36 DEF Next, Controller


(* The counters, and the rest of a recipe that is under way. *)
LEMMA BudgetFacts ==
    ASSUME Types
    PROVE  /\ used \in Nat /\ MaxIterations \in Nat /\ attempt \in Int /\ MaxAttempts \in Nat /\ step \in Int
           /\ ~Closing => used <= MaxIterations
BY BudgetAssumption DEF Types, LoopTypes, DecisionTypes

LEMMA RecipeFacts ==
    ASSUME Types, pending # None
    PROVE  /\ step \in 1..Len(pending.steps) /\ Len(pending.steps) \in Nat
           /\ Requested(pending.steps, step) \in Nat /\ Requested(pending.steps, step + 1) \in Nat
           /\ PendingStep.iters \in Nat
           /\ Requested(pending.steps, step) = PendingStep.iters + Requested(pending.steps, step + 1)
<1>1. Recipe(pending.steps) /\ step \in 1..Len(pending.steps)
  BY DEF Types, DecisionTypes, Sound
<1>2. Len(pending.steps) \in Nat /\ PendingStep.iters \in Nat
  BY <1>1 DEF Recipe, PendingStep
<1>3. step \in 1..Len(pending.steps) + 1 /\ step + 1 \in 1..Len(pending.steps) + 1
  BY <1>1, <1>2
<1>4. /\ Requested(pending.steps, step) \in Nat /\ Requested(pending.steps, step + 1) \in Nat
      /\ Requested(pending.steps, step) = pending.steps[step].iters + Requested(pending.steps, step + 1)
  BY <1>1, <1>3, RequestedSteps
<1> QED  BY <1>1, <1>2, <1>4 DEF PendingStep

(* A recipe that nothing prolonged is paid for to its end. *)
LEMMA BudgetStep ==
    ASSUME Types, Chosen, BudgetInv, [Next]_vars
    PROVE  BudgetInv'
<1> USE DEF Acting, Capturing, Restoring, RestoringFor, CapturingFor, Closing, Steps, control, loop,
            disk, memory, world, ghosts, vars, Finish, Goto, Call, Refuse, Return, Ending, FromStep,
            Nowhere
<1>1. CASE Prepare
  BY <1>1, ControlFacts, PrepareEffect DEF BudgetInv, LeftFrom, Remaining
<1>2. CASE BeginAttempt
  <2>1. /\ pc = "top" /\ UNCHANGED <<used, attempt, pending, step, strayed, then, waiting>>
        /\ \/ pc' = "finally" /\ status' # "limit_reached"
           \/ /\ pc' = "finally"
              /\ attempt > MaxAttempts \/ Remaining < Minimum \/ MaxAttempts - attempt + 1 < AttemptsNeeded
           \/ pc' = "plan" /\ status' = status
    BY <1>2 DEF BeginAttempt
  <2>2. pending # None /\ ~strayed =>
            /\ LeftFrom(step) /\ Requested(pending.steps, step) <= Remaining
            /\ MaxAttempts - attempt >= Len(pending.steps) - step
            /\ Minimum = Requested(pending.steps, step) /\ AttemptsNeeded = Len(pending.steps) - step + 1
    BY <2>1 DEF BudgetInv, LeftFrom, Minimum, AttemptsNeeded
  <2>3. pending # None /\ ~strayed =>
            ~(attempt > MaxAttempts \/ Remaining < Minimum \/ MaxAttempts - attempt + 1 < AttemptsNeeded)
    BY BudgetFacts, RecipeFacts, <2>2 DEF Remaining
  <2>5. pending' # None /\ ~strayed' => LeftFrom(step)'
    BY <2>1, <2>2 DEF LeftFrom, Remaining
  <2>6. then.status # "limit_reached" /\ status # "limit_reached"
    BY <2>1 DEF BudgetInv
  <2> QED  BY <2>1, <2>2, <2>3, <2>5, <2>6 DEF BudgetInv
<1>3. CASE NativeEnds
  BY <1>3, ControlFacts DEF NativeEnds, BudgetInv, LeftFrom, Remaining
<1>4. CASE JudgeRefuses
  BY <1>4, ControlFacts DEF JudgeRefuses, BudgetInv, LeftFrom, Remaining
<1>5. CASE JudgeRecipeStop
  BY <1>5, ControlFacts DEF JudgeRecipeStop, BudgetInv, LeftFrom, Remaining
<1>6. CASE JudgeOverrun
  <2>1. /\ pc = "judge" /\ pc' = "restore" /\ then'.pc = "finally" /\ strayed' = TRUE /\ status' = status
    BY <1>6 DEF JudgeOverrun, Accepting
  <2> QED  BY <2>1 DEF BudgetInv
<1>7. CASE JudgeAccepts
  <2>0. Counted /\ (waiting' => strayed')
    BY <1>7, AcceptsEffect, Zenon
  <2>1. /\ pc = "judge" /\ UNCHANGED <<step, attempt, status>>
        /\ pending = None => pending' = None
        /\ pending # None => pending' # None /\ pending'.steps = pending.steps
        /\ \/ pc' = "settle" /\ then' = then
           \/ pc' = "copy" /\ then'.status = "running"
    BY <1>7, AcceptsEffect DEF Rest, Carried, Alike
  <2>2. pending' # None /\ ~strayed' => LeftFrom(step + 1)' /\ MaxAttempts - attempt >= Len(pending.steps) - step
    <3> SUFFICES ASSUME pending' # None, ~strayed'
                 PROVE  LeftFrom(step + 1)' /\ MaxAttempts - attempt >= Len(pending.steps) - step
      OBVIOUS
    <3>1. ~strayed /\ used' <= used /\ used' \in Nat
      BY <2>0, Zenon DEF Counted
    <3>2. Requested(pending.steps, step + 1) <= MaxIterations - used /\ MaxAttempts - attempt >= Len(pending.steps) - step
      BY <2>1, <3>1 DEF BudgetInv, LeftFrom, Remaining
    <3>3. Requested(pending.steps, step + 1) <= MaxIterations - used'
      BY BudgetFacts, RecipeFacts, <2>1, <3>1, <3>2
    <3> QED  BY <2>1, <3>2, <3>3 DEF LeftFrom, Remaining
  <2>3. then.status # "limit_reached" /\ status # "limit_reached" /\ then'.status # "limit_reached"
    BY <2>1 DEF BudgetInv
  <2> QED  BY <2>0, <2>1, <2>2, <2>3 DEF BudgetInv
<1>8. CASE JudgeRejects
  <2>1. /\ pc = "judge" /\ pc' = "restore" /\ then' = Return("rejected") /\ status' = status
    BY <1>8 DEF JudgeRejects, Accepting
  <2> QED  BY <2>1 DEF BudgetInv
<1>9. CASE JudgeFails
  <2>1. /\ pc = "judge" /\ (pending = None => pending' = None) /\ (pending' # None => strayed')
        /\ pc' \in {"finally", "restore", "decide"}
    BY <1>9, FailsEffect, FailsMoves DEF Carried
  <2>2. then.status # "limit_reached" /\ status # "limit_reached"
    BY <2>1 DEF BudgetInv
  <2>3. then'.status # "limit_reached" /\ status' # "limit_reached"
    BY <1>9, <2>2, FailsMoves
  <2> QED  BY <2>1, <2>3 DEF BudgetInv
<1>10. CASE TrialRejected
  BY <1>10, ControlFacts DEF TrialRejected, BudgetInv, LeftFrom, Remaining
<1>11. CASE CaptureCopy
  BY <1>11, ControlFacts DEF CaptureCopy, BudgetInv, LeftFrom, Remaining
<1>12. CASE CaptureName
  BY <1>12, ControlFacts DEF CaptureName, BudgetInv, LeftFrom, Remaining
<1>13. CASE CaptureDrop
  BY <1>13, ControlFacts DEF CaptureDrop, BudgetInv, LeftFrom, Remaining
<1>14. CASE CaptureAssign
  <2>1. /\ pc = "assign" /\ pc' = then.pc /\ pc' \in {"settle", "acted"} /\ then'.status = "running"
        /\ UNCHANGED <<status, used, attempt, pending, step, strayed, waiting>>
    BY <1>14, ControlFacts DEF CaptureAssign
  <2>2. pc' = "acted" => pending = None
    BY <2>1 DEF Chosen
  <2>3. \A i : LeftFrom(i)' = LeftFrom(i)
    BY <2>1 DEF LeftFrom, Remaining
  <2> QED  BY <2>1, <2>2, <2>3 DEF BudgetInv
<1>15. CASE RestoreCheckpoint
  BY <1>15, ControlFacts DEF RestoreCheckpoint, BudgetInv, LeftFrom, Remaining
<1>16. CASE RestoreControls
  <2>1. /\ pc = "restore2" /\ pc' = then.pc /\ pc' \in {"finally", "rejected", "decide", "rolled"}
        /\ status' = (IF then.status = "running" THEN status ELSE then.status) /\ then'.status = "running"
        /\ UNCHANGED <<pending, strayed>>
    BY <1>16, ControlFacts DEF RestoreControls
  <2> QED  BY ControlFacts, <2>1 DEF BudgetInv
<1>17. CASE Settle
  <2>1. /\ pc = "settle" /\ UNCHANGED <<used, then, waiting, strayed>>
        /\ pc' \in {"finally", "top", "decide"} /\ status' \in {status, "stopped", "needs_review"}
        /\ pc' \in {"top", "decide"} => status' = status
    BY <1>17 DEF Settle
  <2>2. then.status # "limit_reached" /\ status # "limit_reached"
    BY <2>1 DEF BudgetInv
  <2>3. CASE pending' # None /\ ~strayed' /\ pc' # "finally"
    <3>1. ~waiting
      BY <1>17, <2>1, <2>3 DEF Settle, BudgetInv
    <3>2. pc' = "top" /\ attempt' = attempt + 1 /\ pending' = pending /\ step' = step + 1
      BY <1>17, <2>3, <3>1 DEF Settle
    <3>3. LeftFrom(step + 1) /\ MaxAttempts - attempt >= Len(pending.steps) - step
      BY <2>1, <2>3, <3>2 DEF BudgetInv
    <3>4. LeftFrom(step)'
      BY <2>1, <3>2, <3>3 DEF LeftFrom, Remaining
    <3>5. MaxAttempts - attempt' >= Len(pending'.steps) - step'
      BY BudgetFacts, RecipeFacts, <2>3, <3>2, <3>3
    <3> QED  BY <2>1, <2>2, <3>2, <3>4, <3>5 DEF BudgetInv
  <2>4. CASE pending' = None \/ strayed' \/ pc' = "finally"
    BY <2>1, <2>2, <2>4 DEF BudgetInv
  <2> QED  BY <2>3, <2>4
<1>18. CASE Decide
  <2>1. /\ pc = "decide" /\ UNCHANGED <<used, waiting>> /\ pc' \in {"top", "finally", "release", "act", "restore"}
    BY <1>18, DecisionFacts DEF Decide
  <2>2. then.status # "limit_reached" /\ status # "limit_reached" /\ (pending # None => strayed)
    BY <2>1 DEF BudgetInv
  <2>3. CASE UNCHANGED <<pending, strayed>>
    <3>1. \/ then' = then
          \/ pc' = "restore" /\ then' = Ending("limit_reached") /\ status' = status
      BY <1>18, DecisionFacts DEF Decide
    <3>2. pc' \notin {"finally"} => status' = status
      BY <1>18, DecisionFacts DEF Decide
    <3>3. then'.status = "limit_reached" => pc' = "restore" /\ then'.pc = "finally"
      BY <2>2, <3>1
    <3>4. pending' # None => strayed'
      BY <2>2, <2>3
    <3> QED  BY <2>1, <2>2, <3>2, <3>3, <3>4 DEF BudgetInv
  <2>4. CASE ~UNCHANGED <<pending, strayed>>
    <3>1. /\ decision.kind = "action" /\ Steps # << >> /\ ~Unaffordable
          /\ pc' = "act" /\ pending' = decision /\ step' = 1 /\ UNCHANGED <<attempt, then, status>>
      BY <1>18, DecisionFacts, <2>4 DEF Decide
    <3>2. Requested(Steps, 1) <= Remaining /\ Len(Steps) <= MaxAttempts - attempt
      <4>1. Recipe(Steps)
        BY DEF Types, DecisionTypes, Sound
      <4>2. Len(Steps) \in Nat /\ 1 \in 1..Len(Steps) + 1
        BY <4>1 DEF Recipe
      <4>3. Requested(Steps, 1) \in Nat
        BY <4>1, <4>2, RequestedSteps
      <4> HIDE DEF Steps
      <4> QED  BY BudgetFacts, <3>1, <4>2, <4>3 DEF Unaffordable, Remaining
    <3>3. LeftFrom(step)' /\ MaxAttempts - attempt' >= Len(pending'.steps) - step' + 1
      <4>1. Len(Steps) \in Nat
        BY DEF Types, DecisionTypes, Sound, Recipe
      <4> QED  BY BudgetFacts, <2>1, <3>1, <3>2, <4>1 DEF LeftFrom, Remaining
    <3> QED  BY <2>1, <2>2, <3>1, <3>3 DEF BudgetInv
  <2> QED  BY <2>3, <2>4
<1>19. CASE ReleaseWrite
  BY <1>19, ControlFacts DEF ReleaseWrite, BudgetInv, LeftFrom, Remaining
<1>20. CASE ReleaseCopy
  BY <1>20, ControlFacts DEF ReleaseCopy, BudgetInv, LeftFrom, Remaining
<1>21. CASE ReleaseDone
  BY <1>21, ControlFacts DEF ReleaseDone, BudgetInv, LeftFrom, Remaining
<1>22. CASE ActRecord
  BY <1>22, ControlFacts DEF ActRecord, BudgetInv, LeftFrom, Remaining
<1>23. CASE ActFiles
  BY <1>23, ControlFacts DEF ActFiles, BudgetInv, LeftFrom, Remaining
<1>24. CASE ActControls
  <2>1. /\ pc = "act3" /\ UNCHANGED <<used, attempt, pending, step, strayed, waiting, status>>
        /\ \/ pc' = "copy" /\ then'.status = "running" /\ pending = None
           \/ pc' = "acted" /\ then' = then
    BY <1>24 DEF ActControls
  <2>2. \A i : LeftFrom(i)' = LeftFrom(i)
    BY <2>1 DEF LeftFrom, Remaining
  <2> QED  BY <2>1, <2>2 DEF BudgetInv
<1>25. CASE Acted
  <2>1. /\ pc = "acted" /\ pc' = "top" /\ attempt' = attempt + 1
        /\ UNCHANGED <<then, status, used, pending, step, waiting, strayed>>
    BY <1>25 DEF Acted
  <2>2. \A i : LeftFrom(i)' = LeftFrom(i)
    BY <2>1 DEF LeftFrom, Remaining
  <2>3. pending # None /\ ~strayed => MaxAttempts - attempt' >= Len(pending.steps) - step
    <3>1. pending # None /\ ~strayed => MaxAttempts - attempt >= Len(pending.steps) - step + 1
      BY <2>1 DEF BudgetInv
    <3> QED  BY BudgetFacts, RecipeFacts, <2>1, <3>1
  <2> QED  BY <2>1, <2>2, <2>3 DEF BudgetInv
<1>26. CASE Cancelled
  BY <1>26, ControlFacts DEF Cancelled, Unchanged, BudgetInv, LeftFrom, Remaining
<1>27. CASE Finally
  <2>1. /\ pc = "finally" /\ UNCHANGED <<status, pending, strayed>>
        /\ \/ pc' = "done" /\ then' = then
           \/ pc' = "restore" /\ then' = Return("rolled")
    BY <1>27 DEF Finally
  <2>2. then.status # "limit_reached"
    BY <2>1 DEF BudgetInv
  <2> QED  BY <2>1, <2>2 DEF BudgetInv
<1>28. CASE RolledBack
  BY <1>28, ControlFacts DEF RolledBack, BudgetInv, LeftFrom, Remaining
<1>29. CASE Interrupt
  BY <1>29, ControlFacts DEF Interrupt, BudgetInv, LeftFrom, Remaining
<1>30. CASE Fault
  BY <1>30, ControlFacts DEF Fault, BudgetInv, LeftFrom, Remaining
<1>31. CASE RequestStop
  BY <1>31 DEF RequestStop, BudgetInv, LeftFrom, Remaining
<1>32. CASE Edit
  BY <1>32, ControlFacts DEF Edit, BudgetInv, LeftFrom, Remaining
<1>33. CASE Done
  BY <1>33 DEF Done, BudgetInv, LeftFrom, Remaining
<1>34. CASE UNCHANGED vars
  BY <1>34 DEF BudgetInv, LeftFrom, Remaining
<1>35. CASE PlanAttempt
  <2>1. /\ pc = "plan" /\ UNCHANGED <<attempt, pending, step, strayed, then, waiting>>
        /\ \/ pc' = "finally" /\ used' = used /\ status' # "limit_reached"
           \/ pc' = "native" /\ used' = used + Granted /\ status' = status
    BY <1>35 DEF PlanAttempt
  <2>2. pending # None /\ ~strayed =>
            /\ Requested(pending.steps, step) <= Remaining /\ MaxAttempts - attempt >= Len(pending.steps) - step
            /\ Asked = PendingStep.iters
    BY <2>1 DEF BudgetInv, LeftFrom, Asked
  <2>4. pending # None /\ ~strayed /\ pc' = "native" => Requested(pending.steps, step + 1) <= MaxIterations - used'
    BY BudgetFacts, RecipeFacts, <2>1, <2>2 DEF Granted, Remaining
  <2>5. pending' # None /\ ~strayed' /\ pc' = "native" => LeftFrom(step + 1)'
    BY <2>1, <2>4 DEF LeftFrom, Remaining
  <2>6. then.status # "limit_reached" /\ status # "limit_reached"
    BY <2>1 DEF BudgetInv
  <2> QED  BY <2>1, <2>2, <2>5, <2>6 DEF BudgetInv
<1>36. CASE JudgeSigns
  BY <1>36, ControlFacts DEF JudgeSigns, BudgetInv, LeftFrom, Remaining
<1> QED  BY <1>1, <1>2, <1>3, <1>4, <1>5, <1>6, <1>7, <1>8, <1>9, <1>10, <1>11, <1>12, <1>13, <1>14,
            <1>15, <1>16, <1>17, <1>18, <1>19, <1>20, <1>21, <1>22, <1>23, <1>24, <1>25, <1>26,
            <1>27, <1>28, <1>29, <1>30, <1>31, <1>32, <1>33, <1>34, <1>35, <1>36 DEF Next, Controller


LEMMA SolverInvHolds == Spec => [](CachesInv /\ FreshInv /\ BudgetInv)
<1>1. Init => CachesInv
  BY DEF Init, CachesInv, Matching, Absent
<1>2. Init => FreshInv
  BY DEF Init, FreshInv, Acting, Capturing, CapturingFor
<1>3. Init => BudgetInv
  BY DEF Init, BudgetInv, Nowhere, Return
<1>4. Types /\ Chosen /\ CachesInv /\ [Next]_vars => CachesInv'
  BY CachesStep
<1>5. Types /\ Chosen /\ Chain /\ Coupled /\ FreshInv /\ [Next]_vars => FreshInv'
  BY FreshStep
<1>6. Types /\ Chosen /\ BudgetInv /\ [Next]_vars => BudgetInv'
  BY BudgetStep
<1> QED  BY <1>1, <1>2, <1>3, <1>4, <1>5, <1>6, TypesHold, ChosenHolds, ChainHolds, CoupledHolds, PTL DEF Spec

(* SolverReady: the solver starts on budgets that are left, on files of one  *)
(* checkpoint, and on controls that no sequence of remedies has loosened.    *)
THEOREM SolverAlwaysReady == Spec => []SolverReady
<1>1. Types /\ BudgetInv => BudgetsKept
  BY DEF Types, LoopTypes, BudgetInv, BudgetsKept, Closing, RestoringFor, Restoring
<1>2. CachesInv => CachesMatch
  BY DEF CachesInv, Matching, CachesMatch
<1>3. Types /\ FreshInv => ControlsSound
  <2> SUFFICES ASSUME Types, FreshInv, pc = "native"
               PROVE  /\ Controls.RELAX <= starting.RELAX
                      /\ base = "verify" /\ pending = None => Controls.N_FIX_BA = 0
    BY DEF ControlsSound
  <2>1. {"RELAX", "N_FIX_BA"} \subseteq DOMAIN starting /\ starting.RELAX \in Int
    BY ModelAssumption DEF Types, LoopTypes
  <2>2. Controls.RELAX <= starting.RELAX
    BY <2>1 DEF Types, DiskTypes, Whole, Damping, Controls, With
  <2>3. base = "verify" /\ pending = None => Zero(files.set)
    BY DEF FreshInv, Closing, RestoringFor, CapturingFor, Restoring, Capturing, Overwriting
  <2> QED  BY <2>1, <2>2, <2>3 DEF Zero, Controls, With
<1> QED  BY <1>1, <1>2, <1>3, TypesHold, SolverInvHolds, PTL DEF SolverReady
=============================================================================
