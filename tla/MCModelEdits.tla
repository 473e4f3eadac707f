----------------------------- MODULE MCModelEdits -----------------------------
(* Edits for TLC.  Two values, so that a control can be changed and changed back; two *)
(* pages; neither the values nor the pages differ in anything else.  In states of     *)
(* their own, the form for single values, on five files that people may write, and   *)
(* the reseeding of a model with two inputs and a checkpoint.                          *)
EXTENDS ModelEdits, TLC

VARIABLES part, control, form, saved, writes, tries
Number(n) == <<"number", n>>
Word(w) == <<"word", w>>
Star == <<<<"LSTAR", Number(4)>>, <<"!", Word("")>>, <<"RSTAR", Number(16)>>, <<"MASS", Number(256)>>,
          <<"TEFF", Number(2)>>, <<"LOGG", Number(3)>>>>
VadatWith(rows) == [name |-> "VADAT", rows |-> Star \o rows]
MCTexts ==
    {VadatWith(<<<<"LTE_EST", Word("T")>>, <<"LIN_INT", <<"lower", "F">>>>, <<"DC_METH", Word("ED")>>, <<"T_EXC", Number(1)>>>>),
     VadatWith(<<<<"POP_SCALE", Word("T")>>, <<"RSTAR", Number(5)>>>>),
     VadatWith(<<<<"LIN_INT", Word("T")>>, <<"POP_SCALE", Word("T")>>, <<"HE/X", Number(1)>>>>)}
    \cup {[name |-> "IN_ITS", rows |-> <<<<"NUM_ITS", Number(n)>>, <<"DO_LAM_IT", Word("F")>>>>] : n \in {10, 20}}
Quick == INSTANCE QuickEdit WITH Texts <- MCTexts, Series <- {"HE/X"}, Numbers <- 0 .. 2, MaxTexts <- 1, MaxTries <- 2
quick == <<control, form, saved, writes, tries>>

CONSTANT None
VARIABLES work, plan, job, archives, reseeds, edits, faults, start, result, disturbed
Outputs == INSTANCE Reseed WITH
    raced <- disturbed, Absent <- None, Inputs <- {"HeI", "GAMMAS"}, Restarts <- {"POINT1"},
    MaxReseeds <- 2, MaxEdits <- 2, MaxFaults <- 1
reseed == <<work, plan, job, archives, reseeds, edits, faults, start, result, disturbed>>

FormAsleep == control = <<>> /\ form = Quick!Closed /\ saved = Quick!Closed /\ writes = 0 /\ tries = 0
ReseedAsleep ==
    /\ work = <<>> /\ plan = None /\ job = Outputs!Idle /\ archives = {} /\ reseeds = 0
    /\ edits = 0 /\ faults = 0 /\ start = <<>> /\ result = None /\ disturbed = TRUE
EditsInit ==
    /\ part \in {"pages", "form", "reseed"}
    /\ Init
    /\ part # "pages" => ~Uses(file["VADAT"])
    /\ IF part = "form" THEN Quick!QuickInit ELSE FormAsleep
    /\ IF part = "reseed" THEN Outputs!ReseedInit ELSE ReseedAsleep
EditsNext ==
    /\ UNCHANGED part
    /\ \/ part = "pages" /\ Next /\ UNCHANGED <<quick, reseed>>
       \/ part = "form" /\ Quick!QuickNext /\ UNCHANGED <<vars, reseed>>
       \/ part = "reseed" /\ Outputs!ReseedNext /\ UNCHANGED <<vars, quick>>
EditsSpec == EditsInit /\ [][EditsNext]_<<vars, quick, reseed, part>>

Symmetry == Permutations(Velocities) \cup Permutations(Pages)

\* Edits that users made and reviewed are what the model has, and a reseeding is done
\* wholly or not at all: see ModelEdits, QuickEdit and Reseed.
EditsTrue == NoEditLost /\ Quick!QuickEditsTrue /\ (part = "reseed" => Outputs!ReseedTrue)
=============================================================================
