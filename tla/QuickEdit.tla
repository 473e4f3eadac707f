------------------------------- MODULE QuickEdit -------------------------------
(***************************************************************************)
(* The form for single values of control files (model_quick_editor.py over *)
(* the rows of control_files.py): which values it offers, the text it      *)
(* makes of what is submitted, its scaling of radius and mass with         *)
(* luminosity or temperature, and its way from the page over the preview   *)
(* to the save.                                                            *)
(*                                                                         *)
(* The page has a card for each file, a form of its own; this is one card. *)
(* A file is its name and its rows, key and value: keys are compared       *)
(* without their case, and a comment has the key "!".  Saving itself is in *)
(* ModelEdits and is one step here.                                        *)
(***************************************************************************)
EXTENDS Integers, FiniteSets, SequencesExt

CONSTANTS
    Texts,           \* files that people write
    Series,          \* keys of the families CL_PAR_n and .../X
    Numbers,         \* values that people submit for a number
    MaxTexts, MaxTries  \* bounds: on edits by others, on previews

VARIABLES
    control, \* the file
    form,    \* the card: the file it saw, the values it shows, the constraint, the preview
    saved,   \* history: the last save
    writes, tries

quick == <<control, form, saved, writes, tries>>

\* A number in tenths; a word, and the same word in lower case.
Number(n) == <<"number", n>>
Word(w) == <<"word", w>>
Lower(w) == <<"lower", w>>
Upper(value) == IF value[1] = "lower" THEN Word(value[2]) ELSE value
Blank == Word("")
Closed == [seen |-> <<>>]

-----------------------------------------------------------------------------
(* What the form knows of the keys                                          *)

Stars == {"LSTAR", "RSTAR", "MASS", "TEFF", "LOGG"}
Measured ==
    Stars \cup Series \cup {"MDOT", "VINF", "BETA", "EPS_TERM", "MAX_LIN", "MAX_DT", "FIX_BA", "MAX_LAM", "T_EXC"}
Counts == {"N_FIX_BA"}
Switches == {"COMP_BA", "FIX_T", "DO_NG", "LIN_INT", "POP_SCALE", "DO_CL"}
Choice == [SCALE_OPT |-> {"MAJOR", "LOCAL", "GLOBAL", "NONE"},
            DC_METH |-> {"ED", "R", "TR", "RTX", "SPH_TAU", "RNS", "LTE", "POP"}]
RunSwitches == {"DO_LAM_IT", "DO_LAM_AUTO", "DO_T_AUTO", "DO_GT_AUTO"}
Keys(name) ==
    CASE name = "VADAT" -> Measured \cup Counts \cup Switches \cup DOMAIN Choice \cup {"CL_LAW"}
      [] name = "IN_ITS" -> {"NUM_ITS"} \cup RunSwitches
      [] name = "ADJUST_CORRECTIONS" -> {"RELAX"}
\* The fields that VADAT need not have, in the order of the form; LTE_EST is not in it.
Optional == <<"MAX_DT", "DC_METH", "T_EXC", "LIN_INT", "POP_SCALE">>
Initial == {"DC_METH", "T_EXC", "LIN_INT", "POP_SCALE"}

-----------------------------------------------------------------------------
(* The card                                                                 *)

Rows(c, key) == {i \in DOMAIN c.rows : c.rows[i][1] = key}
One(c, key) == Cardinality(Rows(c, key)) = 1
ValueOf(c, key) == c.rows[CHOOSE i \in Rows(c, key) : TRUE][2]
\* _validate_quick_parameter_value: what it accepts, and the form it is written in.
Within(key, n) ==
    CASE key \in {"T_EXC", "EPS_TERM", "TEFF", "RELAX"} -> n > 0
      [] key \in {"MAX_LIN", "MAX_LAM"} -> n > 10
      [] key = "MAX_DT" -> n \in 1 .. 2
      [] key = "FIX_BA" -> n >= 0
      [] key \in Counts \cup {"NUM_ITS"} -> n >= 0 /\ n % 10 = 0
      [] OTHER -> TRUE
Valid(key, value) ==
    CASE key \in Switches \cup RunSwitches -> Upper(value) \in {Word("T"), Word("F")}
      [] key \in DOMAIN Choice -> \E w \in Choice[key] : Upper(value) = Word(w)
      [] key = "CL_LAW" -> value # Blank
      [] OTHER -> value[1] = "number" /\ Within(key, value[2])
Normal(key, value) == IF key \in Switches \cup RunSwitches \cup DOMAIN Choice THEN Upper(value) ELSE value
Missing(c, key) == c.name = "VADAT" /\ Rows(c, key) = {} /\ key \in ToSet(Optional)
Field(c, key) == Missing(c, key) \/ (One(c, key) /\ Valid(key, ValueOf(c, key)))
Fields(c) == {key \in Keys(c.name) : Field(c, key)}
Shown(c) == [key \in Fields(c) |-> IF Missing(c, key) THEN Blank ELSE ValueOf(c, key)]

\* _luminosity_scaling_state.
Scalable(c) ==
    c.name = "VADAT" /\ \A key \in Stars : key \in Fields(c) /\ (key # "LOGG" => ValueOf(c, key)[2] > 0)

-----------------------------------------------------------------------------
(* _prepare_quick_parameter_edit                                            *)

Driver(keep) == IF keep = "temperature" THEN "LSTAR" ELSE "TEFF"
Fixed(keep) == IF keep = "temperature" THEN "TEFF" ELSE "LSTAR"
\* Luminosities are squares here, so that roots are numbers; and quotients are whole.
Root(n) == CHOOSE r \in 0 .. n : r * r = n
\* The radius grows by the first over the second, the mass by their squares.
Growth(c, to, keep) ==
    LET was == ValueOf(c, Driver(keep))[2]
    IN IF keep = "temperature" THEN <<Root(to), Root(was)>> ELSE <<was * was, to * to>>
Whole(c, to, keep) ==
    LET g == Growth(c, to, keep)
    IN /\ (ValueOf(c, "RSTAR")[2] * g[1]) % g[2] = 0
       /\ (ValueOf(c, "MASS")[2] * g[1] * g[1]) % (g[2] * g[2]) = 0
Scaled(c, values, keep) ==
    LET to == values[Driver(keep)][2]
        g == Growth(c, to, keep)
        radius == ValueOf(c, "RSTAR")[2]
        mass == ValueOf(c, "MASS")[2]
    IN [values EXCEPT !["RSTAR"] = Number((radius * g[1]) \div g[2]),
                      !["MASS"] = Number((mass * g[1] * g[1]) \div (g[2] * g[2]))]
\* With a constraint, what it fixes was not touched, and the driver is positive.
MayScale(c, values, keep) ==
    /\ Scalable(c)
    /\ \A key \in {Fixed(keep), "LOGG"} : values[key] = ValueOf(c, key)
    /\ Valid(Driver(keep), values[Driver(keep)]) /\ values[Driver(keep)][2] > 0
Values(c, values, keep) == IF keep = "none" THEN values ELSE Scaled(c, values, keep)

\* Values go to their rows, and those that were missing to the end.
Added(c, values) ==
    SelectSeq(Optional, LAMBDA key : key \in DOMAIN values /\ Missing(c, key) /\ values[key] # Blank)
Written(c, values) ==
    LET added == Added(c, values) IN
    [c EXCEPT !.rows =
        [i \in DOMAIN @ |-> IF @[i][1] \in DOMAIN values THEN <<@[i][1], values[@[i][1]]>> ELSE @[i]]
        \o [i \in DOMAIN added |-> <<added[i], values[added[i]]>>]]

Method(c) == IF One(c, "DC_METH") THEN Upper(ValueOf(c, "DC_METH")) ELSE Blank
Says(c, key, words) == \E w \in words : Upper(ValueOf(c, key)) = Word(w)
Off == {"F", "FALSE", ".FALSE."}
ValuesAt(c, key) == [i \in Rows(c, key) |-> c.rows[i][2]]
Reinitialized(old, new) == \E key \in Initial : ValuesAt(old, key) # ValuesAt(new, key)
\* lte_initialization_controls, for a file with one DC_METH and one T_EXC.
LteStarts(c) ==
    /\ Valid("T_EXC", ValueOf(c, "T_EXC"))
    /\ \A key \in {"LIN_INT", "LTE_EST"} : Rows(c, key) = {} \/ (One(c, key) /\ Says(c, key, Off))
\* Populations and LTE as initialization need their switches.
Starts(old, new) ==
    /\ Method(new) = Word("POP") =>
        \A key \in {"LIN_INT", "POP_SCALE"} : One(new, key) /\ Says(new, key, {"T"})
    /\ Method(new) = Word("LTE") /\ Reinitialized(old, new) => One(new, "T_EXC") /\ LteStarts(new)

Final(c, values, keep) ==
    LET scaled == Values(c, values, keep) IN [key \in DOMAIN values |-> Normal(key, scaled[key])]
Proposed(c, values, keep) == Written(c, Final(c, values, keep))
Accepted(c, values, keep) ==
    /\ DOMAIN values = Fields(c) /\ keep # "both"
    /\ keep # "none" => MayScale(c, values, keep)
    /\ LET final == Final(c, values, keep)
       IN \A key \in DOMAIN values : Valid(key, final[key]) \/ (Missing(c, key) /\ final[key] = Blank)
    /\ c.name = "VADAT" => Starts(c, Proposed(c, values, keep))

-----------------------------------------------------------------------------
QuickInit ==
    /\ control \in Texts /\ form = Closed /\ saved = Closed /\ writes = 0 /\ tries = 0

Write ==
    /\ writes < MaxTexts /\ writes' = writes + 1
    /\ control' \in {c \in Texts : c.name = control.name /\ c # control}
    /\ UNCHANGED <<form, saved, tries>>
Open ==
    /\ form = Closed
    /\ form' = [seen |-> control, values |-> Shown(control), keep |-> "none", preview |-> <<>>]
    /\ UNCHANGED <<control, saved, writes, tries>>

\* What may be submitted for a field: one field changes at a time.
Offers(key) ==
    CASE key \in Switches \cup RunSwitches -> {Word("T"), Lower("F"), Blank}
      [] key = "DC_METH" -> {Lower("LTE"), Word("POP"), Word("no such method"), Blank}
      [] key = "LSTAR" -> {Number(n * n) : n \in Numbers}
      [] key = "TEFF" -> {Number(n) : n \in Numbers}
      [] key \in {"NUM_ITS", "RELAX", "MAX_DT"} -> {Number(n) : n \in {0, 2, 10}} \cup {Blank}
      [] OTHER -> {Number(1), Blank}
Submissions(values) == {values} \cup UNION {{[values EXCEPT ![k] = v] : v \in Offers(k)} : k \in DOMAIN values}
Constraints == {"none", "temperature", "luminosity", "both"}
InScale(c, values, keep) ==
    keep # "none" /\ MayScale(c, values, keep) => Whole(c, values[Driver(keep)][2], keep)

\* After an error the card stands on the file of now, with what was submitted.
Again(values, keep) ==
    LET shown == Shown(control) IN
    [seen |-> control, keep |-> keep, preview |-> <<>>,
     values |-> [key \in DOMAIN shown |-> IF key \in DOMAIN values THEN values[key] ELSE shown[key]]]
\* review_quick_model_parameter_edit, and the card it leaves.
Review(values, keep) ==
    IF control = form.seen /\ Accepted(control, values, keep)
    THEN [seen |-> control, keep |-> keep, preview |-> Proposed(control, values, keep),
          values |-> Final(control, values, keep)]
    ELSE Again(values, keep)
Preview ==
    /\ form # Closed /\ tries < MaxTries /\ tries' = tries + 1
    /\ \E values \in Submissions(form.values), keep \in Constraints :
        /\ InScale(control, values, keep)
        /\ form' = Review(values, keep)
    /\ UNCHANGED <<control, saved, writes>>

\* save_quick_model_parameter_edit, after a review of its own.  The values are those of the
\* preview, or one of them was altered.  The file is written if its text is the one that was
\* reviewed, and new; if not, or if the file cannot be written, the card of the new review stays.
Tampered == {"MASS", "NUM_ITS"}
AsPreviewed(page) == page.preview = form.preview
Save ==
    /\ form # Closed /\ form.preview \notin {<<>>, form.seen}
    /\ \E values \in {form.values} \cup
            {[form.values EXCEPT ![k] = v] : v \in {Number(1), Number(10)}, k \in DOMAIN form.values \cap Tampered} :
        LET page == Review(values, form.keep) IN
        /\ InScale(control, values, form.keep)
        /\ values = form.values \/ tries < MaxTries
        /\ tries' = IF values = form.values THEN tries ELSE tries + 1
        /\ \/ /\ page.preview # <<>> /\ AsPreviewed(page) /\ page.preview # control
              /\ control' = page.preview /\ form' = Closed
              /\ saved' = [page EXCEPT !.preview = [shown |-> form.preview, text |-> page.preview]]
           \/ form' = page /\ UNCHANGED <<control, saved>>
    /\ UNCHANGED writes

QuickNext == Write \/ Open \/ Preview \/ Save

-----------------------------------------------------------------------------
\* A preview can be saved as it stands: what it shows, submitted again under its
\* constraint to the same file, is accepted and gives the same text.
PreviewStands ==
    form # Closed /\ form.preview # <<>> =>
        /\ Accepted(form.seen, form.values, form.keep)
        /\ Proposed(form.seen, form.values, form.keep) = form.preview
\* What a save leaves: the form offers the values that were reviewed, and every other row
\* stands where it stood; nothing that had one row has another or none.
SaveKeepsRest ==
    saved # Closed =>
        /\ saved.preview.text = saved.preview.shown
        /\ \A key \in DOMAIN saved.values : saved.values[key] # Blank =>
            One(saved.preview.text, key) /\ ValueOf(saved.preview.text, key) = saved.values[key]
        /\ \A i \in DOMAIN saved.seen.rows :
            /\ saved.preview.text.rows[i][1] = saved.seen.rows[i][1]
            /\ saved.seen.rows[i][1] \notin Fields(saved.seen) => saved.preview.text.rows[i] = saved.seen.rows[i]
        /\ \A key \in Keys(saved.seen.name) : One(saved.seen, key) => One(saved.preview.text, key)
\* A star that was scaled keeps its temperature, or its luminosity, its surface gravity and
\* the law of its radiation: M / R^2 and L / (R^2 T^4) are what they were.
Star(text, key) == ValueOf(text, key)[2]
ScalingHolds ==
    saved # Closed /\ saved.keep # "none" =>
        LET old == saved.seen
            new == saved.preview.text
        IN /\ Star(new, Fixed(saved.keep)) = Star(old, Fixed(saved.keep))
           /\ Star(new, "MASS") * Star(old, "RSTAR")^2 = Star(old, "MASS") * Star(new, "RSTAR")^2
           /\ Star(new, "LSTAR") * Star(old, "RSTAR")^2 * Star(old, "TEFF")^4
              = Star(old, "LSTAR") * Star(new, "RSTAR")^2 * Star(new, "TEFF")^4
\* The quick form saves what it showed and nothing else (model_quick_editor.py).
QuickEditsTrue == PreviewStands /\ SaveKeepsRest /\ ScalingHolds
=============================================================================
