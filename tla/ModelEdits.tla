------------------------------- MODULE ModelEdits -------------------------------
(***************************************************************************)
(* Editing the inputs of a model in the browser (model_editor.py,          *)
(* model_quick_editor.py, structure_update.py, history_inputs.py): pages   *)
(* that load, review and save controls, reviewed updates of the structure  *)
(* file RVSIG_COL, and restoration of the inputs of an archived run.       *)
(*                                                                         *)
(* Operations of the viewer exclude each other by the mutation guard (see  *)
(* ModelLocks); an editor outside does not.  VADAT stands for the controls *)
(* the structure depends on, MODEL_SPEC among them: their velocity values  *)
(* and whether VEL_OPT asks for RVSIG_COL.  A structure says for which     *)
(* values it was made.  Digests and fingerprints are contents.             *)
(***************************************************************************)
EXTENDS Naturals, Sequences

CONSTANTS
    Velocities,  \* values of the velocity controls
    Pages,       \* open editor pages
    MaxOps       \* bound on operations begun

Absent == <<"absent">>
Vadat(v, uses) == <<"VADAT", v, uses>>
Structure(v, n) == <<"RVSIG_COL", v, n>>       \* the n-th one, made for v
Baseline(p, v, r) == <<"STATE", p, v, r>>      \* STATE_FILE: pending, saved VADAT, RVSIG_COL
Solved(v, r) == <<"MOD_SUM", v, r>>            \* computed from these inputs
Marker(newer) == <<"MARKER", newer>>           \* newer than the solution
Names == {"VADAT", "RVSIG_COL", "STATE", "MARKER", "CHECKPOINT", "MOD_SUM"}
Controls == {Vadat(v, u) : v \in Velocities, u \in BOOLEAN}
Structures == {Structure(v, n) : v \in Velocities, n \in 0..MaxOps}

ASSUME EditAssumption == Velocities # {} /\ Pages # {} /\ MaxOps \in Nat

VARIABLES
    file,     \* the model
    bundle,   \* inputs archived with the last run: VADAT, RVSIG_COL
    page,     \* the editor pages: the digest of VADAT each has loaded
    review,   \* a reviewed update or restoration: kind, seen, install
    op,       \* the operation under the guard
    begun,    \* operations begun
    lost,     \* history: a save replaced what its page had not seen, or without a copy
    outside,  \* history: VADAT was edited outside
    raced,    \* history: and that while an operation was at work
    cut       \* history: an operation was killed or reported that it is incomplete

history == <<lost, outside, raced, cut>>
vars == <<file, bundle, page, review, op, begun, history>>

Idle == [pc |-> "idle"]
NoReview == [kind |-> "none"]

Uses(v) == v # Absent /\ v[3]
\* inspect_structure_update
Pending(f) == f["STATE"] # Absent /\ f["STATE"][2]
Changes(f) == f["STATE"][3] # f["VADAT"]
Required(f) == /\ Pending(f) /\ Uses(f["VADAT"])
               /\ Changes(f) \/ f["STATE"][4] # f["RVSIG_COL"]
\* model_inputs_modified_since_solution
Modified(f) == f["MARKER"] # Absent /\ (f["MOD_SUM"] = Absent \/ f["MARKER"][2])

Init ==
    /\ \E v \in Velocities, u \in BOOLEAN :
        LET vadat == Vadat(v, u)
            rvsig == Structure(v, 0)
        IN file = [n \in Names |-> CASE n = "VADAT" -> vadat
                                     [] n = "RVSIG_COL" -> rvsig
                                     [] n \in {"MOD_SUM", "CHECKPOINT"} -> Solved(vadat, rvsig)
                                     [] OTHER -> Absent]
    /\ bundle = <<file["VADAT"], file["RVSIG_COL"]>>
    /\ page = [p \in Pages |-> Absent] /\ review = NoReview /\ op = Idle
    /\ begun = 0 /\ lost = FALSE /\ outside = FALSE /\ raced = FALSE
    /\ cut = FALSE

Begin == op.pc = "idle" /\ begun < MaxOps /\ begun' = begun + 1
Content(n, c) == file' = [file EXCEPT ![n] = c]

-----------------------------------------------------------------------------
(* Others                                                                   *)

EditOutside ==
    /\ begun < MaxOps /\ begun' = begun + 1
    /\ \E v \in Controls \ {file["VADAT"]} : Content("VADAT", v)
    /\ outside' = TRUE /\ raced' = (raced \/ op.pc # "idle")
    /\ UNCHANGED <<bundle, page, review, op, lost, cut>>

\* A native run, under the guard: main refuses a pending structure, archives its inputs
\* and writes a solution; a hydrodynamic one revises the structure itself.
Run ==
    /\ Begin /\ file["VADAT"] # Absent /\ ~Required(file)
    /\ Uses(file["VADAT"]) => file["RVSIG_COL"] # Absent
    /\ bundle' = <<file["VADAT"], file["RVSIG_COL"]>>
    /\ \E rvsig \in {file["RVSIG_COL"]} \cup
            (IF Uses(file["VADAT"]) THEN {Structure(file["VADAT"][2], begun')} ELSE {}) :
        file' = [file EXCEPT !["RVSIG_COL"] = rvsig,
                    !["MOD_SUM"] = Solved(file["VADAT"], rvsig),
                    !["CHECKPOINT"] = Solved(file["VADAT"], rvsig),
                    !["MARKER"] = IF @ = Absent THEN @ ELSE Marker(FALSE)]
    /\ UNCHANGED <<page, review, op, history>>

-----------------------------------------------------------------------------
(* save_model_parameter_edit; a quick save writes values into the same text *)

\* What a page or a review sees in the middle of an operation is refused later, or still
\* there when the operation was killed: they look between operations.
Load(p) ==
    /\ op.pc = "idle" /\ page[p] = Absent /\ page' = [page EXCEPT ![p] = file["VADAT"]]
    /\ UNCHANGED <<file, bundle, review, op, begun, history>>

\* Refused when the file is not what the page has loaded; a variant saves anyway.
FreshAlways(p) == file["VADAT"] # Absent
Fresh(p) == file["VADAT"] = page[p]
Save(p) ==
    /\ Begin /\ page[p] # Absent
    /\ IF Fresh(p)
       THEN \E v \in Controls \ {file["VADAT"]} :
            /\ op' = [pc |-> "backup", page |-> p, copy |-> Absent, old |-> file["VADAT"], new |-> v]
            /\ UNCHANGED page
       ELSE op' = op /\ page' = [page EXCEPT ![p] = Absent]
    /\ UNCHANGED <<file, bundle, review, history>>

WriteBackup ==
    /\ op.pc = "backup" /\ op' = [op EXCEPT !.pc = "track", !.copy = op.old]
    /\ UNCHANGED <<file, bundle, page, review, begun, history>>

\* track_before_edit: the first edit that concerns the structure saves the baseline.
\* A variant saves it anew with every edit.
Relevant == Uses(op.old) \/ Uses(op.new)
TrackedAnew == IF Relevant THEN Baseline(TRUE, op.old, file["RVSIG_COL"]) ELSE file["STATE"]
Tracked == IF Relevant /\ ~Pending(file) THEN Baseline(TRUE, op.old, file["RVSIG_COL"])
           ELSE file["STATE"]
Track ==
    /\ op.pc = "track" /\ op' = [op EXCEPT !.pc = "replace"]
    /\ Content("STATE", Tracked)
    /\ UNCHANGED <<bundle, page, review, begun, history>>

Replace ==
    /\ op.pc = "replace" /\ op' = [op EXCEPT !.pc = "finish"]
    /\ Content("VADAT", op.new)
    /\ lost' = (lost \/ file["VADAT"] # page[op.page] \/ file["VADAT"] # op.copy)
    /\ UNCHANGED <<bundle, page, review, begun, outside, raced, cut>>

\* An error up to here reaches the user.
SaveFails ==
    /\ op.pc \in {"backup", "track", "replace"} /\ op' = Idle
    /\ page' = [page EXCEPT ![op.page] = Absent]
    /\ UNCHANGED <<file, bundle, review, begun, history>>

\* finish_structure_edit: what is back at its baseline is settled; from here on errors
\* are reported with the result.
Settled == /\ Pending(file) /\ ~Required(file) /\ ~Changes(file)
Finish ==
    /\ op.pc = "finish" /\ op' = [op EXCEPT !.pc = "mark"]
    /\ \/ Content("STATE", IF Settled THEN [file["STATE"] EXCEPT ![2] = FALSE] ELSE file["STATE"])
       \/ UNCHANGED file
    /\ UNCHANGED <<bundle, page, review, begun, history>>
Marked == Marker(TRUE)
Mark ==
    /\ op.pc = "mark" /\ op' = Idle
    /\ page' = [page EXCEPT ![op.page] = Absent]
    /\ \/ Content("MARKER", Marked) /\ UNCHANGED cut
       \/ UNCHANGED file /\ cut' = TRUE
    /\ UNCHANGED <<bundle, review, begun, lost, outside, raced>>

-----------------------------------------------------------------------------
(* Reviewed operations: build_structure_plan, preview_inputs                *)

\* The native program updates a tracked structure it knows for the present controls, or
\* changes the grid of a settled one; a candidate supplied by the user is for them too.
NewStructure(v) ==
    /\ Uses(file["VADAT"])
    /\ \/ v = file["VADAT"][2]                      \* candidate
       \/ /\ Pending(file) /\ Uses(file["STATE"][3])
          /\ file["STATE"][4] = file["RVSIG_COL"] /\ v = file["VADAT"][2]
       \/ /\ ~Required(file) /\ file["RVSIG_COL"] # Absent /\ v = file["RVSIG_COL"][2]

\* VADAT is written when RMAX changes.
ReviewStructure ==
    /\ op.pc = "idle" /\ review = NoReview
    /\ \E v \in Velocities, radii \in BOOLEAN :
        /\ NewStructure(v)
        /\ review' = [kind |-> "structure", seen |-> file, install |->
                        <<<<"RVSIG_COL", Structure(v, begun + 1)>>>> \o
                        (IF radii THEN <<<<"VADAT", file["VADAT"]>>>> ELSE <<>>)]
    /\ UNCHANGED <<file, bundle, page, op, begun, history>>

ReviewInputs ==
    /\ op.pc = "idle" /\ review = NoReview
    /\ review' = [kind |-> "inputs", seen |-> file, install |->
                    (IF bundle[2] = Absent THEN <<>> ELSE <<<<"RVSIG_COL", bundle[2]>>>>)
                    \o <<<<"VADAT", bundle[1]>>>>]
    /\ UNCHANGED <<file, bundle, page, op, begun, history>>

\* What an operation moves to its archive, in this order; then it installs and marks.
InputState == <<"MARKER", "MOD_SUM", "CHECKPOINT", "RVSIG_COL", "VADAT">>
Moves == IF review.kind = "inputs" THEN InputState
         ELSE [i \in DOMAIN review.install |-> review.install[i][1]]
              \o <<"STATE", "MARKER", "CHECKPOINT">>
Installs == review.install \o
    (IF review.kind = "inputs" THEN <<>>
     ELSE <<<<"STATE", Baseline(FALSE, file["VADAT"], review.install[1][2])>>>>)
    \o <<<<"MARKER", Marker(TRUE)>>>>

\* Only on the files that were reviewed.  What a restoration
\* does not touch it does not compare either.
AsReviewed == \A n \in Names \ (IF review.kind = "inputs" THEN {"STATE"} ELSE {"MOD_SUM"}) :
                file[n] = review.seen[n]
Apply ==
    /\ Begin /\ review # NoReview /\ review' = NoReview
    /\ op' = IF AsReviewed
             THEN [pc |-> "move", todo |-> Moves, install |-> Installs, done |-> <<>>,
                   moved |-> <<>>, start |-> file]
             ELSE Idle
    /\ UNCHANGED <<file, bundle, page, history>>

\* os.replace to the archive, where it stays after a kill, of what is there.
Move ==
    /\ op.pc = "move" /\ op.todo # <<>>
    /\ LET n == op.todo[1] IN
        /\ Content(n, Absent)
        /\ op' = [op EXCEPT !.todo = Tail(@),
                    !.moved = IF file[n] = Absent THEN @ ELSE <<<<n, file[n]>>>> \o @]
    /\ UNCHANGED <<bundle, page, review, begun, history>>
\* On the list before it is written; a variant lists it afterwards.
ListedAfter(n, ok) == IF ok THEN <<n>> \o op.done ELSE op.done
Listed(n, ok) == <<n>> \o op.done
Install ==
    /\ op.pc = "move" /\ op.todo = <<>> /\ op.install # <<>>
    /\ LET n == op.install[1][1] IN \E written, ok \in BOOLEAN :
        /\ ok => written
        /\ IF written THEN Content(n, op.install[1][2]) ELSE UNCHANGED file
        /\ op' = [op EXCEPT !.pc = IF ok THEN "move" ELSE "remove",
                            !.install = Tail(@), !.done = Listed(n, ok)]
    /\ UNCHANGED <<bundle, page, review, begun, history>>
Complete ==
    /\ op.pc = "move" /\ op.todo = <<>> /\ op.install = <<>> /\ op' = Idle
    /\ UNCHANGED <<file, bundle, page, review, begun, history>>
Fail ==
    /\ op.pc = "move" /\ op' = [op EXCEPT !.pc = "remove"]
    /\ UNCHANGED <<file, bundle, page, review, begun, history>>

\* The rollback: what was installed is removed, then the archived files come back.
Remove ==
    /\ op.pc = "remove" /\ op.done # <<>>
    /\ Content(op.done[1], Absent) /\ op' = [op EXCEPT !.done = Tail(@)]
    /\ UNCHANGED <<bundle, page, review, begun, history>>
Return ==
    /\ op.pc = "remove" /\ op.done = <<>> /\ op.moved # <<>>
    /\ Content(op.moved[1][1], op.moved[1][2]) /\ op' = [op EXCEPT !.moved = Tail(@)]
    /\ UNCHANGED <<bundle, page, review, begun, history>>
RolledBack ==
    /\ op.pc = "remove" /\ op.done = <<>> /\ op.moved = <<>> /\ op' = Idle
    /\ UNCHANGED <<file, bundle, page, review, begun, history>>

\* The server is killed; pages and reviews are lost with it, the guard is released.
Kill ==
    /\ op.pc # "idle" /\ op' = Idle /\ cut' = TRUE
    /\ page' = [p \in Pages |-> Absent] /\ review' = NoReview
    /\ UNCHANGED <<file, bundle, begun, lost, outside, raced>>

Next == \/ EditOutside \/ Run \/ \E p \in Pages : Load(p) \/ Save(p)
        \/ WriteBackup \/ Track \/ Replace \/ SaveFails \/ Finish \/ Mark
        \/ ReviewStructure \/ ReviewInputs \/ Apply \/ Move \/ Install \/ Complete
        \/ Fail \/ Remove \/ Return \/ RolledBack \/ Kill
Spec == Init /\ [][Next]_vars

-----------------------------------------------------------------------------
(* Properties                                                               *)

Markers == {Marker(TRUE), Marker(FALSE)}

TypeOK ==
    /\ DOMAIN file = Names /\ file["VADAT"] \in Controls \cup {Absent}
    /\ file["RVSIG_COL"] \in Structures \cup {Absent}
    /\ file["STATE"] = Absent \/ /\ file["STATE"][2] \in BOOLEAN
                                 /\ file["STATE"][3] \in Controls
                                 /\ file["STATE"][4] \in Structures \cup {Absent}
    /\ file["MARKER"] \in Markers \cup {Absent}
    /\ \A n \in {"MOD_SUM", "CHECKPOINT"} :
        file[n] = Absent \/ file[n] \in {Solved(v, r) : v \in Controls, r \in Structures \cup {Absent}}
    /\ page \in [Pages -> Controls \cup {Absent}]
    /\ op.pc \in {"idle", "backup", "track", "replace", "finish", "mark", "move", "remove"}
    /\ op.pc \in {"track", "replace", "finish", "mark"} =>
        /\ op.page \in Pages /\ {op.old, op.copy, op.new} \subseteq Controls
    /\ begun \in 0..MaxOps /\ {lost, outside, raced, cut} \subseteq BOOLEAN

(* Whoever saves has seen what he replaces, and a copy of it stays in the backups, also
   when two pages save at once or the server is killed.  Not covered: an edit outside
   while an operation is at work. *)
NoEditLost == TypeOK /\ (lost => raced)

(* A structure made for other controls than the present ones is reported, and main
   refuses it: through any sequence of edits, reversions, switches of VEL_OPT, updates,
   restorations, native revisions, failures and kills.  Edits outside are not tracked. *)
StructureTracked ==
    /\ Uses(file["VADAT"]) /\ file["RVSIG_COL"] # Absent /\ ~outside
    /\ file["RVSIG_COL"][2] # file["VADAT"][2]
    => Required(file)

(* A solution that is older than the inputs is marked as such, unless the operation was
   killed or has reported that it could not. *)
StaleMarked ==
    op.pc = "idle" /\ ~outside /\ ~cut /\ file["MOD_SUM"] # Absent
        /\ file["MOD_SUM"] # Solved(file["VADAT"], file["RVSIG_COL"])
    => Modified(file)

(* What is out of date is said to be: structure and solution. *)
OutdatedReported == StructureTracked /\ StaleMarked

(* A reviewed operation is done on what was reviewed, or the model is as it was. *)
UpdateAllOrNothing ==
    [][op.pc = "remove" /\ op'.pc = "idle" /\ ~raced /\ ~cut' => file' = op.start]_vars
=============================================================================
