-------------------------------- MODULE Archives --------------------------------
(***************************************************************************)
(* The archives of a model (model_history.py, history_inputs.py,           *)
(* recovery_files.py): journals of runs with the inputs they started from, *)
(* checkpoints of the editor and what a restoration has moved aside; their *)
(* reviewed cleanup, and the recovery of one control or of all inputs.     *)
(*                                                                         *)
(* live maps the files that exist to their versions, and an archive maps   *)
(* paths <<folder, name>> to contents, .json files too.  One operation at  *)
(* a time holds the guard (see ModelLocks); reviews are signed and may be  *)
(* used late or again; people edit files of the model and of archives.     *)
(***************************************************************************)
EXTENDS Naturals

CONSTANTS
    InputFiles,      \* names of inputs, kept by a compaction
    Needed,      \* those of them that a fresh run needs
    Retired,     \* T_IN: named like an input, but not one of a fresh run
    Checkpoints, Logs,
    MaxArchives, MaxOps, MaxChanges, MaxFaults  \* bounds; a kill is a fault

\* What the records of an archive are called, and the files of a model by their use.
Records == {"fresh-inputs.json", ".recovery-compaction.json"}
ASSUME ArchivesAssumption ==
    /\ Needed \subseteq InputFiles /\ (Retired \cup Checkpoints \cup Logs) \cap InputFiles = {}
    /\ Logs \cap (Retired \cup Checkpoints) = {}
    /\ Records \cap (InputFiles \cup Retired \cup Checkpoints \cup Logs) = {}
    /\ MaxArchives \in Nat /\ MaxOps \in Nat /\ MaxChanges \in Nat /\ MaxFaults \in Nat

VARIABLES
    live,     \* the model
    archive,  \* the archives there are
    task,     \* the operation under the guard
    review,   \* the last review
    ops, changes, faults,
    began,    \* history: inputs of the model when a run began
    mixed,    \* history: runs during whose capture people edited inputs
    touched,  \* history: archives that people edited or began to delete
    wanted,   \* history: versions of inputs that people made and did not replace
    mangled   \* history: people edited in the middle of a restoration

archives == <<live, archive, task, review, ops, changes, faults, began, mixed, touched, wanted, mangled>>
past == <<began, mixed, touched, wanted, mangled>>
bounds == <<ops, changes, faults>>

ModelFiles == InputFiles \cup Retired \cup Checkpoints \cup Logs
Ids == 1 .. MaxArchives
Excerpt(v) == <<"excerpt", v>>
Manifest == <<"", "fresh-inputs.json">>
CompactionRecord == <<"", ".recovery-compaction.json">>
Idle == [pc |-> "idle"]
NoReview == [kind |-> "none"]
Paths(a) == DOMAIN archive[a]
There(a) == a \in DOMAIN archive
With(f, x, v) == [y \in DOMAIN f \cup {x} |-> IF y = x THEN v ELSE f[y]]
Without(f, x) == [y \in DOMAIN f \ {x} |-> f[y]]
CanArchive == \E a \in Ids : ~There(a) /\ a \notin touched
NewId == CHOOSE a \in Ids : ~There(a) /\ a \notin touched

EarlyFile(p) == IF p[1] = "inputs" THEN <<"early", p[2]>> ELSE Excerpt(<<"early", p[2]>>)
\* An old journal, of the time when large files were kept, and a newer one.
ArchivesInit ==
    /\ live = [n \in ModelFiles |-> <<"old", n>>]
    /\ archive = [a \in {1, 2} \cap Ids |->
        IF a = 1 THEN [p \in {<<"inputs", n>> : n \in InputFiles} \cup {<<"main", n>> : n \in ModelFiles \ InputFiles}
                            |-> <<"older", p[2]>>]
        ELSE With([p \in {<<"inputs", n>> : n \in InputFiles} \cup {<<"main", n>> : n \in Logs} |-> EarlyFile(p)],
                  Manifest, [complete |-> TRUE, files |-> [n \in InputFiles |-> EarlyFile(<<"inputs", n>>)]])]
    /\ task = Idle /\ review = NoReview /\ ops = 0 /\ changes = 0 /\ faults = 0
    /\ began = [a \in Ids |-> [n \in ModelFiles |-> <<"early", n>>]]
    /\ mixed = {} /\ touched = {} /\ mangled = FALSE
    /\ wanted = {<<n, live[n]>> : n \in InputFiles}

\* The next file, in some order of the names.
First(files) == CHOOSE f \in files : TRUE
At(pc) == task.pc = pc
Goes(pc) == task' = [task EXCEPT !.pc = pc]
Fault == faults < MaxFaults /\ faults' = faults + 1 /\ UNCHANGED <<ops, changes>>
Begins == At("idle") /\ ops < MaxOps /\ ops' = ops + 1 /\ UNCHANGED <<changes, faults>>
Creates(a, files) == archive' = With(archive, a, files)
Puts(a, p, c) == archive' = [archive EXCEPT ![a] = With(@, p, c)]
Drops(a, p) == archive' = [archive EXCEPT ![a] = Without(@, p)]

\* retention_action.
Kept(p, c) ==
    /\ p[2] \notin Retired \cup Checkpoints
    /\ p[1] = "" \/ p[2] \in InputFiles \/ p[1] = "inputs" \/ (p[2] \in Logs /\ c[1] = "excerpt")
Excerpted(p, c) == p[2] \in Logs /\ ~Kept(p, c)

-----------------------------------------------------------------------------
(* A run: capture_inputs, then the solver, then compact_recovery.          *)

Compaction(a, paths, kept) == [pc |-> "compact", id |-> a, todo |-> paths, warned |-> FALSE, kept |-> kept]
Cut(files) == {p \in DOMAIN files : ~Kept(p, files[p])}
\* What a fresh run of these inputs would need, and what it would read.
BundleAll(l) == Needed \cup (DOMAIN l \cap (InputFiles \cup Retired))  \* a variant
Bundle(l) == Needed \cup (DOMAIN l \cap InputFiles)
RunBegin ==
    /\ Begins /\ CanArchive /\ "VADAT" \in DOMAIN live
    /\ Creates(NewId, <<>>)
    /\ \E space \in BOOLEAN :
        task' = [pc |-> "capture", id |-> NewId, at |-> "", before |-> "", files |-> <<>>,
                 todo |-> IF space THEN Bundle(live) ELSE {}, complete |-> space]
    /\ began' = [began EXCEPT ![NewId] = live]
    /\ UNCHANGED <<live, review, mixed, touched, wanted, mangled>>
Hash ==
    /\ At("capture") /\ task.todo # {}
    /\ LET n == First(task.todo)
       IN task' = IF n \in DOMAIN live
                  THEN [task EXCEPT !.todo = @ \ {n}, !.pc = "copy", !.at = n, !.before = live[n]]
                  ELSE [task EXCEPT !.todo = @ \ {n}, !.complete = @ /\ n \notin Needed]
    /\ UNCHANGED <<live, archive, review, bounds, past>>
CopyInput ==
    /\ At("copy") /\ task.at \in DOMAIN live
    /\ Puts(task.id, <<"inputs", task.at>>, live[task.at]) /\ Goes("check")
    /\ UNCHANGED <<live, review, bounds, past>>
Copies(l, n, v) == n \in DOMAIN l /\ l[n] = v
Intact ==
    /\ Copies(live, task.at, task.before)
    /\ There(task.id) /\ Copies(archive[task.id], <<"inputs", task.at>>, task.before)
CheckInput ==
    /\ At("check")
    /\ task' = [task EXCEPT !.pc = "capture", !.complete = @ /\ Intact,
                        !.files = IF Intact THEN With(@, task.at, task.before) ELSE @]
    /\ UNCHANGED <<live, archive, review, bounds, past>>
\* It cannot be read, or copied.
CaptureFails ==
    /\ At("copy") /\ (IF task.at \in DOMAIN live THEN Fault ELSE UNCHANGED bounds)
    /\ task' = [task EXCEPT !.pc = "capture", !.complete = FALSE]
    /\ UNCHANGED <<live, archive, review, past>>
CaptureEnd ==
    /\ At("capture") /\ task.todo = {}
    /\ Puts(task.id, Manifest, [complete |-> task.complete, files |-> task.files])
    /\ task' = [pc |-> "solve", id |-> task.id]
    /\ UNCHANGED <<live, review, bounds, past>>
\* Logs are archived as excerpts.
Solve ==
    /\ At("solve")
    /\ live' = [n \in DOMAIN live \cup Checkpoints \cup Logs |->
                    IF n \in Checkpoints \cup Logs THEN <<"run", task.id>> ELSE live[n]]
    /\ LET logs == {<<"main", n>> : n \in Logs}
       IN archive' = [archive EXCEPT ![task.id] =
            [p \in DOMAIN @ \cup logs |-> IF p \in logs THEN Excerpt(<<"run", task.id>>) ELSE @[p]]]
    /\ task' = Compaction(task.id, Cut(archive[task.id]), FALSE)
    /\ UNCHANGED <<review, bounds, past>>

-----------------------------------------------------------------------------
(* Reviews, made of what there is at any time.                             *)

\* preview_inputs.
Restorable(a) ==
    /\ There(a) /\ Manifest \in Paths(a) /\ archive[a][Manifest].complete
    /\ \A n \in DOMAIN archive[a][Manifest].files :
        Copies(archive[a], <<"inputs", n>>, archive[a][Manifest].files[n])
\* control_target: only known places of controls, and files that are there.
Recoverable(a) == {p \in Paths(a) : p[1] \in {"inputs", "main", "before", "bak"} /\ p[2] \in InputFiles \cap DOMAIN live}
Reviews ==
    {[kind |-> action, id |-> a, seen |-> archive[a]] : action \in {"delete", "compact"}, a \in DOMAIN archive}
    \cup {[kind |-> "inputs", id |-> a, seen |-> archive[a], current |-> live] : a \in {b \in DOMAIN archive : Restorable(b)}}
    \cup UNION {{[kind |-> "control", name |-> p[2], seen |-> live[p[2]], new |-> archive[a][p]] : p \in Recoverable(a)} :
                a \in DOMAIN archive}
Review ==
    /\ review' \in Reviews \ {review} /\ ops < MaxOps
    /\ UNCHANGED <<live, archive, task, bounds, past>>

-----------------------------------------------------------------------------
(* apply_housekeeping.                                                     *)

InModel(w) == Copies(live, w[1], w[2])
InArchive(w, ids) == \E a \in ids : There(a) /\ \E p \in Paths(a) : p[2] = w[1] /\ archive[a][p] = w[2]
\* On the archives that were reviewed; otherwise it is refused.
AsReviewed == Copies(archive, review.id, review.seen)
House ==
    /\ Begins /\ review.kind \in {"delete", "compact"} /\ AsReviewed
    /\ task' = [Compaction(review.id, Cut(review.seen), TRUE) EXCEPT !.pc = review.kind]
    /\ touched' = IF review.kind = "delete" THEN touched \cup {review.id} ELSE touched
    /\ wanted' = IF review.kind = "compact" THEN wanted
                 ELSE {w \in wanted : InModel(w) \/ ~InArchive(w, {review.id})}
    /\ UNCHANGED <<live, archive, review, began, mixed, mangled>>
\* rmtree, one file after the other; an error ends it.
Delete ==
    /\ At("delete")
    /\ IF Paths(task.id) = {} THEN archive' = Without(archive, task.id) /\ task' = Idle
       ELSE Drops(task.id, First(Paths(task.id))) /\ task' = task
    /\ UNCHANGED <<live, review, bounds, past>>
\* compact_recovery, file by file; a file that fails is left, with a warning.
Compact ==
    /\ At("compact") /\ task.todo # {}
    /\ LET p == First(task.todo) IN
        \/ /\ task' = [task EXCEPT !.todo = @ \ {p}] /\ UNCHANGED bounds /\ p \in Paths(task.id)
           /\ IF Kept(p, archive[task.id][p]) THEN UNCHANGED archive
              ELSE IF Excerpted(p, archive[task.id][p]) THEN Puts(task.id, p, Excerpt(archive[task.id][p]))
              ELSE Drops(task.id, p)
        \/ /\ task' = [task EXCEPT !.todo = @ \ {p}, !.warned = TRUE] /\ UNCHANGED archive
           /\ IF p \in Paths(task.id) THEN Fault /\ ~Kept(p, archive[task.id][p]) ELSE UNCHANGED bounds
    /\ UNCHANGED <<live, review, past>>
\* Only a reviewed compaction leaves its record, that of the last one.
Compacted ==
    /\ At("compact") /\ task.todo = {} /\ task' = Idle
    /\ IF task.kept THEN Puts(task.id, CompactionRecord, [warned |-> task.warned]) ELSE UNCHANGED archive
    /\ UNCHANGED <<live, review, bounds, past>>
HouseFails ==
    /\ task.pc = "delete" \/ (At("compact") /\ task.todo = {} /\ task.kept)
    /\ Fault /\ task' = Idle /\ UNCHANGED <<live, archive, review, past>>

-----------------------------------------------------------------------------
(* One control, saved by the editor: its old version first.                *)

Control ==
    /\ Begins /\ CanArchive /\ review.kind = "control" /\ Copies(live, review.name, review.seen)
    /\ review.new # review.seen
    /\ Creates(NewId, [p \in {<<"bak", review.name>>} |-> review.seen])
    /\ task' = [pc |-> "control", name |-> review.name, new |-> review.new]
    /\ UNCHANGED <<live, review, past>>
Replace ==
    /\ At("control") /\ live' = With(live, task.name, task.new) /\ task' = Idle
    /\ UNCHANGED <<archive, review, bounds, past>>

-----------------------------------------------------------------------------
(* apply_inputs.                                                           *)

RestoreInputs ==
    /\ Begins /\ CanArchive /\ review.kind = "inputs"
    /\ AsReviewed /\ live = review.current
    /\ Creates(NewId, <<>>)
    /\ task' = [pc |-> "stage", id |-> NewId, from |-> review.id, files |-> review.seen[Manifest].files,
              todo |-> DOMAIN review.seen[Manifest].files, current |-> review.current,
              moved |-> {}, installed |-> {}]
    /\ UNCHANGED <<live, review, past>>
StageInput ==
    /\ At("stage") /\ task.todo # {}
    /\ LET n == First(task.todo)
           source == <<"inputs", n>>
       IN IF source \in Paths(task.from)
          THEN /\ Puts(task.id, <<"staged", n>>, archive[task.from][source])
               /\ task' = IF archive[task.from][source] = task.files[n] THEN [task EXCEPT !.todo = @ \ {n}] ELSE Idle
          ELSE task' = Idle /\ UNCHANGED archive
    /\ UNCHANGED <<live, review, bounds, past>>
Staged ==
    /\ At("stage") /\ task.todo = {}
    /\ task' = IF live = task.current
             THEN [task EXCEPT !.pc = "move", !.todo = DOMAIN live] ELSE Idle
    /\ UNCHANGED <<live, archive, review, bounds, past>>
Move ==
    /\ At("move") /\ task.todo # {}
    /\ LET n == First(task.todo)
       IN /\ Puts(task.id, <<"before", n>>, live[n]) /\ live' = Without(live, n)
          /\ task' = [task EXCEPT !.todo = @ \ {n}, !.moved = @ \cup {n}]
    /\ UNCHANGED <<review, bounds, past>>
Install ==
    /\ At("move") /\ task.todo = {} /\ task.installed # DOMAIN task.files
    /\ LET n == First(DOMAIN task.files \ task.installed)
       IN /\ live' = With(live, n, archive[task.id][<<"staged", n>>]) /\ Drops(task.id, <<"staged", n>>)
          /\ task' = [task EXCEPT !.installed = @ \cup {n}]
    /\ UNCHANGED <<review, bounds, past>>
Restored ==
    /\ At("move") /\ task.todo = {} /\ task.installed = DOMAIN task.files
    /\ task' = Compaction(task.id, Cut(archive[task.id]), FALSE)
    /\ UNCHANGED <<live, archive, review, bounds, past>>
RestorationFails ==
    /\ task.pc \in {"stage", "move"} /\ Fault
    /\ IF At("stage") THEN task' = Idle ELSE Goes("back")
    /\ UNCHANGED <<live, archive, review, past>>
\* The rollback removes what was installed and then returns what was moved.
Uninstall ==
    /\ At("back") /\ task.installed # {}
    /\ LET n == First(task.installed)
       IN live' = Without(live, n) /\ task' = [task EXCEPT !.installed = @ \ {n}]
    /\ UNCHANGED <<archive, review, bounds, past>>
PutBack ==
    /\ At("back") /\ task.installed = {} /\ task.moved # {}
    /\ LET n == First(task.moved)
       IN /\ task' = [task EXCEPT !.moved = @ \ {n}]
          /\ \/ /\ live' = With(live, n, archive[task.id][<<"before", n>>])
                /\ Drops(task.id, <<"before", n>>) /\ UNCHANGED bounds
             \/ Fault /\ UNCHANGED <<live, archive>>
    /\ UNCHANGED <<review, past>>
RolledBack ==
    /\ At("back") /\ task.installed = {} /\ task.moved = {} /\ task' = Idle
    /\ UNCHANGED <<live, archive, review, bounds, past>>

KillOperation ==
    /\ ~At("idle") /\ Fault /\ task' = Idle /\ UNCHANGED <<live, archive, review, past>>
\* People.
Acts == changes < MaxChanges /\ changes' = changes + 1 /\ UNCHANGED <<task, review, ops, faults>>
ChangeInput ==
    /\ Acts /\ \E n \in InputFiles :
        /\ live' = With(live, n, <<"edit", changes'>>)
        /\ wanted' = {w \in wanted : w[1] = n => ~InModel(w)} \cup {<<n, <<"edit", changes'>>>>}
    /\ mixed' = IF task.pc \in {"capture", "copy", "check"} THEN mixed \cup {task.id} ELSE mixed
    /\ mangled' = (mangled \/ task.pc \in {"control", "move", "back"})
    /\ UNCHANGED <<archive, began, touched>>
Touch ==
    /\ Acts /\ \E a \in DOMAIN archive : \E p \in {q \in Paths(a) : q[1] = "inputs"} :
        /\ Drops(a, p) /\ touched' = touched \cup {a}
        /\ wanted' = wanted \ {<<p[2], archive[a][p]>>}
    /\ UNCHANGED <<live, began, mixed, mangled>>

ArchivesNext ==
    \/ RunBegin \/ Hash \/ CopyInput \/ CheckInput \/ CaptureFails \/ CaptureEnd \/ Solve
    \/ Review \/ House \/ Delete \/ Compact \/ Compacted \/ HouseFails \/ Control \/ Replace
    \/ RestoreInputs \/ StageInput \/ Staged \/ Move \/ Install \/ Restored \/ RestorationFails
    \/ Uninstall \/ PutBack \/ RolledBack \/ KillOperation \/ ChangeInput \/ Touch
ArchivesSpec == ArchivesInit /\ [][ArchivesNext]_archives

-----------------------------------------------------------------------------
\* A journal that says it has all inputs of its run has them, as they were when it began,
\* and stays restorable through compactions, restorations, failures and kills, until
\* somebody deletes or edits it.
BundlesHold ==
    \A a \in DOMAIN archive \ touched :
        (Manifest \in Paths(a) /\ archive[a][Manifest].complete =>
            /\ Restorable(a)
            /\ Needed \subseteq DOMAIN archive[a][Manifest].files
            /\ a \notin mixed => \A n \in DOMAIN archive[a][Manifest].files :
                                    archive[a][Manifest].files[n] = began[a][n])
\* An input that somebody wrote and did not replace is in the model, or in an archive that
\* was not deleted, whatever was restored since and however that ended; edits in the middle
\* of a replacement aside.
InputsSurvive ==
    mangled \/ \A w \in wanted : InModel(w) \/ InArchive(w, Ids)
\* What is called compacted is: no file is left that a compaction discards or cuts.
LabelsTrue ==
    \A a \in DOMAIN archive :
        (CompactionRecord \in Paths(a) /\ ~archive[a][CompactionRecord].warned =>
            \A p \in Paths(a) : Kept(p, archive[a][p]))
\* All of it: archives of runs stay restorable, lose no input of a user and are labelled
\* as what they are, whatever compactions and restorations do.
ArchivesTrue == BundlesHold /\ InputsSurvive /\ LabelsTrue

-----------------------------------------------------------------------------
(* The inductive invariant.                                                *)

\* The fields of the operation, by its progress.
TaskTrue ==
    \/ task = Idle
    \/ /\ task.pc \in {"capture", "copy", "check"}
       /\ task = [pc |-> task.pc, id |-> task.id, at |-> task.at, before |-> task.before,
                  files |-> task.files, todo |-> task.todo, complete |-> task.complete]
    \/ task.pc = "solve" /\ task = [pc |-> task.pc, id |-> task.id]
    \/ /\ task.pc \in {"compact", "delete"}
       /\ task = [pc |-> task.pc, id |-> task.id, todo |-> task.todo, warned |-> task.warned, kept |-> task.kept]
    \/ task.pc = "control" /\ task = [pc |-> task.pc, name |-> task.name, new |-> task.new]
    \/ /\ task.pc \in {"stage", "move", "back"}
       /\ task = [pc |-> task.pc, id |-> task.id, from |-> task.from, files |-> task.files, todo |-> task.todo,
                  current |-> task.current, moved |-> task.moved, installed |-> task.installed]

\* A version that nobody has written yet.
ToCome(v) == \E k \in changes + 1 .. MaxChanges : v = <<"edit", k>>
VersionsTrue ==
    /\ changes \in 0 .. MaxChanges /\ DOMAIN archive \subseteq Ids /\ DOMAIN began = Ids
    /\ archive = [a \in DOMAIN archive |-> archive[a]]
    /\ task.pc \notin {"idle", "control"} => There(task.id)
    /\ \A w \in wanted : w = <<w[1], w[2]>> /\ w[1] \in InputFiles
    /\ \A n \in InputFiles \cap DOMAIN live : ~ToCome(live[n])
    /\ \A a \in DOMAIN archive : \A p \in Paths(a) : p[2] \in InputFiles => ~ToCome(archive[a][p])
    /\ review.kind = "control" => ~ToCome(review.new)
    /\ At("control") => ~ToCome(task.new)

\* The inputs of a run while they are captured.
InProgress == IF At("capture") THEN {} ELSE {task.at}
CaptureTrue ==
    task.pc \in {"capture", "copy", "check"} =>
        /\ Manifest \notin Paths(task.id)
        /\ DOMAIN task.files \cup task.todo \cup InProgress \subseteq InputFiles
        /\ DOMAIN task.files \cap task.todo = {} /\ InProgress \cap (DOMAIN task.files \cup task.todo) = {}
        /\ \A n \in task.todo \cup (IF At("copy") THEN {task.at} ELSE {}) : <<"inputs", n>> \notin Paths(task.id)
        /\ task.complete => Needed \subseteq DOMAIN task.files \cup task.todo \cup InProgress
        /\ task.id \notin touched => \A n \in DOMAIN task.files : Copies(archive[task.id], <<"inputs", n>>, task.files[n])
        /\ task.id \notin mixed =>
            live = began[task.id] /\ \A n \in DOMAIN task.files : task.files[n] = began[task.id][n]

\* A bundle has inputs only: that is what compactions keep.
BundlesWhole ==
    /\ BundlesHold
    /\ \A a \in DOMAIN archive \ touched :
        Manifest \in Paths(a) /\ archive[a][Manifest].complete => DOMAIN archive[a][Manifest].files \subseteq InputFiles

\* An archive is labelled when its compaction is over and has found nothing more to do.
LabelledTrue ==
    /\ LabelsTrue
    /\ task.pc \in {"capture", "copy", "check", "solve", "stage", "move", "back"} \/ (At("compact") /\ ~task.kept) =>
        CompactionRecord \notin Paths(task.id)
    /\ At("compact") /\ ~task.warned =>
        \A p \in Paths(task.id) \ task.todo : Kept(p, archive[task.id][p])

\* What a restoration has staged and moved aside is in its archive, for as long as it may
\* have to be installed or put back.
RestorationTrue ==
    /\ At("stage") => /\ There(task.from) /\ task.moved = {} /\ task.installed = {}
                      /\ \A p \in Paths(task.id) : p[1] # "before"
    /\ task.pc \in {"stage", "move", "back"} => Manifest \notin Paths(task.id)
    /\ task.pc \in {"stage", "move"} =>
        \A n \in DOMAIN task.files \ (IF At("stage") THEN task.todo ELSE task.installed) :
            <<"staged", n>> \in Paths(task.id)
    /\ At("move") => /\ task.todo \subseteq DOMAIN live /\ task.todo \cap task.moved = {}
                     /\ task.installed \subseteq DOMAIN task.files
                     /\ \A n \in task.todo : <<"before", n>> \notin Paths(task.id)
    /\ task.pc \in {"move", "back"} => \A n \in task.moved : <<"before", n>> \in Paths(task.id)

\* A copy that is not about to be moved away again.
Stored(w, ids) == \E a \in ids \cap DOMAIN archive : \E p \in Paths(a) : p[1] # "staged" /\ p[2] = w[1] /\ archive[a][p] = w[2]
\* Every wanted input outlives the operation: what it will remove from the model or from
\* the archives is elsewhere.
WantedTrue ==
    /\ \A w \in wanted : InModel(w) \/ Stored(w, Ids)
    /\ At("control") => \A w \in wanted : w[1] = task.name => Stored(w, Ids)
    /\ At("move") => DOMAIN live \subseteq task.todo \cup task.installed
    /\ At("back") => DOMAIN live \cap task.moved \subseteq task.installed
    /\ task.pc \in {"stage", "move"} =>
        \A w \in wanted :
            /\ w[1] \in DOMAIN task.files \ (IF At("stage") THEN task.todo ELSE task.installed)
            /\ archive[task.id][<<"staged", w[1]>>] = w[2]
            => Stored(w, Ids)
    /\ task.pc \in {"move", "back"} => \A w \in wanted : w[1] \in task.installed /\ InModel(w) => Stored(w, Ids)
    /\ At("delete") => \A w \in wanted : InModel(w) \/ Stored(w, Ids \ {task.id})

ArchivesInv ==
    /\ TaskTrue /\ VersionsTrue /\ CaptureTrue /\ BundlesWhole /\ LabelledTrue /\ RestorationTrue
    /\ At("delete") => task.id \in touched
    /\ mangled \/ WantedTrue
=============================================================================
