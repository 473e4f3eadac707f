----------------------------- MODULE ModelFolders -----------------------------
(***************************************************************************)
(* Whole model folders: copying a solution to a new model, renaming and    *)
(* cleaning (model_staging.py), with the pages that ask for them and move  *)
(* the cached summaries along (model_write_views.py).                      *)
(*                                                                         *)
(* models[p], for each path with a folder, is [id, files, inner, archive]: *)
(* id is the model, None for an empty folder; files maps names to          *)
(* versions; inner are folders moved into this one, archive is what a      *)
(* cleanup kept.  People edit files and make folders at any time: what the *)
(* locks of a model keep out is the matter of ModelLocks, here a guard may *)
(* refuse whenever it likes.                                               *)
(***************************************************************************)
EXTENDS Naturals, Sequences, FiniteSets, Filters

CONSTANTS
    ModelPaths, \* of models
    Shelf,      \* the folder of the templates
    FileNames, Markers, Required, Optional, Outputs, Observer, Cleanable,
    Setup,      \* for an input, the places where it is looked for: <<"own" or "shelf", name>>
    Input,      \* the input an output becomes
    Initially,  \* models at the beginning: path -> names of their files
    Clerks, Jobs,  \* requests, and what they may be for
    None, Refusal,
    MaxActs     \* bound on what people do

\* Nothing that a copy makes is called MOD_SUM, and a folder with nothing else is no model.
ASSUME FoldersAssumption ==
    /\ Shelf \in DOMAIN Initially \ ModelPaths /\ DOMAIN Initially \subseteq ModelPaths \cup {Shelf}
    /\ \A job \in Jobs : /\ job.kind \in {"create", "rename", "cleanup"} /\ job.from \in ModelPaths
                         /\ job.kind # "cleanup" => job.to \in ModelPaths
    /\ \A d \in UNION {Required, Optional, Observer} : d # "MOD_SUM" /\ Setup[d] \in Seq({"own", "shelf"} \X STRING)
    /\ \A o \in Outputs : Input[o] # "MOD_SUM"
    /\ ~(Markers \subseteq {"MOD_SUM"})
    /\ None \notin Clerks /\ None \notin {"at"} \X ModelPaths /\ None \notin {"user", "copy"} \X Nat
    /\ MaxActs \in Nat

VARIABLES
    models,
    owner,      \* MODEL_WRITE_LOCK
    clerk,      \* the requests
    cache,      \* cached summary of each path
    bulk,       \* a summary that was read and is to be stored
    acts, ids, \* bounds: versions and models
    gone        \* history: files that people removed

folders == <<models, owner, clerk, cache, bulk, acts, ids, gone>>

Folder(id, files) == [id |-> id, files |-> files, inner |-> {}, archive |-> <<>>]
There(p) == p \in DOMAIN models
Has(p, n) == There(p) /\ n \in DOMAIN models[p].files
IsModel(p) == There(p) /\ Markers \subseteq DOMAIN models[p].files
\* A function with one more value, and with one less.
With(f, x, y) == [z \in DOMAIN f \cup {x} |-> IF z = x THEN y ELSE f[z]]
Without(f, x) == [z \in DOMAIN f \ {x} |-> f[z]]

\* plan, snap, staged: what a copy will take, its versions then, and what it has copied;
\* candidates and the rest: what a cleanup may remove, and what it has made of each name.
Doer(job) == [pc |-> "ask", job |-> job, plan |-> Refusal, snap |-> <<>>, staged |-> <<>>,
              candidates |-> <<>>, todo |-> {}, removed |-> {}, skipped |-> {}, failed |-> {}]
Waiting == [Doer(None) EXCEPT !.pc = "rest"]
FoldersInit ==
    /\ models = [p \in DOMAIN Initially |-> Folder(<<"at", p>>, [n \in Initially[p] |-> <<p, 0>>])]
    /\ owner = None /\ clerk = [c \in Clerks |-> Waiting]
    /\ cache = [p \in ModelPaths |-> None] /\ bulk = None
    /\ acts = 0 /\ ids = 0 /\ gone = {}

Doing(c, pc) == clerk[c].pc = pc
Job(c) == clerk[c].job
Goes(c, pc) == clerk' = [clerk EXCEPT ![c].pc = pc]
Aside == UNCHANGED <<bulk, acts, gone>>
\* The request ends with an error, its staging folder removed.
Rejected(c) ==
    /\ Goes(c, "failed") /\ owner' = IF owner = c THEN None ELSE owner
    /\ UNCHANGED <<models, cache, ids>> /\ Aside

Begin(c) ==
    /\ Doing(c, "rest")
    /\ \E job \in Jobs : clerk' = [clerk EXCEPT ![c] = Doer(job)]
    /\ UNCHANGED <<models, owner, cache, ids>> /\ Aside
Enter(c) ==
    /\ Doing(c, "ask") /\ owner = None
    /\ owner' = c /\ Goes(c, Job(c).kind)
    /\ UNCHANGED <<models, cache, ids>> /\ Aside
Leaves(c, pc) == Goes(c, pc) /\ owner' = None
Guard(c) == owner = c /\ ~Doing(c, "move") /\ ~Doing(c, "clean") /\ ~Doing(c, "publish") /\ Rejected(c)

-----------------------------------------------------------------------------
(* plan_model_from_solution.                                               *)

Places(own, shelf) == ({"own"} \X own) \cup ({"shelf"} \X shelf)
Sought(own, shelf, d) == Only(Setup[d], Places(own, shelf))
\* With an observer folder or its templates, the observer's files are wanted too.
Desired(own, shelf) ==
    Required \cup Optional
    \cup (IF \E d \in Observer : Setup[d][1][2] \in own \/ Sought(own, shelf, d) # <<>> THEN Observer ELSE {})
PlanOf(own, shelf) ==
    LET setup == {d \in Desired(own, shelf) : Sought(own, shelf, d) # <<>>}
        outputs == own \cap Outputs
        inputs == {Input[o] : o \in outputs}
    IN IF setup \cap inputs # {} \/ Cardinality(inputs) < Cardinality(outputs) THEN Refusal
       ELSE [ready |-> Required \subseteq setup /\ outputs # {},
             entries |-> [d \in setup \cup inputs |->
                IF d \in setup THEN Head(Sought(own, shelf, d))
                ELSE <<"own", CHOOSE o \in outputs : Input[o] = d>>]]

PlaceOf(c, source) == IF source[1] = "own" THEN Job(c).from ELSE Shelf
Present(c, source) == Has(PlaceOf(c, source), source[2])
VersionOf(c, source) == models[PlaceOf(c, source)].files[source[2]]
\* A plan for these paths, as things are.
Allowed(c) == IsModel(Job(c).from) /\ ~There(Job(c).to) /\ Job(c).to # Job(c).from
PlanNow(c) ==
    IF Allowed(c) THEN PlanOf(DOMAIN models[Job(c).from].files, DOMAIN models[Shelf].files) ELSE Refusal

\* create_model_from_solution.
Plan(c) ==
    /\ Doing(c, "create")
    /\ IF PlanNow(c) = Refusal THEN Rejected(c)
       ELSE IF ~PlanNow(c).ready THEN Rejected(c)
       ELSE /\ clerk' = [clerk EXCEPT ![c] =
                    [@ EXCEPT !.pc = "copy", !.plan = PlanNow(c),
                              !.snap = [d \in DOMAIN PlanNow(c).entries |-> VersionOf(c, PlanNow(c).entries[d])]]]
            /\ UNCHANGED <<models, owner, cache, ids>> /\ Aside
\* Entries are copied by category; the order within one is left open.
Category(d) == CASE d \in Required -> 1 [] d \in Optional -> 3 [] d \in Observer -> 4 [] OTHER -> 2
Copy(c) ==
    /\ Doing(c, "copy")
    /\ \E d \in DOMAIN clerk[c].snap \ DOMAIN clerk[c].staged :
        LET source == clerk[c].plan.entries[d]
        IN /\ \A e \in DOMAIN clerk[c].snap \ DOMAIN clerk[c].staged : Category(d) <= Category(e)
           /\ IF ~Present(c, source) THEN Rejected(c)
              ELSE /\ clerk' = [clerk EXCEPT ![c].staged = With(@, d, VersionOf(c, source))]
                   /\ UNCHANGED <<models, owner, cache, ids>> /\ Aside
\* Nothing of the source has changed since it was planned.  A variant compares the plans.
SamePlan(c) == PlanNow(c) = clerk[c].plan
Settled(c) ==
    /\ SamePlan(c)
    /\ \A d \in DOMAIN clerk[c].snap : VersionOf(c, clerk[c].plan.entries[d]) = clerk[c].snap[d]
VerifyCopy(c) ==
    /\ Doing(c, "copy") /\ DOMAIN clerk[c].staged = DOMAIN clerk[c].snap
    /\ IF Settled(c) THEN Goes(c, "look") /\ UNCHANGED <<models, owner, cache, ids>> /\ Aside ELSE Rejected(c)
LookThere(c) ==
    /\ Doing(c, "look")
    /\ IF ~There(Job(c).to) THEN Goes(c, "publish") /\ UNCHANGED <<models, owner, cache, ids>> /\ Aside
       ELSE Rejected(c)
\* An empty folder that appeared meanwhile is replaced, another one is not.
PublishCopy(c) ==
    /\ Doing(c, "publish")
    /\ LET to == Job(c).to
       IN IF There(to) => models[to] = Folder(None, <<>>)
          THEN /\ models' = With(models, to, Folder(<<"copy", ids>>, clerk[c].staged))
               /\ ids' = ids + 1
               /\ Leaves(c, "forget") /\ UNCHANGED cache /\ Aside
          ELSE Rejected(c)

-----------------------------------------------------------------------------
(* rename_model_directory.                                                 *)

Rename(c) ==
    /\ Doing(c, "rename")
    /\ IF Allowed(c) THEN Goes(c, "move") /\ UNCHANGED <<models, owner, cache, ids>> /\ Aside ELSE Rejected(c)
\* shutil.move puts it into a folder that appeared meanwhile.
Into(old, new) == [old EXCEPT !.inner = {new}]
Moved(from, to) ==
    Without(With(models, to, IF There(to) THEN Into(models[to], models[from]) ELSE models[from]), from)
Move(c) ==
    /\ Doing(c, "move")
    /\ LET from == Job(c).from
           to == Job(c).to
       IN IF There(from) /\ (There(to) => models[to].inner = {})
          THEN /\ models' = Moved(from, to)
               /\ Leaves(c, "settle") /\ UNCHANGED <<cache, ids>> /\ Aside
          ELSE Rejected(c)

-----------------------------------------------------------------------------
(* cleanup_model_directory: expected is what its caller reviewed, or None; *)
(* archived tells whether the files are kept.                              *)

Cleanables(p) == [n \in DOMAIN models[p].files \cap Cleanable |-> models[p].files[n]]
Clean(c) ==
    /\ Doing(c, "cleanup")
    /\ LET p == Job(c).from
           now == Cleanables(p)
           agreed == Job(c).expected # None => \A n \in Job(c).names :
                        n \in DOMAIN now /\ n \in DOMAIN Job(c).expected /\ Job(c).expected[n] = now[n]
       IN IF IsModel(p) /\ agreed
          THEN /\ clerk' = [clerk EXCEPT ![c] = [@ EXCEPT !.pc = "clean", !.candidates = now, !.todo = Job(c).names]]
               /\ UNCHANGED <<models, owner, cache, ids>> /\ Aside
          ELSE Rejected(c)
Candidate(c, n) == n \in DOMAIN clerk[c].candidates
Cleaning(c, n, as) == clerk' = [clerk EXCEPT ![c].todo = @ \ {n}, ![c][as] = @ \cup {n}]
\* Any of them may fail, those that are not there any more or in the archive already do, and
\* a file in the archive whose permissions cannot be set counts as failed.
CleanOne(c) ==
    /\ Doing(c, "clean")
    /\ \E n \in clerk[c].todo :
        LET p == Job(c).from
            kept == Job(c).archived
            possible == Has(p, n) /\ (kept => n \notin DOMAIN models[p].archive)
        IN \/ ~Candidate(c, n) /\ Cleaning(c, n, "skipped") /\ UNCHANGED models
           \/ Candidate(c, n) /\ Cleaning(c, n, "failed") /\ UNCHANGED models
           \/ /\ Candidate(c, n) /\ possible
              /\ \E as \in {"removed"} \cup (IF kept THEN {"failed"} ELSE {}) : Cleaning(c, n, as)
              /\ models' = [models EXCEPT ![p].files = Without(@, n),
                                      ![p].archive = IF kept THEN With(@, n, models[p].files[n]) ELSE @]
    /\ UNCHANGED <<owner, cache, ids>> /\ Aside
Cleaned(c) ==
    /\ Doing(c, "clean") /\ clerk[c].todo = {}
    /\ Leaves(c, IF Job(c).archived THEN "done" ELSE "check")
    /\ UNCHANGED <<models, cache, ids>> /\ Aside

-----------------------------------------------------------------------------
(* The cached summaries, after the lock is released.                       *)

Complete(p) == Has(p, "VADAT") /\ Has(p, "MOD_SUM")
Stamp(p) == <<models[p].files["VADAT"], models[p].files["MOD_SUM"]>>
Dropped(paths) == [p \in ModelPaths |-> IF p \in paths THEN None ELSE cache[p]]
\* model_create_from_solution: an old summary of the new path.
Forget(c) ==
    /\ Doing(c, "forget") /\ cache' = Dropped({Job(c).to})
    /\ Goes(c, "done") /\ UNCHANGED <<models, owner, ids>> /\ Aside
\* model_rename: relocate_model_summary_entry, or both dropped.
Settle(c) ==
    /\ Doing(c, "settle") /\ Goes(c, IF Complete(Job(c).to) THEN "relocate" ELSE "drop")
    /\ UNCHANGED <<models, owner, cache, ids>> /\ Aside
Relocate(c) ==
    /\ Doing(c, "relocate")
    /\ LET from == Job(c).from
           to == Job(c).to
       IN cache' = [Dropped({from, to}) EXCEPT ![to] =
                        IF cache[from] = None THEN None ELSE [cache[from] EXCEPT !.name = to]]
    /\ Goes(c, "done") /\ UNCHANGED <<models, owner, ids>> /\ Aside
DropSummaries(c) ==
    /\ Doing(c, "drop") /\ cache' = Dropped({Job(c).from, Job(c).to})
    /\ Goes(c, "done") /\ UNCHANGED <<models, owner, ids>> /\ Aside
\* model_cleanup: of a model without a summary.
Recheck(c) ==
    /\ Doing(c, "check")
    /\ cache' = IF Complete(Job(c).from) THEN cache ELSE Dropped({Job(c).from})
    /\ Goes(c, "done") /\ UNCHANGED <<models, owner, ids>> /\ Aside

\* A summary is made of a model and stored later.
Summarize(p) ==
    /\ bulk = None /\ Complete(p)
    /\ bulk' = [name |-> p, id |-> models[p].id, stamp |-> Stamp(p)]
    /\ UNCHANGED <<models, owner, clerk, cache, acts, ids, gone>>
Store ==
    /\ bulk # None /\ bulk' = None
    /\ cache' = [cache EXCEPT ![bulk.name] = bulk]
    /\ UNCHANGED <<models, owner, clerk, acts, ids, gone>>

\* People.
Acts == acts < MaxActs /\ acts' = acts + 1 /\ UNCHANGED <<owner, clerk, cache, bulk, ids>>
EditFile ==
    /\ Acts
    /\ \E p \in DOMAIN models : \E n \in FileNames :
        /\ Has(p, n)
        /\ \/ models' = [models EXCEPT ![p].files[n] = <<"edit", acts'>>] /\ UNCHANGED gone
           \/ models' = [models EXCEPT ![p].files = Without(@, n)] /\ gone' = gone \cup {<<models[p].id, n>>}
MakeModelFolder ==
    /\ Acts /\ UNCHANGED gone
    /\ \E p \in ModelPaths : ~There(p) /\ models' \in
        {With(models, p, Folder(None, <<>>)),
         With(models, p, Folder(<<"user", acts'>>, [n \in {"MOD_SUM"} |-> <<"edit", acts'>>]))}

FoldersNext ==
    \/ \E c \in Clerks :
        \/ Begin(c) \/ Enter(c) \/ Guard(c) \/ Plan(c) \/ Copy(c) \/ VerifyCopy(c) \/ LookThere(c) \/ PublishCopy(c)
        \/ Rename(c) \/ Move(c) \/ Clean(c) \/ CleanOne(c) \/ Cleaned(c)
        \/ Forget(c) \/ Settle(c) \/ Relocate(c) \/ DropSummaries(c) \/ Recheck(c)
    \/ (\E p \in ModelPaths : Summarize(p)) \/ Store \/ EditFile \/ MakeModelFolder

-----------------------------------------------------------------------------
\* The folders under a path, and all folders.
Under(p) == IF There(p) THEN {models[p]} \cup models[p].inner ELSE {}
All == UNION {Under(p) : p \in ModelPaths}
\* However requests and people interleave, nothing of a model is lost but what people or a
\* cleanup of a candidate removed, and no folder with anything in it is replaced; every
\* model is in one place.
NothingMislaid ==
    /\ \A p \in DOMAIN Initially \ {Shelf} : \E f \in All :
        /\ f.id = <<"at", p>>
        /\ \A n \in Initially[p] \ Cleanable : n \in DOMAIN f.files \/ <<f.id, n>> \in gone
    /\ \A k \in 1 .. acts : \A f \in All : f.id = <<"user", k>> =>
        "MOD_SUM" \in DOMAIN f.files \/ <<f.id, "MOD_SUM">> \in gone
    /\ \A p, q \in ModelPaths : p # q => {f.id : f \in Under(p)} \cap {f.id : f \in Under(q)} \subseteq {None}
\* A published copy shows the model and its templates as they were at one moment.
CopyOfOneMoment ==
    \A c \in Clerks : Doing(c, "forget") => clerk[c].staged = clerk[c].snap
\* A cleanup accounts for every name, and removes candidates only.
CleanupAccounted ==
    \A c \in Clerks : clerk[c].pc \in {"clean", "check"} =>
        /\ clerk[c].removed \subseteq Cleanable
        /\ Job(c).names = UNION {clerk[c].todo, clerk[c].removed, clerk[c].skipped, clerk[c].failed}
        /\ clerk[c].removed \cap (clerk[c].skipped \cup clerk[c].failed) = {}
        /\ Job(c).expected # None => clerk[c].skipped = {}
\* A summary that is taken for current belongs to the model at its path.
CacheTrue ==
    \A p \in ModelPaths : cache[p] # None =>
        /\ cache[p].name = p
        /\ Complete(p) => (cache[p].stamp = Stamp(p) => cache[p].id = models[p].id)
\* However renames, copies, cleanups, edits and summaries interleave: nothing is mislaid,
\* copies are of one moment, cleanups accounted for, current summaries of the right model.
FoldersTrue == NothingMislaid /\ CopyOfOneMoment /\ CleanupAccounted /\ CacheTrue
=============================================================================
