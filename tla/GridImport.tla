------------------------------ MODULE GridImport ------------------------------
(***************************************************************************)
(* The importers of local grids (import_bosz_spectra.py and                *)
(* import_phoenix_spectra.py): spectra are converted by threads in a       *)
(* hidden folder beside the grid, which is renamed when all is written.    *)
(* Other importers, users and kills come in between.                       *)
(*                                                                         *)
(* A task is a sequence of models, converted in order: one spectrum of     *)
(* BOSZ, an archive of PHOENIX.  Batches[p] are the sets of tasks that the *)
(* importer p hands to its threads, one after the other: as many spectra   *)
(* as there are threads, or all archives.                                  *)
(***************************************************************************)
EXTENDS Naturals, Sequences, FiniteSetsExt, SequencesExt

CONSTANTS
    Importers, Batches,
    NoFolder,    \* no folder
    Vacant,      \* an empty folder, which rename replaces
    Foreign,     \* a user's folder
    MaxFolders,  \* bound on folders that users make where the grid shall be
    MaxKills     \* bound on killed importers

\* An importer without spectra only refuses, an archive without members is no task.
ASSUME ImportAssumption ==
    /\ \A p \in Importers : Batches[p] # <<>> /\ Batches[p] \in Seq(SUBSET (Seq(STRING) \ {<<>>}))
    /\ NoFolder # Vacant /\ NoFolder # Foreign /\ Vacant # Foreign
    /\ {NoFolder, Vacant, Foreign} \cap
        [whole : SUBSET STRING, open : SUBSET STRING, table : SUBSET STRING, manifest : SUBSET STRING] = {}

VARIABLES
    output,   \* the grid: NoFolder, a folder of a user, or what was published
    staging,  \* the hidden folder of each importer
    imports,  \* the importers
    visitors, kills,
    first     \* history: what was first published or put there

import == <<output, staging, imports, visitors, kills, first>>

ModelsOf(p) == UNION {UNION {Range(task) : task \in batch} : batch \in Range(Batches[p])}
Hidden == [whole |-> {}, open |-> {}, table |-> {}, manifest |-> {}]

Unstarted == [pc |-> "check", batch |-> 1, todo |-> {}, begun |-> {}, failed |-> FALSE, rows |-> {}]
ImportInit ==
    /\ output = NoFolder /\ first = NoFolder
    /\ staging = [p \in Importers |-> NoFolder]
    /\ imports = [p \in Importers |-> Unstarted]
    /\ visitors = 0 /\ kills = 0

Importing(p, pc) == imports[p].pc = pc
Proceeds(p, pc) == imports' = [imports EXCEPT ![p].pc = pc]
Batch(p) == Batches[p][imports[p].batch]

-----------------------------------------------------------------------------
\* The grid exists, or the sources are not what they should be: nothing was made yet.
Refuse(p) ==
    /\ Importing(p, "check") /\ Proceeds(p, "failed")
    /\ UNCHANGED <<output, staging, visitors, kills, first>>
MakeStaging(p) ==
    /\ Importing(p, "check") /\ output = NoFolder
    /\ staging' = [staging EXCEPT ![p] = Hidden]
    /\ imports' = [imports EXCEPT ![p].pc = "convert", ![p].todo = Batch(p)]
    /\ UNCHANGED <<output, visitors, kills, first>>

\* A thread converts a model: a spectrum that is not understood ends the task before its
\* file is opened, a failing disk afterwards.
OpenFile(p, task) ==
    /\ Importing(p, "convert") /\ task \in imports[p].todo /\ Head(task) \notin staging[p].open
    /\ staging' = [staging EXCEPT ![p].open = @ \cup {Head(task)}]
    /\ imports' = [imports EXCEPT ![p].begun = @ \cup {Head(task)}]
    /\ UNCHANGED <<output, visitors, kills, first>>
CloseFile(p, task) ==
    /\ Importing(p, "convert") /\ task \in imports[p].todo /\ Head(task) \in staging[p].open
    /\ staging' = [staging EXCEPT ![p].open = @ \ {Head(task)}, ![p].whole = @ \cup {Head(task)}]
    /\ imports' = [imports EXCEPT ![p].todo = (@ \ {task}) \cup (IF Len(task) = 1 THEN {} ELSE {Tail(task)}),
                                  ![p].rows = @ \cup {Head(task)}]
    /\ UNCHANGED <<output, visitors, kills, first>>
Fails(p, task) ==
    /\ Importing(p, "convert") /\ task \in imports[p].todo
    /\ imports' = [imports EXCEPT ![p].todo = @ \ {task}, ![p].failed = TRUE]
    /\ UNCHANGED <<output, staging, visitors, kills, first>>
\* Tasks that no thread has begun are not begun after a failure.
Withdraw(p, task) ==
    /\ Importing(p, "convert") /\ imports[p].failed
    /\ task \in imports[p].todo \cap Batch(p) /\ Head(task) \notin imports[p].begun
    /\ imports' = [imports EXCEPT ![p].todo = @ \ {task}]
    /\ UNCHANGED <<output, staging, visitors, kills, first>>

\* All threads have ended: an exception is raised where the results are collected.
AnyFailed(p) == imports[p].failed
EndBatch(p) ==
    /\ Importing(p, "convert") /\ imports[p].todo = {}
    /\ IF AnyFailed(p) THEN Proceeds(p, "cleanup")
       ELSE IF imports[p].batch < Len(Batches[p])
       THEN imports' = [imports EXCEPT ![p].batch = @ + 1, ![p].todo = Batches[p][imports[p].batch + 1]]
       ELSE Proceeds(p, "table")
    /\ UNCHANGED <<output, staging, visitors, kills, first>>

WriteTable(p) ==
    /\ Importing(p, "table")
    /\ staging' = [staging EXCEPT ![p].table = imports[p].rows]
    /\ Proceeds(p, "manifest")
    /\ UNCHANGED <<output, visitors, kills, first>>
WriteGridManifest(p) ==
    /\ Importing(p, "manifest")
    /\ staging' = [staging EXCEPT ![p].manifest = imports[p].rows]
    /\ Proceeds(p, "look")
    /\ UNCHANGED <<output, visitors, kills, first>>
WritingFails(p) ==
    /\ imports[p].pc \in {"table", "manifest"} /\ Proceeds(p, "cleanup")
    /\ UNCHANGED <<output, staging, visitors, kills, first>>
LookAgain(p) ==
    /\ Importing(p, "look") /\ Proceeds(p, IF output = NoFolder THEN "publish" ELSE "cleanup")
    /\ UNCHANGED <<output, staging, visitors, kills, first>>
\* rename: refused by a folder that is not empty.
Replaceable == output \in {NoFolder, Vacant}
PublishGrid(p) ==
    /\ Importing(p, "publish")
    /\ IF Replaceable
       THEN /\ output' = staging[p]
            /\ staging' = [staging EXCEPT ![p] = NoFolder]
            /\ first' = IF first = NoFolder THEN output' ELSE first
            /\ Proceeds(p, "done")
       ELSE Proceeds(p, "cleanup") /\ UNCHANGED <<output, staging, first>>
    /\ UNCHANGED <<visitors, kills>>
Cleanup(p) ==
    /\ Importing(p, "cleanup")
    /\ staging' = [staging EXCEPT ![p] = NoFolder]
    /\ Proceeds(p, "failed")
    /\ UNCHANGED <<output, visitors, kills, first>>

KillImport(p) ==
    /\ kills < MaxKills /\ imports[p].pc \notin {"check", "done", "failed", "killed"}
    /\ kills' = kills + 1 /\ Proceeds(p, "killed")
    /\ UNCHANGED <<output, staging, visitors, first>>
MakeGridFolder ==
    /\ visitors < MaxFolders /\ output \in {NoFolder, Vacant}
    /\ visitors' = visitors + 1
    /\ output' \in {Vacant, Foreign} \ {output}
    /\ first' = IF output' = Foreign /\ first = NoFolder THEN Foreign ELSE first
    /\ UNCHANGED <<staging, imports, kills>>

Thread(p) ==
    \E task \in imports[p].todo : OpenFile(p, task) \/ CloseFile(p, task) \/ Fails(p, task) \/ Withdraw(p, task)
ImportNext ==
    \/ \E p \in Importers :
        \/ Refuse(p) \/ MakeStaging(p) \/ Thread(p) \/ EndBatch(p) \/ WriteTable(p) \/ WriteGridManifest(p)
        \/ WritingFails(p) \/ LookAgain(p) \/ PublishGrid(p) \/ Cleanup(p) \/ KillImport(p)
    \/ MakeGridFolder

-----------------------------------------------------------------------------
\* A published grid is whole and of one importer: every model of its sources is in the
\* table, in the manifest and in a file that was closed; it replaces nobody's data and
\* stays as it is; and an importer that ends by itself leaves no hidden folder.
GridsWhole ==
    /\ output \notin {NoFolder, Vacant} => output = first
    /\ output \notin {NoFolder, Vacant, Foreign} => \E p \in Importers :
        /\ Importing(p, "done")
        /\ output = [whole |-> ModelsOf(p), open |-> {}, table |-> ModelsOf(p), manifest |-> ModelsOf(p)]
    /\ \A p \in Importers : imports[p].pc \in {"done", "failed"} => staging[p] = NoFolder
=============================================================================
