# Verification of cmfgen_viewer

TLA+ models of cmfgen_viewer, the web viewer and runner for CMFGEN stellar-atmosphere
models: of what it does concurrently, of what it undertakes to do wholly or not at all, and
of the rules by which it reads, compares and ranks observations. TLC checks small instances;
TLAPS proves, for every instance, what matters most of the locks, the detached jobs, the
temporary controls, the archives, the job store and the bulk summaries, the promotions, the
searches and their event stream, automatic convergence, the editor, the uploads and the updater
of the sources. Paths are relative to the repository root
(`src/` below), and files without a directory lie under `cmfgen_viewer/`. `PROJECT.json`
lists the runs, the lines each definition translates, the hazards and the theorems.

## 1. The system

cmfgen_viewer is a Flask application plus command-line tools over a tree of
model directories. It has no server-side database of models: **the model
directory is the shared state**, and several processes change it at once: web
requests, CLI tools, detached runner workers, the Fortran solver those workers
start, and jobs a user starts in a shell. They coordinate by advisory file
locks, marker files, signals and modification times. Inside the web process,
worker threads share in-memory job stores and an SQLite summary cache. Uploads and
grids of spectra are folders that no lock protects.

### 1.1 Components, state, operations

| Component | State it keeps | Operations | What makes it correct |
|---|---|---|---|
| Model locks (`model_activity.py`, `process_monitor.py`, `model_full_cleanup.py`) | two lock files per model, open descriptors, the context token of a reservation | mutation guard, read guard, run reservation, activity inspection, full cleanup | one writer at a time; one run owner at a time, also between its native children; a cleanup never hides a live run; an accepted copy overlaps no mutation |
| Detached jobs (`detached_jobs.py`, `detached_worker.py`) | files in a job directory: request, process, start, cancel, stop, state, result | launch, snapshot, cancel, stop after the iteration; the worker's main | the hand-over never conflicts; a failed launch never runs; a cancel ends the job; what the monitor reports is true |
| Native stage runner (`runner.py`, `runner_controls.py`, `runner_child.py`, and what plans for it: `runner_recipe.py`, `runner_restart.py`, `workflow_*.py`) | run journal, control files with temporary overrides, solver process | plans, stages, sequences | a stage starts on what was planned; results belong together; overrides are taken back and edits kept; the solver is stopped on every ending |
| Automatic convergence (`runner_auto.py`, `auto_*.py`) | attempts, budgets, a rolling snapshot, a provisional recipe | recover, run, verify, accept or roll back | coupled files never stay half-replaced; budgets hold; edits survive |
| LTE/hydro workflow and promotion (`model_workflow.py`, `lte_cleanup.py`, `runner_promotion.py`) | model files, a backup directory with an archive of temporaries, the stale-solution marker | prepare, promote, clean up | a promotion succeeds completely or restores the files; nothing is lost; the solution fits its grid |
| Editing (`model_editor.py`, `model_quick_editor.py`, `structure_update.py`, `model_reseed.py`) | model files, backups, a baseline of the structure, the marker; open pages | load, review, save, update, reseed | no edit is lost unseen; what is outdated is said to be; reviewed operations are whole |
| History (`model_history.py`, `history_inputs.py`, `recovery_files.py`) | archives of runs and edits with their manifests | capture, compact, delete, restore | an archive that says it is complete can be restored; an input of a user is in the model or in an archive |
| Staging (`model_staging.py`, `model_write_views.py`) | model folders, their cached summaries | copy, rename, clean | nothing is mislaid; a copy is of one moment |
| Job store (`job_store.py`) | payloads by job id, under one lock | insert, update, append, finish, snapshot, cancel, prune | one slot when singleton; running jobs are never forgotten |
| Summaries and maintenance (`summary_jobs.py`, `cache_jobs.py`, `summary_cache.py`, `model_metadata.py`, `browser_views.py`, `model_views.py`, `system_views.py`) | SQLite table keyed by path with stored modification times; the memory of `read_model`; worker threads | bulk summary, retry, cancel, check / refresh / remove, caching on a visit, deletion | no mixed summaries; a retry completes a job |
| Grid search (`grid_jobs.py`, `grid_views.py`) | store of several jobs, a process pool | create, run, cancel, read | what a search says fits together; a cancelled one ends |
| Catalogue, spectra and fits (`grid_catalog.py`, `grid_fitting.py`, `spectrum_fitting.py`, `spectrum_transforms.py`, `photometry_sampling.py`) | none beyond a search | choose models, normalize, fit, rank | models are compared on equal terms; a report is what its parameters give |
| Observed data (`observed_spectrum.py`, `vizier_photometry.py`, `upload_service.py`, `upload_views.py`) | one folder per upload: source and manifest | create, save, append, delete, read | source and manifest agree; values stay what was given |
| Live events (`live_events.py`, `live_event_views.py`, `task_views.py`) | a version counter and subscribers | publish, stream | no change is missed |
| Spectral libraries (`scripts/download_tlusty_spectra.py`, `import_bosz_spectra.py`, `import_phoenix_spectra.py`) | raw archives, `.npz` files, an index | download, unpack, index; import | an index lists what can be read; an import appears whole |
| Source updater (`cmfgen_patch.py` at the root) | a patched source tree, its state file, a lock | review, install, roll back | the old or the new tree, never a mixture; foreign edits survive |
| Parsers, physics checks, plots, pages, browser scripts | none | pure functions and rendering | not the subject of these models |

### 1.2 How they interact

* A web request or CLI tool enters `model_mutation_guard` for a mutation: inspect
  activity, take the write lock, compare inode and name, inspect again, act. Editing,
  reseeding, restoring, renaming and promoting all happen in there; users with an editor do not.
* `launch_job` takes the run lock *under* the guard, hands it to a detached
  worker by descriptor inheritance, then leaves the guard and touches `start`.
  The worker waits for `start`, and opens the guard again for each native stage;
  the solver inherits the stage's write lock.
* A cancel request leaves the marker `cancel` and may send SIGTERM, which the
  worker turns into `KeyboardInterrupt` at whatever line it executes.
* `run_plan` archives the inputs of a run, temporarily overrides control files and puts them
  back **with their old modification time**, which the summary cache relies on.
* Bulk jobs, maintenance jobs and page visits write the same cache table;
  deletions of a namespace exclude jobs through the store's lock, deletions
  of single entries after an edit or a rename do not.
* A grid search reads the upload and the index of a grid when it is asked for, works on its
  own copy, reports to its store, and every change of a store wakes the streams of open pages.

### 1.3 What is hard here

Locks on names versus inodes; descriptors that outlive their process; an interrupt
at any line, also inside `finally`; markers and state files read one after the
other while the job moves on; files read before or after the times they are filed
under; reviews carried out later than they were made; rollbacks that meet an error of their
own; retries of what partly succeeded; requests without a lock; the death of any party between
two steps. In the numerical parts: optional columns and flags told apart by position,
approximations that must not reach a report, and results that arrive in any order.
`PROJECT.json` lists each hazard at its line with the properties that cover it.

## 2. Modules

| Module | Models | Relation |
|---|---|---|
| `ModelOwnership` | abstract: one writer, one run owner | implemented by `ModelLocks` |
| `ModelLocks` | lock files, guards, probes, full cleanup, inherited descriptors | `MCModelLocks` |
| `DetachedJob` | one detached job with launcher, worker, solver, viewers, monitor | run as it is; relies on `ModelLocks` |
| `JobLifecycle` | abstract: one slot, oldest results forgotten first | implemented by `SummaryTasks` |
| `JobStore` | the store's critical sections | extended by `SummaryTasks` and `GridSearch` |
| `SummaryTasks` | bulk and maintenance threads, cache, memory, visits | `MCSummaryTasks`; composes `JobStore` with cache and disk |
| `Promotion` | promotion of LTE/hydro results, clean-up of temporaries, their rollbacks | `MCPromotion`; relies on `ModelLocks` |
| `AutoPolicies` | the remedies and the measurements they decide on | operators, used by `AutoRun` |
| `AutoRun` | the loop of automatic convergence | `MCAutoRun` |
| `RunSequence` | planning and execution of a sequence of stages | part of `MCStages` |
| `TemporaryControls` | overrides of one control file | part of `MCStages` |
| `Archives` | archives of runs: capture, compaction, deletion, restoration | part of `MCStages` |
| `SourcePatch` | the updater of the native sources | part of `MCInstalls` |
| `GridImport`, `GridDownload` | the scripts that bring grids of spectra | parts of `MCInstalls` |
| `ModelFolders` | copies, renames, cleanups of model folders and their cached summaries | part of `MCInstalls` |
| `ModelEdits` | editor pages, structure updates, restorations, the marker | part of `MCModelEdits` |
| `QuickEdit` | the form for single values | part of `MCModelEdits` |
| `Reseed` | reseeding a model | part of `MCModelEdits` |
| `GridSearch`, `LiveEvents` | searches in their store; the event stream over searches and detached runs | run as they are |
| `Photometry`, `ObservedSpectra` | reading and writing tables of photometry; reading spectra | operators, compared over samples in `MCUploads` |
| `Uploads` | the bundle of an upload and its requests | `MCUploads`, part of `MCObservations` |
| `SpectrumFit` | one fit through its stages | part of `MCGridFit` |
| `GridConfidence` | the confidence intervals of a search | part of `MCGridFit` |
| `GridCatalogue`, `GridFiles` | which models are fitted; what the scripts write and the series that are read from it | operators, compared over samples in `MCGridFit` |
| `MCGridFit`, `MCObservations` | the parts of a search; all of observed data and its fits | |
| `Filters` | lists: the operator `Only` (filtering, by a recursive function) and lemmas about joining, shortening and filtering, by induction | used by `SummaryTasks`, `Promotion` and the proofs |
| `RunnerProofs` | theorems of the locks, the detached jobs, the temporary controls and the archives (section 4) | extends `ModelLocks`, `DetachedJob`, `TemporaryControls`, `Archives` |
| `StorageProofs` | theorems of uploads, source updates, model folders and grids | extends `Uploads`, `SourcePatch`, `ModelFolders`, `GridDownload` |
| `SummaryTasksProofs`, `PromotionProofs`, `LiveEventsProofs`, `AutoRunProofs`, `ModelEditsProofs` | inductive invariants and theorems | each extends the module of its name |

A run that checks several small components has a variable `part` (or, in the observations,
a sample that is asleep) that says which of them moves. The others stay in one idle state, so
the states of a run are the *sum* of those of its parts; `part` connects nothing and hides
nothing. A definition marked "a variant" is a plausible bug in the definition above
it: with the variant in its place the property that `PROJECT.json` names is violated.

### 2.1 Locks and jobs

*ModelLocks.* A client is a process that uses the guards; several requests of one web process
count as several clients because every guard opens the file anew, and flock
belongs to the open file description. `dentry` maps the two lock names to inodes;
`wfd`, `pfd`, `rfd` are the descriptors of the write lock, of an activity probe
and of a reservation. Who holds a lock is *derived* from descriptor and step
(`HoldsWriteEx`, ...), as the kernel derives it. `child` is the solver with the
inode it inherited: it keeps the write lock when the runner is killed, while the run lock,
which is not inherited, goes. `pc` walks through
the guard line by line: open, lock, validate, second inspection, body, release.
A client that is refused or raises at any of these steps performs `GiveUp`, which
is the `finally` clauses. `Crash` is SIGKILL. `External` is a solver started from
a shell; no lock stops it. A detached worker and its launcher are one client here: the
run-lock description passes from one to the other, and `DetachedJob` models the hand-over.

*DetachedJob.* The job directory's markers are the set `files`; `state` and `result` are the statuses
in the two JSON files; `worker` is the next step of the worker, cut where an interrupt would make a
difference. `known` is what `run_plan`'s local variables record: the `Popen` object and the ownership
of an override. Each is recorded one step after the effect it records (`Fork`/`Bind`,
`Override`/`Own`), because a signal can fall between the two. `Interrupt` sends the worker where
Python's exception handling would: default action before the handlers exist, `except
KeyboardInterrupt` of `run_plan` inside its `try`, the worker's own handler elsewhere, process exit
outside both. The restoration may fail (`runner_error`). The plan is one native stage with at most one
override; `RunSequence` has several, `TemporaryControls` several overrides. (Where two models are
extended together, the smaller one's initial predicate, next-state relation and specification carry
its name: `JobInit`, `ControlNext`, `ArchivesSpec`, ...)

*JobStore, SummaryTasks.* Each store operation is one critical section of the store's lock.
Time is the order of finishing (`ended`); which results have expired at a given moment
is left open. Versions of `VADAT` and `MOD_SUM` are numbers that double
as their modification times: every write gets a new one, as it does on a file system
with nanosecond times. A summary is the pair of versions it was computed from. `past[m]` is a
history variable: the pairs that existed on disk together. `PutBack` is the restoration
of a control file *with its old time*. `memo` is the `lru_cache` behind
`read_model`, filed under times taken before the files are read; entries that
equal their key are not stored, since a fresh read gives the same answer.
Bulk jobs read between two looks at the times; maintenance and visits read
first and take the times afterwards, as the code does.

*GridSearch, LiveEvents.* The search's thread works through its candidates, alone or with a
pool whose answers come in any order, late or never (`PoolResult`, `Work`, `TimesOut`). A fit
is its place and its rmse. Every change of the store ends with a notification under the same
lock, a step of its own (`Notify`), so that a stream may look between the two. The stream
reads the version, then the tasks, sends them if they differ, and sleeps; `tasksDue` and
`externalDue` are what has run out of its two intervals.

### 2.2 Runs

*RunSequence.* A product of a stage is the run that wrote it and the facts it was computed
from; a modification time is what these facts say. A sequence is previewed, then each stage is
planned from what its predecessors left, checked again under the guard and executed, in passes
where the code has them, until the request is done, the time is used or a stop is seen. Others
change files and finish runs of their own while no guard is held. What happens inside a
promotion, an automatic main stage and an override belongs to `Promotion`, `AutoRun` and
`TemporaryControls`.

*TemporaryControls.* Reading, computing, replacing and remembering are separate steps of an override;
so are those of the restoration, key by key or of the whole file. An override may set any keys, also
ones a user has edited since the last. Users edit with other programs at any moment. What a user wrote
last into a key is kept in a history variable, and so is which of these keys the runner has set
(`overridden`).

*AutoPolicies, AutoRun.* An attempt shows a *scene*: how the solver ended, what its log said, and
a batch of solves with their corrections. Scene, history, budgets and controls make up the
*context* that a policy reads; `choose` takes the first of the registered policies that
decides, `Response` says what a step of a recipe makes of the next context. Thresholds, windows
and what each policy changes are the code's; corrections are in tenths of a percent, and the
numbers of the native output are ordinary integers. In the loop, every write of a checkpoint or
a control takes a new stamp, so "belongs together" is equality. `files` is the model directory,
`dirs` the two directories the rolling snapshot alternates between, `recorded` the one
`recovery.json` names and `recovery` the one the controller remembers. A cancellation may strike
between any two steps (`struck` remembers where), file errors at every access. The user's edit may
come at any step, too. The controller checks its inputs at the head of a guarded section and
writes further down (`Sections`); the guard keeps the pages of the viewer out of it, an editor
not, and `raced` marks an edit that falls in between. A native change of the controls is read
(`NativeEnds`) and signed (`JudgeSigns`) in two steps, so that an edit may come in between and may
be taken for the solver's.

*Promotion.* `disk` is the model directory as far as a promotion reads or changes it. The content
of a file is the number of the LTE or hydro run whose data it carries (of a `VADAT`, the
run its radii come from; of a solution file, the grid it was computed on).
Modification times appear as the comparisons the program makes with them. `saved` is the backup
directory with the archive of temporaries, `local` the lists that `promote_lte_hydro_results`
and `archive_lte_temporaries` keep in local variables and lose when they end. The forward part
has a step per file; `StepFails`, `BackUpFails` and `ArchiveFails` are an `OSError` at any of
them. The rollback is modelled clause by clause: `restore_lte_temporaries` may raise and end it
(`PutBackFails`), the later loops pass over an error and go on. `Abandon` is a
`KeyboardInterrupt`, which no clause catches, or the death of the process. Between
mutations native runs, edits and main runs happen (`Environment`).

*Archives.* An archive maps paths to contents, its `.json` files included. A run captures its
inputs one by one (hash, copy, compare), a compaction keeps, cuts or discards by
`retention_action`, a reviewed deletion or restoration is signed by what it saw. A restoration
moves the present inputs aside, installs the archived ones and marks the solution; its rollback
has its own errors. People edit inputs and archives at any time.

### 2.3 Models and sources

*ModelEdits.* `VADAT` stands for the controls the structure depends on, a structure says for
which values it was made, digests are contents. An operation is cut at every write: backup,
baseline, file, state, marker. A page saves only onto the file it has loaded; a review only
onto the files it has seen. Native runs, reversions, switches of `VEL_OPT`, restorations and an
editor outside come between.

*QuickEdit.* A card shows one file, `VADAT`, `IN_ITS` or `ADJUST_CORRECTIONS`, with its rows, key and
value. Which fields it offers and which values it takes depends on the key (measured numbers,
counts, switches, choices, series such as `HE/X`). `Proposed` is the text the form makes of
what is submitted: the scaling of radius and mass with luminosity or temperature, rows added
when a field has none, the initialization controls a changed value asks for. The page, its
preview and the save are steps; others write in between. Numbers are integers, and a luminosity is
scaled where the result is whole (`Whole`).

*Reseed.* A plan pairs inputs with outputs and lists the checkpoints; staging, the check, each
move and each replacement are steps, and an error at any of them starts the rollback.

*ModelFolders.* A folder is the model it holds, versions of its files, and a folder moved into it.
Copies are staged, verified and renamed into place; a rename is `shutil.move`, which puts a
folder into one that has appeared; a cleanup takes names one by one. The pages move or drop
the cached summaries after the lock is released. A guard may refuse whenever it likes here.

*SourcePatch.* The content of a file is the revision that wrote its text, or an edit. An update
plans under its lock, writes file by file, keeps the patch before it names it in the state,
and undoes what it listed. Editors write at any time; a kill leaves what is on disk.

*GridImport, GridDownload.* Importers convert with threads into a hidden folder and rename it.
The downloader crawls the pages of each grid to a depth, chooses archives by category and
pattern, fetches, unpacks member by member into place and writes `manifest.json` and
`models.csv` at the end; its later runs come with other grids and options (`--force-download`,
`--force-process`, `--dry-run`), after faults, kills and new releases.

### 2.4 Observations and fits

*Photometry, ObservedSpectra.* A token is what the parsers make of it and how its number is
written; a line is tokens and a comment. `RowOf`, `PointOf`, `NamedTable`, `Query` and `Merged` are
the ways a table takes: submitted, legacy, named, queried, appended, stored, read. Spectra are
vectors that travel through the filters one beside the other, as in the code.

*Uploads.* Requests run in threads of their own and take no lock. A call on a file is a step
and may fail: reading, writing, recording, removing, and what is done on the way back. Writing
truncates first, and so does putting the former text back, which is two steps (`Reopen`, `Refill`)
whose error is passed over. `told` is what a user was told last; `mishaps` collects, since the last
request that was done, what the code leaves uncorrected: `"unread"` and `"unrestored"` (the former
text), `"unrecorded"` (the manifest), `"unremoved"`, `"litter"` (left by a failed upload), `"killed"`, and
for good `"mixed"`, an overlap.

*SpectrumFit.* Wavelengths are logarithms, so a redshift adds. Pixels, reach of a broadening,
coverage of a band, counts and costs are integers; the optimizer is external: any point inside
its bounds, an exception, or something that is not finite. The stages, the bounds and seeds,
the crop, the change of sampler and the final comparison are the code's.

*GridCatalogue, GridFiles, GridConfidence.* Operators for what a search makes of the rows of an
index or of the CMFGEN models with a cached summary, for what the scripts write into index and files and what a fit reads back from them
(arrays, units, continua, masked points); the profile of every parameter as results arrive.

## 3. Runs

| Run | Question | Result |
|---|---|---|
| `model_locks` | Do the guards exclude writers and runs, through crashes, orphans and full cleanup? | holds |
| `detached_job` | Do hand-over, cancellation, clean-up and reporting fit together? | holds |
| `summary_tasks` | Is every folder accounted for, no summary mixed, a cancel prompt? | holds |
| `job_slot` | Is there one slot, does every job leave it, are results forgotten in order? | holds |
| `promotion` | Does every ending of a promotion or clean-up leave a state that can be trusted or repaired? | holds |
| `auto_run` | Does automatic convergence keep files, caches, budgets and edits right, however it ends? | holds |
| `stages` | Does a sequence keep to what was planned; do overrides go and edits stay; do archives keep what they say? | holds |
| `installs` | Are trees, grids and model folders put in place whole, beside others? | holds |
| `model_edits` | Is no edit lost unseen, what is outdated reported, a reviewed operation whole? | holds |
| `live_events` | Does a search add up, a cancelled one end, a page show the present? | holds |
| `observations` | Do bundles, values, fits, candidates and files stay what they should be? | holds |
| `vizier_rows` | Does appending rows of VizieR never duplicate one? | refuted |

### 3.1 Properties that hold

* `ModelLocks!MutualExclusion`, `RunExclusive`: one writer, one run owner, and no
  writer but the owner while a run is owned, the gaps between stages included.
  The interesting cases are the killed runner with a live solver and the full
  cleanup that unlinks lock files other clients have open.
* `OwnerVisible`: the run lock of a live owner keeps its name. It
  is the reason why full cleanup may remove the run-lock file at all.
* `AcceptedCopyStable`: the only overlap of an accepted copy with a mutation is the lock-free
  case of 3.2. `ImplementsOwnership`: all of it at once, as a refinement of `ModelOwnership`.
  `LockInv`: the inductive invariant of the proofs, checked by TLC as well.
* `LaunchSafe`, `CancelSparesBoot`, `EndedIsClean`: a launch reported as failed never ran, a cancel
  that races the start neither kills without a trace nor gets lost, the start marker comes after the
  launcher's guard, and a job shown as succeeded, stopped, failed, timed out or interrupted has left
  no solver and (but for the interrupted one) no override. Cancelled jobs, whose cleanup a second
  signal may cut short, and `runner_error`, where the restoration may have failed, are not covered.
  `CancelEnds` (liveness): once the marker exists, the worker ends or the cancelling viewer died
  before it had signalled.
* `RetryCompletes`: results and what a retry would process partition a finished
  job's selection. `BulkReadsConsistent`: a bulk summary is made from two file versions that
  were on disk together. `CancelStopsSoon`: at most one more folder after a cancel.
* `ImplementsLifecycle`, `SlotFrees` (liveness): the slot.
* `NothingLost`: until the commit of a promotion, the previous content of every file is in its
  place or in the backup. `OutcomeTrue`: a failure reported ends with the files and their
  freshness as they were, a success with all of it done. `SolutionOnGrid`: over any sequence of
  promotions, failures, runs and edits the solution belongs to the grid, unless a promotion was torn.
* `RecoveryUsable`: whenever the process dies, `recovery.json` names a snapshot of an accepted
  checkpoint. (Its controls may be half written in one moment: a converged run copies the controls
  over those of the snapshot, `runner_auto.py:725`.) `EndedCoupled`, `SolverReady`, `EditPreserved`:
  checkpoint, controls and caches belong together wherever the solver starts and the run ends, budgets
  hold, and the user's edit stays. Not covered by `EditPreserved` is an edit that falls between a
  check of the inputs and the end of the guarded section it opens (`runner_auto.py`: 344 to 348/353,
  417 to 469, 505 to 519, 520 to 570/585/601/622, 767 to 768, 779 to 780), which the writes of that
  section may replace, and one between the reading and the signing of a native change, which the
  signature takes over. Left alone there, it is safe from the end of the section (or of the attempt it planned) on.
* `SequenceTrue`: results of a sequence stem from one another, a stage starts on what its plan
  accepted, no stage starts after a stop or beyond the time. `ControlsReturned`: at the end the user's
  values are the user's, and no override is left. Not covered are an edit between the reading and the
  replacement of the file, an interruption between the replacement and its record, and a value that an
  override carried along and a later one was the first to set. `ArchivesTrue`: an archive that calls
  its inputs complete can be restored and holds what the run began with; an input of a user is in the
  model or in an archive nobody deleted; compacted means compacted.
* `SourcesTrue`, `FailureRestoresSource`: a recorded tree is whole, its patch can be read, edits
  survive, a failure leaves the old tree. `GridsTrue`: an imported grid appears whole and replaces nothing; the
  index of a finished download lists what can be read and all of the archives it went through, and
  success means that none is missing. `FoldersTrue`: nothing is mislaid by copies, renames and
  cleanups; copies are of one moment; a summary taken for current is that of the model at its path.
* `EditsTrue`: whoever saves has seen what he replaces and its copy is in the backups; the
  quick form saves what it showed, leaves every other row and keeps the star's scaling laws; a reseeding is
  whole or not at all, loses no input and installs what was reviewed. `OutdatedReported`: a structure
  made for other controls, and a solution older than its inputs, are said to be so.
  `UpdateAllOrNothing`: a failed reviewed operation leaves the model as it was.
* `SearchCoherent`: counts, ranking and best model of a search agree with its fits, whenever and
  however it ends, and a search with a worker stays in the store. `NothingMissed`: a stream with
  nothing pending shows the present searches. `PageSettles` (liveness): a cancelled search ends,
  also when the pool never answers, and the page catches up with detached runs.
* `BundleTrue`: source, manifest and what the user was told agree, and stay so through requests that
  fail and are undone. It says less after what the code does not undo, until the next request that is
  done: if the former text could not be read or put back, the manifest still counts the table accepted
  last, but the source may be another one, empty or refused; if the manifest could not be written, the
  source is the new accepted table under the manifest of the former. A killed request or a deletion
  that left files behind suspends it until the next one that is done, an overlap of two requests for
  good. An append that cannot read the table keeps only its own rows (`upload_views.py:537-541`),
  which then are the accepted table. `ObservationsKept`: a row saved and read again means the same,
  whatever its columns; samples keep wavelength, flux and error together. `FitsTrue`: a report is what
  its parameters give on the whole spectrum, inside the bounds asked for, no worse than without
  broadening; intervals are those of the models close to the best. `CandidatesFit`: exactly the
  comparable models are fitted, as many as announced. `FilesTrue`: rows of an index say what their
  files hold, and series pair fluxes with their own wavelengths.

### 3.2 Disagreements between code and text

The run `vizier_rows` refutes one: duplicate rows are recognized by the text of their numbers,
so a row stored in another spelling is appended again, enabled beside the disabled one that
`upload_views.py:162` says it would not duplicate.

Others were found the same way, by stating the sentence as a property and reading the
counterexample; they are not kept as runs:

* A second cancel may cut off the clean-up of the first (`detached_jobs.py:246`).
* "Restored on every exit" (`runner_controls.py:76`, `runner.py:504`): an interrupt between the
  replacement of a control file and the record of it leaves the override in place.
* A read without a lock file is said to be invalidated by a writer that creates one
  (`model_activity.py:145`); a full cleanup that creates and unlinks it within the copy is not seen by
  the lock checks. The callers' comparison of files sees it.
* A visit and a refresh take the times after the reading (`browser_views.py:76`,
  `summary_cache.py:395`): an edit in between is cached as current until the model changes again.
* A rollback on a full disk may overwrite the intact `lte/VADAT` with a truncated copy
  (`model_workflow.py:1093`), against `doc/lte-hydro.md:94`; restored files get new times
  (`:1139`); and a cancelled promotion may leave old checkpoints under the new structure,
  shown as promoted (`:823`).
* "Rolling" recovery snapshots: the controls of a converged run are copied over those of the
  snapshot in place (`runner_auto.py:110`, docstring at 90, `doc/main-computation.md:216`); a trial
  that exhausts the budgets is not put back before it is verified (`:242`, comment at 165).
* Fixes removed from a newer patch stay in the tree when the older set was installed without
  a record (`cmfgen_patch.py:195`, `doc/developer/cmfgen-versioning.md:95`).
* `download_geneva_tracks.py`, `--max-depth`: a seed met earlier at the limit of another is not expanded.

Weaknesses that contradict no text, met while modelling, each excepted by name in the
property it concerns or left out in section 6:

* Uploads: overlapping saves restore over each other; an error of putting the former text back is
  passed over (`upload_views.py:474-477`, `573-576`), and a text that could not be read (`:447-450`)
  is "restored" as an empty one; a failing manifest of an edit leaves the new source with the old
  manifest; a deletion that left files behind is reported as done (`observed_spectrum.py:354`); an
  append after a failed reading drops the former rows; a save during a deletion revives the folder; a
  wavelength under 0.0005 Å is written as 0.000 and the whole append refused; a named flux-error
  column of a text table without a flux column may be taken for the flux; `cleanup_upload_root` is
  never called.
* Automatic convergence: an edit made with an editor within one of the guarded sections above is
  overwritten or taken for the solver's (`auto_hydro.py:62` asks for none to be made); nothing tells
  the user.
* Temporary controls: a value a user gave a key before one override, which carried it along into the
  text the runner holds for its own, is lost when a later override sets that key for the first time
  (`runner_controls.py:65-78`).
* Quick form: after an error the digest is fresh while the values are the old submission
  (`model_editor_views.py:182`), so the next preview sets back what another editor changed; the
  preview does show it.
* Reseeding: an interruption between a move and the list of moves (`model_reseed.py:98`) lets the
  rollback delete that input with the archive.
* Archives: a `T_IN` among the inputs of a restoration is moved aside and discarded by the next compaction.
* Folders: a destination that appears before `shutil.move` takes the model inside, reported as
  success; summaries of two quick renames may be dropped or left dangling.
* Scripts: an unreadable page is no failure; a failed forced download has destroyed the good archive;
  `--force-download` alone keeps old spectra; two members with one stem share a file; a truncation
  between two members of an uncompressed archive goes unnoticed.
* Searches: a request checks for a running search before its discovery, so two may be created;
  a thread that cannot be started leaves its job running; a fit counts a band it covers in part while
  the catalogue demands all of it; a failed free normalization reports a flat residual; the overlay is
  rebuilt from the present files; results are ranked by rmse, intervals made by chi2.

### 3.3 Bounds

* `model_locks`: three processes are the least for an owner, an intruder and a
  third that unlinks a name (or two writers and a reader). Three inodes let a
  name be unlinked while it is open, re-created, and the number of a dead one
  be reused. Processes and inodes are symmetric. The proofs remove both bounds.
* `detached_job`: two viewers give concurrent cancels; a third adds nothing, since each
  leaves at most the same marker and the same pending signal. The markers of
  a job appear once, so there is no other bound.
* `summary_tasks`: `MaxWrites = 2` changes the two files at different moments,
  which is what mixes versions; a third write
  only repeats it. Two folders let a job stop, fail or be cancelled between
  folders; one of them (`Worked`) changes, since each folder is processed from its own files
  only. One job at a time holds the slot, and ids are reused when an entry has expired,
  so a retry still has the cache, the memory and the files its predecessor left.
* `job_slot`: three ids over a store of two (`MaxJobs`) force pruning by number;
  one folder and no writes, because neither touches the slot.
* `promotion`: `MaxMade = 2` allows one more run after the first results, so that contents, the
  promoted and the unpromoted, differ. Two solution files (one of them `MOD_SUM`, whose time
  matters) and two temporaries let each loop stop before, between and after its
  elements. `MaxMishaps = 2` allows an error in the rollback and an interruption besides, or two
  of a kind; ordinary errors and repetitions are not bounded.
* `auto_run`: three models (one that goes on, one that cannot start, one whose corrections cycle),
  each with the scenes that lead to its remedies. Four attempts and nine iterations in batches of two
  let each budget run out first, in a trial, in its verification or in an ordinary batch, and pay for
  a trial that is accepted; the trend is followed over three batches (`Longest`); one fault or
  cancellation and one edit, each at any step. `VIEW MCView` identifies states that agree in all that
  a later step or a property reads: stamps count by which of them are equal, and the counters of the
  loop and the record of actions no more once the run is ending. `EveryPolicyDecides` evaluates each
  of the 25 policies in a context of its own, those whose scenes are in no model included.
* `stages`: four sequences (an LTE workspace up to hydro; LTE and hydro promoted into a main run; a
  startup test, main run and clean-up; main run and spectrum), two passes, three units of time and
  one change by others, which is enough to fall before any step. Two keys, overrides of any of them and two
  edits: an edit of the overridden key and one of its neighbour, on both sides of the restoration.
  Four archives hold a run, an edit and what two operations make of them, with one edit and one
  fault; a kill is counted as a fault.
* `installs`: three patch sets over three files (one added, one that carries the version), two
  updaters, one edit, one kill. Two importers beside one folder of others and one kill. Two grids
  with archives of two spectra of one name, of one spectrum, and of none but a broken one, on pages that link back and to one
  beyond the depth of one; two runs with different options, one fault, one halt, one new release. Three folder names, two interchangeable clerks, one edit.
* `model_edits`: two velocities, two pages, both interchangeable, and three operations: one to make
  a structure, and two that change the control or race (the proofs remove the bound). Five files that people write, numbers
  from 0 to 2, two previews of the quick form around one foreign write. Two inputs and a checkpoint in a reseeding, two reseedings (the
  second replaces what the first installed), two edits and one fault.
* `live_events`: one search at a time of two candidates with two ranks, of which one is reported
  (`Top`), and one detached run: enough for an answer out of order, a tie, a candidate cut off, and
  an event between any two steps of the stream. A new search follows a finished one under the same
  id. Two searches at once in a store of one, where every finished one is pruned at once, were
  checked beside this run with the same result.
* `observations`, `vizier_rows`: three requests (a creation, and two that overlap it or each other),
  interchangeable; two faults (failing calls or kills; one in `vizier_rows`), so that a request fails and
  its way back as well.
  Samples of tables, spectra, series and indices contain one of each
  combination of the columns and flags the code tells apart; fits and confidence
  intervals have three points, three results and a window that cuts off one.

Deadlock checking is off where everything comes to its end: `detached_job`, `stages`, `installs`,
`model_edits`, `live_events`, `observations` and `vizier_rows`.

### 3.4 Fairness

* `DetachedJob!FairSpec`: weak fairness of the worker's own steps (the operating
  system runs it; its loops poll every fraction of a second), of the delivery of
  a pending signal, and of a cancel request that has begun. Not assumed: that the
  solver ever ends, that a plan has a deadline, that the viewer lives.
* `SummaryTasks!FairSpec`: weak fairness of each worker thread. Its steps wait
  for nobody: store lock and SQLite calls end by themselves or fail
  with a timeout, and a failure is one of the steps.
* `LiveEvents!FairSpec`: weak fairness of the notification that ends a critical section
  (`Notify`) and of the passing of time (`Elapse`); strong fairness of the
  search's thread and of the stream, because the critical sections of others interrupt their
  being enabled again and again, while each ends and the lock is granted in the end.
  Not assumed: that the pool ever answers. The search's thread polls with a timeout, which is
  what makes a cancelled search end.
* The other models are of functions whose loops are bounded and which wait for nobody but a
  solver. For them "how it ends" is the question, and it is put as safety. `AutoRun` and
  `RunSequence` run with deadlines and budgets, which are invariants here.
* `ModelLocks` has no liveness property: every lock attempt is non-blocking, a
  refused client reports and leaves, and nothing in the code retries, so no
  client is promised that it will ever succeed.

## 4. Proofs

Each proof module extends the component's module, states an inductive invariant, proves one lemma
per conjunct of it (or per action, where most conjuncts move together), and draws the theorems from
it. The invariants were checked by TLC on small instances before they were proved. The theorems
hold for every value of the constants that the assumptions allow; the bounds on writes,
operations, runs and faults that the models carry are constants too, so that the theorems hold
however many there are.

| Module | Theorem | States |
|---|---|---|
| `RunnerProofs` | `LockInvariant`, `TypeCorrect` | `LockInv`, the type invariant |
| | `WritersExclude`, `RunsExclude`, `OwnerStaysVisible` | `MutualExclusion`, `RunExclusive`, `OwnerVisible` |
| | `AcceptedCopiesAreStable` | `AcceptedCopyStable` |
| | `GuardsImplementOwnership` | refinement of `ModelOwnership` |
| | `JobInvariant`, `FailedLaunchesNeverRun`, `CancelsSpareBoot`, `EndedJobsAreClean` | `JobInv`, `LaunchSafe`, `CancelSparesBoot`, `EndedIsClean` |
| | `OverridesAreReturned` | `ControlsReturned` |
| | `ArchivesAreTrue` | `ArchivesTrue` |
| `StorageProofs` | `BundlesTrue` | `BundleTrue` |
| | `SourcesAreTrue`, `FailedUpdateRestores` | `SourcesTrue`, `FailureRestoresSource` |
| | `FoldersAreTrue` | `FoldersTrue` |
| | `GridsAreTrue` | `GridsTrue` |
| `SummaryTasksProofs` | `TaskInvariant`, `CancellationsStop`, `BulkNeverMixes`, `RetriesComplete` | `TaskInv`, `CancelStopsSoon`, `BulkReadsConsistent`, `RetryCompletes` |
| | `StoreIsOneSlot` | refinement of `JobLifecycle` |
| `PromotionProofs` | `PromotionInvariant`, `FilesAreNeverLost`, `OutcomesAreTrue`, `SolutionsFitTheGrid` | `PromotionInv`, `NothingLost`, `OutcomeTrue`, `SolutionOnGrid` |
| `LiveEventsProofs` | `SearchesCoherent`, `PagesMissNothing` | `SearchCoherent`, `NothingMissed` |
| `AutoRunProofs` | `TypesHold`, `RecoveryAlwaysUsable`, `EndsCoupled`, `SolverAlwaysReady`, `EditsArePreserved` | `Types`, `RecoveryUsable`, `EndedCoupled`, `SolverReady`, `EditPreserved` |
| `ModelEditsProofs` | `EditsHold`, `SavesLoseNothing`, `OutdatedIsReported`, `UpdatesAreWhole` | `EditInv`, `NoEditLost`, `OutdatedReported`, `UpdateAllOrNothing` |

### 4.1 Assumptions

* `LockAssumption`: `None` is neither a client nor an inode. Nothing else is assumed of the sets.
* `DetachedJob` assumes nothing: any set of viewers.
* `StoreAssumption`, `TaskAssumption`: a store has room for at least one job; there are finitely many
  models; a selection lists models without repetition, as `_collect_rel_paths` makes it.
* `PromotionAssumption`: the lists of files repeat nothing and do not overlap, `MOD_SUM` is a
  solution file, and the two special contents are no run's number.
* `SearchAssumption`, `RunsAssumption`: a search has a candidate and a place for a result; rmse is a number.
* `BudgetAssumption`: budgets of at least two, which `runner_auto.py:45` demands.
  `ModelAssumption`: a model has the controls `RELAX` and `N_FIX_BA`, names of facts and of controls do
  not collide, and a batch has a number of solves.
* `EditAssumption`: there is a velocity, a page, and a number of operations.
* `ControlAssumption`, `ArchivesAssumption`: the bounds are numbers; the names of inputs, of what a
  native run replaces, of checkpoints, of logs and of the program's own records are different
  names, as the tables of `model_history.py` make them.
* `TableAssumption`, `UploadsAssumption`: the marks for no table and a refused one are no tables;
  what people upload and what VizieR answers are tables of tokens as the parsers make them, or
  refused; the bound on faults is a number.
* `PatchAssumption`: the order of the files lists none twice; the file with the version is in every
  set, with the number of the set, and not among the added ones; a text is of its set or an earlier one.
* `FoldersAssumption`: the folder of templates is no model; nothing that a copy takes is called
  `MOD_SUM`, which the tables of `model_staging.py` do not contain, and a folder with nothing but a
  `MOD_SUM` is no model; `None` is neither a clerk nor a model.
* `ImportAssumption`: an importer has at least one batch, since without spectra it refuses, and no task
  is empty; the marks for no folder and those of others are no imported grids. `DownloadAssumption`: an archive is a list of
  names, the patterns match known archives, and the marks for what is missing or half written are
  neither versions nor indices.

TLC evaluates each of them in the runs.

### 4.2 The invariants, and why the properties need them

*Locks.* Mutual exclusion fails by itself because a client may hold an exclusive lock on an inode
that lost its name. `LockInv` adds

1. `Shape`: which descriptors a client has at each step (the `finally` clauses);
2. `WriteLocksExclusive`, `RunLocksExclusive`: what flock guarantees per inode;
3. `GuardsCurrent`: a validated write lock, or one a solver inherited, is on
   the inode the name refers to. Only full cleanup unlinks the name, it holds
   the lock itself, and unlinking is its last mutation. Two validated holders therefore hold the same
   inode, and 2 excludes them;
4. `ReservationsCurrent`, `ProbesCurrent`: under the write guard the name of the run lock
   changes neither its inode nor its owner, so a probe that was begun there looks at the right inode;
5. `CheckedExcludesOwners`: a guarded client past its run-lock probe meets no
   foreign owner. This is what the *second* inspection is for, and `OwnerVisible` and the
   run half of exclusion follow from it.

For the accepted copies, `CopiesWatched` says what a reader's descriptor still excludes while it
copies. The refinement goes through `StepEffect`: how a step may change who writes and who owns.

*Detached jobs.* Nothing in the job directory is locked; what a party may conclude depends on
the order in which the others leave their marks. `JobInv` states that order: `HandedOver` (which markers
exist while the worker is at which step), `StateTells` and `ReportsTrue` (what a status in
`state.json` implies about the worker), `CancelsKnown` (a cancel that has signalled left its marker
first), `CleansUp` (a solver or an override that exists is recorded by `run_plan`'s locals, or
the worker is at the step between the effect and its record).

*Summaries.* Reading `VADAT` and `MOD_SUM` is not atomic and `VADAT` may be put back with its old
time, so that equal times before and after do not by themselves mean that nothing changed.
`ReadsTrue` and `MemoTrue` carry the argument: every write of `MOD_SUM` has a time of
its own, so one that is present with the time it was first seen with has been there
throughout, and the `VADAT` read meanwhile stood beside it. `Counted` says how far a job is at each
point of its thread, `Accounts` that reported and failed folders are the processed prefix of the
selection. `StoreIsOneSlot` maps each critical section to a step of `JobLifecycle`.

*Promotion.* What a rollback can do depends on what the function remembers and on what is in
the backup. `Copies`: which file has its copy at each step; `Remembered`: a file that differs from before
is among those listed, unless an error fell between the change and the list; `LteKept`, `Progress`
and `Temps`: what is installed, removed and archived; `Ended`, `Gridded`: what this comes
to. Each of the forward and backward steps has a lemma; so has the environment.

*Searches and streams.* `SearchInv` relates the worker's place to the report of its job:
`Counted` (fits, failures and candidates done add up; the ranking leaves out no fit while there is
room, and the best is one of those with least rmse), `Follows` (job and worker say the same, and
a cancellation is at most one candidate ahead), `Tells` (what remains true after the end).
`StreamInv` adds that a stream about to send, or asleep with the present version, has or shows the
present tasks, unless a notification is still due; `ChangesAnnounced` is the step that needs it.

*Automatic convergence.* Types come first, because they bound the budgets: `ChooseFits` proves that
whatever `choose` decides, in any context, keeps within the iterations and attempts it was given
and never weakens the damping; it goes through all registered policies. Then

* `EditApart`: an edit that has raced with no guarded section has a stamp that the controller neither
  holds nor expects, so that the comparison at the head of each section sees it and none of its writes
  is reached; this gives `EditPreserved`;
* `Chosen`, `Chain`, `AcceptedAt`: what a decision can be at each place; that the recorded
  snapshot and the remembered one are the same but in one window of `drop` and `assign`; where the
  model's checkpoint is an accepted one. `RecoveryUsable` follows;
* `Coupled`: where the model and the snapshot hold the same checkpoint and controls;
* `CachesInv`, `FreshInv`, `BudgetInv`: caches beside their checkpoint, fresh matrices through a
  verification, and a recipe that can be paid for to its end when it begins; `SolverReady`
  needs all three.

*Editing.* `Restorable` says that at each step of an update every file is where it was, among
those moved, or among those written. That alone does not show that what is outdated is known,
since a structure and the controls it was made for are replaced one after the other. `StructureFirst`
states the order that makes it true: the structure is moved away before the controls and the
baseline, comes back after them, and a new one is installed before the controls it is for. `Tracks` is
the property itself with the baseline's half of it; `MarkerLast` is why a solution is marked
once an update has finished; `SavesSeen` says that a save replaces what its page has seen.

*Temporary controls.* An override and its restoration read, compute and replace in separate steps, and
users edit the same file between any two of them. `LeftTrue`, `AskedTrue` and `FileTrue` say, key by key, where
the present value comes from: from the user, from an override that is remembered with the value it
replaced, or from one just replaced and not yet remembered. A key that the user edited
and no override has `Taken` since has his value in the file, or is to get it back.

*Archives.* `ArchivesTrue` speaks of what can be restored later, so that `ArchivesInv` follows a
content from the model into an archive and back. `CaptureTrue` and `BundlesWhole`: a bundle called
complete holds inputs only, each as it was when the run began, and compactions keep inputs;
`LabelledTrue`: the label of a compaction is written after one without warnings; `RestorationTrue`: what
a restoration staged or moved aside is in its own archive until it ends; `TaskTrue`: the running operation works
on archives it may change; and `WantedTrue`, by `Recoverable`: every input a user has not given up is in
the model or in an archive that this operation will not remove.

*Uploads.* A request that fails halfway puts the former bundle back from what it has read, if it has
read it and can. `Promised` is what `BundleTrue` says between requests, graded by the `mishaps` since
the last one that was done. `Situation` says for each place of the one request at work (`Alone`) what
is on disk and what it holds for the way back: `Creates` for a new bundle, `Changes` for a save or an
append; `Untouched`, that without a request that got anywhere nothing is there. `UploadTypes` bounds
what tables the normalizations can produce, since a manifest states their length.

*Source updates.* `SourceInv` says that a tree nobody is working on is a `Mixed` one of the
installed set and people's edits; that an updater past its plan still knows what each file it will
write held (`InWork`), which is what a failure restores; and that people's edits are in the tree. The
proof corrected the model: the type invariant of `SourcePatch` had joined its conjuncts in
another way than it was read, and said nothing about half of them.

*Model folders.* `NothingMislaid` speaks of what the folders hold, but what a request does to them
was decided from what it has read. `ModelsKept` says where things are: `Placed`, every model in
some folder with all its files, but for those that people or a cleanup removed; `Apart`, in one place; and
`FolderTypes`, that a folder which another was moved into is no model, so that nobody plans to move or
copy it; `SumsTell`, that a version of `MOD_SUM` tells the model it belongs to, in folders, in the cache and in
a summary on its way there, which is what `CacheTrue` needs: a stamp compares versions, not models. `ClerksKnow`
says of each request what it holds (`IsClerk`), and of the one behind a guard that what it read is still so or that its
own check will find the difference: `Copying` (each staged file is of the version planned, or the
file has changed since) and `Moving`.

*Grids.* `ImportsInv` follows an importer through its threads: while none has failed, what is
converted and what is handed out make up the batches so far (`Converting`), and from the table on the
hidden folder is the grid (`Writing`); a grid in its place is one that was renamed so. `DownloadInv` says of a run that
every archive found is to be done, in work, done or counted as failed (`Books`), that rows of archives done
can be read and, after a forced run, are of the archive they name (`Disk`), and which members of the
archive at work have entries (`Unpacking`): several members may share one file, so that the file of an
entry may be half written again when a later member of the archive is saved, and an archive that fails there
leaves its entries out. `Spoils` accounts for what the table of an earlier run lists.

### 4.3 Lemmas

`Filters` proves what joining, `Head`/`Tail`, and the filter `Only` do to a list of any length.
`AllNumbers` there is induction over numbers for a set (`0 \in S`, and `n + 1 \in S` if `n \in S`),
from the well-foundedness of `<`; it makes `OnlySelects` and `OnlyOnce` provable for all
lengths. `SummaryTasksProofs` and `LiveEventsProofs` state what each operation of `JobStore`
(`AddStep`, `PruneStep`, `UpdateStep`, `FinishStep`) does to the store that is their own.

### 4.4 What stays with TLC

* Liveness (`CancelEnds`, `SlotFrees`, `PageSettles`): the provers at hand handle neither fairness nor
  `ENABLED`.
* `SequenceTrue` (`RunSequence`). Its part `SequenceCoherent` holds because a user requests stages
  in an order in which each finds its predecessors' results; the source does not impose this
  order, so that for every set of requests the statement is false, and which orders make it true
  is what the run tries out.
* Of `EditsTrue` the parts of `QuickEdit` and `Reseed`. There is no obstacle of principle, only work
  that was not done.
* `ObservationsKept`, `FitsTrue`, `CandidatesFit`, `FilesTrue`: what folds and recursive functions
  compute from tables and spectra of any length would need an induction over the data for each of
  them. TLC compares them with a reference definition over samples.

No module declares a `RECURSIVE` operator.

## 5. Status

The models of section 2 are checked by the runs of section 3; section 4 proves, of the properties of
those runs, all but the ones that 4.4 lists. Of these, the ones most worth a proof are, in this order:

| Module | Property | What it needs |
|---|---|---|
| `Reseed` | whole or not at all | what has been moved, as in `ModelEdits` |
| `RunSequence` | a stage starts as planned, no stage after a stop | which products a stage's plan has accepted |

Left to model: listing and paging of detached jobs, the contents checked by the preflight, the
estimates of sigma of `spectrum_fitting.py`, CSV indices, overlay pages, the crawler of Geneva tracks.

## 6. What is not modelled

Parsers, diagnostics and physics checks, plots, routing, argument parsing and the browser scripts
keep no shared state; `components` lists them with their reasons. Number formats and units are
abstracted to what a reader of the text makes of it. Physical results are reals, out of TLC's reach;
the fit works on integers. In the components that are modelled, these parts are left out:

* Locks, folders: what a full cleanup plans to remove. In `ModelFolders` a guard refuses at will, since
  `ModelLocks` says when it must.
* Detached jobs: listing and paging; the runtime of a model as `live_event_views.py` polls it.
* Runs: the text of events, parsing of progress, diagnostics; `TemporaryInput`; the first copies of
  a plan's inputs (`runner.py:446-455`). The physics behind a scene: the policies
  decide on what an attempt shows, and every combination of what it may show is not tried.
* Promotion: the templates of a new LTE workspace, which is built beside and renamed into place.
* Archives: one archive is reviewed at a time where the code takes up to 200 in a loop; policy files
  and archives of older versions appear as initial states only; copies left by an interrupted
  compaction have no record; the modified marker of a restoration; the 30 minutes a review
  token lives.
* Editing: fields of the quick form that behave like a modelled one; the prerequisites of an LTE start
  are checked only where the initialization changes; the numbers of a regridding; in `Reseed` the
  interruption at `model_reseed.py:98` (3.2).
* Summaries: two `stat` calls on the files of a folder are one step; the memory of `read_model` does
  not evict; `SummaryTasks` has no renames, which are in `ModelFolders`.
* Searches: the size of the pool, the assembly of one result (`grid_fitting.py`), CSV indices
  (`grid_catalog.py:544-648`), overlay and status pages, the parse cache keyed by path, time and size.
* Fits: estimates of sigma (`spectrum_fitting.py:67-114, 492-537`), the optimizer, the
  interpolation of spectra.
* Observed data: FITS headers, a guess of the wavelength unit for a reused row; the older schema of
  photometry appears in the normalization only. Deleting all uploads is deleting each.
* Scripts: decoding of an archive member works or does not; a killed import leaves a hidden staging
  folder behind, which nobody reads.
