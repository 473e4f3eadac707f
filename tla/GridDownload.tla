----------------------------- MODULE GridDownload -----------------------------
(***************************************************************************)
(* The downloader of the TLUSTY grids (download_tlusty_spectra.py): it     *)
(* crawls the pages of each grid, keeps the archives it finds under raw/,  *)
(* unpacks each into .npz files and writes an index of all of them, in     *)
(* place and file by file.  It may be killed between any two writes and    *)
(* started again.                                                          *)
(*                                                                         *)
(* Archives[a] is the sequence of members of the archive a; a member is a  *)
(* spectrum, or broken (unpacking it raises), or neither, and FileOf[m] is *)
(* the name of its .npz file: the last suffix is cut off, so that members  *)
(* may share one.  Content is a version; an archive on disk is whole, cut  *)
(* (listing its members fails) or short (cut between two members of an     *)
(* uncompressed archive, where it seems to end).                           *)
(***************************************************************************)
EXTENDS GridImport

CONSTANTS
    Root, Depth, \* grid -> the page where its crawl starts; how far it goes
    Pages,       \* page -> the pages and archives below its folder that it links to
    Archives, FileOf,
    Spectra, Broken,  \* members that are spectra, members that raise
    Categories,  \* the products that the name of an archive speaks of
    Wanted,      \* the products asked for
    Matching,    \* archives that the patterns asked for match
    Specific,    \* whether one of these patterns is not "*"
    Missing, Partial,
    MaxRuns, MaxErrors, MaxHalts, MaxReleases  \* bounds

VARIABLES
    raw,      \* archives on disk: Missing, or [version, upto, short]
    npz,      \* spectra on disk: Missing, Partial or a version
    recorded, \* manifest.json and
    listed,   \* models.csv: Missing, Partial, or the members listed
    release,  \* version of the archives on the server
    job,      \* the run
    runs, errors, halts,
    spoiled   \* history: spectra whose writing did not end

download == <<raw, npz, recorded, listed, release, job, runs, errors, halts, spoiled>>
index == <<recorded, listed>>
store == <<raw, npz, index>>

Grids == DOMAIN Root
Sources == Grids \X DOMAIN Archives
MembersOf(s) == Archives[s[2]]
\* A row of the index, and the file it names.
Rows == UNION {{<<s, m>> : m \in Range(MembersOf(s))} : s \in Sources}
FileAt(row) == <<row[1], FileOf[row[2]]>>
\* upto: members before it are there; one more than their number when whole.
FullLength(s) == Len(MembersOf(s)) + 1
Options == [grids : (SUBSET Grids) \ {{}}, download : BOOLEAN, process : BOOLEAN, dry : BOOLEAN]
NewRun(options) ==
    [pc |-> "crawl", options |-> options, local |-> {}, todo |-> {}, found |-> {},
     archive |-> Missing, next |-> 1, entries |-> {}, rows |-> {}, done |-> {}, failed |-> 0, code |-> 0]
Resting(code) ==
    [NewRun([grids |-> {}, download |-> FALSE, process |-> FALSE, dry |-> TRUE]) EXCEPT !.pc = "end", !.code = code]

ASSUME DownloadAssumption ==
    /\ \A a \in DOMAIN Archives : Archives[a] \in Seq(STRING)
    /\ Matching \subseteq DOMAIN Archives
    /\ Missing # Partial
    /\ \A x \in {Missing, Partial} : x \notin Nat /\ (\A rows \in SUBSET Rows : x # rows)

\* _archive_passes_filters.
Selected ==
    {a \in Matching : IF Categories[a] = {} THEN Specific ELSE Categories[a] \cap Wanted # {}}

DownloadInit ==
    /\ raw = [s \in Sources |-> Missing] /\ npz = [f \in {FileAt(r) : r \in Rows} |-> Missing]
    /\ recorded = Missing /\ listed = Missing
    /\ release = 1 /\ job = Resting(1)
    /\ runs = 0 /\ errors = 0 /\ halts = 0 /\ spoiled = {}

Now(pc) == job.pc = pc
Beside == UNCHANGED <<release, runs, halts>>
Mishap == errors < MaxErrors /\ errors' = errors + 1

-----------------------------------------------------------------------------
(* The crawl, breadth first: a page that cannot be read is passed over.    *)

Level[g \in Grids, d \in 0 .. Depth, down \in SUBSET DOMAIN Pages] ==
    IF d = 0 THEN {Root[g]}
    ELSE (UNION {Pages[p] : p \in Level[g, d - 1, down] \ down}) \cap DOMAIN Pages
Read(g, down) == (UNION {Level[g, d, down] : d \in 0 .. Depth}) \ down
Found(g, down) == {g} \X ((UNION {Pages[p] : p \in Read(g, down)}) \cap Selected)
\* Without a link the archives of earlier runs are taken.
Local(g) == {s \in {g} \X Selected : raw[s] # Missing}

Start ==
    /\ Now("end") /\ runs < MaxRuns /\ runs' = runs + 1
    /\ \E options \in Options : job' = NewRun(options)
    /\ UNCHANGED <<store, release, errors, halts, spoiled>>
Crawl ==
    /\ Now("crawl")
    /\ \E down \in SUBSET DOMAIN Pages :
        /\ IF down = {} THEN UNCHANGED errors ELSE Mishap
        /\ LET remote == UNION {Found(g, down) : g \in job.options.grids}
               local == UNION {Local(g) : g \in {g \in job.options.grids : Found(g, down) = {}}}
           IN job' = IF remote \cup local = {} THEN Resting(1)
                     ELSE [job EXCEPT !.pc = "archive", !.todo = remote \cup local,
                                      !.found = remote \cup local, !.local = local]
    /\ UNCHANGED <<store, spoiled>> /\ Beside

\* The archives in the order of grids and names, which does not matter: any.
Take(s) ==
    /\ Now("archive") /\ s \in job.todo
    /\ job' = [job EXCEPT !.pc = "download", !.archive = s, !.todo = @ \ {s}]
    /\ UNCHANGED <<store, errors, spoiled>> /\ Beside
Skips == job.archive \in job.local \/ (raw[job.archive] # Missing /\ ~job.options.download)
Drop(j) == [j EXCEPT !.pc = "archive", !.failed = @ + 1]
Have ==
    /\ Now("download") /\ (Skips \/ job.options.dry)
    /\ job' = [job EXCEPT !.pc = IF job.options.dry THEN "archive" ELSE "open"]
    /\ UNCHANGED <<store, errors, spoiled>> /\ Beside
FetchRefused ==
    /\ Now("download") /\ ~Skips /\ ~job.options.dry /\ Mishap
    /\ job' = Drop(job)
    /\ UNCHANGED <<store, spoiled>> /\ Beside
\* The file is opened, which empties it, and then filled.
Fetch ==
    /\ Now("download") /\ ~Skips /\ ~job.options.dry
    /\ raw' = [raw EXCEPT ![job.archive] = [version |-> release, upto |-> 1, short |-> FALSE]]
    /\ job' = [job EXCEPT !.pc = "fetching"]
    /\ UNCHANGED <<npz, index, errors, spoiled>> /\ Beside
Fetched ==
    /\ Now("fetching")
    /\ raw' = [raw EXCEPT ![job.archive].upto = FullLength(job.archive)]
    /\ job' = [job EXCEPT !.pc = "open"]
    /\ UNCHANGED <<npz, index, errors, spoiled>> /\ Beside
CutOff ==
    \E n \in DOMAIN MembersOf(job.archive), s \in BOOLEAN :
        /\ s => n > 1
        /\ raw' = [raw EXCEPT ![job.archive] = [@ EXCEPT !.upto = n, !.short = s]]
\* A connection that breaks raises; one that the server closes early looks like the end.
Interrupted ==
    /\ Now("fetching") /\ Mishap /\ CutOff
    /\ \/ job' = Drop(job)
       \/ job' = [job EXCEPT !.pc = "open"]
    /\ UNCHANGED <<npz, index, spoiled>> /\ Beside

-----------------------------------------------------------------------------
(* _extract_archive.                                                       *)

OnDisk == raw[job.archive]
\* All members are listed before the first is looked at: a cut archive gives none.
Listable == OnDisk.upto = FullLength(job.archive) \/ OnDisk.short
Open ==
    /\ Now("open")
    /\ job' = IF Listable THEN [job EXCEPT !.pc = "unpack", !.next = 1, !.entries = {}] ELSE Drop(job)
    /\ UNCHANGED <<store, errors, spoiled>> /\ Beside
Member == MembersOf(job.archive)[job.next]
Entry == <<job.archive, Member>>
Ended == job.next = OnDisk.upto
Indexed(j) == [j EXCEPT !.pc = "unpack", !.next = @ + 1, !.entries = @ \cup {Entry}]
\* A file that can be read is taken as it is.  A variant takes any that is there.
Existing(f) == npz[f] # Missing
Reusable(f) == npz[f] \notin {Missing, Partial}
Reuses == ~job.options.process /\ Reusable(FileAt(Entry))
Reuse ==
    /\ Now("unpack") /\ ~Ended /\ Reuses
    /\ job' = Indexed(job)
    /\ UNCHANGED <<store, errors, spoiled>> /\ Beside
\* savez writes in place.
Parses ==
    /\ Now("unpack") /\ ~Ended /\ ~Reuses
    /\ IF Member \in Spectra
       THEN npz' = [npz EXCEPT ![FileAt(Entry)] = Partial] /\ job' = [job EXCEPT !.pc = "saving"]
       ELSE npz' = npz /\ job' = IF Member \in Broken THEN Drop(job) ELSE [job EXCEPT !.next = @ + 1]
    /\ UNCHANGED <<raw, index, errors, spoiled>> /\ Beside
Saved ==
    /\ Now("saving")
    /\ npz' = [npz EXCEPT ![FileAt(Entry)] = OnDisk.version]
    /\ job' = Indexed(job)
    /\ spoiled' = spoiled \ {FileAt(Entry)}
    /\ UNCHANGED <<raw, index, errors>> /\ Beside
SaveFails ==
    /\ Now("saving") /\ Mishap
    /\ job' = Drop(job) /\ spoiled' = spoiled \cup {FileAt(Entry)}
    /\ UNCHANGED store /\ Beside
\* Only now are its members part of the index.
Unpacked ==
    /\ Now("unpack") /\ Ended
    /\ job' = [job EXCEPT !.pc = "archive", !.rows = @ \cup job.entries, !.done = @ \cup {job.archive}]
    /\ UNCHANGED <<store, errors, spoiled>> /\ Beside

-----------------------------------------------------------------------------
(* The index lists what this run has indexed, whatever was listed before.  *)

Ready == Now("archive") /\ job.todo = {}
Code(j) == IF j.failed > 0 THEN 2 ELSE 0
Ends(code) == job' = [job EXCEPT !.pc = "end", !.code = code]
\* _write_manifest: the manifest is emptied and filled, then the table.
Index ==
    /\ Ready /\ ~job.options.dry
    /\ recorded' = Partial /\ job' = [job EXCEPT !.pc = "manifest"]
    /\ UNCHANGED <<raw, npz, listed, errors, spoiled>> /\ Beside
Table ==
    /\ Now("manifest")
    /\ recorded' = job.rows /\ listed' = Partial /\ job' = [job EXCEPT !.pc = "table"]
    /\ UNCHANGED <<raw, npz, errors, spoiled>> /\ Beside
Finish ==
    /\ \/ Now("table") /\ listed' = job.rows
       \/ Ready /\ job.options.dry /\ UNCHANGED listed
    /\ Ends(Code(job))
    /\ UNCHANGED <<raw, npz, recorded, errors, spoiled>> /\ Beside
IndexFails ==
    /\ (Now("manifest") \/ Now("table")) /\ Mishap /\ Ends(1)
    /\ UNCHANGED <<store, spoiled>> /\ Beside

\* Between two writes, or in the middle of one.
HaltRun ==
    /\ ~Now("end") /\ halts < MaxHalts /\ halts' = halts + 1
    /\ job' = Resting(9)
    /\ spoiled' = IF Now("saving") THEN spoiled \cup {FileAt(Entry)} ELSE spoiled
    /\ IF Now("fetching") THEN CutOff ELSE UNCHANGED raw
    /\ UNCHANGED <<npz, index, release, runs, errors>>
Release ==
    /\ release < MaxReleases + 1 /\ release' = release + 1
    /\ UNCHANGED <<store, job, runs, errors, halts, spoiled>>

DownloadNext ==
    \/ Start \/ Crawl \/ (\E s \in Sources : Take(s)) \/ Have \/ FetchRefused \/ Fetch \/ Fetched \/ Interrupted
    \/ Open \/ Reuse \/ Parses \/ Saved \/ SaveFails
    \/ Unpacked \/ Index \/ Table \/ Finish \/ IndexFails \/ HaltRun \/ Release

-----------------------------------------------------------------------------
Completed == Now("end") /\ job.code \in {0, 2} /\ ~job.options.dry
Spectral(s) == {s} \X (Range(MembersOf(s)) \cap Spectra)
Loadable(f) == npz[f] \notin {Missing, Partial}
\* Whatever happened before, to this run or to earlier ones: the index it leaves lists
\* only spectra that can be read, all of those of the archives it went through, and if it
\* reports success none of the archives it found is missing, unless its file lost members
\* without a trace; the table and the manifest agree.  A forced run leaves nothing of an
\* older release.
IndexTrue ==
    Completed =>
        /\ recorded = listed
        /\ \A r \in listed : Loadable(FileAt(r))
        /\ \A s \in job.done : raw[s].upto = FullLength(s) => Spectral(s) \subseteq listed
        /\ job.code = 0 => job.done = job.found
        /\ job.options.download /\ job.options.process =>
            \A s \in job.done \ job.local : \A r \in Spectral(s) \cap listed : npz[FileAt(r)] = raw[s].version
\* The table of a finished run stays true to the end of the next one, but for the spectra
\* whose writing was cut off.
IndexStays == listed \notin {Missing, Partial} =>
    \A f \in {FileAt(r) : r \in listed} : Loadable(f) \/ f \in spoiled \/ (~Now("end") /\ npz[f] = Partial)

-----------------------------------------------------------------------------
\* Importers and the downloader, beside each other, in folders of their own.
GridsInit == ImportInit /\ DownloadInit
GridsNext == (ImportNext /\ UNCHANGED download) \/ (DownloadNext /\ UNCHANGED import)
GridsSpec == GridsInit /\ [][GridsNext]_<<import, download>>
\* A grid in its place is whole, and the index of a finished download true, through
\* failures, kills and later runs.
GridsTrue == GridsWhole /\ IndexTrue /\ IndexStays
=============================================================================
