------------------------------ MODULE MCInstalls ------------------------------
(* What is put in place whole, for TLC, each in states of its own: the patched   *)
(* sources (three patch sets: the second adds a file and leaves one text as it   *)
(* is, the third drops a fix and the added file); imported grids, of both        *)
(* importers for one place; two grids of four archives that are crawled,         *)
(* downloaded and unpacked in up to two runs; model folders that two requests    *)
(* copy, move and clean.                                                         *)
EXTENDS SourcePatch, GridDownload, ModelFolders

MCOrder == <<"inc", "main", "new">>
MCRevisions == << [inc |-> 1, main |-> 1],
                  [inc |-> 2, main |-> 1, new |-> 2],
                  [inc |-> 3] >>

MCBatches == [bosz |-> << {<<"b1">>, <<"b2">>}, {<<"b3">>} >>, phoenix |-> << {<<"p1", "p2">>, <<"p3">>} >>]

MCRoot == [o |-> "index", b |-> "deep"]
MCPages == [index |-> {"sub", "flux", "other"}, sub |-> {"uv", "deep", "index"}, deep |-> {"far"}]
MCArchives == [flux |-> <<"m1", "m1cont">>, uv |-> <<"readme", "torn">>, far |-> <<"m3">>, other |-> <<"m4">>]
MCFileOf == [m1 |-> "m1", m1cont |-> "m1", readme |-> "readme", torn |-> "torn", m3 |-> "m3", m4 |-> "m4"]
MCCategories == [flux |-> {"flux"}, uv |-> {"uv"}, far |-> {"flux"}, other |-> {}]

MCSetup == ("VADAT" :> <<<<"own", "VADAT">>>>) @@ ("GAMMAS_IN" :> <<<<"own", "GAMMAS">>>>)
    @@ ("batch.sh" :> <<<<"own", "batch.sh">>, <<"shelf", "batch.sh">>>>)
    @@ ("obs/PARAM" :> <<<<"own", "obs/PARAM">>, <<"shelf", "obs/PARAM">>>>)
MCInput == [HOUT |-> "H_IN", GAMMASOUT |-> "GAMMAS_IN"]
MCInitially == [a |-> {"VADAT", "GAMMAS", "HOUT", "MOD_SUM", "BAMAT"},
                b |-> {"VADAT", "GAMMAS", "GAMMASOUT", "MOD_SUM", "BAMAT"}, shelf |-> {"batch.sh", "obs/PARAM"}]
MCJobs ==
    [kind : {"create"}, from : {"a", "b"}, to : {"c"}]
    \cup {[kind |-> "rename", from |-> p[1], to |-> p[2]] : p \in {<<"a", "c">>, <<"b", "a">>, <<"c", "a">>}}
    \cup {[kind |-> "cleanup", from |-> "a", names |-> {"BAMAT", "HOUT"}, expected |-> None, archived |-> FALSE],
          [kind |-> "cleanup", from |-> "a", names |-> {"BAMAT"}, expected |-> [BAMAT |-> <<"a", 0>>], archived |-> TRUE]}

Symmetry == Permutations(Updaters) \cup Permutations(Clerks)

VARIABLE part
\* One of them moves, the others stay as they were.
InstallsInit ==
    /\ part \in {"sources", "imports", "downloads", "folders"}
    /\ Init /\ (part # "sources" => tree["inc"] = Text(0) /\ \A u \in Updaters : up[u] = Fresh(1, {}))
    /\ GridsInit /\ FoldersInit
InstallsNext ==
    /\ UNCHANGED part
    /\ \/ part = "sources" /\ Next /\ UNCHANGED <<import, download, folders>>
       \/ part = "imports" /\ ImportNext /\ UNCHANGED <<vars, download, folders>>
       \/ part = "downloads" /\ DownloadNext /\ UNCHANGED <<vars, import, folders>>
       \/ part = "folders" /\ FoldersNext /\ UNCHANGED <<vars, import, download>>
InstallsSpec == InstallsInit /\ [][InstallsNext]_<<part, vars, import, download, folders>>
=============================================================================
