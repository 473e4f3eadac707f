-------------------------- MODULE PromotionProofs --------------------------
(***************************************************************************)
(* Promotion and clean-up are safe for any lists of solution files and     *)
(* temporaries and any number of runs, failures and interruptions.         *)
(* PromotionInv says, for each point of a mutation, which files still are  *)
(* what they were and where the others have their copy.                    *)
(***************************************************************************)
EXTENDS Promotion

Results == [vadat: Contents \cup {Partial}, table: 0..MaxMade, hydro: 0..MaxMade,
            tableFresh: BOOLEAN, hydroFresh: BOOLEAN]
Disks == [root: [Installed -> Contents], main: [MainFiles -> Contents], lte: Results,
          newer: [Paired -> BOOLEAN], temps: [Temporaries -> Contents],
          marker: {"none", "older", "newer"}]
Files == Range(SaveOrder)
Forwards == {"sync", "utime", "install", "invalidate", "archive", "mark"}
Backwards == {"unarchive", "reinstall", "revive", "retime"}
Committed == {"compact", "report"}
Running == step \notin {"idle"} \cup Committed
Promoting == by \in {"web", "runner"}
Undone == status \in {"failed", "cancelled"}

DisksOK == disk \in Disks /\ before \in Disks
SavedOK == saved \in [backup: [Files -> Contents \cup {Partial}], archive: [Temporaries -> Contents]]
LocalOK ==
    /\ local \in [todo: Seq(Files \cup Temporaries), replaced: Seq(Installed),
                  invalidated: Seq(MainFiles), moved: Seq(Temporaries), removed: Seq(Temporaries)]
    /\ Len(local.replaced) <= 4
    /\ \A i \in 1 .. Len(local.replaced) : local.replaced[i] = InstallOrder[i]
RestOK ==
    /\ made \in 0..MaxMade /\ mishaps \in 0..MaxMishaps /\ fault \in BOOLEAN /\ torn \in BOOLEAN

\* Who is where, and when something can have gone wrong already.
Controlled ==
    /\ step \in {"idle", "backup", "putback"} \cup Forwards \cup Backwards \cup Committed
    /\ by \in {"none", "web", "runner", "cleanup"}
    /\ status \in {"none", "running", "succeeded", "failed", "cancelled", "committed"}
    /\ step = "idle" <=> status # "running"
    /\ by = "none" => step = "idle" /\ status = "none"
    /\ by = "cleanup" => step \in {"idle", "archive", "putback", "compact"}
    /\ step \in {"backup"} \cup Forwards => ~fault
    /\ Running /\ Promoting /\ fault => torn

\* The copies of a promotion are complete, or it has not touched the root.
Was(n) == CASE n \in Installed -> before.root[n]
            [] n \in MainFiles -> before.main[n]
            [] n \in Temporaries -> before.temps[n]
            [] OTHER -> before.lte.vadat
AllSaved == \A n \in Files : saved.backup[n] = Was(n)
RootSame == disk.root = before.root /\ disk.main = before.main
Untouched == RootSame /\ local.replaced = <<>> /\ local.invalidated = <<>>
Copies ==
    /\ step = "backup" =>
        /\ disk = before
        /\ local.todo # <<>> /\ IsInjective(local.todo) /\ Range(local.todo) \subseteq Files
        /\ \A n \in Files : saved.backup[n] = IF n \in Range(local.todo) THEN Absent ELSE Was(n)
    /\ Promoting /\ step \in Forwards \cup {"putback"} => AllSaved
    /\ Promoting /\ (step \in Backwards \/ Undone) => AllSaved \/ Untouched
    /\ by = "cleanup" /\ (step # "idle" \/ Undone) => RootSame /\ disk.lte = before.lte
    /\ step \in {"revive", "retime"} => local.replaced = <<>>
    /\ step = "retime" => local.invalidated = <<>>
    /\ step \in {"backup", "sync", "utime"} \/ by = "cleanup" => Untouched \/ step = "idle"

\* What has been replaced or removed so far is what the function remembers.
Remembered == Running /\ ~fault =>
    /\ \A n \in Installed : n \in Range(local.replaced) \/ disk.root[n] = before.root[n]
    /\ \A f \in MainFiles : f \in Range(local.invalidated) \/ disk.main[f] = before.main[f]

\* lte/VADAT and the freshness of the results.
LteKept ==
    /\ disk.lte.vadat # Absent /\ before.lte.vadat # Absent
    /\ Promoting /\ Running =>
        /\ before.lte.tableFresh /\ before.lte.hydroFresh /\ disk.lte.hydroFresh
        /\ disk.lte.table = before.lte.table /\ disk.lte.hydro = before.lte.hydro
    /\ step = "sync" => disk.lte = before.lte
    /\ step = "utime" => disk.lte.vadat = disk.lte.hydro
    /\ Promoting /\ step \in {"install", "invalidate", "archive", "mark"} =>
        disk.lte.vadat = disk.lte.hydro /\ disk.lte.tableFresh
    /\ step \in Backwards =>
        \/ saved.backup["lte/VADAT"] \in {before.lte.vadat, Partial}
        \/ saved.backup["lte/VADAT"] = Absent /\ disk.lte = before.lte
    /\ step = "retime" => disk.lte.vadat = saved.backup["lte/VADAT"]

\* What a promotion has installed and removed.
Progress ==
    /\ step = "install" =>
        /\ Len(local.replaced) < 4
        /\ \A i \in 1 .. Len(local.replaced) : disk.root[InstallOrder[i]] = Source(InstallOrder[i])
    /\ Promoting /\ step \in {"invalidate", "archive", "mark"} =>
        \A n \in Installed : disk.root[n] = Source(n)
    /\ step = "invalidate" =>
        /\ Range(local.todo) \subseteq MainFiles
        /\ \A f \in MainFiles : f \in Range(local.todo) \/ disk.main[f] = Absent
    /\ Promoting /\ step \in {"archive", "mark"} => \A f \in MainFiles : disk.main[f] = Absent

\* Temporaries are in their place or in the archive; what is to be archived is in place,
\* what is to be put back is in the archive.
Archives(s) ==
    /\ IsInjective(s) /\ Range(s) \subseteq Temporaries
    /\ \A t \in Range(s) : saved.archive[t] = before.temps[t]
    /\ ~fault => \A t \in Temporaries : t \in Range(s) \/ disk.temps[t] = before.temps[t]
Temps ==
    /\ Running \/ Undone =>
        \A t \in Temporaries : before.temps[t] \in {disk.temps[t], saved.archive[t]}
    /\ step \in {"backup", "sync", "utime", "install", "invalidate"} =>
        disk.temps = before.temps /\ local.moved = <<>> /\ local.removed = <<>>
    /\ step = "archive" =>
        /\ Archives(local.moved) /\ local.removed = <<>>
        /\ IsInjective(local.todo) /\ Range(local.todo) \subseteq Temporaries
        /\ Range(local.todo) \cap Range(local.moved) = {}
        /\ \A t \in Temporaries : t \in Range(local.todo) \/ disk.temps[t] = Absent
    /\ step = "mark" =>
        Archives(local.removed) /\ \A t \in Temporaries : disk.temps[t] = Absent
    /\ step \in {"putback", "unarchive"} => Archives(local.todo)
    /\ step \in {"reinstall", "revive", "retime"} /\ ~fault => disk.temps = before.temps

\* What is true at the end.
Ended ==
    /\ status = "failed" /\ ~fault =>
        /\ RootSame /\ disk.temps = before.temps
        /\ saved.backup["lte/VADAT"] # Partial => disk.lte = before.lte
    /\ Promoting /\ (step \in Committed \/ status = "succeeded") =>
        /\ Ready /\ \A n \in Installed : disk.root[n] = Source(n)
        /\ disk.lte.vadat = disk.lte.hydro /\ disk.marker = "newer"
        /\ \A f \in MainFiles : disk.main[f] = Absent
        /\ \A t \in Temporaries : disk.temps[t] = Absent

OnGrid(d) ==
    /\ \A f \in MainFiles : d.main[f] \in {Absent, d.root["RVSIG_COL"]}
    /\ d.root["RVSIG_COL"] \in {Absent, d.root["VADAT"]}
Gridded == ~torn => OnGrid(IF Free THEN disk ELSE before)

TypesOK == DisksOK /\ SavedOK /\ LocalOK /\ RestOK
PromotionInv ==
    /\ TypesOK /\ Controlled /\ Copies /\ Remembered /\ LteKept /\ Progress /\ Temps
    /\ Ended /\ Gridded

-----------------------------------------------------------------------------
(* Names and sequences                                                      *)

LEMMA NothingListed == Range(<<>>) = {} /\ IsInjective(<<>>) /\ Len(<<>>) = 0
  BY DEF Range, IsInjective

\* A sequence that repeats nothing has no entry in both of its parts.
LEMMA PartsApart ==
    ASSUME NEW A, NEW a \in Seq(A), NEW b \in Seq(A), IsInjective(a \o b)
    PROVE  Range(a) \cap Range(b) = {} /\ IsInjective(b)
<1> DEFINE c == a \o b
<1>1. /\ Len(a) \in Nat /\ Len(b) \in Nat
      /\ DOMAIN a = 1 .. Len(a) /\ DOMAIN b = 1 .. Len(b)
      /\ DOMAIN c = 1 .. Len(a) + Len(b)
      /\ \A k \in 1 .. Len(a) : c[k] = a[k]
      /\ \A k \in Len(a) + 1 .. Len(a) + Len(b) : c[k] = b[k - Len(a)]
  OBVIOUS
<1> HIDE DEF c
<1>2. IsInjective(c)
  BY DEF c
<1>3. \A k \in 1 .. Len(b) : /\ k + Len(a) \in Len(a) + 1 .. Len(a) + Len(b)
                            /\ (k + Len(a)) - Len(a) = k
                            /\ k + Len(a) \in DOMAIN c
  BY <1>1
<1>4. \A k \in 1 .. Len(b) : c[k + Len(a)] = b[k]
  BY <1>1, <1>3
<1>5. \A k \in 1 .. Len(a) : k \in DOMAIN c
  BY <1>1
<1>6. ASSUME NEW i \in 1 .. Len(a), NEW k \in 1 .. Len(b), a[i] = b[k] PROVE FALSE
  <2>1. c[i] = c[k + Len(a)]
    BY <1>1, <1>4, <1>6
  <2>2. i = k + Len(a)
    BY <1>2, <1>3, <1>5, <2>1 DEF IsInjective
  <2> QED  BY <1>1, <2>2
<1>7. ASSUME NEW i \in 1 .. Len(b), NEW k \in 1 .. Len(b), b[i] = b[k] PROVE i = k
  <2>1. i + Len(a) = k + Len(a)
    BY <1>2, <1>3, <1>4, <1>7 DEF IsInjective
  <2> QED  BY <1>1, <2>1
<1> QED  BY <1>1, <1>6, <1>7 DEF IsInjective, Range

\* The files a promotion saves, and the temporaries, are all different.
LEMMA Names ==
    /\ InstallOrder \in Seq(Installed) /\ Len(InstallOrder) = 4
    /\ InstallOrder[1] = "ROSSELAND_LTE_TAB" /\ InstallOrder[2] = "RVSIG_COL_NEW"
    /\ InstallOrder[3] = "RVSIG_COL" /\ InstallOrder[4] = "VADAT"
    /\ Installed = {"ROSSELAND_LTE_TAB", "RVSIG_COL_NEW", "RVSIG_COL", "VADAT"}
    /\ SaveOrder \in Seq(Files) /\ IsInjective(SaveOrder)
    /\ Files = {"lte/VADAT"} \cup Installed \cup MainFiles
    /\ "lte/VADAT" \notin Installed \cup MainFiles \cup Temporaries
    /\ Installed \cap MainFiles = {} /\ Temporaries \cap (Installed \cup MainFiles) = {}
<1>1. /\ DOMAIN InstallOrder = {1, 2, 3, 4} /\ Len(InstallOrder) = 4
      /\ InstallOrder[1] = "ROSSELAND_LTE_TAB" /\ InstallOrder[2] = "RVSIG_COL_NEW"
      /\ InstallOrder[3] = "RVSIG_COL" /\ InstallOrder[4] = "VADAT"
  BY DEF InstallOrder
<1>2. Installed = {"ROSSELAND_LTE_TAB", "RVSIG_COL_NEW", "RVSIG_COL", "VADAT"}
  BY <1>1 DEF Installed, Range
<1> DEFINE names == {"lte/VADAT"} \cup Installed \cup MainFiles
<1>9. InstallOrder \in Seq(Installed)
  <2>1. <<"ROSSELAND_LTE_TAB", "RVSIG_COL_NEW", "RVSIG_COL", "VADAT">> \in
            Seq({"ROSSELAND_LTE_TAB", "RVSIG_COL_NEW", "RVSIG_COL", "VADAT"})
    OBVIOUS
  <2> QED  BY <1>2, <2>1 DEF InstallOrder
<1>10. InstallOrder \in Seq(names) /\ MainOrder \in Seq(names)
  <2>1. Installed \subseteq names /\ MainFiles \subseteq names
    OBVIOUS
  <2> HIDE DEF names
  <2> QED  BY <1>9, <2>1, PromotionAssumption
<1>3. MainOrder \in Seq(MainFiles) /\ IsInjective(SaveOrder) /\ Temporaries \cap Files = {}
  BY PromotionAssumption DEF Files
<1> DEFINE first == <<"lte/VADAT">>
           inputs == first \o InstallOrder
<1>4. first \in Seq(names) /\ Range(first) = {"lte/VADAT"}
  <2>1. <<"lte/VADAT">> \in Seq({"lte/VADAT"}) /\ DOMAIN <<"lte/VADAT">> = {1}
        /\ <<"lte/VADAT">>[1] = "lte/VADAT"
    OBVIOUS
  <2>2. {"lte/VADAT"} \subseteq names
    OBVIOUS
  <2> HIDE DEF names
  <2> QED  BY <2>1, <2>2 DEF Range
<1>5. inputs \in Seq(names) /\ Range(inputs) = {"lte/VADAT"} \cup Installed
  <2> HIDE DEF first, names
  <2> QED  BY <1>4, <1>10, JoinFacts DEF Installed
<1>6. SaveOrder = inputs \o MainOrder
  BY DEF SaveOrder
<1> HIDE DEF inputs, first, names
<1>7. Files = {"lte/VADAT"} \cup Installed \cup MainFiles /\ SaveOrder \in Seq(names)
  BY <1>5, <1>6, <1>10, JoinFacts DEF Files, MainFiles
<1>11. names = Files
  BY <1>7 DEF names
<1>8. Range(inputs) \cap MainFiles = {}
  BY <1>3, <1>5, <1>6, <1>10, PartsApart DEF MainFiles
<1> QED  BY <1>1, <1>2, <1>3, <1>5, <1>7, <1>8, <1>9, <1>11

\* What the loops go through: the files that exist.
LEMMA PresentFacts ==
    ASSUME NEW A, NEW order \in Seq(A), IsInjective(order)
    PROVE  /\ Present(order) \in Seq(Range(order)) /\ IsInjective(Present(order))
           /\ Range(Present(order)) = {n \in Range(order) : Current(n) # Absent}
<1> DEFINE S == {n \in Range(order) : Current(n) # Absent}
           p == Only(order, S)
<1>1. p \in Seq(A) /\ Range(p) = Range(order) \cap S /\ IsInjective(p)
  <2> HIDE DEF S
  <2> QED  BY OnlySelects, OnlyOnce
<1>2. Range(order) \cap S = S
  OBVIOUS
<1>3. p \in Seq(Range(order))
  <2> HIDE DEF p
  <2>1. \A k \in 1 .. Len(p) : p[k] \in Range(p)
    BY <1>1 DEF Range
  <2> QED  BY <1>1, <2>1
<1> QED  BY <1>1, <1>2, <1>3 DEF Present

LEMMA WiderSequences == ASSUME NEW A, NEW B, A \subseteq B, NEW s \in Seq(A) PROVE s \in Seq(B)
  OBVIOUS
LEMMA NarrowSequences ==
    ASSUME NEW A, NEW B, NEW s \in Seq(A), Range(s) \subseteq B PROVE s \in Seq(B)
<1>1. \A k \in 1 .. Len(s) : s[k] \in B
  BY DEF Range
<1> QED  BY <1>1

-----------------------------------------------------------------------------
(* What each step changes                                                   *)

LteIs(d, v, fresh) ==
    /\ d.vadat = v /\ d.tableFresh = fresh /\ d.table = disk.lte.table
    /\ d.hydro = disk.lte.hydro /\ d.hydroFresh = disk.lte.hydroFresh
PutRoot(n, c) ==
    /\ \A x \in Installed : disk'.root[x] = IF x = n THEN c ELSE disk.root[x]
    /\ disk'.main = disk.main /\ disk'.lte = disk.lte /\ disk'.temps = disk.temps
PutMain(n, c) ==
    /\ \A x \in MainFiles : disk'.main[x] = IF x = n THEN c ELSE disk.main[x]
    /\ disk'.root = disk.root /\ disk'.lte = disk.lte /\ disk'.temps = disk.temps
PutTemp(n, c) ==
    /\ \A x \in Temporaries : disk'.temps[x] = IF x = n THEN c ELSE disk.temps[x]
    /\ disk'.root = disk.root /\ disk'.lte = disk.lte /\ disk'.main = disk.main
PutLte(v, fresh) ==
    /\ LteIs(disk'.lte, v, fresh)
    /\ disk'.root = disk.root /\ disk'.main = disk.main /\ disk'.temps = disk.temps
PutBackup(n, c) ==
    /\ \A x \in Files : saved'.backup[x] = IF x = n THEN c ELSE saved.backup[x]
    /\ saved'.archive = saved.archive
PutArchive(n, c) ==
    /\ \A x \in Temporaries : saved'.archive[x] = IF x = n THEN c ELSE saved.archive[x]
    /\ saved'.backup = saved.backup
NowLocal(todo, replaced, invalidated, moved, removed) ==
    /\ local'.todo = todo /\ local'.replaced = replaced /\ local'.invalidated = invalidated
    /\ local'.moved = moved /\ local'.removed = removed

LEMMA DiskTypes ==
    ASSUME DisksOK
    PROVE  /\ \A n \in Installed : disk.root[n] \in Contents
           /\ \A n \in MainFiles : disk.main[n] \in Contents
           /\ \A n \in Temporaries : disk.temps[n] \in Contents
           /\ disk.lte.vadat \in Contents \cup {Partial}
           /\ disk.lte.table \in 0..MaxMade /\ disk.lte.hydro \in 0..MaxMade
           /\ disk.lte.table \in Contents /\ disk.lte.hydro \in Contents
           /\ disk.lte.table # Absent /\ disk.lte.hydro # Absent
  BY PromotionAssumption DEF DisksOK, Disks, Results, Contents

LEMMA PutRootFacts ==
    ASSUME DisksOK, NEW n \in Installed, NEW c \in Contents, NEW k \in [Paired -> BOOLEAN],
           disk' = [disk EXCEPT !.root[n] = c, !.newer = k], before' = before
    PROVE  DisksOK' /\ PutRoot(n, c) /\ disk'.marker = disk.marker
<1>1. disk'.root = [disk.root EXCEPT ![n] = c]
  BY DEF DisksOK, Disks
<1> QED  BY <1>1 DEF DisksOK, Disks, PutRoot

LEMMA PutMainFacts ==
    ASSUME DisksOK, NEW n \in MainFiles, NEW c \in Contents, NEW k \in {"none", "older", "newer"},
           disk' = [disk EXCEPT !.main[n] = c, !.marker = k], before' = before
    PROVE  DisksOK' /\ PutMain(n, c)
<1>1. disk'.main = [disk.main EXCEPT ![n] = c]
  BY DEF DisksOK, Disks
<1> QED  BY <1>1 DEF DisksOK, Disks, PutMain

LEMMA PutTempFacts ==
    ASSUME DisksOK, NEW n \in Temporaries, NEW c \in Contents,
           disk' = [disk EXCEPT !.temps[n] = c], before' = before
    PROVE  DisksOK' /\ PutTemp(n, c) /\ disk'.marker = disk.marker
<1>1. disk'.temps = [disk.temps EXCEPT ![n] = c]
  BY DEF DisksOK, Disks
<1> QED  BY <1>1 DEF DisksOK, Disks, PutTemp

LEMMA PutLteFacts ==
    ASSUME DisksOK, NEW v \in Contents \cup {Partial}, NEW fresh \in BOOLEAN,
           disk' = [disk EXCEPT !.lte = [@ EXCEPT !.vadat = v, !.tableFresh = fresh]],
           before' = before
    PROVE  DisksOK' /\ PutLte(v, fresh) /\ disk'.marker = disk.marker
<1>1. disk'.lte = [disk.lte EXCEPT !.vadat = v, !.tableFresh = fresh]
  BY DEF DisksOK, Disks, Results
<1> QED  BY <1>1 DEF DisksOK, Disks, Results, PutLte, LteIs

LEMMA PutBackupFacts ==
    ASSUME SavedOK, NEW n \in Files, NEW c \in Contents \cup {Partial},
           saved' = [saved EXCEPT !.backup[n] = c]
    PROVE  SavedOK' /\ PutBackup(n, c)
<1>1. saved'.backup = [saved.backup EXCEPT ![n] = c]
  BY DEF SavedOK
<1> QED  BY <1>1 DEF SavedOK, PutBackup

LEMMA PutArchiveFacts ==
    ASSUME SavedOK, NEW n \in Temporaries, NEW c \in Contents,
           saved' = [saved EXCEPT !.archive[n] = c]
    PROVE  SavedOK' /\ PutArchive(n, c)
<1>1. saved'.archive = [saved.archive EXCEPT ![n] = c]
  BY DEF SavedOK
<1> QED  BY <1>1 DEF SavedOK, PutArchive

LEMMA LocalTypes ==
    ASSUME LocalOK
    PROVE  /\ local.todo \in Seq(Files \cup Temporaries) /\ local.replaced \in Seq(Installed)
           /\ local.invalidated \in Seq(MainFiles) /\ local.moved \in Seq(Temporaries)
           /\ local.removed \in Seq(Temporaries)
           /\ Len(local.replaced) \in 0 .. 4 /\ Len(local.replaced) <= 4
           /\ \A i \in 1 .. Len(local.replaced) : local.replaced[i] = InstallOrder[i]
           /\ local = [todo |-> local.todo, replaced |-> local.replaced,
                       invalidated |-> local.invalidated, moved |-> local.moved,
                       removed |-> local.removed]
<1>1. /\ local.todo \in Seq(Files \cup Temporaries) /\ local.replaced \in Seq(Installed)
      /\ local.invalidated \in Seq(MainFiles) /\ local.moved \in Seq(Temporaries)
      /\ local.removed \in Seq(Temporaries)
  BY DEF LocalOK
<1>2. Len(local.replaced) \in Nat /\ Len(local.replaced) <= 4
  BY <1>1 DEF LocalOK
<1>3. local = [todo |-> local.todo, replaced |-> local.replaced,
               invalidated |-> local.invalidated, moved |-> local.moved,
               removed |-> local.removed]
  BY DEF LocalOK
<1>4. \A i \in 1 .. Len(local.replaced) : local.replaced[i] = InstallOrder[i]
  BY DEF LocalOK
<1>5. Len(local.replaced) \in 0 .. 4
  <2> DEFINE m == Len(local.replaced)
  <2>1. m \in Nat /\ m <= 4
    BY <1>2
  <2> HIDE DEF m
  <2>2. m \in 0 .. 4
    BY <2>1
  <2> QED  BY <2>2 DEF m
<1> QED  BY <1>1, <1>2, <1>3, <1>4, <1>5

LEMMA NowLocalFacts ==
    ASSUME NEW todo \in Seq(Files \cup Temporaries), NEW replaced \in Seq(Installed),
           NEW invalidated \in Seq(MainFiles), NEW moved \in Seq(Temporaries),
           NEW removed \in Seq(Temporaries),
           Len(replaced) <= 4, \A i \in 1 .. Len(replaced) : replaced[i] = InstallOrder[i],
           local' = [todo |-> todo, replaced |-> replaced, invalidated |-> invalidated,
                     moved |-> moved, removed |-> removed]
    PROVE  LocalOK' /\ NowLocal(todo, replaced, invalidated, moved, removed)
  BY DEF LocalOK, NowLocal

\* Two records of LTE results are one when they agree field by field.
LEMMA SameLte ==
    ASSUME NEW d \in Results, NEW e \in Results, d.vadat = e.vadat, d.table = e.table,
           d.hydro = e.hydro, d.tableFresh = e.tableFresh, d.hydroFresh = e.hydroFresh
    PROVE  d = e
  BY DEF Results

\* And so are two parts of the disk that agree file by file.
LEMMA SameParts ==
    ASSUME NEW S, NEW d \in [S -> Contents], NEW e \in [S -> Contents],
           \A n \in S : d[n] = e[n]
    PROVE  d = e
  OBVIOUS

LEMMA DiskParts ==
    ASSUME DisksOK
    PROVE  /\ disk.root \in [Installed -> Contents] /\ before.root \in [Installed -> Contents]
           /\ disk.main \in [MainFiles -> Contents] /\ before.main \in [MainFiles -> Contents]
           /\ disk.temps \in [Temporaries -> Contents] /\ before.temps \in [Temporaries -> Contents]
           /\ disk.lte \in Results /\ before.lte \in Results
  BY DEF DisksOK, Disks

\* No local variables.
LEMMA NoLocalsFacts ==
    ASSUME local' = NoLocals
    PROVE  LocalOK' /\ NowLocal(<<>>, <<>>, <<>>, <<>>, <<>>)
<1>1. /\ <<>> \in Seq(Files \cup Temporaries) /\ <<>> \in Seq(Installed)
      /\ <<>> \in Seq(MainFiles) /\ <<>> \in Seq(Temporaries) /\ Len(<<>>) = 0
  OBVIOUS
<1>2. Len(<<>>) <= 4 /\ \A i \in 1 .. Len(<<>>) : <<>>[i] = InstallOrder[i]
  BY <1>1
<1>3. local' = [todo |-> <<>>, replaced |-> <<>>, invalidated |-> <<>>, moved |-> <<>>,
                removed |-> <<>>]
  BY DEF NoLocals
<1> QED  BY <1>1, <1>2, <1>3, NowLocalFacts

\* What a name stands for.
LEMMA Kinds ==
    /\ \A n \in Installed : Was(n) = before.root[n] /\ Current(n) = disk.root[n]
    /\ \A n \in MainFiles : Was(n) = before.main[n] /\ Current(n) = disk.main[n]
    /\ \A n \in Temporaries : Was(n) = before.temps[n] /\ Current(n) = disk.temps[n]
    /\ Was("lte/VADAT") = before.lte.vadat /\ Current("lte/VADAT") = disk.lte.vadat
    /\ Installed \subseteq Files /\ MainFiles \subseteq Files /\ "lte/VADAT" \in Files
  BY Names DEF Was, Current

LEMMA WasTypes ==
    ASSUME DisksOK
    PROVE  /\ \A n \in Installed \cup MainFiles \cup Temporaries : Was(n) \in Contents
           /\ Was("lte/VADAT") \in Contents \cup {Partial}
<1>1. before.lte.vadat \in Contents \cup {Partial}
  BY DEF DisksOK, Disks, Results
<1> QED  BY <1>1, DiskParts, Kinds

LEMMA CurrentTypes ==
    ASSUME DisksOK
    PROVE  \A n \in Files \cup Temporaries : Current(n) \in Contents \cup {Partial}
  BY DiskTypes, Kinds, Names

LEMMA WasKept == ASSUME before' = before PROVE \A n \in Files : Was(n)' = Was(n)
  BY DEF Was

LEMMA MainOnce == IsInjective(MainOrder) /\ IsInjective(TempOrder)
<1>1. SaveOrder = (<<"lte/VADAT">> \o InstallOrder) \o MainOrder
  BY DEF SaveOrder
<1> DEFINE inputs == <<"lte/VADAT">> \o InstallOrder
<1>2. inputs \in Seq(Files) /\ MainOrder \in Seq(Files)
  <2>1. <<"lte/VADAT">> \in Seq({"lte/VADAT"})
    OBVIOUS
  <2>2. <<"lte/VADAT">> \in Seq(Files) /\ InstallOrder \in Seq(Files) /\ MainOrder \in Seq(Files)
    <3>1. {"lte/VADAT"} \subseteq Files /\ Installed \subseteq Files /\ MainFiles \subseteq Files
      BY Names
    <3> QED  BY <2>1, <3>1, Names, WiderSequences, PromotionAssumption
  <2> QED  BY <2>2, JoinFacts
<1> HIDE DEF inputs
<1>3. SaveOrder = inputs \o MainOrder
  BY <1>1 DEF inputs
<1> QED  BY <1>2, <1>3, Names, PartsApart, PromotionAssumption

\* The order in which files are installed.
LEMMA InstallSteps ==
    /\ \A i \in 1 .. 4 : InstallOrder[i] \in Installed /\ (InstallOrder[i] = "VADAT" <=> i = 4)
    /\ \A i, k \in 1 .. 4 : InstallOrder[i] = InstallOrder[k] => i = k
    /\ \A n \in Installed : \E i \in 1 .. 4 : n = InstallOrder[i]
<1>1. \A i \in 1 .. 4 : i = 1 \/ i = 2 \/ i = 3 \/ i = 4
  OBVIOUS
<1>2. 1 \in 1 .. 4 /\ 2 \in 1 .. 4 /\ 3 \in 1 .. 4 /\ 4 \in 1 .. 4
  OBVIOUS
<1>3. \A i \in 1 .. 4 : InstallOrder[i] \in Installed /\ (InstallOrder[i] = "VADAT" <=> i = 4)
  BY <1>1, Names
<1>4. \A i, k \in 1 .. 4 : InstallOrder[i] = InstallOrder[k] => i = k
  BY <1>1, Names
<1> QED  BY <1>2, <1>3, <1>4, Names

-----------------------------------------------------------------------------
(* The steps of a promotion                                                 *)

LEMMA SyncLteKeeps ==
    ASSUME PromotionInv, SyncLte PROVE PromotionInv'
<1>1. TypesOK /\ Controlled /\ Copies /\ Remembered /\ LteKept /\ Progress /\ Temps /\ Ended
      /\ Gridded
  BY DEF PromotionInv
<1>2. /\ step = "sync" /\ step' = "utime"
      /\ UNCHANGED <<by, status, made, local, saved, before, fault, torn, mishaps>>
  BY DEF SyncLte, Go, history
<1>3. /\ DisksOK' /\ PutLte(disk.lte.hydro, FALSE) /\ disk'.marker = disk.marker
  <2>1. disk' = [disk EXCEPT !.lte = [@ EXCEPT !.vadat = disk.lte.hydro, !.tableFresh = FALSE]]
    BY <1>1 DEF SyncLte, TypesOK, DisksOK, Disks, Results
  <2> QED  BY <1>1, <1>2, <2>1, DiskTypes, PutLteFacts DEF TypesOK
<1>4. TypesOK'
  BY <1>1, <1>2, <1>3 DEF TypesOK, SavedOK, LocalOK, RestOK
<1>5. \A x \in Files : Was(x)' = Was(x)
  BY <1>2, WasKept
<1>6. Controlled'
  BY <1>1, <1>2, <1>3, <1>4, <1>5 DEF Controlled, Forwards
<1>7. Copies'
  BY <1>1, <1>2, <1>3, <1>4, <1>5 DEF Controlled, Copies, AllSaved, Untouched, RootSame,
        Running, Undone, Promoting, Forwards, PutLte
<1>8. Remembered'
  BY <1>1, <1>2, <1>3, <1>4, <1>5 DEF Controlled, Copies, Remembered, AllSaved, Untouched,
        RootSame, PutLte
<1>9. LteKept'
  BY <1>1, <1>2, <1>3, <1>4, <1>5, DiskTypes DEF Controlled, Copies, LteKept, AllSaved,
        Untouched, RootSame, Running, Undone, Promoting, Committed, Backwards, PutLte, LteIs,
        TypesOK
<1>10. Progress'
  BY <1>2, <1>3 DEF Progress
<1>11. Temps'
  BY <1>1, <1>2, <1>3, <1>4 DEF Temps, PutLte
<1>12. Ended'
  BY <1>1, <1>2, <1>3, <1>4, <1>5 DEF Controlled, Copies, Remembered, LteKept, Ended, Committed
<1>13. Gridded'
  BY <1>1, <1>2, <1>3, <1>4 DEF Gridded, Free
<1> QED  BY <1>2, <1>3, <1>4, <1>5, <1>6, <1>7, <1>8, <1>9, <1>10, <1>11, <1>12, <1>13 DEF PromotionInv

LEMMA KeepTimeKeeps ==
    ASSUME PromotionInv, KeepTime PROVE PromotionInv'
<1>1. TypesOK /\ Controlled /\ Copies /\ Remembered /\ LteKept /\ Progress /\ Temps /\ Ended
      /\ Gridded
  BY DEF PromotionInv
<1>2. /\ step = "utime" /\ step' = "install"
      /\ UNCHANGED <<by, status, made, local, saved, before, fault, torn, mishaps>>
  BY DEF KeepTime, Go, history
<1>3. /\ DisksOK' /\ PutLte(disk.lte.vadat, TRUE) /\ disk'.marker = disk.marker
  <2>1. disk' = [disk EXCEPT !.lte = [@ EXCEPT !.vadat = disk.lte.vadat, !.tableFresh = TRUE]]
    BY <1>1 DEF KeepTime, TypesOK, DisksOK, Disks, Results
  <2> QED  BY <1>1, <1>2, <2>1, DiskTypes, PutLteFacts DEF TypesOK
<1>4. TypesOK'
  BY <1>1, <1>2, <1>3 DEF TypesOK, SavedOK, LocalOK, RestOK
<1>5. \A x \in Files : Was(x)' = Was(x)
  BY <1>2, WasKept
<1>6. Controlled'
  BY <1>1, <1>2, <1>3, <1>4, <1>5 DEF Controlled, Forwards
<1>7. Copies'
  BY <1>1, <1>2, <1>3, <1>4, <1>5 DEF Controlled, Copies, AllSaved, Untouched, Promoting,
        Forwards
<1>8. Remembered'
  BY <1>1, <1>2, <1>3, <1>4, <1>5 DEF Controlled, Copies, Remembered, AllSaved, Untouched,
        RootSame, PutLte
<1>9. LteKept'
  BY <1>1, <1>2, <1>3, <1>4, <1>5, Names DEF Controlled, Copies, LteKept, AllSaved, Untouched,
        RootSame, Running, Undone, Promoting, Committed, Backwards, PutLte, LteIs
<1>10. Progress'
  BY <1>1, <1>2, <1>3, <1>4, <1>5, NothingListed DEF Progress, Running, Copies, Untouched
<1>11. Temps'
  BY <1>1, <1>2, <1>3, <1>4 DEF Temps, PutLte
<1>12. Ended'
  BY <1>1, <1>2, <1>3, <1>4, <1>5 DEF Controlled, Copies, Remembered, LteKept, Ended, Committed
<1>13. Gridded'
  BY <1>1, <1>2, <1>3, <1>4 DEF Gridded, Free
<1> QED  BY <1>2, <1>3, <1>4, <1>5, <1>6, <1>7, <1>8, <1>9, <1>10, <1>11, <1>12, <1>13 DEF PromotionInv

LEMMA InstallKeeps ==
    ASSUME PromotionInv, Install PROVE PromotionInv'
<1>1. TypesOK /\ Controlled /\ Copies /\ Remembered /\ LteKept /\ Progress /\ Temps /\ Ended
      /\ Gridded
  BY DEF PromotionInv
<1> DEFINE n == InstallOrder[Len(local.replaced) + 1]
           todo == IF n = "VADAT" THEN ToInvalidate ELSE <<>>
<1>2. /\ step = "install" /\ step' = IF n = "VADAT" THEN "invalidate" ELSE "install"
      /\ UNCHANGED <<by, status, made, saved, before, fault, torn, mishaps>>
  BY DEF Install, Go, history
<1>3. \A x \in Files : Was(x)' = Was(x)
  BY <1>2, WasKept
<1>4. /\ local.replaced \in Seq(Installed) /\ Len(local.replaced) \in 0 .. 3
      /\ \A i \in 1 .. Len(local.replaced) : local.replaced[i] = InstallOrder[i]
      /\ n \in Installed
  <2>1. Len(local.replaced) \in 0 .. 3
    <3> DEFINE m == Len(local.replaced)
    <3>1. m < 4
      BY <1>1, <1>2 DEF Progress
    <3>2. m \in 0 .. 4
      BY <1>1, LocalTypes DEF TypesOK
    <3> HIDE DEF m
    <3>3. m \in 0 .. 3
      BY <3>1, <3>2
    <3> QED  BY <3>3 DEF m
  <2>2. Len(local.replaced) + 1 \in 1 .. 4
    <3> DEFINE m == Len(local.replaced)
    <3>1. m \in 0 .. 3
      BY <2>1
    <3> HIDE DEF m
    <3>2. m + 1 \in 1 .. 4
      BY <3>1
    <3> QED  BY <3>2 DEF m
  <2>3. InstallOrder[Len(local.replaced) + 1] \in Installed
    BY <2>2, InstallSteps
  <2> QED  BY <1>1, <2>1, <2>3, LocalTypes DEF TypesOK
<1>5. DisksOK' /\ PutRoot(n, Source(n)) /\ disk'.marker = disk.marker
  <2> DEFINE k == [p \in Paired |-> disk.newer[p] /\ p # n]
  <2>1. k \in [Paired -> BOOLEAN]
    OBVIOUS
  <2>2. disk' = [disk EXCEPT !.root[n] = Source(n), !.newer = k]
    BY <1>1 DEF Install, TypesOK, DisksOK, Disks
  <2>3. Source(n) \in Contents
    BY <1>1, DiskTypes DEF Source, TypesOK
  <2> HIDE DEF k, n
  <2> QED  BY <1>1, <1>2, <1>4, <2>1, <2>2, <2>3, PutRootFacts DEF TypesOK
<1>6. /\ ToInvalidate \in Seq(MainFiles)
      /\ Range(ToInvalidate) = {f \in MainFiles : disk.main[f] # Absent}
  <2>1. IsInjective(MainOrder)
    BY MainOnce
  <2> QED  BY <2>1, PresentFacts, PromotionAssumption, Kinds DEF MainFiles, ToInvalidate
<1>7. /\ LocalOK'
      /\ NowLocal(todo, Append(local.replaced, n), local.invalidated, local.moved, local.removed)
      /\ Len(Append(local.replaced, n)) = Len(local.replaced) + 1
      /\ Range(Append(local.replaced, n)) = Range(local.replaced) \cup {n}
      /\ \A i \in 1 .. Len(local.replaced) : Append(local.replaced, n)[i] = local.replaced[i]
  <2>1. todo \in Seq(Files \cup Temporaries)
    <3>1. MainFiles \subseteq Files \cup Temporaries
      BY Names
    <3> QED  BY <1>6, <3>1, WiderSequences
  <2>2. local' = [local EXCEPT !.replaced = Append(@, n), !.todo = todo]
    BY DEF Install
  <2>3. local' = [todo |-> todo, replaced |-> Append(local.replaced, n),
                  invalidated |-> local.invalidated, moved |-> local.moved,
                  removed |-> local.removed]
    <3> HIDE DEF todo, n
    <3> QED  BY <1>1, <2>2, LocalTypes DEF TypesOK
  <2>4. /\ Append(local.replaced, n) \in Seq(Installed) /\ Len(Append(local.replaced, n)) <= 4
        /\ \A i \in 1 .. Len(Append(local.replaced, n)) :
                Append(local.replaced, n)[i] = InstallOrder[i]
        /\ Len(Append(local.replaced, n)) = Len(local.replaced) + 1
        /\ Range(Append(local.replaced, n)) = Range(local.replaced) \cup {n}
    <3>1. \A i \in 1 .. Len(local.replaced) + 1 :
              i \in 1 .. Len(local.replaced) \/ i = Len(local.replaced) + 1
      BY <1>4
    <3>2. n = InstallOrder[Len(local.replaced) + 1]
      OBVIOUS
    <3> HIDE DEF n
    <3> QED  BY <1>4, <3>1, <3>2, AppendFacts
  <2>5. \A i \in 1 .. Len(local.replaced) : Append(local.replaced, n)[i] = local.replaced[i]
    BY <1>4, AppendFacts
  <2> HIDE DEF todo, n
  <2> QED  BY <1>1, <2>1, <2>3, <2>4, <2>5, LocalTypes, NowLocalFacts DEF TypesOK
<1>8. TypesOK'
  <2> HIDE DEF n, todo
  <2> QED  BY <1>1, <1>2, <1>5, <1>7 DEF TypesOK, SavedOK, RestOK
<1>9. Controlled'
  BY <1>1, <1>2, <1>3, <1>4, <1>5, <1>6, <1>7, <1>8 DEF Controlled, Forwards
<1>10. Copies'
  BY <1>1, <1>2, <1>3, <1>4, <1>5, <1>6, <1>7, <1>8 DEF Controlled, Copies, AllSaved, Untouched,
        Promoting, Forwards
<1>11. Remembered'
  BY <1>1, <1>2, <1>3, <1>4, <1>5, <1>6, <1>7, <1>8 DEF Controlled, Copies, Remembered,
        AllSaved, Untouched, RootSame, Running, Undone, Committed, PutRoot, NowLocal
<1>12. LteKept'
  BY <1>1, <1>2, <1>3, <1>4, <1>5, <1>6, <1>7, <1>8 DEF Controlled, Copies, LteKept, AllSaved,
        Untouched, RootSame, Running, Undone, Promoting, Committed, Backwards, PutRoot
<1>13. Progress'
  <2> DEFINE m == Len(local.replaced)
             now == Append(local.replaced, n)
  <2> HIDE DEF todo, now
  <2>1. m \in 0 .. 3 /\ m + 1 \in 1 .. 4 /\ n = InstallOrder[m + 1]
    BY <1>4
  <2> HIDE DEF n, m
  <2>2. local'.replaced = now /\ Len(now) = m + 1 /\ local'.todo = todo
    BY <1>7 DEF NowLocal, now, m
  <2>3. \A x \in Installed : Source(x)' = Source(x)
    BY <1>5 DEF Source, PutRoot
  <2>4. \A i \in 1 .. m : disk.root[InstallOrder[i]] = Source(InstallOrder[i])
    BY <1>1, <1>2 DEF Progress, m
  <2>5. \A i \in 1 .. m + 1 : i \in 1 .. 4 /\ (i = m + 1 \/ i \in 1 .. m)
    BY <2>1
  <2>6. \A i \in 1 .. m + 1 : disk'.root[InstallOrder[i]] = Source(InstallOrder[i])'
    <3> SUFFICES ASSUME NEW i \in 1 .. m + 1
                 PROVE  disk'.root[InstallOrder[i]] = Source(InstallOrder[i])'
      OBVIOUS
    <3>1. InstallOrder[i] \in Installed /\ (InstallOrder[i] = n <=> i = m + 1)
      BY <2>1, <2>5, InstallSteps
    <3> QED  BY <1>5, <2>3, <2>4, <2>5, <3>1 DEF PutRoot
  <2>7. CASE n = "VADAT"
    <3>1. m + 1 = 4 /\ step' = "invalidate" /\ todo = ToInvalidate
      BY <1>2, <2>1, <2>7, InstallSteps DEF todo
    <3>2. \A x \in Installed : disk'.root[x] = Source(x)'
      BY <2>6, <3>1, InstallSteps
    <3>3. /\ Range(todo) \subseteq MainFiles
          /\ \A f \in MainFiles : f \in Range(todo) \/ disk'.main[f] = Absent
      BY <1>5, <1>6, <3>1 DEF PutRoot
    <3> QED  BY <2>2, <3>1, <3>2, <3>3 DEF Progress
  <2>8. CASE n # "VADAT"
    <3>1. m + 1 \in 1 .. 4 /\ m + 1 # 4 /\ step' = "install"
      BY <1>2, <2>1, <2>8, InstallSteps
    <3>2. Len(local'.replaced) < 4 /\ Len(local'.replaced) = m + 1
      BY <2>2, <3>1
    <3> QED  BY <2>6, <3>1, <3>2 DEF Progress
  <2> QED  BY <2>7, <2>8
<1>14. Temps'
  BY <1>1, <1>2, <1>3, <1>4, <1>5, <1>6, <1>7 DEF Temps, PutRoot, NowLocal
<1>15. Ended'
  BY <1>1, <1>2, <1>3, <1>4, <1>5, <1>6, <1>7, <1>8 DEF Controlled, Copies, Remembered, LteKept,
        Ended, Committed
<1>16. Gridded'
  BY <1>1, <1>2, <1>3, <1>4 DEF Gridded, Free
<1> QED  BY <1>2, <1>3, <1>4, <1>5, <1>6, <1>7, <1>8, <1>9, <1>10, <1>11, <1>12, <1>13, <1>14,
        <1>15, <1>16 DEF PromotionInv

LEMMA InvalidateKeeps ==
    ASSUME PromotionInv, Invalidate PROVE PromotionInv'
<1>1. TypesOK /\ Controlled /\ Copies /\ Remembered /\ LteKept /\ Progress /\ Temps /\ Ended
      /\ Gridded
  BY DEF PromotionInv
<1> DEFINE f == Head(local.todo)
<1>2. /\ step = "invalidate" /\ step' = step /\ local.todo # <<>>
      /\ UNCHANGED <<by, status, made, saved, before, fault, torn, mishaps>>
  BY DEF Invalidate, Go, history
<1>3. \A x \in Files : Was(x)' = Was(x)
  BY <1>2, WasKept
<1>4. /\ local.todo \in Seq(Files \cup Temporaries) /\ Tail(local.todo) \in Seq(Files \cup Temporaries)
      /\ Range(local.todo) = {f} \cup Range(Tail(local.todo)) /\ f \in Range(local.todo) /\ f \in MainFiles
  <2>1. local.todo \in Seq(Files \cup Temporaries) /\ Range(local.todo) \subseteq MainFiles
    BY <1>1, <1>2, LocalTypes DEF TypesOK, Progress
  <2> QED  BY <1>2, <2>1, TailFacts
<1>5. DisksOK' /\ PutMain(f, Absent)
  <2>1. disk' = [disk EXCEPT !.main[f] = Absent, !.marker = disk.marker]
    BY <1>1 DEF Invalidate, TypesOK, DisksOK, Disks
  <2>2. disk.marker \in {"none", "older", "newer"} /\ Absent \in Contents
    BY <1>1 DEF TypesOK, DisksOK, Disks, Contents
  <2> HIDE DEF f
  <2> QED  BY <1>1, <1>2, <1>4, <2>1, <2>2, PutMainFacts DEF TypesOK
<1>6. /\ Append(local.invalidated, f) \in Seq(MainFiles)
      /\ Range(Append(local.invalidated, f)) = Range(local.invalidated) \cup {f}
  BY <1>1, <1>4, LocalTypes, AppendFacts DEF TypesOK
<1>7. /\ LocalOK'
      /\ NowLocal(Tail(local.todo), local.replaced, Append(local.invalidated, f), local.moved, local.removed)
  <2>1. local' = [todo |-> Tail(local.todo), replaced |-> local.replaced, invalidated |-> Append(local.invalidated, f),
                  moved |-> local.moved, removed |-> local.removed]
    BY <1>1, LocalTypes DEF TypesOK, Invalidate
  <2>2. /\ Tail(local.todo) \in Seq(Files \cup Temporaries)
        /\ Append(local.invalidated, f) \in Seq(MainFiles)
    BY <1>4, <1>6
  <2> HIDE DEF f
  <2>3. /\ local.replaced \in Seq(Installed)
        /\ local.moved \in Seq(Temporaries)
        /\ local.removed \in Seq(Temporaries)
        /\ Len(local.replaced) <= 4
        /\ \A i \in 1 .. Len(local.replaced) : local.replaced[i] = InstallOrder[i]
    BY <1>1, LocalTypes DEF TypesOK
  <2> QED  BY <2>1, <2>2, <2>3, NowLocalFacts
<1>8. TypesOK'
  <2> HIDE DEF f
  <2> QED  BY <1>1, <1>2, <1>5, <1>7 DEF TypesOK, SavedOK, RestOK
<1>9. Controlled'
  BY <1>1, <1>2, <1>3, <1>4, <1>5, <1>6, <1>7, <1>8 DEF Controlled, Forwards
<1>10. Copies'
  BY <1>1, <1>2, <1>3, <1>4, <1>5, <1>6, <1>7, <1>8 DEF Controlled, Copies, AllSaved, Untouched,
        Promoting, Forwards
<1>11. Remembered'
  BY <1>1, <1>2, <1>3, <1>4, <1>5, <1>6, <1>7, <1>8 DEF Controlled, Copies, Remembered,
        AllSaved, Untouched, Running, PutMain, NowLocal
<1>12. LteKept'
  BY <1>1, <1>2, <1>3, <1>4, <1>5, <1>6, <1>7, <1>8 DEF Controlled, Copies, LteKept, AllSaved,
        Untouched, RootSame, Running, Undone, Promoting, PutMain
<1>13. Progress'
  BY <1>1, <1>2, <1>3, <1>4, <1>5, <1>6, <1>7, <1>8 DEF Controlled, Progress, Promoting,
        PutMain, NowLocal, Source
<1>14. Temps'
  BY <1>1, <1>2, <1>3, <1>4, <1>5, <1>6, <1>7 DEF Temps, PutMain, NowLocal
<1>15. Ended'
  BY <1>1, <1>2, <1>3, <1>4, <1>5, <1>6, <1>7, <1>8 DEF Controlled, Copies, Remembered, LteKept,
        Ended, Committed
<1>16. Gridded'
  BY <1>1, <1>2, <1>3, <1>4 DEF Gridded, Free
<1> QED  BY <1>2, <1>3, <1>4, <1>5, <1>6, <1>7, <1>8, <1>9, <1>10, <1>11, <1>12, <1>13, <1>14,
        <1>15, <1>16 DEF PromotionInv

LEMMA InvalidatedKeeps ==
    ASSUME PromotionInv, Invalidated PROVE PromotionInv'
<1>1. TypesOK /\ Controlled /\ Copies /\ Remembered /\ LteKept /\ Progress /\ Temps /\ Ended
      /\ Gridded
  BY DEF PromotionInv
<1> DEFINE todo == Present(TempOrder)
<1>2. /\ step = "invalidate" /\ step' = "archive" /\ local.todo = <<>>
      /\ UNCHANGED <<by, status, made, disk, saved, before, fault, torn, mishaps>>
  BY DEF Invalidated, Go, history
<1>3. \A x \in Files : Was(x)' = Was(x)
  BY <1>2, WasKept
<1>4. /\ todo \in Seq(Temporaries) /\ IsInjective(todo)
      /\ Range(todo) = {t \in Temporaries : disk.temps[t] # Absent}
  BY PromotionAssumption, PresentFacts, Kinds DEF Temporaries
<1>5. LocalOK' /\ NowLocal(todo, local.replaced, local.invalidated, local.moved, local.removed)
  <2>1. local' = [todo |-> todo, replaced |-> local.replaced, invalidated |-> local.invalidated,
                  moved |-> local.moved, removed |-> local.removed]
    BY <1>1, LocalTypes DEF TypesOK, Invalidated
  <2> HIDE DEF todo
  <2>2. todo \in Seq(Files \cup Temporaries)
    BY <1>4, WiderSequences
  <2>3. /\ local.replaced \in Seq(Installed)
        /\ local.invalidated \in Seq(MainFiles)
        /\ local.moved \in Seq(Temporaries)
        /\ local.removed \in Seq(Temporaries)
        /\ Len(local.replaced) <= 4
        /\ \A i \in 1 .. Len(local.replaced) : local.replaced[i] = InstallOrder[i]
    BY <1>1, LocalTypes DEF TypesOK
  <2> QED  BY <2>1, <2>2, <2>3, NowLocalFacts
<1>6. TypesOK'
  <2> HIDE DEF todo
  <2> QED  BY <1>1, <1>2, <1>5 DEF TypesOK, DisksOK, SavedOK, RestOK
<1>7. Controlled'
  BY <1>1, <1>2, <1>3, <1>4, <1>5 DEF Controlled, Forwards
<1>8. Copies'
  BY <1>1, <1>2, <1>3, <1>4, <1>5, <1>6 DEF Controlled, Copies, AllSaved, Promoting, Committed,
        Backwards
<1>9. Remembered'
  BY <1>1, <1>2, <1>3, <1>4, <1>5, <1>6 DEF Controlled, Copies, Remembered, AllSaved, Untouched,
        RootSame, Running, Committed, NowLocal
<1>10. LteKept'
  BY <1>1, <1>2, <1>3, <1>4, <1>5, <1>6 DEF Controlled, Copies, LteKept, AllSaved, Untouched,
        RootSame, Running, Promoting, Committed, Backwards
<1>11. Progress'
  BY <1>1, <1>2, <1>3, <1>4, <1>5, <1>6, NothingListed DEF Controlled, Progress, Running,
        Undone, Promoting, Source
<1>12. Temps'
  BY <1>1, <1>2, <1>3, <1>4, <1>5, <1>6, NothingListed DEF Controlled, Temps, Archives, NowLocal
<1>13. Ended'
  BY <1>1, <1>2, <1>3, <1>4, <1>5, <1>6 DEF Controlled, Copies, Remembered, LteKept, Progress,
        Temps, Ended, Committed
<1>14. Gridded'
  BY <1>1, <1>2, <1>3, <1>4, <1>5, <1>6 DEF Controlled, Gridded, OnGrid, Free
<1> QED  BY <1>2, <1>3, <1>4, <1>5, <1>6, <1>7, <1>8, <1>9, <1>10, <1>11, <1>12, <1>13, <1>14 DEF PromotionInv

LEMMA MarkStaleKeeps ==
    ASSUME PromotionInv, MarkStale PROVE PromotionInv'
<1>1. TypesOK /\ Controlled /\ Copies /\ Remembered /\ LteKept /\ Progress /\ Temps /\ Ended
      /\ Gridded
  BY DEF PromotionInv
<1>2. /\ step = "mark" /\ step' = "compact" /\ torn' = FALSE
      /\ UNCHANGED <<by, status, made, saved, local, before, fault, mishaps>>
  BY DEF MarkStale, Go
<1>3. \A x \in Files : Was(x)' = Was(x)
  BY <1>2, WasKept
<1>4. /\ DisksOK' /\ disk'.root = disk.root /\ disk'.main = disk.main /\ disk'.lte = disk.lte
      /\ disk'.temps = disk.temps /\ disk'.marker = "newer"
  BY <1>1, <1>2 DEF MarkStale, TypesOK, DisksOK, Disks
<1>5. TypesOK'
  BY <1>1, <1>2, <1>4 DEF TypesOK, SavedOK, LocalOK, RestOK
<1>6. Controlled'
  BY <1>1, <1>2, <1>3 DEF Controlled, Committed, Backwards
<1>7. Copies'
  BY <1>1, <1>2, <1>3, <1>4, <1>5 DEF Controlled, Copies, AllSaved, Untouched, RootSame,
        Promoting, Forwards
<1>8. Remembered'
  BY <1>1, <1>2, <1>3, <1>4, <1>5 DEF Controlled, Copies, Remembered, Running, Committed
<1>9. LteKept'
  BY <1>1, <1>2, <1>3, <1>4, <1>5 DEF Controlled, Copies, LteKept, Running, Committed, Backwards
<1>10. Progress'
  BY <1>2 DEF Progress
<1>11. Temps'
  BY <1>1, <1>2, <1>3, <1>4, <1>5 DEF Controlled, Temps, Archives, Forwards
<1>12. Ended'
  BY <1>1, <1>2, <1>3, <1>4, <1>5 DEF Controlled, Copies, Remembered, LteKept, Progress, Temps,
        Ended, RootSame, Running, Undone, Promoting, Source, Ready
<1>13. Gridded'
  BY <1>1, <1>2, <1>3, <1>4, <1>5, Names DEF Controlled, Copies, Gridded, OnGrid, Free,
        RootSame, Promoting, Source, Progress
<1> QED  BY <1>2, <1>3, <1>4, <1>5, <1>6, <1>7, <1>8, <1>9, <1>10, <1>11, <1>12, <1>13 DEF PromotionInv

LEMMA StepFailsKeeps ==
    ASSUME PromotionInv, StepFails PROVE PromotionInv'
<1>1. TypesOK /\ Controlled /\ Copies /\ Remembered /\ LteKept /\ Progress /\ Temps /\ Ended
      /\ Gridded
  BY DEF PromotionInv
<1>2. /\ step \in {"sync", "utime", "install", "invalidate", "mark"} /\ step' = "unarchive"
      /\ UNCHANGED <<by, status, made, disk, saved, before, fault, torn, mishaps>>
  BY DEF StepFails, Go, history
<1>3. \A x \in Files : Was(x)' = Was(x)
  BY <1>2, WasKept
<1>4. /\ LocalOK'
      /\ NowLocal(local.removed, local.replaced, local.invalidated, local.moved, local.removed)
  <2>1. local' = [todo |-> local.removed, replaced |-> local.replaced, invalidated |-> local.invalidated,
                  moved |-> local.moved, removed |-> local.removed]
    BY <1>1, LocalTypes DEF TypesOK, StepFails, ToUnarchive
  <2>2. local.removed \in Seq(Files \cup Temporaries)
    BY <1>1, LocalTypes, WiderSequences DEF TypesOK
  <2>3. /\ local.replaced \in Seq(Installed)
        /\ local.invalidated \in Seq(MainFiles)
        /\ local.moved \in Seq(Temporaries)
        /\ local.removed \in Seq(Temporaries)
        /\ Len(local.replaced) <= 4
        /\ \A i \in 1 .. Len(local.replaced) : local.replaced[i] = InstallOrder[i]
    BY <1>1, LocalTypes DEF TypesOK
  <2> QED  BY <2>1, <2>2, <2>3, NowLocalFacts
<1>5. TypesOK'
  BY <1>1, <1>2, <1>4 DEF TypesOK, DisksOK, SavedOK, RestOK
<1>6. Controlled'
  BY <1>1, <1>2, <1>3, <1>4, <1>5 DEF Controlled, Running, Committed, Backwards
<1>7. Copies'
  BY <1>1, <1>2, <1>3, <1>4, <1>5 DEF Controlled, Copies, AllSaved, Promoting, Committed,
        Backwards
<1>8. Remembered'
  BY <1>1, <1>2, <1>3, <1>4, <1>5 DEF Controlled, Copies, Remembered, AllSaved, Untouched,
        RootSame, Running, Committed, NowLocal
<1>9. LteKept'
  BY <1>1, <1>2, <1>3, <1>4, <1>5, Kinds DEF Controlled, Copies, LteKept, AllSaved, Running,
        Promoting, Committed
<1>10. Progress'
  BY <1>2, <1>3 DEF Progress
<1>11. Temps'
  BY <1>1, <1>2, <1>3, <1>4, <1>5, NothingListed DEF Controlled, Temps, Archives, Running,
        Committed, NowLocal
<1>12. Ended'
  BY <1>1, <1>2, <1>3, <1>4, <1>5 DEF Controlled, Copies, Remembered, LteKept, Progress, Temps,
        Ended, Committed
<1>13. Gridded'
  BY <1>1, <1>2, <1>3, <1>4, <1>5 DEF Controlled, Gridded, OnGrid, Free
<1> QED  BY <1>2, <1>3, <1>4, <1>5, <1>6, <1>7, <1>8, <1>9, <1>10, <1>11, <1>12, <1>13 DEF PromotionInv

LEMMA BackUpKeeps ==
    ASSUME PromotionInv, BackUp PROVE PromotionInv'
<1>1. TypesOK /\ Controlled /\ Copies /\ Remembered /\ LteKept /\ Progress /\ Temps /\ Ended
      /\ Gridded
  BY DEF PromotionInv
<1> DEFINE n == Head(local.todo)
<1>2. /\ step = "backup" /\ step' = (IF Len(local.todo) = 1 THEN "sync" ELSE "backup")
      /\ UNCHANGED <<by, status, made, disk, before, fault, torn, mishaps>>
  BY DEF BackUp, Go, history
<1>3. \A x \in Files : Was(x)' = Was(x)
  BY <1>2, WasKept
<1>4. /\ Range(local.todo) = {n} \cup Range(Tail(local.todo)) /\ n \in Files
      /\ Tail(local.todo) \in Seq(Files \cup Temporaries) /\ IsInjective(Tail(local.todo))
      /\ n \notin Range(Tail(local.todo))
      /\ Len(local.todo) = 1 <=> Tail(local.todo) = <<>>
  <2>1. /\ local.todo \in Seq(Files \cup Temporaries) /\ local.todo # <<>>
        /\ Range(local.todo) \subseteq Files /\ IsInjective(local.todo)
    BY <1>1, <1>2, LocalTypes DEF TypesOK, Copies
  <2> QED  BY <2>1, TailFacts
<1>5. SavedOK' /\ PutBackup(n, Was(n))
  <2>1. disk = before
    BY <1>1, <1>2 DEF Copies
  <2>2. Current(n) = Was(n) /\ Current(n) \in Contents \cup {Partial}
    BY <1>1, <1>4, <2>1, CurrentTypes, Names DEF TypesOK, Current, Was
  <2>3. saved' = [saved EXCEPT !.backup[n] = Was(n)]
    BY <2>2 DEF BackUp
  <2> HIDE DEF n
  <2> QED  BY <1>1, <1>4, <2>2, <2>3, PutBackupFacts DEF TypesOK
<1>6. /\ LocalOK'
      /\ NowLocal(Tail(local.todo), local.replaced, local.invalidated, local.moved, local.removed)
  <2>1. local' = [todo |-> Tail(local.todo), replaced |-> local.replaced, invalidated |-> local.invalidated,
                  moved |-> local.moved, removed |-> local.removed]
    BY <1>1, LocalTypes DEF TypesOK, BackUp
  <2>2. Tail(local.todo) \in Seq(Files \cup Temporaries)
    BY <1>4
  <2>3. /\ local.replaced \in Seq(Installed)
        /\ local.invalidated \in Seq(MainFiles)
        /\ local.moved \in Seq(Temporaries)
        /\ local.removed \in Seq(Temporaries)
        /\ Len(local.replaced) <= 4
        /\ \A i \in 1 .. Len(local.replaced) : local.replaced[i] = InstallOrder[i]
    BY <1>1, LocalTypes DEF TypesOK
  <2> QED  BY <2>1, <2>2, <2>3, NowLocalFacts
<1>7. TypesOK'
  <2> HIDE DEF n
  <2> QED  BY <1>1, <1>2, <1>5, <1>6 DEF TypesOK, DisksOK, RestOK
<1>8. Controlled'
  BY <1>1, <1>2, <1>3, <1>4, <1>5, <1>6, <1>7 DEF Controlled, Forwards
<1>9. Copies'
  BY <1>1, <1>2, <1>3, <1>4, <1>5, <1>6, <1>7, NothingListed DEF Controlled, Copies, AllSaved,
        Untouched, RootSame, Running, Undone, Forwards, PutBackup, NowLocal
<1>10. Remembered'
  BY <1>1, <1>2, <1>3, <1>4, <1>5, <1>6 DEF Controlled, Copies, Remembered
<1>11. LteKept'
  BY <1>1, <1>2, <1>3, <1>4, <1>5, <1>6, <1>7 DEF Controlled, Copies, LteKept, AllSaved,
        Untouched, RootSame, Running, Undone, Promoting, Committed, Backwards
<1>12. Progress'
  BY <1>1, <1>2, <1>3 DEF Progress
<1>13. Temps'
  BY <1>1, <1>2, <1>3, <1>4, <1>5, <1>6 DEF Temps, NowLocal
<1>14. Ended'
  BY <1>1, <1>2, <1>3, <1>4, <1>5, <1>6, <1>7 DEF Controlled, Copies, Remembered, LteKept,
        Ended, Committed
<1>15. Gridded'
  BY <1>1, <1>2, <1>3, <1>4, <1>5, <1>6 DEF Controlled, Copies, Gridded
<1> QED  BY <1>2, <1>3, <1>4, <1>5, <1>6, <1>7, <1>8, <1>9, <1>10, <1>11, <1>12, <1>13, <1>14,
        <1>15 DEF PromotionInv

LEMMA BackUpFailsKeeps ==
    ASSUME PromotionInv, BackUpFails PROVE PromotionInv'
<1>1. TypesOK /\ Controlled /\ Copies /\ Remembered /\ LteKept /\ Progress /\ Temps /\ Ended
      /\ Gridded
  BY DEF PromotionInv
<1> DEFINE n == Head(local.todo)
<1>2. /\ step = "backup" /\ step' = "unarchive"
      /\ UNCHANGED <<by, status, made, disk, before, fault, torn, mishaps>>
  BY DEF BackUpFails, Go, history
<1>3. \A x \in Files : Was(x)' = Was(x)
  BY <1>2, WasKept
<1>4. /\ local.todo \in Seq(Files \cup Temporaries) /\ local.todo # <<>>
      /\ Range(local.todo) = {n} \cup Range(Tail(local.todo)) /\ n \in Files
      /\ Was("lte/VADAT") = before.lte.vadat /\ "lte/VADAT" \in Files
  <2>1. /\ local.todo \in Seq(Files \cup Temporaries) /\ local.todo # <<>>
        /\ Range(local.todo) \subseteq Files
    BY <1>1, <1>2, LocalTypes DEF TypesOK, Copies
  <2> QED  BY <2>1, TailFacts, Kinds
<1>5. SavedOK' /\ \E c \in {Absent, Partial, Was(n)} : PutBackup(n, c)
  <2>1. disk = before
    BY <1>1, <1>2 DEF Copies
  <2>2. Current(n) = Was(n) /\ Current(n) \in Contents \cup {Partial}
    BY <1>1, <1>4, <2>1, CurrentTypes, Names DEF TypesOK, Current, Was
  <2>3. PICK c \in {Absent, Partial, Current(n)} : saved' = [saved EXCEPT !.backup[n] = c]
    BY DEF BackUpFails
  <2>4. c \in Contents \cup {Partial}
    BY <2>2, <2>3 DEF Contents
  <2> HIDE DEF n
  <2> QED  BY <1>1, <1>4, <2>2, <2>3, <2>4, PutBackupFacts DEF TypesOK
<1>6. <<>> \in Seq(Files \cup Temporaries)
  OBVIOUS
<1>7. LocalOK' /\ NowLocal(<<>>, local.replaced, local.invalidated, local.moved, local.removed)
  <2>1. local' = [todo |-> <<>>, replaced |-> local.replaced, invalidated |-> local.invalidated,
                  moved |-> local.moved, removed |-> local.removed]
    BY <1>1, LocalTypes DEF TypesOK, BackUpFails
  <2>2. <<>> \in Seq(Files \cup Temporaries)
    BY <1>6
  <2>3. /\ local.replaced \in Seq(Installed)
        /\ local.invalidated \in Seq(MainFiles)
        /\ local.moved \in Seq(Temporaries)
        /\ local.removed \in Seq(Temporaries)
        /\ Len(local.replaced) <= 4
        /\ \A i \in 1 .. Len(local.replaced) : local.replaced[i] = InstallOrder[i]
    BY <1>1, LocalTypes DEF TypesOK
  <2> QED  BY <2>1, <2>2, <2>3, NowLocalFacts
<1>8. TypesOK'
  <2> HIDE DEF n
  <2> QED  BY <1>1, <1>2, <1>5, <1>7 DEF TypesOK, DisksOK, RestOK
<1>9. Controlled'
  BY <1>1, <1>2, <1>3, <1>4, <1>5, <1>6, <1>7, <1>8 DEF Controlled, Backwards
<1>10. Copies'
  BY <1>1, <1>2, <1>3, <1>4, <1>5, <1>6, <1>7, <1>8 DEF Controlled, Copies, AllSaved, Untouched,
        RootSame, Running, Undone, Forwards, NowLocal
<1>11. Remembered'
  BY <1>1, <1>2, <1>3, <1>4, <1>5, <1>6, <1>7 DEF Controlled, Copies, Remembered
<1>12. LteKept'
  BY <1>1, <1>2, <1>3, <1>4, <1>5, <1>6, <1>7, <1>8, Kinds, Names DEF Controlled, Copies,
        LteKept, AllSaved, Untouched, RootSame, Running, Undone, Promoting, Committed, PutBackup
<1>13. Progress'
  BY <1>1, <1>2, <1>3, <1>4 DEF Progress
<1>14. Temps'
  BY <1>1, <1>2, <1>3, <1>4, <1>5, <1>6, <1>7, <1>8, NothingListed DEF Controlled, Temps,
        Archives, NowLocal
<1>15. Ended'
  BY <1>1, <1>2, <1>3, <1>4, <1>5, <1>6, <1>7, <1>8 DEF Controlled, Copies, Remembered, LteKept,
        Ended, Committed
<1>16. Gridded'
  BY <1>1, <1>2, <1>3, <1>4, <1>5, <1>6, <1>7 DEF Controlled, Copies, Gridded
<1> QED  BY <1>2, <1>3, <1>4, <1>5, <1>6, <1>7, <1>8, <1>9, <1>10, <1>11, <1>12, <1>13, <1>14,
        <1>15, <1>16 DEF PromotionInv

LEMMA ArchiveKeeps ==
    ASSUME PromotionInv, Archive PROVE PromotionInv'
<1>1. TypesOK /\ Controlled /\ Copies /\ Remembered /\ LteKept /\ Progress /\ Temps /\ Ended
      /\ Gridded
  BY DEF PromotionInv
<1> DEFINE t == Head(local.todo)
<1>2. /\ step = "archive" /\ step' = step /\ local.todo # <<>>
      /\ UNCHANGED <<by, status, made, before, fault, torn, mishaps>>
  BY DEF Archive, Go, history
<1>3. \A x \in Files : Was(x)' = Was(x)
  BY <1>2, WasKept
<1>4. /\ Range(local.todo) = {t} \cup Range(Tail(local.todo)) /\ t \in Temporaries
      /\ t \notin Range(Tail(local.todo))
      /\ Tail(local.todo) \in Seq(Files \cup Temporaries) /\ IsInjective(Tail(local.todo))
  <2>1. /\ local.todo \in Seq(Files \cup Temporaries) /\ local.todo # <<>>
        /\ Range(local.todo) \subseteq Temporaries /\ IsInjective(local.todo)
    BY <1>1, <1>2, LocalTypes DEF TypesOK, Temps
  <2> QED  BY <2>1, TailFacts
<1>5. DisksOK' /\ PutTemp(t, Absent)
  <2>1. disk' = [disk EXCEPT !.temps[t] = Absent] /\ Absent \in Contents
    BY DEF Archive, Contents
  <2> HIDE DEF t
  <2> QED  BY <1>1, <1>2, <1>4, <2>1, PutTempFacts DEF TypesOK
<1>6. SavedOK' /\ PutArchive(t, disk.temps[t])
  <2>1. disk.temps[t] \in Contents
    BY <1>1, <1>4, DiskTypes DEF TypesOK
  <2>2. saved' = [saved EXCEPT !.archive[t] = disk.temps[t]]
    BY DEF Archive
  <2> HIDE DEF t
  <2> QED  BY <1>1, <1>4, <2>1, <2>2, PutArchiveFacts DEF TypesOK
<1>7. /\ Append(local.moved, t) \in Seq(Temporaries)
      /\ Range(Append(local.moved, t)) = Range(local.moved) \cup {t}
      /\ t \notin Range(local.moved) /\ IsInjective(Append(local.moved, t))
  <2>1. IsInjective(local.moved) /\ t \notin Range(local.moved)
    BY <1>1, <1>2, <1>4 DEF Temps, Archives
  <2> QED  BY <1>1, <1>4, <2>1, LocalTypes, AppendFacts DEF TypesOK
<1>8. /\ LocalOK'
      /\ NowLocal(Tail(local.todo), local.replaced, local.invalidated, Append(local.moved, t), local.removed)
  <2>1. local' = [todo |-> Tail(local.todo), replaced |-> local.replaced, invalidated |-> local.invalidated,
                  moved |-> Append(local.moved, t), removed |-> local.removed]
    BY <1>1, LocalTypes DEF TypesOK, Archive
  <2>2. Tail(local.todo) \in Seq(Files \cup Temporaries) /\ Append(local.moved, t) \in Seq(Temporaries)
    BY <1>4, <1>7
  <2> HIDE DEF t
  <2>3. /\ local.replaced \in Seq(Installed)
        /\ local.invalidated \in Seq(MainFiles)
        /\ local.removed \in Seq(Temporaries)
        /\ Len(local.replaced) <= 4
        /\ \A i \in 1 .. Len(local.replaced) : local.replaced[i] = InstallOrder[i]
    BY <1>1, LocalTypes DEF TypesOK
  <2> QED  BY <2>1, <2>2, <2>3, NowLocalFacts
<1>9. TypesOK'
  <2> HIDE DEF t
  <2> QED  BY <1>1, <1>2, <1>5, <1>6, <1>8 DEF TypesOK, RestOK
<1>10. Controlled'
  BY <1>1, <1>2, <1>3, <1>4, <1>5, <1>6, <1>7 DEF Controlled, Running, Promoting
<1>11. Copies'
  BY <1>1, <1>2, <1>3, <1>4, <1>5, <1>6, <1>7, <1>8, <1>9 DEF Controlled, Copies, AllSaved,
        Untouched, RootSame, Undone, Promoting, PutTemp, PutArchive, NowLocal
<1>12. Remembered'
  BY <1>1, <1>2, <1>3, <1>4, <1>5, <1>6, <1>7, <1>8, <1>9 DEF Controlled, Copies, Remembered,
        AllSaved, Untouched, RootSame, Running, PutTemp, NowLocal
<1>13. LteKept'
  BY <1>1, <1>2, <1>3, <1>4, <1>5, <1>6, <1>7, <1>8, <1>9 DEF Controlled, Copies, LteKept,
        AllSaved, Untouched, RootSame, Running, Undone, Promoting, Backwards, PutTemp
<1>14. Progress'
  BY <1>1, <1>2, <1>3, <1>4, <1>5, <1>6, <1>7, <1>8, <1>9 DEF Controlled, Progress, Running,
        Undone, Promoting, Committed, PutTemp, Source
<1>15. Temps'
  BY <1>1, <1>2, <1>3, <1>4, <1>5, <1>6, <1>7, <1>8, <1>9 DEF Controlled, Temps, Archives,
        Running, Undone, Promoting, Forwards, PutTemp, PutArchive, NowLocal
<1>16. Ended'
  BY <1>1, <1>2, <1>3, <1>4, <1>5, <1>6, <1>7, <1>8, <1>9 DEF Controlled, Copies, Remembered,
        LteKept, Progress, Ended, RootSame, Committed
<1>17. Gridded'
  BY <1>1, <1>2, <1>3, <1>4, <1>5, <1>6, <1>7, <1>8, <1>9 DEF Copies, Gridded, Free
<1> QED  BY <1>2, <1>3, <1>4, <1>5, <1>6, <1>7, <1>8, <1>9, <1>10, <1>11, <1>12, <1>13, <1>14,
        <1>15, <1>16, <1>17 DEF PromotionInv

LEMMA ArchivedKeeps ==
    ASSUME PromotionInv, Archived PROVE PromotionInv'
<1>1. TypesOK /\ Controlled /\ Copies /\ Remembered /\ LteKept /\ Progress /\ Temps /\ Ended
      /\ Gridded
  BY DEF PromotionInv
<1>2. /\ step = "archive" /\ step' = (IF by = "cleanup" THEN "compact" ELSE "mark")
      /\ local.todo = <<>> /\ UNCHANGED <<by, status, made, disk, saved, before, fault, torn, mishaps>>
  BY DEF Archived, Go, history
<1>3. \A x \in Files : Was(x)' = Was(x)
  BY <1>2, WasKept
<1>4. /\ LocalOK'
      /\ NowLocal(local.todo, local.replaced, local.invalidated, local.moved, local.moved)
  <2>1. local' = [todo |-> local.todo, replaced |-> local.replaced, invalidated |-> local.invalidated,
                  moved |-> local.moved, removed |-> local.moved]
    BY <1>1, LocalTypes DEF TypesOK, Archived
  <2>2. local.moved \in Seq(Temporaries)
    BY <1>1, LocalTypes DEF TypesOK
  <2>3. /\ local.todo \in Seq(Files \cup Temporaries)
        /\ local.replaced \in Seq(Installed)
        /\ local.invalidated \in Seq(MainFiles)
        /\ local.moved \in Seq(Temporaries)
        /\ Len(local.replaced) <= 4
        /\ \A i \in 1 .. Len(local.replaced) : local.replaced[i] = InstallOrder[i]
    BY <1>1, LocalTypes DEF TypesOK
  <2> QED  BY <2>1, <2>2, <2>3, NowLocalFacts
<1>5. TypesOK'
  BY <1>1, <1>2, <1>4 DEF TypesOK, DisksOK, SavedOK, RestOK
<1>6. Controlled'
  BY <1>1, <1>2, <1>3, <1>4, <1>5 DEF Controlled, Running, Committed, Forwards
<1>7. Copies'
  BY <1>1, <1>2, <1>3, <1>4, <1>5 DEF Controlled, Copies, AllSaved, Untouched, RootSame,
        Running, Promoting, Committed, Backwards, NowLocal
<1>8. Remembered'
  BY <1>1, <1>2, <1>3, <1>4, <1>5 DEF Controlled, Copies, Remembered, AllSaved, Untouched,
        RootSame, Running, Committed, NowLocal
<1>9. LteKept'
  BY <1>1, <1>2, <1>3, <1>4, <1>5 DEF Controlled, Copies, LteKept, AllSaved, Untouched,
        RootSame, Running, Promoting, Committed, Backwards
<1>10. Progress'
  BY <1>1, <1>2, <1>3, <1>4, <1>5 DEF Controlled, Progress, Running, Undone, Promoting, Source
<1>11. Temps'
  BY <1>1, <1>2, <1>3, <1>4, <1>5, NothingListed DEF Controlled, Temps, Archives, Running,
        Committed, NowLocal
<1>12. Ended'
  BY <1>1, <1>2, <1>3, <1>4, <1>5 DEF Controlled, Copies, Remembered, LteKept, Progress, Temps,
        Ended, RootSame, Promoting, Committed
<1>13. Gridded'
  BY <1>1, <1>2, <1>3, <1>4, <1>5 DEF Controlled, Gridded, OnGrid, Free
<1> QED  BY <1>2, <1>3, <1>4, <1>5, <1>6, <1>7, <1>8, <1>9, <1>10, <1>11, <1>12, <1>13 DEF PromotionInv

LEMMA ArchiveFailsKeeps ==
    ASSUME PromotionInv, ArchiveFails PROVE PromotionInv'
<1>1. TypesOK /\ Controlled /\ Copies /\ Remembered /\ LteKept /\ Progress /\ Temps /\ Ended
      /\ Gridded
  BY DEF PromotionInv
<1>2. /\ step = "archive" /\ step' = "putback"
      /\ UNCHANGED <<by, status, made, disk, saved, before, fault, torn, mishaps>>
  BY DEF ArchiveFails, Go, history
<1>3. \A x \in Files : Was(x)' = Was(x)
  BY <1>2, WasKept
<1>4. /\ LocalOK'
      /\ NowLocal(local.moved, local.replaced, local.invalidated, local.moved, local.removed)
  <2>1. local' = [todo |-> local.moved, replaced |-> local.replaced, invalidated |-> local.invalidated,
                  moved |-> local.moved, removed |-> local.removed]
    BY <1>1, LocalTypes DEF TypesOK, ArchiveFails
  <2>2. local.moved \in Seq(Files \cup Temporaries)
    BY <1>1, LocalTypes, WiderSequences DEF TypesOK
  <2>3. /\ local.replaced \in Seq(Installed)
        /\ local.invalidated \in Seq(MainFiles)
        /\ local.moved \in Seq(Temporaries)
        /\ local.removed \in Seq(Temporaries)
        /\ Len(local.replaced) <= 4
        /\ \A i \in 1 .. Len(local.replaced) : local.replaced[i] = InstallOrder[i]
    BY <1>1, LocalTypes DEF TypesOK
  <2> QED  BY <2>1, <2>2, <2>3, NowLocalFacts
<1>5. TypesOK'
  BY <1>1, <1>2, <1>4 DEF TypesOK, DisksOK, SavedOK, RestOK
<1>6. Controlled'
  BY <1>1, <1>2, <1>3, <1>4, <1>5 DEF Controlled, Running, Committed, Backwards
<1>7. Copies'
  BY <1>1, <1>2, <1>3, <1>4, <1>5 DEF Controlled, Copies, AllSaved, Untouched, RootSame,
        Running, Promoting, Committed, Backwards, NowLocal
<1>8. Remembered'
  BY <1>1, <1>2, <1>3, <1>4, <1>5 DEF Controlled, Copies, Remembered, AllSaved, Untouched,
        RootSame, Running, Committed, NowLocal
<1>9. LteKept'
  BY <1>1, <1>2, <1>3, <1>4, <1>5 DEF Controlled, Copies, LteKept, AllSaved, Untouched,
        RootSame, Running, Promoting, Committed, Backwards
<1>10. Progress'
  BY <1>2, <1>3 DEF Progress
<1>11. Temps'
  BY <1>1, <1>2, <1>3, <1>4, <1>5 DEF Controlled, Temps, Archives, Running, Committed, NowLocal
<1>12. Ended'
  BY <1>1, <1>2, <1>3, <1>4, <1>5 DEF Controlled, Copies, Remembered, LteKept, Progress, Temps,
        Ended, Committed
<1>13. Gridded'
  BY <1>1, <1>2, <1>3, <1>4, <1>5 DEF Controlled, Gridded, OnGrid, Free
<1> QED  BY <1>2, <1>3, <1>4, <1>5, <1>6, <1>7, <1>8, <1>9, <1>10, <1>11, <1>12, <1>13 DEF PromotionInv

LEMMA PutBackKeeps ==
    ASSUME PromotionInv, PutBack PROVE PromotionInv'
<1>1. TypesOK /\ Controlled /\ Copies /\ Remembered /\ LteKept /\ Progress /\ Temps /\ Ended
      /\ Gridded
  BY DEF PromotionInv
<1> DEFINE t == local.todo[Len(local.todo)]
           rest == DropLast(local.todo)
<1>2. /\ step \in {"putback", "unarchive"} /\ step' = step /\ local.todo # <<>>
      /\ UNCHANGED <<by, status, made, before, fault, torn, mishaps>>
  BY DEF PutBack, Go, history
<1>3. \A x \in Files : Was(x)' = Was(x)
  BY <1>2, WasKept
<1>4. /\ Range(local.todo) = {t} \cup Range(rest) /\ t \in Temporaries
      /\ rest \in Seq(Files \cup Temporaries) /\ IsInjective(rest) /\ t \notin Range(rest)
      /\ saved.archive[t] = before.temps[t]
  <2>1. /\ local.todo \in Seq(Files \cup Temporaries) /\ local.todo # <<>> /\ Archives(local.todo)
    BY <1>1, <1>2, LocalTypes DEF TypesOK, Temps
  <2>2. /\ Range(local.todo) = {t} \cup Range(rest) /\ t \in Range(local.todo)
        /\ rest \in Seq(Files \cup Temporaries) /\ IsInjective(rest) /\ t \notin Range(rest)
    BY <2>1, LastFacts DEF DropLast, Archives
  <2> QED  BY <2>1, <2>2 DEF Archives
<1>5. DisksOK' /\ PutTemp(t, saved.archive[t])
  <2>1. disk' = [disk EXCEPT !.temps[t] = saved.archive[t]] /\ saved.archive[t] \in Contents
    BY <1>1, <1>4 DEF PutBack, TypesOK, SavedOK
  <2> HIDE DEF t
  <2> QED  BY <1>1, <1>2, <1>4, <2>1, PutTempFacts DEF TypesOK
<1>6. SavedOK' /\ PutArchive(t, Absent)
  <2>1. saved' = [saved EXCEPT !.archive[t] = Absent] /\ Absent \in Contents
    BY DEF PutBack, Contents
  <2> HIDE DEF t
  <2> QED  BY <1>1, <1>4, <2>1, PutArchiveFacts DEF TypesOK
<1>7. LocalOK' /\ NowLocal(rest, local.replaced, local.invalidated, local.moved, local.removed)
  <2>1. local' = [todo |-> rest, replaced |-> local.replaced, invalidated |-> local.invalidated,
                  moved |-> local.moved, removed |-> local.removed]
    BY <1>1, LocalTypes DEF TypesOK, PutBack
  <2>2. rest \in Seq(Files \cup Temporaries)
    BY <1>4
  <2> HIDE DEF rest
  <2>3. /\ local.replaced \in Seq(Installed)
        /\ local.invalidated \in Seq(MainFiles)
        /\ local.moved \in Seq(Temporaries)
        /\ local.removed \in Seq(Temporaries)
        /\ Len(local.replaced) <= 4
        /\ \A i \in 1 .. Len(local.replaced) : local.replaced[i] = InstallOrder[i]
    BY <1>1, LocalTypes DEF TypesOK
  <2> QED  BY <2>1, <2>2, <2>3, NowLocalFacts
<1>8. TypesOK'
  <2> HIDE DEF t, rest
  <2> QED  BY <1>1, <1>2, <1>5, <1>6, <1>7 DEF TypesOK, RestOK
<1>9. Controlled'
  BY <1>1, <1>2, <1>3, <1>4, <1>5, <1>6 DEF Controlled, Running, Promoting
<1>10. Copies'
  BY <1>1, <1>2, <1>3, <1>4, <1>5, <1>6, <1>7, <1>8 DEF Controlled, Copies, AllSaved, Untouched,
        RootSame, Undone, Promoting, PutTemp, PutArchive, NowLocal
<1>11. Remembered'
  BY <1>1, <1>2, <1>3, <1>4, <1>5, <1>6, <1>7, <1>8 DEF Controlled, Copies, Remembered,
        AllSaved, Untouched, RootSame, Running, PutTemp, NowLocal
<1>12. LteKept'
  BY <1>1, <1>2, <1>3, <1>4, <1>5, <1>6, <1>7, <1>8 DEF Controlled, Copies, LteKept, AllSaved,
        Untouched, RootSame, Running, Promoting, PutTemp, PutArchive
<1>13. Progress'
  BY <1>1, <1>2 DEF Progress
<1>14. Temps'
  BY <1>1, <1>2, <1>3, <1>4, <1>5, <1>6, <1>7, <1>8 DEF Controlled, Temps, Archives, Running,
        Undone, PutTemp, PutArchive, NowLocal
<1>15. Ended'
  BY <1>1, <1>2, <1>3, <1>4, <1>5, <1>6, <1>7, <1>8 DEF Controlled, Copies, Remembered, LteKept,
        Progress, Ended, RootSame, Committed
<1>16. Gridded'
  BY <1>1, <1>2, <1>3, <1>4, <1>5, <1>6, <1>7, <1>8 DEF Copies, Gridded, Free
<1> QED  BY <1>2, <1>3, <1>4, <1>5, <1>6, <1>7, <1>8, <1>9, <1>10, <1>11, <1>12, <1>13, <1>14,
        <1>15, <1>16 DEF PromotionInv

LEMMA UnarchivedKeeps ==
    ASSUME PromotionInv, Unarchived PROVE PromotionInv'
<1>1. TypesOK /\ Controlled /\ Copies /\ Remembered /\ LteKept /\ Progress /\ Temps /\ Ended
      /\ Gridded
  BY DEF PromotionInv
<1>2. /\ step = "unarchive" /\ step' = "reinstall" /\ local.todo = <<>>
      /\ UNCHANGED <<by, status, made, disk, saved, local, before, fault, torn, mishaps>>
  BY DEF Unarchived, Go, history
<1>3. \A x \in Files : Was(x)' = Was(x)
  BY <1>2, WasKept
<1>4. TypesOK'
  BY <1>1, <1>2 DEF TypesOK, DisksOK, SavedOK, LocalOK, RestOK
<1>5. Controlled'
  BY <1>1, <1>2, <1>3, <1>4 DEF Controlled, Running, Promoting, Committed, Forwards, Backwards
<1>6. Copies'
  BY <1>1, <1>2, <1>3, <1>4 DEF Controlled, Copies, AllSaved, Untouched, RootSame, Promoting,
        Forwards, Backwards
<1>7. Remembered'
  BY <1>1, <1>2, <1>3, <1>4 DEF Controlled, Copies, Remembered, Running, Committed
<1>8. LteKept'
  BY <1>1, <1>2, <1>3, <1>4 DEF Controlled, Copies, LteKept, Running, Promoting, Committed,
        Backwards
<1>9. Progress'
  BY <1>1, <1>2, <1>4 DEF Progress
<1>10. Temps'
  <2>1. ~fault => \A t \in Temporaries : disk.temps[t] = before.temps[t]
    BY <1>1, <1>2, NothingListed DEF Temps, Archives
  <2>2. ~fault => disk.temps = before.temps
    BY <1>1, <2>1, DiskParts, SameParts DEF TypesOK
  <2> QED  BY <1>1, <1>2, <2>2 DEF Temps, Running, Undone, Committed
<1>11. Ended'
  BY <1>1, <1>2, <1>3, <1>4 DEF Controlled, Copies, Remembered, LteKept, Progress, Ended,
        Committed
<1>12. Gridded'
  BY <1>1, <1>2, <1>3, <1>4 DEF Gridded, Free
<1> QED  BY <1>2, <1>3, <1>4, <1>5, <1>6, <1>7, <1>8, <1>9, <1>10, <1>11, <1>12 DEF PromotionInv

LEMMA ReinstalledKeeps ==
    ASSUME PromotionInv, Reinstalled PROVE PromotionInv'
<1>1. TypesOK /\ Controlled /\ Copies /\ Remembered /\ LteKept /\ Progress /\ Temps /\ Ended
      /\ Gridded
  BY DEF PromotionInv
<1>2. /\ step = "reinstall" /\ step' = "revive" /\ local.replaced = <<>>
      /\ UNCHANGED <<by, status, made, disk, saved, local, before, fault, torn, mishaps>>
  BY DEF Reinstalled, Go, history
<1>3. \A x \in Files : Was(x)' = Was(x)
  BY <1>2, WasKept
<1>4. TypesOK'
  BY <1>1, <1>2 DEF TypesOK, DisksOK, SavedOK, LocalOK, RestOK
<1>5. Controlled'
  BY <1>1, <1>2, <1>3, <1>4 DEF Controlled, Running, Promoting, Committed, Forwards, Backwards
<1>6. Copies'
  BY <1>1, <1>2, <1>3, <1>4 DEF Controlled, Copies, AllSaved, Untouched, RootSame, Promoting,
        Forwards, Backwards
<1>7. Remembered'
  BY <1>1, <1>2, <1>3, <1>4 DEF Controlled, Copies, Remembered, Running, Committed
<1>8. LteKept'
  BY <1>1, <1>2, <1>3, <1>4 DEF Controlled, Copies, LteKept, Running, Promoting, Committed,
        Backwards
<1>9. Progress'
  BY <1>1, <1>2, <1>4 DEF Progress
<1>10. Temps'
  BY <1>1, <1>2, <1>3, <1>4 DEF Controlled, Temps, Archives, Running, Committed
<1>11. Ended'
  BY <1>1, <1>2, <1>3, <1>4 DEF Controlled, Copies, Remembered, LteKept, Progress, Ended,
        Committed
<1>12. Gridded'
  BY <1>1, <1>2, <1>3, <1>4 DEF Gridded, Free
<1> QED  BY <1>2, <1>3, <1>4, <1>5, <1>6, <1>7, <1>8, <1>9, <1>10, <1>11, <1>12 DEF PromotionInv

LEMMA MishapFacts == ASSUME RestOK, Mishap PROVE mishaps' \in 0..MaxMishaps
  BY PromotionAssumption DEF RestOK, Mishap

LEMMA FaultyFacts ==
    ASSUME RestOK, Faulty
    PROVE  /\ mishaps' \in 0..MaxMishaps /\ fault' = TRUE /\ torn' \in BOOLEAN
           /\ by # "cleanup" => torn' = TRUE
<1>1. mishaps' \in 0..MaxMishaps /\ fault' = TRUE /\ torn' = (torn \/ by # "cleanup")
  BY MishapFacts DEF Faulty
<1> QED  BY <1>1

LEMMA LeaveArchivingFacts ==
    ASSUME LocalOK, LeaveArchiving
    PROVE  /\ LocalOK' /\ UNCHANGED <<by, made>>
           /\ \/ /\ by = "cleanup" /\ step' = "idle" /\ status' = "failed"
                 /\ NowLocal(<<>>, <<>>, <<>>, <<>>, <<>>)
              \/ /\ by # "cleanup" /\ step' = "unarchive" /\ status' = status
                 /\ NowLocal(<<>>, local.replaced, local.invalidated, local.moved, local.removed)
<1>1. CASE by = "cleanup"
  BY <1>1, NoLocalsFacts DEF LeaveArchiving, Return
<1>2. CASE by # "cleanup"
  <2>1. local' = [todo |-> <<>>, replaced |-> local.replaced, invalidated |-> local.invalidated,
                  moved |-> local.moved, removed |-> local.removed]
    BY <1>2, LocalTypes DEF LeaveArchiving
  <2>2. <<>> \in Seq(Files \cup Temporaries)
    OBVIOUS
  <2>3. /\ local.replaced \in Seq(Installed) /\ local.invalidated \in Seq(MainFiles)
        /\ local.moved \in Seq(Temporaries) /\ local.removed \in Seq(Temporaries)
        /\ Len(local.replaced) <= 4
        /\ \A i \in 1 .. Len(local.replaced) : local.replaced[i] = InstallOrder[i]
    BY LocalTypes
  <2>4. /\ LocalOK'
        /\ NowLocal(<<>>, local.replaced, local.invalidated, local.moved, local.removed)
    BY <2>1, <2>2, <2>3, NowLocalFacts
  <2> QED  BY <1>2, <2>4 DEF LeaveArchiving, Go
<1> QED  BY <1>1, <1>2

LEMMA PutBackEndsKeeps ==
    ASSUME PromotionInv, PutBackEnds PROVE PromotionInv'
<1>1. TypesOK /\ Controlled /\ Copies /\ Remembered /\ LteKept /\ Progress /\ Temps /\ Ended
      /\ Gridded
  BY DEF PromotionInv
<1>2. /\ step = "putback" /\ local.todo = <<>> /\ UNCHANGED <<disk, saved, before, fault, torn, mishaps>>
  BY DEF PutBackEnds, history
<1>3. \A x \in Files : Was(x)' = Was(x)
  BY <1>2, WasKept
<1>4. /\ LocalOK' /\ UNCHANGED <<by, made>>
      /\ \/ /\ by = "cleanup" /\ step' = "idle" /\ status' = "failed"
            /\ NowLocal(<<>>, <<>>, <<>>, <<>>, <<>>)
         \/ /\ by # "cleanup" /\ step' = "unarchive" /\ status' = status
            /\ NowLocal(<<>>, local.replaced, local.invalidated, local.moved, local.removed)
  BY <1>1, LeaveArchivingFacts DEF PutBackEnds, TypesOK
<1>5. TypesOK'
  BY <1>1, <1>2, <1>4 DEF TypesOK, DisksOK, SavedOK, RestOK
<1>6. ~fault => disk.temps = before.temps
  <2>1. ~fault => \A t \in Temporaries : disk.temps[t] = before.temps[t]
    BY <1>1, <1>2, NothingListed DEF Temps, Archives
  <2> QED  BY <1>1, <2>1, DiskParts, SameParts DEF TypesOK
<1>7. Controlled'
  BY <1>1, <1>2, <1>3, <1>4, <1>5, <1>6 DEF Controlled, Running, Promoting, Committed, Forwards,
        Backwards
<1>8. Copies'
  BY <1>1, <1>2, <1>3, <1>4, <1>5, <1>6 DEF Controlled, Copies, AllSaved, RootSame, Promoting
<1>9. Remembered'
  BY <1>1, <1>2, <1>3, <1>4, <1>5, <1>6 DEF Controlled, Copies, Remembered, AllSaved, Untouched,
        RootSame, Running, Committed, NowLocal
<1>10. LteKept'
  BY <1>1, <1>2, <1>3, <1>4, <1>5, <1>6, Kinds DEF Controlled, Copies, LteKept, AllSaved,
        Untouched, RootSame, Running, Promoting, Committed, Backwards
<1>11. Progress'
  BY <1>1, <1>3, <1>4 DEF Progress
<1>12. Temps'
  BY <1>1, <1>2, <1>3, <1>4, <1>5, <1>6, NothingListed DEF Controlled, Temps, Archives, Running,
        Committed, NowLocal
<1>13. Ended'
  BY <1>1, <1>2, <1>3, <1>4, <1>5, <1>6 DEF Controlled, Copies, Remembered, LteKept, Progress,
        Temps, Ended, RootSame, Committed
<1>14. Gridded'
  BY <1>1, <1>2, <1>3, <1>4, <1>5, <1>6 DEF Controlled, Copies, Gridded, OnGrid, Free, RootSame
<1> QED  BY <1>2, <1>3, <1>4, <1>5, <1>6, <1>7, <1>8, <1>9, <1>10, <1>11, <1>12, <1>13, <1>14 DEF PromotionInv

LEMMA PutBackFailsKeeps ==
    ASSUME PromotionInv, PutBackFails PROVE PromotionInv'
<1>1. TypesOK /\ Controlled /\ Copies /\ Remembered /\ LteKept /\ Progress /\ Temps /\ Ended
      /\ Gridded
  BY DEF PromotionInv
<1>2. /\ step \in {"putback", "unarchive"} /\ fault' = TRUE /\ torn' = (torn \/ by # "cleanup")
      /\ mishaps' \in 0..MaxMishaps /\ UNCHANGED <<disk, saved, before>>
  BY <1>1, FaultyFacts DEF PutBackFails, Faulty, TypesOK
<1>3. \A x \in Files : Was(x)' = Was(x)
  BY <1>2, WasKept
<1>4. /\ LocalOK' /\ UNCHANGED <<by, made>>
      /\ \/ /\ by = "cleanup" /\ step' = "idle" /\ status' = "failed"
            /\ NowLocal(<<>>, <<>>, <<>>, <<>>, <<>>)
         \/ /\ step = "unarchive" /\ step' = "idle" /\ status' = "failed"
            /\ NowLocal(<<>>, <<>>, <<>>, <<>>, <<>>)
         \/ /\ by # "cleanup" /\ step' = "unarchive" /\ status' = status
            /\ NowLocal(<<>>, local.replaced, local.invalidated, local.moved, local.removed)
  <2>1. CASE step = "putback"
    BY <1>1, <2>1, LeaveArchivingFacts DEF PutBackFails, TypesOK
  <2>2. CASE step # "putback"
    BY <1>2, <2>2, NoLocalsFacts DEF PutBackFails, Return
  <2> QED  BY <2>1, <2>2
<1>5. TypesOK'
  BY <1>1, <1>2, <1>4 DEF TypesOK, DisksOK, SavedOK, RestOK
<1>6. Controlled'
  BY <1>1, <1>2, <1>3, <1>4 DEF Controlled, Running, Forwards, Backwards
<1>7. Copies'
  BY <1>1, <1>2, <1>3, <1>4, <1>5 DEF Controlled, Copies, AllSaved, Untouched, RootSame,
        Running, Promoting, Committed, Forwards, NowLocal
<1>8. Remembered'
  BY <1>1, <1>2, <1>3 DEF Remembered
<1>9. LteKept'
  BY <1>1, <1>2, <1>3, <1>4, <1>5, Kinds DEF Controlled, Copies, LteKept, AllSaved, Untouched,
        RootSame, Running, Promoting, Committed, Backwards
<1>10. Progress'
  BY <1>1, <1>2, <1>3, <1>4 DEF Controlled, Progress
<1>11. Temps'
  BY <1>1, <1>2, <1>3, <1>4, <1>5, NothingListed DEF Controlled, Temps, Archives, Running,
        Committed, NowLocal
<1>12. Ended'
  BY <1>1, <1>2, <1>3, <1>4, <1>5 DEF Controlled, Copies, Remembered, LteKept, Progress, Temps,
        Ended, Committed
<1>13. Gridded'
  BY <1>1, <1>2, <1>3, <1>4, <1>5 DEF Controlled, Copies, Gridded, OnGrid, RootSame
<1> QED  BY <1>2, <1>3, <1>4, <1>5, <1>6, <1>7, <1>8, <1>9, <1>10, <1>11, <1>12, <1>13 DEF PromotionInv

LEMMA ReinstallKeeps ==
    ASSUME PromotionInv, Reinstall PROVE PromotionInv'
<1>1. TypesOK /\ Controlled /\ Copies /\ Remembered /\ LteKept /\ Progress /\ Temps /\ Ended
      /\ Gridded
  BY DEF PromotionInv
<1> DEFINE n == local.replaced[Len(local.replaced)]
           rest == DropLast(local.replaced)
<1>2. /\ step = "reinstall" /\ step' = step /\ local.replaced # <<>>
      /\ UNCHANGED <<by, status, made, saved, before>>
  BY DEF Reinstall, Go, Sound, Faulty, history
<1>3. \A x \in Files : Was(x)' = Was(x)
  BY <1>2, WasKept
<1>4. /\ Range(local.replaced) = {n} \cup Range(rest) /\ n \in Installed
      /\ rest \in Seq(Installed) /\ Len(rest) <= 4
      /\ \A i \in 1 .. Len(rest) : rest[i] = InstallOrder[i]
  <2>1. local.replaced \in Seq(Installed) /\ Len(local.replaced) <= 4
    BY <1>1, LocalTypes DEF TypesOK
  <2>2. /\ Range(local.replaced) = {n} \cup Range(rest) /\ n \in Installed
        /\ rest \in Seq(Installed) /\ Len(rest) = Len(local.replaced) - 1
        /\ \A i \in 1 .. Len(rest) : rest[i] = local.replaced[i]
    BY <1>2, <2>1, LastFacts DEF DropLast
  <2> DEFINE m == Len(local.replaced)
  <2>3. m \in Nat /\ m <= 4 /\ Len(rest) = m - 1
    BY <2>1, <2>2
  <2>4. \A i \in 1 .. m : local.replaced[i] = InstallOrder[i]
    BY <1>1, LocalTypes DEF TypesOK
  <2> HIDE DEF m, n, rest
  <2>5. m - 1 <= 4 /\ \A i \in 1 .. m - 1 : i \in 1 .. m
    BY <2>3
  <2> QED  BY <2>2, <2>3, <2>4, <2>5
<1>5. Promoting /\ AllSaved /\ saved.backup[n] = before.root[n]
  <2>1. Promoting /\ (AllSaved \/ Untouched)
    BY <1>1, <1>2 DEF Copies, Controlled, Promoting, Backwards
  <2>2. AllSaved
    BY <1>2, <2>1 DEF Untouched
  <2> HIDE DEF n
  <2> QED  BY <1>4, <2>1, <2>2, Kinds, Names DEF AllSaved
<1>6. /\ DisksOK' /\ mishaps' \in 0..MaxMishaps /\ fault' \in BOOLEAN /\ torn' \in BOOLEAN
      /\ \/ PutRoot(n, before.root[n]) /\ UNCHANGED <<fault, torn>>
         \/ fault' /\ torn' /\ UNCHANGED disk
  <2>1. CASE UNCHANGED disk /\ Faulty
    <3>1. /\ mishaps' \in 0..MaxMishaps /\ fault' = TRUE /\ torn' \in BOOLEAN
          /\ by # "cleanup" => torn' = TRUE
      BY <1>1, <2>1, FaultyFacts DEF TypesOK
    <3>2. DisksOK' /\ by # "cleanup"
      BY <1>1, <1>2, <1>5, <2>1 DEF TypesOK, DisksOK, Promoting
    <3> QED  BY <2>1, <3>1, <3>2
  <2> DEFINE old == saved.backup[n]
             k == [p \in Paired |-> IF p = n THEN old = Absent ELSE disk.newer[p]]
  <2>2. CASE disk' = [disk EXCEPT !.root[n] = old, !.newer = k] /\ Sound
    <3>1. k \in [Paired -> BOOLEAN]
      BY <1>1 DEF TypesOK, DisksOK, Disks
    <3>2. old \in Contents /\ old = before.root[n]
      BY <1>1, <1>4, <1>5, DiskParts DEF TypesOK
    <3> HIDE DEF k, n, old
    <3>3. DisksOK' /\ PutRoot(n, old)
      BY <1>1, <1>2, <1>4, <2>2, <3>1, <3>2, PutRootFacts DEF TypesOK
    <3> QED  BY <1>1, <2>2, <3>2, <3>3 DEF TypesOK, RestOK, Sound, history
  <2>3. (UNCHANGED disk /\ Faulty) \/ (disk' = [disk EXCEPT !.root[n] = old, !.newer = k] /\ Sound)
    BY <1>1 DEF Reinstall, TypesOK, DisksOK, Disks
  <2> QED  BY <2>1, <2>2, <2>3
<1>7. LocalOK' /\ NowLocal(local.todo, rest, local.invalidated, local.moved, local.removed)
  <2>1. local' = [todo |-> local.todo, replaced |-> rest, invalidated |-> local.invalidated,
                  moved |-> local.moved, removed |-> local.removed]
    BY <1>1, LocalTypes DEF TypesOK, Reinstall
  <2> HIDE DEF rest
  <2>2. /\ rest \in Seq(Installed) /\ Len(rest) <= 4
        /\ \A i \in 1 .. Len(rest) : rest[i] = InstallOrder[i]
    BY <1>4
  <2>3. /\ local.todo \in Seq(Files \cup Temporaries)
        /\ local.invalidated \in Seq(MainFiles)
        /\ local.moved \in Seq(Temporaries)
        /\ local.removed \in Seq(Temporaries)
    BY <1>1, LocalTypes DEF TypesOK
  <2> QED  BY <2>1, <2>2, <2>3, NowLocalFacts
<1>8. TypesOK'
  <2> HIDE DEF n, rest
  <2> QED  BY <1>1, <1>2, <1>6, <1>7 DEF TypesOK, SavedOK, RestOK
<1>9. Controlled'
  BY <1>1, <1>2, <1>3, <1>4, <1>5, <1>6, <1>7, <1>8 DEF Controlled, Running, Forwards
<1>10. Copies'
  BY <1>1, <1>2, <1>3, <1>4, <1>5, <1>6, <1>8 DEF Controlled, Copies, AllSaved
<1>11. Remembered'
  BY <1>1, <1>2, <1>3, <1>4, <1>5, <1>6, <1>7, <1>8 DEF Controlled, Copies, Remembered,
        AllSaved, Untouched, Running, PutRoot, NowLocal
<1>12. LteKept'
  BY <1>1, <1>2, <1>3, <1>4, <1>5, <1>6, <1>7, <1>8 DEF Controlled, Copies, LteKept, AllSaved,
        Untouched, Running, PutRoot
<1>13. Progress'
  BY <1>1, <1>2, <1>3, <1>4 DEF Progress
<1>14. Temps'
  BY <1>1, <1>2, <1>3, <1>4, <1>5, <1>6, <1>7, <1>8 DEF Controlled, Temps, Running, Undone,
        PutRoot
<1>15. Ended'
  BY <1>1, <1>2, <1>3, <1>4, <1>5, <1>6, <1>7, <1>8 DEF Controlled, Copies, Remembered, LteKept,
        Ended, Committed
<1>16. Gridded'
  BY <1>1, <1>2, <1>3, <1>4, <1>5, <1>6, <1>7 DEF Gridded, Free
<1> QED  BY <1>2, <1>3, <1>4, <1>5, <1>6, <1>7, <1>8, <1>9, <1>10, <1>11, <1>12, <1>13, <1>14,
        <1>15, <1>16 DEF PromotionInv

LEMMA ReviveKeeps ==
    ASSUME PromotionInv, Revive PROVE PromotionInv'
<1>1. TypesOK /\ Controlled /\ Copies /\ Remembered /\ LteKept /\ Progress /\ Temps /\ Ended
      /\ Gridded
  BY DEF PromotionInv
<1> DEFINE f == Head(local.invalidated)
           rest == Tail(local.invalidated)
<1>2. /\ step = "revive" /\ step' = step /\ local.invalidated # <<>>
      /\ UNCHANGED <<by, status, made, saved, before>>
  BY DEF Revive, Go, Sound, Faulty, history
<1>3. \A x \in Files : Was(x)' = Was(x)
  BY <1>2, WasKept
<1>4. /\ Range(local.invalidated) = {f} \cup Range(rest) /\ f \in MainFiles
      /\ rest \in Seq(MainFiles)
  <2>1. local.invalidated \in Seq(MainFiles)
    BY <1>1, LocalTypes DEF TypesOK
  <2> QED  BY <1>2, <2>1, TailFacts
<1>5. Promoting /\ AllSaved /\ saved.backup[f] = before.main[f]
  <2>1. Promoting /\ (AllSaved \/ Untouched)
    BY <1>1, <1>2 DEF Copies, Controlled, Promoting, Backwards
  <2>2. AllSaved
    BY <1>2, <2>1 DEF Untouched
  <2> HIDE DEF f
  <2> QED  BY <1>4, <2>1, <2>2, Kinds, Names DEF AllSaved
<1>6. /\ DisksOK' /\ mishaps' \in 0..MaxMishaps /\ fault' \in BOOLEAN /\ torn' \in BOOLEAN
      /\ \/ PutMain(f, before.main[f]) /\ UNCHANGED <<fault, torn>>
         \/ fault' /\ torn' /\ UNCHANGED disk
  <2>1. CASE UNCHANGED disk /\ Faulty
    <3>1. /\ mishaps' \in 0..MaxMishaps /\ fault' = TRUE /\ torn' \in BOOLEAN
          /\ by # "cleanup" => torn' = TRUE
      BY <1>1, <2>1, FaultyFacts DEF TypesOK
    <3>2. DisksOK' /\ by # "cleanup"
      BY <1>1, <1>2, <1>5, <2>1 DEF TypesOK, DisksOK, Promoting
    <3> QED  BY <2>1, <3>1, <3>2
  <2> DEFINE k == IF f = "MOD_SUM" /\ disk.marker = "newer" THEN "older" ELSE disk.marker
  <2>2. CASE disk' = [disk EXCEPT !.main[f] = saved.backup[f], !.marker = k] /\ Sound
    <3>1. k \in {"none", "older", "newer"}
      BY <1>1 DEF TypesOK, DisksOK, Disks
    <3>2. before.main[f] \in Contents
      BY <1>1, <1>4, DiskParts DEF TypesOK
    <3> HIDE DEF k, f
    <3>3. DisksOK' /\ PutMain(f, before.main[f])
      BY <1>1, <1>2, <1>4, <1>5, <2>2, <3>1, <3>2, PutMainFacts DEF TypesOK
    <3> QED  BY <1>1, <2>2, <3>3 DEF TypesOK, RestOK, Sound, history
  <2>3. (UNCHANGED disk /\ Faulty)
        \/ (disk' = [disk EXCEPT !.main[f] = saved.backup[f], !.marker = k] /\ Sound)
    BY <1>1 DEF Revive, TypesOK, DisksOK, Disks
  <2> QED  BY <2>1, <2>2, <2>3
<1>7. LocalOK' /\ NowLocal(local.todo, local.replaced, rest, local.moved, local.removed)
  <2>1. local' = [todo |-> local.todo, replaced |-> local.replaced, invalidated |-> rest,
                  moved |-> local.moved, removed |-> local.removed]
    BY <1>1, LocalTypes DEF TypesOK, Revive
  <2> HIDE DEF rest
  <2>2. rest \in Seq(MainFiles)
    BY <1>4
  <2>3. /\ local.todo \in Seq(Files \cup Temporaries)
        /\ local.replaced \in Seq(Installed)
        /\ local.moved \in Seq(Temporaries)
        /\ local.removed \in Seq(Temporaries)
        /\ Len(local.replaced) <= 4
        /\ \A i \in 1 .. Len(local.replaced) : local.replaced[i] = InstallOrder[i]
    BY <1>1, LocalTypes DEF TypesOK
  <2> QED  BY <2>1, <2>2, <2>3, NowLocalFacts
<1>8. TypesOK'
  <2> HIDE DEF f, rest
  <2> QED  BY <1>1, <1>2, <1>6, <1>7 DEF TypesOK, SavedOK, RestOK
<1>9. Controlled'
  BY <1>1, <1>2, <1>3, <1>4, <1>5, <1>6, <1>7, <1>8 DEF Controlled, Running, Forwards
<1>10. Copies'
  BY <1>1, <1>2, <1>3, <1>4, <1>5, <1>6, <1>7, <1>8 DEF Controlled, Copies, AllSaved, Untouched,
        NowLocal
<1>11. Remembered'
  BY <1>1, <1>2, <1>3, <1>4, <1>5, <1>6, <1>7, <1>8 DEF Controlled, Copies, Remembered,
        AllSaved, Untouched, Running, PutMain, NowLocal
<1>12. LteKept'
  BY <1>1, <1>2, <1>3, <1>4, <1>5, <1>6, <1>7, <1>8 DEF Controlled, Copies, LteKept, AllSaved,
        Untouched, Running, PutMain
<1>13. Progress'
  BY <1>1, <1>2, <1>3, <1>4 DEF Progress
<1>14. Temps'
  BY <1>1, <1>2, <1>3, <1>4, <1>5, <1>6, <1>7, <1>8 DEF Controlled, Temps, Running, Undone,
        PutMain
<1>15. Ended'
  BY <1>1, <1>2, <1>3, <1>4, <1>5, <1>6, <1>7, <1>8 DEF Controlled, Copies, Remembered, LteKept,
        Ended, Committed
<1>16. Gridded'
  BY <1>1, <1>2, <1>3, <1>4, <1>5, <1>6, <1>7 DEF Gridded, Free
<1> QED  BY <1>2, <1>3, <1>4, <1>5, <1>6, <1>7, <1>8, <1>9, <1>10, <1>11, <1>12, <1>13, <1>14,
        <1>15, <1>16 DEF PromotionInv

LEMMA RestoreLteKeeps ==
    ASSUME PromotionInv, RestoreLte PROVE PromotionInv'
<1>1. TypesOK /\ Controlled /\ Copies /\ Remembered /\ LteKept /\ Progress /\ Temps /\ Ended
      /\ Gridded
  BY DEF PromotionInv
<1>2. /\ step = "revive" /\ local.invalidated = <<>> /\ local.replaced = <<>> /\ Promoting
      /\ UNCHANGED <<by, made, saved, before>>
  BY <1>1 DEF RestoreLte, Go, Return, Sound, Faulty, history, Copies, Controlled,
        Promoting
<1>3. \A x \in Files : Was(x)' = Was(x)
  BY <1>2, WasKept
<1>4. /\ DisksOK' /\ mishaps' \in 0..MaxMishaps /\ fault' \in BOOLEAN /\ torn' \in BOOLEAN
      /\ \/ /\ saved.backup["lte/VADAT"] # Absent /\ step' = "retime"
            /\ UNCHANGED <<status, local, fault, torn>> /\ PutLte(saved.backup["lte/VADAT"], FALSE)
         \/ /\ saved.backup["lte/VADAT"] = Absent /\ step' = "idle" /\ status' = "failed"
            /\ local' = NoLocals /\ UNCHANGED <<disk, fault, torn>>
         \/ /\ step' = "idle" /\ status' = "failed" /\ local' = NoLocals
            /\ fault' /\ torn' /\ UNCHANGED disk
  <2> DEFINE old == saved.backup["lte/VADAT"]
  <2>1. CASE /\ old # Absent /\ Go("retime") /\ Sound /\ UNCHANGED local
             /\ disk' = [disk EXCEPT !.lte.vadat = old, !.lte.tableFresh = FALSE]
    <3>1. disk' = [disk EXCEPT !.lte = [@ EXCEPT !.vadat = old, !.tableFresh = FALSE]]
      BY <1>1, <2>1 DEF TypesOK, DisksOK, Disks, Results
    <3>2. old \in Contents \cup {Partial}
      BY <1>1, Kinds DEF TypesOK, SavedOK
    <3> HIDE DEF old
    <3>3. DisksOK' /\ PutLte(old, FALSE)
      BY <1>1, <1>2, <3>1, <3>2, PutLteFacts DEF TypesOK
    <3> QED  BY <1>1, <2>1, <3>3 DEF old, Go, Sound, history, TypesOK, RestOK
  <2>2. CASE old = Absent /\ Return("failed") /\ Sound /\ UNCHANGED disk
    BY <1>1, <1>2, <2>2 DEF Return, Sound, history, TypesOK, DisksOK, RestOK
  <2>3. CASE Return("failed") /\ Faulty /\ UNCHANGED disk
    <3>1. /\ mishaps' \in 0..MaxMishaps /\ fault' = TRUE /\ torn' \in BOOLEAN
          /\ by # "cleanup" => torn' = TRUE
      BY <1>1, <2>3, FaultyFacts DEF TypesOK
    <3>2. DisksOK' /\ by # "cleanup"
      BY <1>1, <1>2, <2>3 DEF TypesOK, DisksOK, Promoting
    <3> QED  BY <2>3, <3>1, <3>2 DEF Return
  <2> HIDE DEF old
  <2>4. \/ old # Absent /\ Go("retime") /\ Sound /\ UNCHANGED local
           /\ disk' = [disk EXCEPT !.lte.vadat = old, !.lte.tableFresh = FALSE]
        \/ old = Absent /\ Return("failed") /\ Sound /\ UNCHANGED disk
        \/ Return("failed") /\ Faulty /\ UNCHANGED disk
    BY DEF RestoreLte, old
  <2> QED  BY <2>1, <2>2, <2>3, <2>4
<1>5. TypesOK'
  BY <1>1, <1>2, <1>4, NoLocalsFacts DEF TypesOK, SavedOK, LocalOK, RestOK
<1>6. ~fault => disk.temps = before.temps /\ RootSame
  <2>1. ~fault => (\A n \in Installed : disk.root[n] = before.root[n])
    BY <1>1, <1>2, NothingListed DEF Remembered, Running, Committed
  <2>2. ~fault => (\A n \in MainFiles : disk.main[n] = before.main[n])
    BY <1>1, <1>2, NothingListed DEF Remembered, Running, Committed
  <2>3. ~fault => disk.root = before.root
    BY <1>1, <2>1, DiskParts, SameParts DEF TypesOK
  <2>4. ~fault => disk.main = before.main
    BY <1>1, <2>2, DiskParts, SameParts DEF TypesOK
  <2> QED  BY <1>1, <1>2, <2>3, <2>4 DEF Temps, RootSame
<1>7. Controlled'
  BY <1>1, <1>2, <1>3, <1>4, <1>5, <1>6 DEF Controlled, Running, Undone, Committed, Forwards,
        Backwards, PutLte, LteIs
<1>8. Copies'
  BY <1>1, <1>2, <1>3, <1>4, <1>5, <1>6 DEF Controlled, Copies, AllSaved, Untouched, RootSame,
        Forwards, Backwards, PutLte, LteIs, NoLocals
<1>9. Remembered'
  BY <1>1, <1>2, <1>3, <1>4, <1>5, <1>6 DEF Controlled, Copies, Remembered, AllSaved, Untouched,
        RootSame, PutLte, LteIs
<1>10. LteKept'
  BY <1>1, <1>2, <1>3, <1>4, <1>5, <1>6, PromotionAssumption, Kinds DEF Controlled, Copies,
        LteKept, AllSaved, Untouched, RootSame, Running, Undone, Committed, PutLte, LteIs
<1>11. Progress'
  BY <1>1, <1>2, <1>4, <1>5 DEF Progress
<1>12. Temps'
  BY <1>1, <1>2, <1>3, <1>4, <1>5, <1>6 DEF Controlled, Temps, Archives, Running, Undone,
        Committed, PutLte, LteIs
<1>13. Ended'
  BY <1>1, <1>2, <1>3, <1>4, <1>5, <1>6 DEF Controlled, Copies, Remembered, LteKept, Progress,
        Temps, Ended, RootSame, Running, Undone, Committed, Forwards, PutLte, LteIs
<1>14. Gridded'
  BY <1>1, <1>2, <1>3, <1>4, <1>5, <1>6 DEF Controlled, Copies, Gridded, OnGrid, Free, RootSame,
        Running, Undone, Committed, PutLte, LteIs
<1> QED  BY <1>2, <1>3, <1>4, <1>5, <1>6, <1>7, <1>8, <1>9, <1>10, <1>11, <1>12, <1>13, <1>14 DEF PromotionInv

LEMMA RestoreTimeKeeps ==
    ASSUME PromotionInv, RestoreTime PROVE PromotionInv'
<1>1. TypesOK /\ Controlled /\ Copies /\ Remembered /\ LteKept /\ Progress /\ Temps /\ Ended
      /\ Gridded
  BY DEF PromotionInv
<1>2. /\ step = "retime" /\ step' = "idle" /\ status' = "failed" /\ local' = NoLocals /\ Promoting
      /\ local.invalidated = <<>> /\ local.replaced = <<>>
      /\ UNCHANGED <<by, made, saved, before>>
  BY <1>1 DEF RestoreTime, Return, Sound, Faulty, history, Copies, Controlled,
        Promoting
<1>3. \A x \in Files : Was(x)' = Was(x)
  BY <1>2, WasKept
<1>4. /\ DisksOK' /\ mishaps' \in 0..MaxMishaps /\ fault' \in BOOLEAN /\ torn' \in BOOLEAN
      /\ \/ UNCHANGED <<fault, torn>> /\ PutLte(disk.lte.vadat, TRUE)
         \/ fault' /\ torn' /\ UNCHANGED disk
  <2>1. CASE Sound /\ disk' = [disk EXCEPT !.lte.tableFresh = TRUE]
    <3>1. disk' = [disk EXCEPT !.lte = [@ EXCEPT !.vadat = disk.lte.vadat, !.tableFresh = TRUE]]
      BY <1>1, <2>1 DEF TypesOK, DisksOK, Disks, Results
    <3>2. DisksOK' /\ PutLte(disk.lte.vadat, TRUE)
      BY <1>1, <1>2, <3>1, DiskTypes, PutLteFacts DEF TypesOK
    <3> QED  BY <1>1, <2>1, <3>2 DEF Sound, history, TypesOK, RestOK
  <2>2. CASE Faulty /\ UNCHANGED disk
    <3>1. /\ mishaps' \in 0..MaxMishaps /\ fault' = TRUE /\ torn' \in BOOLEAN
          /\ by # "cleanup" => torn' = TRUE
      BY <1>1, <2>2, FaultyFacts DEF TypesOK
    <3>2. DisksOK' /\ by # "cleanup"
      BY <1>1, <1>2, <2>2 DEF TypesOK, DisksOK, Promoting
    <3> QED  BY <2>2, <3>1, <3>2
  <2> QED  BY <2>1, <2>2 DEF RestoreTime
<1>5. TypesOK'
  BY <1>1, <1>2, <1>4, NoLocalsFacts DEF TypesOK, SavedOK, LocalOK, RestOK
<1>6. ~fault => disk.temps = before.temps /\ RootSame
  <2>1. ~fault => (\A n \in Installed : disk.root[n] = before.root[n])
    BY <1>1, <1>2, NothingListed DEF Remembered, Running, Committed
  <2>2. ~fault => (\A n \in MainFiles : disk.main[n] = before.main[n])
    BY <1>1, <1>2, NothingListed DEF Remembered, Running, Committed
  <2>3. ~fault => disk.root = before.root
    BY <1>1, <2>1, DiskParts, SameParts DEF TypesOK
  <2>4. ~fault => disk.main = before.main
    BY <1>1, <2>2, DiskParts, SameParts DEF TypesOK
  <2> QED  BY <1>1, <1>2, <2>3, <2>4 DEF Temps, RootSame
<1>7. ~fault' /\ saved.backup["lte/VADAT"] # Partial => disk'.lte = before.lte
  <2>1. /\ before.lte.tableFresh = TRUE /\ before.lte.hydroFresh = disk.lte.hydroFresh
        /\ disk.lte.table = before.lte.table /\ disk.lte.hydro = before.lte.hydro
    <3>1. /\ before.lte.tableFresh /\ before.lte.hydroFresh /\ disk.lte.hydroFresh
          /\ disk.lte.table = before.lte.table /\ disk.lte.hydro = before.lte.hydro
      BY <1>1, <1>2 DEF LteKept, Running, Committed
    <3>2. /\ before.lte.tableFresh \in BOOLEAN /\ before.lte.hydroFresh \in BOOLEAN
          /\ disk.lte.hydroFresh \in BOOLEAN
      BY <1>1 DEF TypesOK, DisksOK, Disks, Results
    <3> QED  BY <3>1, <3>2
  <2>2. CASE fault'
    BY <2>2
  <2>3. CASE PutLte(disk.lte.vadat, TRUE) /\ saved.backup["lte/VADAT"] # Partial
    <3>1. disk.lte.vadat = before.lte.vadat \/ disk.lte = before.lte
      BY <1>1, <1>2, <2>3 DEF LteKept, Backwards
    <3>2. disk'.lte \in Results /\ before.lte \in Results
      BY <1>1, <1>4, DiskParts DEF TypesOK, DisksOK, Disks
    <3> QED  BY <2>1, <2>3, <3>1, <3>2, SameLte DEF PutLte, LteIs
  <2> QED  BY <1>4, <2>2, <2>3
<1>8. Controlled'
  BY <1>1, <1>2, <1>3, <1>4, <1>5, <1>6, <1>7 DEF Controlled, Running, Forwards
<1>9. Copies'
  BY <1>1, <1>2, <1>3, <1>4, <1>5, <1>6, <1>7 DEF Controlled, Copies, AllSaved, Untouched,
        RootSame, Forwards, Backwards, PutLte, NoLocals
<1>10. Remembered'
  BY <1>1, <1>2, <1>3, <1>4, <1>5, <1>6, <1>7 DEF Controlled, Copies, Remembered, Untouched,
        Running
<1>11. LteKept'
  BY <1>1, <1>2, <1>3, <1>4, <1>5, <1>6, <1>7 DEF Controlled, Copies, LteKept, AllSaved,
        Untouched, RootSame, Running, Undone, Committed, Forwards, PutLte, LteIs
<1>12. Progress'
  BY <1>1, <1>2, <1>3 DEF Progress
<1>13. Temps'
  BY <1>1, <1>2, <1>3, <1>4, <1>5, <1>6, <1>7 DEF Controlled, Temps, Archives, Running, Undone,
        Committed, PutLte
<1>14. Ended'
  BY <1>1, <1>2, <1>3, <1>4, <1>5, <1>6, <1>7 DEF Controlled, Copies, Remembered, LteKept,
        Progress, Temps, Ended, RootSame, Running, Undone, Committed, PutLte, LteIs
<1>15. Gridded'
  BY <1>1, <1>2, <1>3, <1>4, <1>5, <1>6, <1>7 DEF Controlled, Copies, Gridded, OnGrid, Free,
        RootSame, Running, Undone, Committed, PutLte, LteIs
<1> QED  BY <1>2, <1>3, <1>4, <1>5, <1>6, <1>7, <1>8, <1>9, <1>10, <1>11, <1>12, <1>13, <1>14,
        <1>15 DEF PromotionInv

LEMMA CompactKeeps ==
    ASSUME PromotionInv, Compact PROVE PromotionInv'
<1>1. TypesOK /\ Controlled /\ Copies /\ Remembered /\ LteKept /\ Progress /\ Temps /\ Ended
      /\ Gridded
  BY DEF PromotionInv
<1>2. /\ step = "compact" /\ UNCHANGED <<by, made, disk, before, fault, torn, mishaps>>
  BY DEF Compact, Go, Return, history
<1>3. \A x \in Files : Was(x)' = Was(x)
  BY <1>2, WasKept
<1>4. /\ by = "cleanup" => step' = "idle" /\ status' = "succeeded" /\ local' = NoLocals
      /\ by # "cleanup" => step' = "report" /\ status' = status /\ local' = local
  BY DEF Compact, Go, Return
<1>5. SavedOK'
  <2> DEFINE b == [n \in Files |-> IF n \in Kept THEN saved.backup[n] ELSE Absent]
             a == [n \in Temporaries |-> Absent]
  <2>1. b \in [Files -> Contents \cup {Partial}] /\ a \in [Temporaries -> Contents]
    BY <1>1 DEF TypesOK, SavedOK, Contents
  <2>2. saved' = [backup |-> b, archive |-> a]
    BY DEF Compact, NothingSaved, NoFiles, Files
  <2> HIDE DEF a, b
  <2> QED  BY <2>1, <2>2 DEF SavedOK
<1>6. TypesOK'
  <2>1. LocalOK'
    BY <1>1, <1>4, NoLocalsFacts DEF TypesOK, LocalOK
  <2> QED  BY <1>1, <1>2, <1>5, <2>1 DEF TypesOK, DisksOK, RestOK
<1>7. Controlled'
  BY <1>1, <1>2, <1>3, <1>4, <1>5, <1>6 DEF Controlled, Running, Committed, Forwards
<1>8. Copies'
  BY <1>1, <1>2, <1>3, <1>4, <1>5, <1>6 DEF Controlled, Copies, Undone, Forwards, Backwards
<1>9. Remembered'
  BY <1>1, <1>2, <1>3, <1>4, <1>5, <1>6 DEF Controlled, Copies, Remembered, Running, Committed
<1>10. LteKept'
  BY <1>1, <1>2, <1>3, <1>4, <1>5, <1>6 DEF Controlled, Copies, LteKept, Running, Committed,
        Backwards
<1>11. Progress'
  BY <1>1, <1>2, <1>3, <1>4, <1>6 DEF Progress
<1>12. Temps'
  BY <1>1, <1>2, <1>3, <1>4, <1>5, <1>6 DEF Controlled, Temps, Archives, Running, Undone,
        Committed
<1>13. Ended'
  BY <1>1, <1>2, <1>3, <1>4, <1>5, <1>6 DEF Controlled, Copies, Remembered, LteKept, Progress,
        Temps, Ended, Promoting, Committed, Source, Ready
<1>14. Gridded'
  BY <1>1, <1>2, <1>3, <1>4, <1>5, <1>6 DEF Copies, Gridded, OnGrid, Free, RootSame
<1> QED  BY <1>2, <1>3, <1>4, <1>5, <1>6, <1>7, <1>8, <1>9, <1>10, <1>11, <1>12, <1>13, <1>14 DEF PromotionInv

LEMMA ReportKeeps ==
    ASSUME PromotionInv, Report PROVE PromotionInv'
<1>1. TypesOK /\ Controlled /\ Copies /\ Remembered /\ LteKept /\ Progress /\ Temps /\ Ended
      /\ Gridded
  BY DEF PromotionInv
<1>2. /\ step = "report" /\ step' = "idle" /\ status' \in {"succeeded", "committed"} /\ local' = NoLocals
      /\ UNCHANGED <<by, made, disk, saved, before, fault, torn, mishaps>>
  BY DEF Report, Return, history
<1>3. \A x \in Files : Was(x)' = Was(x)
  BY <1>2, WasKept
<1>4. TypesOK'
  BY <1>1, <1>2, NoLocalsFacts DEF TypesOK, DisksOK, SavedOK, RestOK
<1>5. Controlled'
  BY <1>1, <1>2, <1>3, <1>4 DEF Controlled, Running, Forwards
<1>6. Copies'
  BY <1>1, <1>2, <1>3, <1>4 DEF Controlled, Copies, Undone, Forwards, Backwards
<1>7. Remembered'
  BY <1>1, <1>2, <1>3, <1>4 DEF Remembered, Running
<1>8. LteKept'
  BY <1>1, <1>2, <1>3, <1>4 DEF Controlled, Copies, LteKept, Running, Backwards
<1>9. Progress'
  BY <1>1, <1>2, <1>4 DEF Progress
<1>10. Temps'
  BY <1>1, <1>2, <1>3, <1>4 DEF Temps, Running, Undone
<1>11. Ended'
  BY <1>1, <1>2, <1>3, <1>4 DEF Controlled, Copies, Remembered, LteKept, Progress, Temps, Ended,
        Promoting, Committed, Source, Ready
<1>12. Gridded'
  BY <1>1, <1>2, <1>3, <1>4 DEF Controlled, Gridded, Free
<1> QED  BY <1>2, <1>3, <1>4, <1>5, <1>6, <1>7, <1>8, <1>9, <1>10, <1>11, <1>12 DEF PromotionInv

LEMMA AbandonKeeps ==
    ASSUME PromotionInv, Abandon PROVE PromotionInv'
<1>1. TypesOK /\ Controlled /\ Copies /\ Remembered /\ LteKept /\ Progress /\ Temps /\ Ended
      /\ Gridded
  BY DEF PromotionInv
<1>2. /\ step # "idle" /\ step' = "idle" /\ local' = NoLocals /\ mishaps' \in 0..MaxMishaps
      /\ UNCHANGED <<by, made, disk, saved, before, fault>>
  BY <1>1, MishapFacts DEF Abandon, Return, TypesOK
<1>3. \A x \in Files : Was(x)' = Was(x)
  BY <1>2, WasKept
<1>4. /\ torn' \in BOOLEAN /\ (~torn' => ~torn)
      /\ \/ step \in Committed /\ status' = "committed" /\ torn' = torn
         \/ /\ step \notin Committed /\ status' = "cancelled"
            /\ ~torn' => by = "cleanup" \/ step = "backup"
  BY <1>1 DEF Abandon, Return, TypesOK, RestOK, Committed
<1>5. TypesOK'
  BY <1>1, <1>2, <1>4, NoLocalsFacts DEF TypesOK, DisksOK, SavedOK, RestOK
<1>6. Controlled'
  BY <1>1, <1>2, <1>3, <1>4, <1>5 DEF Controlled, Running, Forwards
<1>7. Copies'
  BY <1>1, <1>2, <1>3, <1>4, <1>5 DEF Controlled, Copies, AllSaved, Untouched, RootSame,
        Running, Undone, Promoting, Forwards, Backwards, NoLocals
<1>8. Remembered'
  BY <1>1, <1>2, <1>3, <1>4, <1>5 DEF Remembered, Running
<1>9. LteKept'
  BY <1>1, <1>2, <1>3, <1>4, <1>5 DEF Controlled, Copies, LteKept, Running, Backwards
<1>10. Progress'
  BY <1>2 DEF Progress
<1>11. Temps'
  BY <1>1, <1>2, <1>3, <1>4, <1>5 DEF Temps, Running, Undone
<1>12. Ended'
  BY <1>1, <1>2, <1>3, <1>4, <1>5 DEF Controlled, Copies, Remembered, LteKept, Ended, Committed
<1>13. Gridded'
  BY <1>1, <1>2, <1>3, <1>4, <1>5 DEF Controlled, Copies, Gridded, OnGrid, Free, RootSame,
        Committed
<1> QED  BY <1>2, <1>3, <1>4, <1>5, <1>6, <1>7, <1>8, <1>9, <1>10, <1>11, <1>12, <1>13 DEF PromotionInv

LEMMA NothingSavedFacts ==
    /\ NothingSaved \in [backup: [Files -> Contents \cup {Partial}],
                         archive: [Temporaries -> Contents]]
    /\ \A n \in Files : NothingSaved.backup[n] = Absent
<1> DEFINE b == [n \in Files |-> Absent]
           a == [n \in Temporaries |-> Absent]
<1>1. b \in [Files -> Contents \cup {Partial}] /\ a \in [Temporaries -> Contents]
  BY DEF Contents
<1>2. NothingSaved = [backup |-> b, archive |-> a]
  BY DEF NothingSaved, NoFiles, Files
<1>3. \A n \in Files : b[n] = Absent
  OBVIOUS
<1> HIDE DEF a, b
<1> QED  BY <1>1, <1>2, <1>3

LEMMA BeginPromotionKeeps ==
    ASSUME PromotionInv, NEW who \in {"web", "runner"}, BeginPromotion(who) PROVE PromotionInv'
<1>1. TypesOK /\ Controlled /\ Copies /\ Remembered /\ LteKept /\ Progress /\ Temps /\ Ended
      /\ Gridded
  BY DEF PromotionInv
<1> DEFINE todo == Present(ToSave)
<1>2. /\ step' = "backup" /\ by' = who /\ Ready
      /\ Free /\ status' = "running" /\ before' = disk /\ fault' = FALSE /\ saved' = NothingSaved
      /\ UNCHANGED <<disk, made, torn, mishaps>>
  BY DEF BeginPromotion, Begin
<1>3. disk.lte.vadat # Absent /\ \A x \in Files : Current(x) = Was(x)'
  BY <1>1, <1>2, Names DEF LteKept, Current, Was
<1>4. /\ todo \in Seq(Files) /\ IsInjective(todo) /\ todo # <<>>
      /\ Range(todo) = {n \in Files : Current(n) # Absent}
  <2>1. /\ todo \in Seq(Files) /\ IsInjective(todo)
        /\ Range(todo) = {n \in Files : Current(n) # Absent}
    BY Names, PresentFacts DEF ToSave, Files
  <2>2. "lte/VADAT" \in Range(todo)
    BY <1>3, <2>1, Kinds
  <2> HIDE DEF todo
  <2> QED  BY <2>1, <2>2, NothingListed
<1>5. LocalOK' /\ NowLocal(todo, <<>>, <<>>, <<>>, <<>>)
  <2>1. local' = [todo |-> todo, replaced |-> <<>>, invalidated |-> <<>>, moved |-> <<>>,
                  removed |-> <<>>]
    BY DEF BeginPromotion, Begin, NoLocals
  <2> HIDE DEF todo
  <2>2. /\ <<>> \in Seq(Installed) /\ <<>> \in Seq(MainFiles) /\ <<>> \in Seq(Temporaries)
        /\ Len(<<>>) = 0 /\ todo \in Seq(Files \cup Temporaries)
    BY <1>4, WiderSequences
  <2>3. Len(<<>>) <= 4 /\ \A i \in 1 .. Len(<<>>) : <<>>[i] = InstallOrder[i]
    BY <2>2
  <2> QED  BY <2>1, <2>2, <2>3, NowLocalFacts
<1>6. TypesOK'
  <2> HIDE DEF todo
  <2> QED  BY <1>1, <1>2, <1>5, NothingSavedFacts DEF TypesOK, DisksOK, SavedOK, RestOK
<1>7. Controlled'
  BY <1>2 DEF Controlled
<1>8. Copies'
  BY <1>1, <1>2, <1>3, <1>4, <1>5, <1>6, NothingSavedFacts, Names DEF Controlled, Copies,
        AllSaved, Untouched, RootSame, Forwards, NowLocal
<1>9. Remembered'
  BY <1>1, <1>2, <1>3, <1>4 DEF Remembered
<1>10. LteKept'
  BY <1>1, <1>2, <1>3, <1>4, <1>5, <1>6 DEF Controlled, Copies, LteKept, Untouched, Backwards,
        Ready
<1>11. Progress'
  BY <1>1, <1>2, <1>3, <1>4 DEF Progress
<1>12. Temps'
  BY <1>1, <1>2, <1>3, <1>4, <1>5, <1>6 DEF Controlled, Temps, NowLocal
<1>13. Ended'
  BY <1>1, <1>2, <1>3, <1>4, <1>5, <1>6 DEF Controlled, Copies, Remembered, LteKept, Progress,
        Temps, Ended, Committed
<1>14. Gridded'
  BY <1>1, <1>2, <1>3, <1>4 DEF Gridded
<1> QED  BY <1>2, <1>3, <1>4, <1>5, <1>6, <1>7, <1>8, <1>9, <1>10, <1>11, <1>12, <1>13, <1>14 DEF PromotionInv

LEMMA BeginCleanupKeeps ==
    ASSUME PromotionInv, BeginCleanup PROVE PromotionInv'
<1>1. TypesOK /\ Controlled /\ Copies /\ Remembered /\ LteKept /\ Progress /\ Temps /\ Ended
      /\ Gridded
  BY DEF PromotionInv
<1> DEFINE todo == Present(TempOrder)
<1>2. /\ step' = "archive" /\ by' = "cleanup"
      /\ Free /\ status' = "running" /\ before' = disk /\ fault' = FALSE /\ saved' = NothingSaved
      /\ UNCHANGED <<disk, made, torn, mishaps>>
  BY DEF BeginCleanup, Begin
<1>3. disk.lte.vadat # Absent
  BY <1>1 DEF LteKept
<1>4. /\ todo \in Seq(Temporaries) /\ IsInjective(todo)
      /\ Range(todo) = {t \in Temporaries : disk.temps[t] # Absent}
  BY PromotionAssumption, PresentFacts, Kinds DEF Temporaries
<1>5. LocalOK' /\ NowLocal(todo, <<>>, <<>>, <<>>, <<>>)
  <2>1. local' = [todo |-> todo, replaced |-> <<>>, invalidated |-> <<>>, moved |-> <<>>,
                  removed |-> <<>>]
    BY DEF BeginCleanup, Begin, NoLocals
  <2> HIDE DEF todo
  <2>2. /\ <<>> \in Seq(Installed) /\ <<>> \in Seq(MainFiles) /\ <<>> \in Seq(Temporaries)
        /\ Len(<<>>) = 0 /\ todo \in Seq(Files \cup Temporaries)
    BY <1>4, WiderSequences
  <2>3. Len(<<>>) <= 4 /\ \A i \in 1 .. Len(<<>>) : <<>>[i] = InstallOrder[i]
    BY <2>2
  <2> QED  BY <2>1, <2>2, <2>3, NowLocalFacts
<1>6. TypesOK'
  <2> HIDE DEF todo
  <2> QED  BY <1>1, <1>2, <1>5, NothingSavedFacts DEF TypesOK, DisksOK, SavedOK, RestOK
<1>7. Controlled'
  BY <1>1, <1>2, <1>3, <1>4, <1>5 DEF Controlled, Forwards
<1>8. Copies'
  BY <1>1, <1>2, <1>3, <1>4, <1>5, <1>6 DEF Controlled, Copies, AllSaved, Untouched, RootSame,
        Running, Promoting, NowLocal
<1>9. Remembered'
  BY <1>1, <1>2, <1>3, <1>4 DEF Remembered
<1>10. LteKept'
  BY <1>1, <1>2, <1>3, <1>4, <1>5, <1>6 DEF Controlled, Copies, LteKept, AllSaved, Promoting,
        Backwards
<1>11. Progress'
  BY <1>1, <1>2, <1>3, <1>4, <1>5, <1>6 DEF Controlled, Progress, Promoting
<1>12. Temps'
  BY <1>1, <1>2, <1>3, <1>4, <1>5, <1>6, NothingListed DEF Controlled, Temps, Archives, NowLocal
<1>13. Ended'
  BY <1>1, <1>2, <1>3, <1>4, <1>5, <1>6 DEF Controlled, Copies, Remembered, LteKept, Progress,
        Temps, Ended, Committed
<1>14. Gridded'
  BY <1>1, <1>2, <1>3, <1>4 DEF Gridded
<1> QED  BY <1>2, <1>3, <1>4, <1>5, <1>6, <1>7, <1>8, <1>9, <1>10, <1>11, <1>12, <1>13, <1>14 DEF PromotionInv

-----------------------------------------------------------------------------
(* Between mutations                                                        *)

Environs ==
    /\ DisksOK' /\ made' \in 0..MaxMade
    /\ disk'.root = disk.root /\ disk'.lte.vadat = disk.lte.vadat
    /\ \/ disk'.main = disk.main
       \/ \A f \in MainFiles : disk'.main[f] = disk.root["RVSIG_COL"]

LEMMA RunIsNew ==
    ASSUME RestOK, NewRun
    PROVE  made' \in 0..MaxMade /\ NewTemps \in [Temporaries -> Contents]
<1>1. made' \in 0..MaxMade
  BY PromotionAssumption DEF RestOK, NewRun
<1> QED  BY <1>1 DEF NewTemps, Contents

LEMMA RunLteIs == ASSUME TypesOK, RunLte PROVE Environs
<1>1. made' \in 0..MaxMade /\ NewTemps \in [Temporaries -> Contents] /\ before' = disk'
  BY RunIsNew DEF RunLte, TypesOK, Forget
<1> DEFINE l == [disk.lte EXCEPT !.table = made', !.tableFresh = TRUE, !.hydroFresh = FALSE]
           k == [disk.newer EXCEPT !["ROSSELAND_LTE_TAB"] = TRUE]
           d == [disk EXCEPT !.lte = l, !.temps = NewTemps, !.newer = k]
<1>2. disk' = d
  BY DEF RunLte, TypesOK, DisksOK, Disks, Results
<1>3. l \in Results /\ l.vadat = disk.lte.vadat
  BY <1>1 DEF TypesOK, DisksOK, Disks, Results
<1>4. k \in [Paired -> BOOLEAN]
  BY DEF TypesOK, DisksOK, Disks
<1> HIDE DEF k, l
<1>5. d \in Disks /\ d.root = disk.root /\ d.main = disk.main /\ d.lte = l
  BY <1>1, <1>3, <1>4 DEF TypesOK, DisksOK, Disks
<1> QED  BY <1>1, <1>2, <1>3, <1>5 DEF Environs, DisksOK

LEMMA RunHydroIs == ASSUME TypesOK, RunHydro PROVE Environs
<1>1. made' \in 0..MaxMade /\ NewTemps \in [Temporaries -> Contents] /\ before' = disk'
  BY RunIsNew DEF RunHydro, TypesOK, Forget
<1> DEFINE l == [disk.lte EXCEPT !.hydro = made', !.hydroFresh = TRUE]
           k == [disk.newer EXCEPT !["RVSIG_COL"] = TRUE]
           d == [disk EXCEPT !.lte = l, !.temps = NewTemps, !.newer = k]
<1>2. disk' = d
  BY DEF RunHydro, TypesOK, DisksOK, Disks, Results
<1>3. l \in Results /\ l.vadat = disk.lte.vadat
  BY <1>1 DEF TypesOK, DisksOK, Disks, Results
<1>4. k \in [Paired -> BOOLEAN]
  BY DEF TypesOK, DisksOK, Disks
<1> HIDE DEF k, l
<1>5. d \in Disks /\ d.root = disk.root /\ d.main = disk.main /\ d.lte = l
  BY <1>1, <1>3, <1>4 DEF TypesOK, DisksOK, Disks
<1> QED  BY <1>1, <1>2, <1>3, <1>5 DEF Environs, DisksOK

LEMMA EditLteIs == ASSUME TypesOK, EditLte PROVE Environs
<1>1. made' = made /\ before' = disk'
  BY DEF EditLte, Forget
<1>2. PICK f \in {"tableFresh", "hydroFresh"} : disk' = [disk EXCEPT !.lte[f] = FALSE]
  BY DEF EditLte
<1> DEFINE l == [disk.lte EXCEPT ![f] = FALSE]
<1>3. disk' = [disk EXCEPT !.lte = l]
  BY <1>2 DEF TypesOK, DisksOK, Disks
<1>4. l \in Results /\ l.vadat = disk.lte.vadat
  BY <1>2 DEF TypesOK, DisksOK, Disks, Results
<1> HIDE DEF l
<1> QED  BY <1>1, <1>3, <1>4 DEF Environs, TypesOK, DisksOK, Disks, RestOK

LEMMA EditRootIs == ASSUME TypesOK, EditRoot PROVE Environs
  BY DEF EditRoot, Forget, Environs, TypesOK, DisksOK, Disks, RestOK

LEMMA SolveIs == ASSUME TypesOK, Solve PROVE Environs
<1>1. made' = made /\ before' = disk'
  BY DEF Solve, Forget
<1> DEFINE m == [f \in MainFiles |-> disk.root["RVSIG_COL"]]
           k == IF disk.marker = "none" THEN "none" ELSE "older"
<1>2. disk' = [disk EXCEPT !.main = m, !.marker = k]
  BY DEF Solve, TypesOK, DisksOK, Disks
<1>3. disk.root["RVSIG_COL"] \in Contents
  BY DiskTypes, Names DEF TypesOK
<1>4. /\ m \in [MainFiles -> Contents] /\ \A f \in MainFiles : m[f] = disk.root["RVSIG_COL"]
      /\ k \in {"none", "older", "newer"}
  BY <1>3
<1> HIDE DEF m, k
<1> QED  BY <1>1, <1>2, <1>4 DEF Environs, TypesOK, DisksOK, Disks, RestOK

LEMMA EnvironmentIs == ASSUME TypesOK, Environment PROVE Environs /\ Forget
  BY RunLteIs, RunHydroIs, EditLteIs, EditRootIs, SolveIs
     DEF Environment, RunLte, RunHydro, EditLte, EditRoot, Solve

LEMMA EnvironmentKeeps ==
    ASSUME PromotionInv, Environment PROVE PromotionInv'
<1>1. TypesOK /\ Controlled /\ Copies /\ Remembered /\ LteKept /\ Progress /\ Temps /\ Ended
      /\ Gridded
  BY DEF PromotionInv
<1>2. /\ Free /\ step' = "idle" /\ by' = "none" /\ status' = "none" /\ saved' = NothingSaved
      /\ local' = NoLocals /\ before' = disk' /\ fault' = FALSE /\ UNCHANGED <<torn, mishaps>>
  BY <1>1, EnvironmentIs DEF TypesOK, Forget
<1>3. Environs /\ disk'.lte.vadat # Absent /\ before'.lte.vadat # Absent
  BY <1>1, <1>2, EnvironmentIs DEF TypesOK, LteKept, Environs
<1>4. TypesOK'
  BY <1>1, <1>2, <1>3, NoLocalsFacts, NothingSavedFacts DEF TypesOK, SavedOK, RestOK, Environs
<1>5. (~torn /\ OnGrid(disk)) => OnGrid(disk')
  <2>1. disk'.root = disk.root
    BY <1>3 DEF Environs
  <2>2. CASE disk'.main = disk.main
    BY <2>1, <2>2 DEF OnGrid
  <2>3. CASE \A f \in MainFiles : disk'.main[f] = disk.root["RVSIG_COL"]
    BY <2>1, <2>3 DEF OnGrid
  <2> QED  BY <1>3, <2>2, <2>3 DEF Environs
<1>6. Controlled'
  BY <1>2, <1>3 DEF Controlled
<1>7. Copies'
  BY <1>1, <1>2, <1>3, <1>4 DEF Copies, Promoting
<1>8. Remembered'
  BY <1>1, <1>2 DEF Remembered
<1>9. LteKept'
  BY <1>1, <1>2, <1>3, <1>4, <1>5 DEF Controlled, Copies, LteKept, Promoting, Backwards
<1>10. Progress'
  BY <1>2 DEF Progress
<1>11. Temps'
  BY <1>2 DEF Temps
<1>12. Ended'
  BY <1>1, <1>2, <1>3, <1>4, <1>5 DEF Controlled, Copies, Remembered, LteKept, Progress, Ended,
        Promoting
<1>13. Gridded'
  BY <1>1, <1>2, <1>3, <1>4, <1>5 DEF Copies, Gridded
<1> QED  BY <1>2, <1>3, <1>4, <1>5, <1>6, <1>7, <1>8, <1>9, <1>10, <1>11, <1>12, <1>13 DEF PromotionInv

-----------------------------------------------------------------------------
(* The invariant                                                            *)

LEMMA InitHolds == ASSUME Init PROVE PromotionInv
<1>1. PICK old \in {0, Absent} : disk =
        [root |-> [n \in Installed |-> IF n = "VADAT" THEN 0 ELSE old],
         main |-> [f \in MainFiles |-> old],
         lte |-> [vadat |-> 0, table |-> 1, hydro |-> 1,
                  tableFresh |-> TRUE, hydroFresh |-> TRUE],
         newer |-> [n \in Paired |-> TRUE],
         temps |-> [t \in Temporaries |-> 1],
         marker |-> "none"]
  BY DEF Init
<1>2. /\ saved = NothingSaved /\ local = NoLocals /\ step = "idle" /\ by = "none"
      /\ status = "none" /\ made = 1 /\ before = disk /\ fault = FALSE /\ torn = FALSE
      /\ mishaps = 0
  BY DEF Init
<1>3. 0 \in 0..MaxMade /\ 1 \in 0..MaxMade /\ 0 # Absent /\ 0 \in 0..MaxMishaps
  BY PromotionAssumption
<1>4. disk \in Disks
  <2>1. [n \in Installed |-> IF n = "VADAT" THEN 0 ELSE old] \in [Installed -> Contents]
    BY <1>3 DEF Contents
  <2>2. [vadat |-> 0, table |-> 1, hydro |-> 1, tableFresh |-> TRUE, hydroFresh |-> TRUE]
            \in Results
    BY <1>3 DEF Results, Contents
  <2>3. /\ [f \in MainFiles |-> old] \in [MainFiles -> Contents]
        /\ [t \in Temporaries |-> 1] \in [Temporaries -> Contents]
    BY <1>3 DEF Contents
  <2> QED  BY <1>1, <2>1, <2>2, <2>3 DEF Disks
<1>5. LocalOK
  <2>1. /\ <<>> \in Seq(Files \cup Temporaries) /\ <<>> \in Seq(Installed)
        /\ <<>> \in Seq(MainFiles) /\ <<>> \in Seq(Temporaries) /\ Len(<<>>) = 0
    OBVIOUS
  <2>2. Len(<<>>) <= 4 /\ \A i \in 1 .. Len(<<>>) : <<>>[i] = InstallOrder[i]
    BY <2>1
  <2> QED  BY <1>2, <2>1, <2>2 DEF LocalOK, NoLocals
<1>6. TypesOK
  BY <1>2, <1>3, <1>4, <1>5, NothingSavedFacts DEF TypesOK, DisksOK, SavedOK, RestOK
<1>7. /\ disk.lte.vadat = 0
      /\ \A f \in MainFiles : disk.main[f] = old
      /\ disk.root["RVSIG_COL"] = old /\ disk.root["VADAT"] = 0
  BY <1>1, Names
<1>8. OnGrid(disk)
  BY <1>7 DEF OnGrid
<1>9. Controlled /\ Copies /\ Remembered /\ Progress /\ Temps /\ Ended
  BY <1>2 DEF Controlled, Copies, Remembered, Progress, Temps, Ended, Running, Committed, Undone,
     Promoting, Forwards, Backwards
<1>10. LteKept /\ Gridded
  BY <1>2, <1>3, <1>7, <1>8 DEF LteKept, Gridded, Free, Running, Committed, Promoting, Backwards
<1> QED  BY <1>6, <1>9, <1>10 DEF PromotionInv

LEMMA StepKeeps == ASSUME PromotionInv, Next PROVE PromotionInv'
<1>1. CASE Environment
  BY <1>1, EnvironmentKeeps
<1>2. CASE Forward
  BY <1>2, BeginPromotionKeeps, BackUpKeeps, BackUpFailsKeeps, SyncLteKeeps, KeepTimeKeeps,
     InstallKeeps, InvalidateKeeps, InvalidatedKeeps, MarkStaleKeeps, StepFailsKeeps,
     CompactKeeps, ReportKeeps, AbandonKeeps DEF Forward
<1>3. CASE Archiving
  BY <1>3, BeginCleanupKeeps, ArchiveKeeps, ArchivedKeeps, ArchiveFailsKeeps, PutBackKeeps,
     PutBackEndsKeeps, PutBackFailsKeeps DEF Archiving
<1>4. CASE Rollback
  BY <1>4, UnarchivedKeeps, ReinstallKeeps, ReinstalledKeeps, ReviveKeeps, RestoreLteKeeps,
     RestoreTimeKeeps DEF Rollback
<1> QED  BY <1>1, <1>2, <1>3, <1>4 DEF Next

LEMMA StutterKeeps == ASSUME PromotionInv, UNCHANGED vars PROVE PromotionInv'
  BY DEF vars, history, PromotionInv, TypesOK, DisksOK, SavedOK, LocalOK, RestOK, Controlled,
     Copies, Remembered, LteKept, Progress, Temps, Ended, Gridded, AllSaved, Untouched, RootSame,
     Running, Undone, Promoting, Was, Archives, Source, Ready, Free, OnGrid

(* The inductive invariant of promotion_lte_hydro_results and archive_lte_temporaries: at
   every point the files are what they were, or have their copy, or are known to the
   rollback. *)
THEOREM PromotionInvariant == Spec => []PromotionInv
<1>1. Init => PromotionInv
  BY InitHolds
<1>2. PromotionInv /\ [Next]_vars => PromotionInv'
  BY StepKeeps, StutterKeeps
<1> QED  BY <1>1, <1>2, PTL DEF Spec

LEMMA InvTypeOK == ASSUME PromotionInv PROVE TypeOK
<1>1. DisksOK /\ SavedOK /\ LocalOK /\ RestOK /\ Controlled
  BY DEF PromotionInv, TypesOK
<1>2. ASSUME NEW d \in Disks PROVE IsDisk(d)
  BY DEF Disks, Results, IsDisk
<1>3. IsDisk(disk) /\ IsDisk(before)
  BY <1>1, <1>2 DEF DisksOK
<1>4. \E i \in 0..4 : local.replaced = SubSeq(InstallOrder, 1, i)
  <2> DEFINE r == local.replaced
             m == Len(local.replaced)
  <2>1. r \in Seq(Installed) /\ m \in 0..4 /\ \A i \in 1 .. m : r[i] = InstallOrder[i]
    BY <1>1, LocalTypes
  <2>2. r = [i \in 1 .. m |-> r[i]]
    BY <2>1
  <2>3. SubSeq(InstallOrder, 1, m) = [i \in 1 .. m |-> InstallOrder[i]]
    <3> HIDE DEF m, r
    <3>1. InstallOrder \in Seq(Installed) /\ Len(InstallOrder) = 4
      BY Names
    <3> QED  BY <2>1, <3>1
  <2> HIDE DEF m, r
  <2>4. r = SubSeq(InstallOrder, 1, m)
    BY <2>1, <2>2, <2>3
  <2> QED  BY <2>1, <2>4 DEF r
<1>5. /\ DOMAIN local = DOMAIN NoLocals
      /\ Range(local.todo) \subseteq Range(SaveOrder) \cup Temporaries
      /\ Range(local.invalidated) \subseteq MainFiles
      /\ Range(local.moved) \cup Range(local.removed) \subseteq Temporaries
  <2>1. ASSUME NEW A, NEW s \in Seq(A) PROVE Range(s) \subseteq A
    BY DEF Range
  <2>2. /\ Range(local.todo) \subseteq Files \cup Temporaries
        /\ Range(local.invalidated) \subseteq MainFiles
        /\ Range(local.moved) \subseteq Temporaries /\ Range(local.removed) \subseteq Temporaries
    BY <1>1, <2>1, LocalTypes
  <2>3. DOMAIN local = DOMAIN NoLocals
    BY <1>1 DEF LocalOK, NoLocals
  <2> QED  BY <2>2, <2>3 DEF Files
<1>6. step \in {"idle", "backup", "sync", "utime", "install", "invalidate", "archive",
                 "mark", "compact", "report", "putback", "unarchive", "reinstall",
                 "revive", "retime"}
  BY <1>1 DEF Controlled, Forwards, Backwards, Committed
<1> QED  BY <1>1, <1>3, <1>4, <1>5, <1>6 DEF TypeOK, SavedOK, RestOK, Controlled, Files

(* Whatever the lists of files, and wherever a promotion or a clean-up fails, is cut off
   or fails to roll back: until it has committed, what a file contained is in its place or
   in the backup. *)
THEOREM FilesAreNeverLost == Spec => []NothingLost
<1>1. PromotionInv => NothingLost
  <2> SUFFICES ASSUME PromotionInv PROVE NothingLost
    OBVIOUS
  <2>1. TypesOK /\ Controlled /\ Copies /\ Temps
    BY DEF PromotionInv
  <2>2. ASSUME Uncommitted
        PROVE  (Promoting /\ AllSaved) \/ RootSame
    BY <2>1, <2>2 DEF Uncommitted, Controlled, Copies, Undone, Promoting, Untouched, RootSame,
       Forwards, Backwards, Committed
  <2>3. ASSUME Uncommitted
        PROVE  /\ \A n \in Installed : before.root[n] \in {disk.root[n], saved.backup[n]}
               /\ \A f \in MainFiles : before.main[f] \in {disk.main[f], saved.backup[f]}
    BY <2>2, <2>3, Kinds DEF AllSaved, RootSame
  <2>4. ASSUME Uncommitted
        PROVE  \A t \in Temporaries : before.temps[t] \in {disk.temps[t], saved.archive[t]}
    BY <2>1, <2>4 DEF Uncommitted, Temps, Running, Undone, Committed
  <2> QED  BY <2>3, <2>4, InvTypeOK DEF NothingLost
<1> QED  BY <1>1, PromotionInvariant, PTL

(* What a promotion or clean-up reports is what it has done. *)
THEOREM OutcomesAreTrue == Spec => []OutcomeTrue
<1>1. PromotionInv => OutcomeTrue
  <2> SUFFICES ASSUME PromotionInv PROVE OutcomeTrue
    OBVIOUS
  <2>1. Controlled /\ Ended
    BY DEF PromotionInv
  <2>2. status = "failed" /\ ~fault /\ saved.backup["lte/VADAT"] # Partial => SameFiles
    BY <2>1 DEF Ended, SameFiles, RootSame
  <2>3. ASSUME status = "succeeded", Promoting
        PROVE  /\ Promoted /\ disk.lte.vadat = disk.lte.hydro
               /\ \A f \in MainFiles : disk.main[f] = Absent
               /\ \A t \in Temporaries : disk.temps[t] = Absent
               /\ StaleSolution(disk)
    BY <2>1, <2>3 DEF Ended, Controlled, Promoted, Free, StaleSolution
  <2> QED  BY <2>2, <2>3 DEF OutcomeTrue, Promoting
<1> QED  BY <1>1, PromotionInvariant, PTL

(* Unless a promotion was left half done, the solution in the root is one of the root's
   grid. *)
THEOREM SolutionsFitTheGrid == Spec => []SolutionOnGrid
<1>1. PromotionInv => SolutionOnGrid
  BY DEF PromotionInv, Gridded, OnGrid, SolutionOnGrid
<1> QED  BY <1>1, PromotionInvariant, PTL
=============================================================================
