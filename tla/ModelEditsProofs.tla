-------------------------- MODULE ModelEditsProofs --------------------------
(***************************************************************************)
(* Editing the inputs of a model is safe for any values of the velocity    *)
(* controls, any number of pages and any number of operations.  EditInv    *)
(* says what each step of an operation has left in place, so that it can   *)
(* be undone, and in which order structure, controls and their baseline    *)
(* come and go, so that a wrong structure is known at every step.          *)
(***************************************************************************)
EXTENDS ModelEdits, Filters

-----------------------------------------------------------------------------
(* Types.                                                                  *)

Solutions == {Solved(v, r) : v \in Controls, r \in Structures \cup {Absent}}
Baselines == {Baseline(p, v, r) : p \in BOOLEAN, v \in Controls, r \in Structures \cup {Absent}}
Of(n) == {Absent} \cup
    CASE n = "VADAT" -> Controls
      [] n = "RVSIG_COL" -> Structures
      [] n = "STATE" -> Baselines
      [] n = "MARKER" -> {Marker(TRUE), Marker(FALSE)}
      [] OTHER -> Solutions
Contents == {Absent, Marker(TRUE), Marker(FALSE)} \cup Controls \cup Structures \cup Baselines \cup Solutions
Snapshots == {f \in [Names -> Contents] : \A n \in Names : f[n] \in Of(n)}
Entries == {e \in Names \X Contents : e[2] \in Of(e[1]) \ {Absent}}

Saves == [pc: {"backup", "track", "replace", "finish", "mark"}, page: Pages,
          copy: Controls \cup {Absent}, old: Controls, new: Controls]
Updates == [pc: {"move", "remove"}, todo: Seq(Names), install: Seq(Entries), done: Seq(Names),
            moved: Seq(Entries), start: Snapshots]

Consistent(v, r) == Uses(v) /\ r # Absent => r[2] = v[2]

\* A review stands for what it has seen.
StructureReviewed ==
    \E v \in Velocities, n \in 0 .. begun + 1, radii \in BOOLEAN, seen \in Snapshots :
        /\ review = [kind |-> "structure", seen |-> seen, install |->
                        <<<<"RVSIG_COL", Structure(v, n)>>>> \o
                        (IF radii THEN <<<<"VADAT", seen["VADAT"]>>>> ELSE <<>>)]
        /\ Uses(seen["VADAT"])
        /\ ~outside => Consistent(seen["VADAT"], Structure(v, n))
InputsReviewed ==
    \E v \in Controls, r \in Structures \cup {Absent}, seen \in Snapshots :
        /\ review = [kind |-> "inputs", seen |-> seen, install |->
                        (IF r = Absent THEN <<>> ELSE <<<<"RVSIG_COL", r>>>>) \o <<<<"VADAT", v>>>>]
        /\ ~outside => Consistent(v, r)
ReviewOK == review = NoReview \/ StructureReviewed \/ InputsReviewed

TypesOK ==
    /\ file \in Snapshots
    /\ bundle \in Controls \X (Structures \cup {Absent})
    /\ page \in [Pages -> Controls \cup {Absent}]
    /\ op \in {Idle} \cup Saves \cup Updates
    /\ begun \in 0 .. MaxOps /\ {lost, outside, raced, cut} \subseteq BOOLEAN
    /\ raced => outside
    /\ op.pc \in {"track", "replace", "finish", "mark"} => op.copy \in Controls

-----------------------------------------------------------------------------
(* The invariant.                                                          *)

\* Between operations nothing is left open; a save works on what its page has seen.
SavesSeen ==
    /\ lost => raced
    /\ op.pc \in {"backup", "track", "replace"} /\ ~raced =>
        /\ file["VADAT"] = op.old /\ page[op.page] = op.old
        /\ op.pc # "backup" => op.copy = op.old

\* Structure and baseline.
Sound(f) == Consistent(f["VADAT"], f["RVSIG_COL"]) \/ Required(f)
BaselineSound(f) == Pending(f) => Consistent(f["STATE"][3], f["STATE"][4])
Stale(f) == f["MOD_SUM"] # Absent /\ f["MOD_SUM"] # Solved(f["VADAT"], f["RVSIG_COL"])
MarkedStale(f) == Stale(f) => Modified(f)
Tracks ==
    ~outside =>
        /\ Sound(file) /\ BaselineSound(file) /\ Consistent(bundle[1], bundle[2])
        /\ op.pc = "replace" /\ Relevant => Pending(file)
        /\ op.pc \in {"idle", "backup", "track", "replace"} /\ ~cut => MarkedStale(file)

\* What an update has moved, and what it has or may have installed.
Moved == {op.moved[i][1] : i \in DOMAIN op.moved}
Written == Range(op.done)
Restorable ==
    op.pc \in {"move", "remove"} =>
        /\ op.todo # <<>> => op.done = <<>>
        /\ ~raced =>
            /\ \A i \in DOMAIN op.moved : op.moved[i][2] = op.start[op.moved[i][1]]
            /\ \A i, k \in DOMAIN op.moved : op.moved[i][1] = op.moved[k][1] => i = k
            /\ \A n \in Names \ (Moved \cup Written) : file[n] = op.start[n]
            /\ \A n \in Moved \ Written : file[n] = Absent
            /\ \A n \in Written : n \in Moved \/ op.start[n] = Absent
            /\ op.pc = "move" => \A i \in DOMAIN op.install :
                    op.install[i][1] \in Moved \cup Range(op.todo) \/ op.start[op.install[i][1]] = Absent

\* The structure goes before the controls and the baseline, and comes back after them; a new
\* one is installed for the controls that are there, or before those it is for.
GoesFirst ==
    \A i \in DOMAIN op.todo : op.todo[i] \in {"VADAT", "STATE"} =>
        file["RVSIG_COL"] = Absent \/ \E k \in DOMAIN op.todo : k < i /\ op.todo[k] = "RVSIG_COL"
ReturnsLast ==
    \A i \in DOMAIN op.moved : op.moved[i][1] \in {"VADAT", "STATE"} =>
        op.start["RVSIG_COL"] = Absent \/ \E k \in DOMAIN op.moved : k > i /\ op.moved[k][1] = "RVSIG_COL"
StructureFits ==
    \A i \in DOMAIN op.install : op.install[i][1] = "RVSIG_COL" =>
        /\ i = 1 /\ op.done = <<>>
        /\ "VADAT" \in Range(op.todo) \/ Consistent(file["VADAT"], op.install[i][2])
ControlsFit ==
    \A i \in DOMAIN op.install : op.install[i][1] = "VADAT" =>
        /\ \A k \in DOMAIN op.install :
            op.install[k][1] = "RVSIG_COL" => Consistent(op.install[i][2], op.install[k][2])
        /\ "RVSIG_COL" \in Range(op.todo) \/ Consistent(op.install[i][2], file["RVSIG_COL"])
BaselineFits ==
    /\ \A i, k \in DOMAIN op.install : op.install[i][1] = op.install[k][1] => i = k
    /\ \A i \in DOMAIN op.install : op.install[i][1] = "STATE" =>
        /\ "STATE" \in Range(op.todo) \/ file["STATE"] = Absent
        /\ op.install[i][2][2] = FALSE
StructureFirst ==
    op.pc \in {"move", "remove"} /\ ~outside =>
        /\ Sound(op.start) /\ BaselineSound(op.start) /\ ReturnsLast
        /\ "STATE" \in Written => Consistent(file["VADAT"], file["RVSIG_COL"])
        /\ op.pc = "move" => GoesFirst /\ StructureFits /\ ControlsFit /\ BaselineFits

\* The marker is the last that is installed.
MarkerLast ==
    op.pc \in {"move", "remove"} /\ ~outside =>
        /\ ~cut => MarkedStale(op.start)
        /\ op.pc = "move" =>
            /\ op.todo # <<>> => op.install # <<>>
            /\ IF op.install = <<>> THEN file["MARKER"] = Marker(TRUE)
               ELSE op.install[Len(op.install)] = <<"MARKER", Marker(TRUE)>>

EditInv == TypesOK /\ ReviewOK /\ SavesSeen /\ Tracks /\ Restorable /\ StructureFirst /\ MarkerLast

-----------------------------------------------------------------------------
(* What the contents are made of.                                          *)

LEMMA ControlParts ==
    ASSUME NEW v \in Controls
    PROVE  v # Absent /\ v[2] \in Velocities /\ v[3] \in BOOLEAN /\ (Uses(v) <=> v[3])
  BY DEF Controls, Vadat, Absent, Uses

LEMMA AbsentParts == ~Uses(Absent) /\ Consistent(Absent, Absent)
  BY DEF Uses, Consistent

LEMMA StructureParts ==
    ASSUME NEW v \in Velocities, NEW n \in Nat
    PROVE  /\ Structure(v, n) # Absent /\ Structure(v, n)[2] = v
           /\ n \in 0 .. MaxOps => Structure(v, n) \in Structures
  BY DEF Structure, Structures, Absent

LEMMA StructuresParts ==
    ASSUME NEW r \in Structures
    PROVE  r # Absent /\ r[2] \in Velocities
  BY DEF Structure, Structures, Absent

LEMMA BaselineParts ==
    ASSUME NEW q \in BOOLEAN, NEW v \in Controls, NEW r \in Structures \cup {Absent}
    PROVE  LET b == Baseline(q, v, r) IN
           b \in Baselines /\ b # Absent /\ b[2] = q /\ b[3] = v /\ b[4] = r
<1>1. Baseline(q, v, r) \in Baselines
  BY DEF Baselines
<1>2. Baseline(q, v, r) = <<"STATE", q, v, r>>
  BY DEF Baseline
<1> QED  BY <1>1, <1>2 DEF Absent

LEMMA SettledParts ==
    ASSUME NEW v \in Controls, NEW r \in Structures \cup {Absent}
    PROVE  /\ Baseline(FALSE, v, r) \in Baselines /\ Baseline(FALSE, v, r) # Absent
           /\ Baseline(FALSE, v, r)[2] = FALSE
<1>1. \A q \in BOOLEAN : Baseline(q, v, r) \in Baselines /\ Baseline(q, v, r) # Absent
  BY BaselineParts
<1>2. Baseline(FALSE, v, r) = <<"STATE", FALSE, v, r>>
  BY DEF Baseline
<1>3. FALSE \in BOOLEAN
  OBVIOUS
<1>4. Baseline(FALSE, v, r) \in Baselines /\ Baseline(FALSE, v, r) # Absent
  BY <1>1, <1>3, Zenon
<1>5. <<"STATE", FALSE, v, r>>[2] = FALSE
  OBVIOUS
<1> QED  BY <1>2, <1>4, <1>5

LEMMA PendingParts ==
    ASSUME NEW v \in Controls, NEW r \in Structures \cup {Absent}
    PROVE  /\ Baseline(TRUE, v, r) \in Baselines /\ Baseline(TRUE, v, r) # Absent
           /\ Baseline(TRUE, v, r)[2] = TRUE /\ Baseline(TRUE, v, r)[3] = v /\ Baseline(TRUE, v, r)[4] = r
<1>1. \A q \in BOOLEAN : LET b == Baseline(q, v, r) IN
        b \in Baselines /\ b # Absent /\ b[3] = v /\ b[4] = r
  BY BaselineParts
<1>2. Baseline(TRUE, v, r) = <<"STATE", TRUE, v, r>>
  BY DEF Baseline
<1>3. TRUE \in BOOLEAN
  OBVIOUS
<1>4. LET b == Baseline(TRUE, v, r) IN b \in Baselines /\ b # Absent /\ b[3] = v /\ b[4] = r
  BY <1>1, <1>3, Zenon
<1>5. <<"STATE", TRUE, v, r>>[2] = TRUE
  OBVIOUS
<1> QED  BY <1>2, <1>4, <1>5

LEMMA BaselinesParts ==
    ASSUME NEW b \in Baselines
    PROVE  /\ b # Absent /\ b[2] \in BOOLEAN /\ b[3] \in Controls /\ b[4] \in Structures \cup {Absent}
           /\ [b EXCEPT ![2] = FALSE] = Baseline(FALSE, b[3], b[4])
<1>1. PICK q \in BOOLEAN, v \in Controls, r \in Structures \cup {Absent} : b = Baseline(q, v, r)
  BY DEF Baselines
<1>2. b # Absent /\ b[2] = q /\ b[3] = v /\ b[4] = r
  BY <1>1, BaselineParts
<1>3. b = <<"STATE", q, v, r>>
  BY <1>1 DEF Baseline
<1>4. [b EXCEPT ![2] = FALSE] = <<"STATE", FALSE, v, r>>
  <2> DEFINE c == [b EXCEPT ![2] = FALSE]
  <2>1. DOMAIN b = 1 .. 4
    BY <1>3
  <2>2. DOMAIN c = 1 .. 4 /\ c[1] = b[1] /\ c[2] = FALSE /\ c[3] = b[3] /\ c[4] = b[4]
    BY <2>1
  <2>3. c = [i \in 1 .. 4 |-> c[i]]
    BY <2>1
  <2> HIDE DEF c
  <2>4. c = <<c[1], c[2], c[3], c[4]>>
    BY <2>3
  <2>5. b[1] = "STATE" /\ b[3] = v /\ b[4] = r
    BY <1>3
  <2>6. c = <<"STATE", FALSE, v, r>>
    BY <2>2, <2>4, <2>5, Zenon
  <2> QED  BY <2>6 DEF c
<1> QED  BY <1>2, <1>4 DEF Baseline

LEMMA MarkerParts ==
    /\ Marker(TRUE) # Absent /\ Marker(FALSE) # Absent
    /\ Marker(TRUE)[2] = TRUE /\ Marker(FALSE)[2] = FALSE
  BY DEF Marker, Absent

LEMMA Kinds ==
    /\ Of("VADAT") = {Absent} \cup Controls
    /\ Of("RVSIG_COL") = {Absent} \cup Structures
    /\ Of("STATE") = {Absent} \cup Baselines
    /\ Of("MARKER") = {Absent, Marker(TRUE), Marker(FALSE)}
    /\ Of("MOD_SUM") = {Absent} \cup Solutions
    /\ Of("CHECKPOINT") = {Absent} \cup Solutions
    /\ \A n \in Names : Of(n) \subseteq Contents /\ Absent \in Of(n)
<1>1. /\ Of("VADAT") = {Absent} \cup Controls
      /\ Of("RVSIG_COL") = {Absent} \cup Structures
      /\ Of("STATE") = {Absent} \cup Baselines
      /\ Of("MARKER") = {Absent, Marker(TRUE), Marker(FALSE)}
      /\ Of("MOD_SUM") = {Absent} \cup Solutions
      /\ Of("CHECKPOINT") = {Absent} \cup Solutions
  BY DEF Of
<1> QED  BY <1>1 DEF Names, Contents

(* A model has every file, or knows that it is absent, and one is replaced by its kind. *)
LEMMA SnapshotFacts ==
    ASSUME NEW f \in Snapshots
    PROVE  /\ DOMAIN f = Names /\ f \in [Names -> Contents]
           /\ f["VADAT"] \in Controls \cup {Absent} /\ f["RVSIG_COL"] \in Structures \cup {Absent}
           /\ f["STATE"] \in Baselines \cup {Absent}
           /\ f["MARKER"] \in {Absent, Marker(TRUE), Marker(FALSE)}
           /\ f["MOD_SUM"] \in Solutions \cup {Absent} /\ f["CHECKPOINT"] \in Solutions \cup {Absent}
           /\ \A n \in Names : f[n] \in Of(n)
           /\ \A n \in Names : \A c \in Of(n) : [f EXCEPT ![n] = c] \in Snapshots
<1>1. f \in [Names -> Contents] /\ \A n \in Names : f[n] \in Of(n)
  BY DEF Snapshots
<1>2. /\ f["VADAT"] \in Controls \cup {Absent} /\ f["RVSIG_COL"] \in Structures \cup {Absent}
      /\ f["STATE"] \in Baselines \cup {Absent}
      /\ f["MARKER"] \in {Absent, Marker(TRUE), Marker(FALSE)}
      /\ f["MOD_SUM"] \in Solutions \cup {Absent} /\ f["CHECKPOINT"] \in Solutions \cup {Absent}
  BY <1>1, Kinds DEF Names
<1>3. ASSUME NEW n \in Names, NEW c \in Of(n) PROVE [f EXCEPT ![n] = c] \in Snapshots
  <2>1. c \in Contents
    BY Kinds
  <2>2. \A m \in Names : [f EXCEPT ![n] = c][m] \in Of(m)
    BY <1>1, <1>3
  <2> QED  BY <1>1, <2>1, <2>2 DEF Snapshots
<1> QED  BY <1>1, <1>2, <1>3

LEMMA OpKinds ==
    ASSUME TypesOK
    PROVE  /\ op.pc = "idle" <=> op = Idle
           /\ op.pc \in {"backup", "track", "replace", "finish", "mark"} <=> op \in Saves
           /\ op.pc \in {"move", "remove"} <=> op \in Updates
  BY DEF TypesOK, Idle, Saves, Updates

-----------------------------------------------------------------------------
(* Types are kept.                                                         *)

LEMMA TypesOfTracked == ASSUME TypesOK, op \in Saves PROVE Tracked \in Of("STATE")
<1>1. file["RVSIG_COL"] \in Structures \cup {Absent} /\ file["STATE"] \in Of("STATE")
  BY SnapshotFacts DEF TypesOK, Names
<1>2. Baseline(TRUE, op.old, file["RVSIG_COL"]) \in Of("STATE")
  BY <1>1, BaselineParts, Kinds DEF Saves
<1> QED  BY <1>1, <1>2 DEF Tracked

(* The first of a list and what is left of it; a list with one more in front. *)
LEMMA Rest ==
    ASSUME NEW A, NEW s \in Seq(A), s # <<>>
    PROVE  /\ 1 \in DOMAIN s /\ s[1] \in A /\ Tail(s) \in Seq(A)
           /\ DOMAIN s = 1 .. Len(s) /\ Len(s) \in Nat \ {0}
           /\ Len(Tail(s)) = Len(s) - 1 /\ DOMAIN Tail(s) = 1 .. Len(s) - 1
           /\ \A i \in DOMAIN Tail(s) : i + 1 \in DOMAIN s /\ Tail(s)[i] = s[i + 1]
           /\ \A k \in DOMAIN s : k # 1 => k - 1 \in DOMAIN Tail(s) /\ Tail(s)[k - 1] = s[k]
           /\ Range(s) = {s[1]} \cup Range(Tail(s))
           /\ Tail(s) = <<>> <=> Len(s) = 1
<1>1. Range(s) = {s[1]} \cup Range(Tail(s)) /\ (Tail(s) = <<>> <=> Len(s) = 1)
  BY TailFacts
<1>2. DOMAIN s = 1 .. Len(s) /\ Len(s) \in Nat \ {0} /\ DOMAIN Tail(s) = 1 .. Len(s) - 1
  OBVIOUS
<1>3. \A i \in 1 .. Len(s) - 1 : Tail(s)[i] = s[i + 1]
  OBVIOUS
<1>4. ASSUME NEW k \in 1 .. Len(s), k # 1
      PROVE  k - 1 \in 1 .. Len(s) - 1 /\ (k - 1) + 1 = k
  BY <1>2, <1>4
<1>5. \A k \in DOMAIN s : k # 1 => k - 1 \in DOMAIN Tail(s) /\ Tail(s)[k - 1] = s[k]
  BY <1>2, <1>3, <1>4
<1> QED  BY <1>1, <1>2, <1>3, <1>5

LEMMA InFront ==
    ASSUME NEW A, NEW s \in Seq(A), NEW x \in A
    PROVE  LET t == <<x>> \o s IN
           /\ t \in Seq(A) /\ 1 \in DOMAIN t /\ t[1] = x /\ Range(t) = {x} \cup Range(s)
           /\ \A i \in DOMAIN s : i + 1 \in DOMAIN t /\ t[i + 1] = s[i] /\ i \in Nat
           /\ \A k \in DOMAIN t : k # 1 => k - 1 \in DOMAIN s /\ t[k] = s[k - 1] /\ k \in Nat
<1> DEFINE t == <<x>> \o s
<1>1. /\ t \in Seq(A) /\ Len(s) \in Nat /\ DOMAIN s = 1 .. Len(s) /\ DOMAIN t = 1 .. Len(s) + 1
      /\ t[1] = x /\ \A k \in 1 .. Len(s) + 1 : k # 1 => t[k] = s[k - 1]
  OBVIOUS
<1> HIDE DEF t
<1>2. \A k \in 1 .. Len(s) + 1 : k # 1 => k - 1 \in 1 .. Len(s) /\ t[k] = s[k - 1] /\ k \in Nat
  BY <1>1
<1>3. ASSUME NEW i \in 1 .. Len(s) PROVE i + 1 \in 1 .. Len(s) + 1 /\ t[i + 1] = s[i]
  BY <1>1, <1>3
<1>4. Range(t) = {x} \cup Range(s)
  <2>1. 1 \in DOMAIN t
    BY <1>1
  <2>2. {x} \cup Range(s) \subseteq Range(t)
    BY <1>1, <1>3, <2>1 DEF Range
  <2>3. Range(t) \subseteq {x} \cup Range(s)
    BY <1>1, <1>2 DEF Range
  <2> QED  BY <2>2, <2>3
<1>5. 1 \in DOMAIN t
  BY <1>1
<1> QED  BY <1>1, <1>2, <1>3, <1>4, <1>5 DEF t

(* What a review prepares, on the files that were reviewed. *)
Ready(moves, installs) ==
    /\ moves \in Seq(Names) /\ installs \in Seq(Entries)
    /\ installs # <<>> /\ installs[Len(installs)] = <<"MARKER", Marker(TRUE)>>
    /\ \A i \in DOMAIN installs : installs[i][1] \in Range(moves)
    /\ \A i, k \in DOMAIN installs : installs[i][1] = installs[k][1] => i = k
    /\ \A i \in DOMAIN moves : moves[i] \in {"VADAT", "STATE"} =>
         \E k \in DOMAIN moves : k < i /\ moves[k] = "RVSIG_COL"
    /\ "RVSIG_COL" \in Range(moves)
    /\ \A i \in DOMAIN installs : installs[i][1] = "STATE" => installs[i][2][2] = FALSE
    /\ ~outside => \A i \in DOMAIN installs :
         /\ installs[i][1] = "RVSIG_COL" =>
             i = 1 /\ ("VADAT" \in Range(moves) \/ Consistent(file["VADAT"], installs[i][2]))
         /\ installs[i][1] = "VADAT" => \A k \in DOMAIN installs :
             installs[k][1] = "RVSIG_COL" => Consistent(installs[i][2], installs[k][2])

(* Short lists, joined. *)
LEMMA JoinOne ==
    ASSUME NEW A, NEW a \in A
    PROVE  <<>> \o <<a>> = <<a>> /\ <<a>> \o <<>> = <<a>>
<1>1. <<>> \o <<a>> = <<a>>
  <2> DEFINE s == <<>> \o <<a>>
  <2>1. s \in Seq(A) /\ Len(s) = 1 /\ s[1] = a
    OBVIOUS
  <2> HIDE DEF s
  <2>2. s = <<s[1]>>
    BY <2>1
  <2> QED  BY <2>1, <2>2 DEF s
<1>2. <<a>> \o <<>> = <<a>>
  <2> DEFINE s == <<a>> \o <<>>
  <2>1. s \in Seq(A) /\ Len(s) = 1 /\ s[1] = a
    OBVIOUS
  <2> HIDE DEF s
  <2>2. s = <<s[1]>>
    BY <2>1
  <2> QED  BY <2>1, <2>2 DEF s
<1> QED  BY <1>1, <1>2

LEMMA JoinTwo ==
    ASSUME NEW A, NEW a \in A, NEW b \in A
    PROVE  <<a, b>> \o <<>> = <<a, b>> /\ <<a>> \o <<b>> = <<a, b>>
<1>1. <<a, b>> \o <<>> = <<a, b>>
  <2> DEFINE s == <<a, b>> \o <<>>
  <2>1. s \in Seq(A) /\ Len(s) = 2 /\ s[1] = a /\ s[2] = b
    OBVIOUS
  <2> HIDE DEF s
  <2>2. s = <<s[1], s[2]>>
    BY <2>1
  <2> QED  BY <2>1, <2>2 DEF s
<1>2. <<a>> \o <<b>> = <<a, b>>
  <2> DEFINE s == <<a>> \o <<b>>
  <2>1. s \in Seq(A) /\ Len(s) = 2 /\ s[1] = a /\ s[2] = b
    OBVIOUS
  <2> HIDE DEF s
  <2>2. s = <<s[1], s[2]>>
    BY <2>1
  <2> QED  BY <2>1, <2>2 DEF s
<1> QED  BY <1>1, <1>2

LEMMA JoinThree ==
    ASSUME NEW A, NEW a \in A, NEW b \in A, NEW c \in A
    PROVE  <<a, b>> \o <<c>> = <<a, b, c>>
<1>1. <<a, b>> \o <<c>> = <<a, b, c>>
  <2> DEFINE s == <<a, b>> \o <<c>>
  <2>1. s \in Seq(A) /\ Len(s) = 3 /\ s[1] = a /\ s[2] = b /\ s[3] = c
    OBVIOUS
  <2> HIDE DEF s
  <2>2. s = <<s[1], s[2], s[3]>>
    BY <2>1
  <2> QED  BY <2>1, <2>2 DEF s
<1> QED  BY <1>1

LEMMA JoinFour ==
    ASSUME NEW A, NEW a \in A, NEW b \in A, NEW c \in A, NEW d \in A
    PROVE  <<a, b, c>> \o <<d>> = <<a, b, c, d>> /\ <<a>> \o <<b, c, d>> = <<a, b, c, d>>
<1>1. <<a, b, c>> \o <<d>> = <<a, b, c, d>>
  <2> DEFINE s == <<a, b, c>> \o <<d>>
  <2>1. s \in Seq(A) /\ Len(s) = 4 /\ s[1] = a /\ s[2] = b /\ s[3] = c /\ s[4] = d
    OBVIOUS
  <2> HIDE DEF s
  <2>2. s = <<s[1], s[2], s[3], s[4]>>
    BY <2>1
  <2> QED  BY <2>1, <2>2 DEF s
<1>2. <<a>> \o <<b, c, d>> = <<a, b, c, d>>
  <2> DEFINE s == <<a>> \o <<b, c, d>>
  <2>1. s \in Seq(A) /\ Len(s) = 4 /\ s[1] = a /\ s[2] = b /\ s[3] = c /\ s[4] = d
    OBVIOUS
  <2> HIDE DEF s
  <2>2. s = <<s[1], s[2], s[3], s[4]>>
    BY <2>1
  <2> QED  BY <2>1, <2>2 DEF s
<1> QED  BY <1>1, <1>2

LEMMA JoinFive ==
    ASSUME NEW A, NEW a \in A, NEW b \in A, NEW c \in A, NEW d \in A, NEW e \in A
    PROVE  <<a, b>> \o <<c, d, e>> = <<a, b, c, d, e>>
<1>1. <<a, b>> \o <<c, d, e>> = <<a, b, c, d, e>>
  <2> DEFINE s == <<a, b>> \o <<c, d, e>>
  <2>1. s \in Seq(A) /\ Len(s) = 5 /\ s[1] = a /\ s[2] = b /\ s[3] = c /\ s[4] = d /\ s[5] = e
    OBVIOUS
  <2> HIDE DEF s
  <2>2. s = <<s[1], s[2], s[3], s[4], s[5]>>
    BY <2>1
  <2> QED  BY <2>1, <2>2 DEF s
<1> QED  BY <1>1

LEMMA ReadyStructure ==
    ASSUME NEW eR \in Entries, NEW eS \in Entries, NEW eM \in Entries,
           eR[1] = "RVSIG_COL", eS[1] = "STATE", eM[1] = "MARKER",
           eM = <<"MARKER", Marker(TRUE)>>,
           eS[2][2] = FALSE, ~outside => Consistent(file["VADAT"], eR[2])
    PROVE  Ready(<<"RVSIG_COL", "STATE", "MARKER", "CHECKPOINT">>, <<eR, eS, eM>>)
<1> DEFINE m == <<"RVSIG_COL", "STATE", "MARKER", "CHECKPOINT">>
           s == <<eR, eS, eM>>
<1>1. /\ m \in Seq(Names) /\ DOMAIN m = 1 .. 4
      /\ m[1] = "RVSIG_COL" /\ m[2] = "STATE" /\ m[3] = "MARKER" /\ m[4] = "CHECKPOINT"
  BY DEF Names
<1>2. /\ s \in Seq(Entries) /\ s # <<>> /\ DOMAIN s = 1 .. 3 /\ Len(s) = 3
      /\ s[1] = eR /\ s[2] = eS /\ s[3] = eM
  <2>1. DOMAIN s = 1 .. 3 /\ Len(s) = 3
    OBVIOUS
  <2>2. /\ s[1] = eR /\ s[2] = eS /\ s[3] = eM
    OBVIOUS
  <2>3. s \in Seq(Entries)
    OBVIOUS
  <2> QED  BY <2>1, <2>2, <2>3
<1> HIDE DEF m, s
<1>3. /\ \A i \in DOMAIN m : i = 1 \/ i = 2 \/ i = 3 \/ i = 4
      /\ \A i \in DOMAIN s : i = 1 \/ i = 2 \/ i = 3
  BY <1>1, <1>2
<1>4. {"RVSIG_COL", "STATE", "MARKER", "CHECKPOINT"} \subseteq Range(m)
  BY <1>1 DEF Range
<1>5. /\ \A i \in DOMAIN s : s[i][1] \in Range(m)
      /\ \A i, k \in DOMAIN s : s[i][1] = s[k][1] => i = k
      /\ \A i \in DOMAIN s : s[i][1] = "STATE" => s[i][2][2] = FALSE
  BY <1>2, <1>3, <1>4
<1>6. \A i \in DOMAIN m : m[i] \in {"VADAT", "STATE"} =>
         \E k \in DOMAIN m : k < i /\ m[k] = "RVSIG_COL"
  BY <1>1, <1>3
<1>7. ASSUME ~outside, NEW i \in DOMAIN s
      PROVE  /\ s[i][1] = "RVSIG_COL" =>
                i = 1 /\ ("VADAT" \in Range(m) \/ Consistent(file["VADAT"], s[i][2]))
             /\ s[i][1] = "VADAT" => \A k \in DOMAIN s :
                s[k][1] = "RVSIG_COL" => Consistent(s[i][2], s[k][2])
  BY <1>2, <1>3, <1>4, <1>7
<1>8. Ready(m, s)
  BY <1>1, <1>2, <1>4, <1>5, <1>6, <1>7 DEF Ready
<1> QED  BY <1>8 DEF m, s

LEMMA ReadyBoth ==
    ASSUME NEW eR \in Entries, NEW eV \in Entries, NEW eS \in Entries, NEW eM \in Entries,
           eR[1] = "RVSIG_COL", eV[1] = "VADAT", eS[1] = "STATE", eM[1] = "MARKER",
           eM = <<"MARKER", Marker(TRUE)>>,
           eS[2][2] = FALSE, ~outside => Consistent(eV[2], eR[2])
    PROVE  Ready(<<"RVSIG_COL", "VADAT", "STATE", "MARKER", "CHECKPOINT">>, <<eR, eV, eS, eM>>)
<1> DEFINE m == <<"RVSIG_COL", "VADAT", "STATE", "MARKER", "CHECKPOINT">>
           s == <<eR, eV, eS, eM>>
<1>1. /\ m \in Seq(Names) /\ DOMAIN m = 1 .. 5
      /\ m[1] = "RVSIG_COL" /\ m[2] = "VADAT" /\ m[3] = "STATE" /\ m[4] = "MARKER" /\ m[5] = "CHECKPOINT"
  BY DEF Names
<1>2. /\ s \in Seq(Entries) /\ s # <<>> /\ DOMAIN s = 1 .. 4 /\ Len(s) = 4
      /\ s[1] = eR /\ s[2] = eV /\ s[3] = eS /\ s[4] = eM
  <2>1. DOMAIN s = 1 .. 4 /\ Len(s) = 4
    OBVIOUS
  <2>2. /\ s[1] = eR /\ s[2] = eV /\ s[3] = eS /\ s[4] = eM
    OBVIOUS
  <2>3. s \in Seq(Entries)
    OBVIOUS
  <2> QED  BY <2>1, <2>2, <2>3
<1> HIDE DEF m, s
<1>3. /\ \A i \in DOMAIN m : i = 1 \/ i = 2 \/ i = 3 \/ i = 4 \/ i = 5
      /\ \A i \in DOMAIN s : i = 1 \/ i = 2 \/ i = 3 \/ i = 4
  BY <1>1, <1>2
<1>4. {"RVSIG_COL", "VADAT", "STATE", "MARKER", "CHECKPOINT"} \subseteq Range(m)
  BY <1>1 DEF Range
<1>5. /\ \A i \in DOMAIN s : s[i][1] \in Range(m)
      /\ \A i, k \in DOMAIN s : s[i][1] = s[k][1] => i = k
      /\ \A i \in DOMAIN s : s[i][1] = "STATE" => s[i][2][2] = FALSE
  BY <1>2, <1>3, <1>4
<1>6. \A i \in DOMAIN m : m[i] \in {"VADAT", "STATE"} =>
         \E k \in DOMAIN m : k < i /\ m[k] = "RVSIG_COL"
  BY <1>1, <1>3
<1>7. ASSUME ~outside, NEW i \in DOMAIN s
      PROVE  /\ s[i][1] = "RVSIG_COL" =>
                i = 1 /\ ("VADAT" \in Range(m) \/ Consistent(file["VADAT"], s[i][2]))
             /\ s[i][1] = "VADAT" => \A k \in DOMAIN s :
                s[k][1] = "RVSIG_COL" => Consistent(s[i][2], s[k][2])
  BY <1>2, <1>3, <1>4, <1>7
<1>8. Ready(m, s)
  BY <1>1, <1>2, <1>4, <1>5, <1>6, <1>7 DEF Ready
<1> QED  BY <1>8 DEF m, s

LEMMA ReadyInputs ==
    ASSUME NEW eR \in Entries, NEW eV \in Entries, NEW eM \in Entries,
           eR[1] = "RVSIG_COL", eV[1] = "VADAT", eM[1] = "MARKER",
           eM = <<"MARKER", Marker(TRUE)>>,
           ~outside => Consistent(eV[2], eR[2])
    PROVE  Ready(InputState, <<eR, eV, eM>>)
<1> DEFINE m == <<"MARKER", "MOD_SUM", "CHECKPOINT", "RVSIG_COL", "VADAT">>
           s == <<eR, eV, eM>>
<1>1. /\ m \in Seq(Names) /\ DOMAIN m = 1 .. 5
      /\ m[1] = "MARKER" /\ m[2] = "MOD_SUM" /\ m[3] = "CHECKPOINT" /\ m[4] = "RVSIG_COL" /\ m[5] = "VADAT"
  BY DEF Names
<1>2. /\ s \in Seq(Entries) /\ s # <<>> /\ DOMAIN s = 1 .. 3 /\ Len(s) = 3
      /\ s[1] = eR /\ s[2] = eV /\ s[3] = eM
  <2>1. DOMAIN s = 1 .. 3 /\ Len(s) = 3
    OBVIOUS
  <2>2. /\ s[1] = eR /\ s[2] = eV /\ s[3] = eM
    OBVIOUS
  <2>3. s \in Seq(Entries)
    OBVIOUS
  <2> QED  BY <2>1, <2>2, <2>3
<1> HIDE DEF m, s
<1>3. /\ \A i \in DOMAIN m : i = 1 \/ i = 2 \/ i = 3 \/ i = 4 \/ i = 5
      /\ \A i \in DOMAIN s : i = 1 \/ i = 2 \/ i = 3
  BY <1>1, <1>2
<1>4. {"MARKER", "MOD_SUM", "CHECKPOINT", "RVSIG_COL", "VADAT"} \subseteq Range(m)
  BY <1>1 DEF Range
<1>5. /\ \A i \in DOMAIN s : s[i][1] \in Range(m)
      /\ \A i, k \in DOMAIN s : s[i][1] = s[k][1] => i = k
      /\ \A i \in DOMAIN s : s[i][1] = "STATE" => s[i][2][2] = FALSE
  BY <1>2, <1>3, <1>4
<1>6. \A i \in DOMAIN m : m[i] \in {"VADAT", "STATE"} =>
         \E k \in DOMAIN m : k < i /\ m[k] = "RVSIG_COL"
  BY <1>1, <1>3
<1>7. ASSUME ~outside, NEW i \in DOMAIN s
      PROVE  /\ s[i][1] = "RVSIG_COL" =>
                i = 1 /\ ("VADAT" \in Range(m) \/ Consistent(file["VADAT"], s[i][2]))
             /\ s[i][1] = "VADAT" => \A k \in DOMAIN s :
                s[k][1] = "RVSIG_COL" => Consistent(s[i][2], s[k][2])
  BY <1>2, <1>3, <1>4, <1>7
<1>8. Ready(m, s)
  BY <1>1, <1>2, <1>4, <1>5, <1>6, <1>7 DEF Ready
<1> QED  BY <1>8 DEF m, s, InputState

LEMMA ReadyControls ==
    ASSUME NEW eV \in Entries, NEW eM \in Entries,
           eV[1] = "VADAT", eM[1] = "MARKER",
           eM = <<"MARKER", Marker(TRUE)>>
    PROVE  Ready(InputState, <<eV, eM>>)
<1> DEFINE m == <<"MARKER", "MOD_SUM", "CHECKPOINT", "RVSIG_COL", "VADAT">>
           s == <<eV, eM>>
<1>1. /\ m \in Seq(Names) /\ DOMAIN m = 1 .. 5
      /\ m[1] = "MARKER" /\ m[2] = "MOD_SUM" /\ m[3] = "CHECKPOINT" /\ m[4] = "RVSIG_COL" /\ m[5] = "VADAT"
  BY DEF Names
<1>2. /\ s \in Seq(Entries) /\ s # <<>> /\ DOMAIN s = 1 .. 2 /\ Len(s) = 2
      /\ s[1] = eV /\ s[2] = eM
  <2>1. DOMAIN s = 1 .. 2 /\ Len(s) = 2
    OBVIOUS
  <2>2. /\ s[1] = eV /\ s[2] = eM
    OBVIOUS
  <2>3. s \in Seq(Entries)
    OBVIOUS
  <2> QED  BY <2>1, <2>2, <2>3
<1> HIDE DEF m, s
<1>3. /\ \A i \in DOMAIN m : i = 1 \/ i = 2 \/ i = 3 \/ i = 4 \/ i = 5
      /\ \A i \in DOMAIN s : i = 1 \/ i = 2
  BY <1>1, <1>2
<1>4. {"MARKER", "MOD_SUM", "CHECKPOINT", "RVSIG_COL", "VADAT"} \subseteq Range(m)
  BY <1>1 DEF Range
<1>5. /\ \A i \in DOMAIN s : s[i][1] \in Range(m)
      /\ \A i, k \in DOMAIN s : s[i][1] = s[k][1] => i = k
      /\ \A i \in DOMAIN s : s[i][1] = "STATE" => s[i][2][2] = FALSE
  BY <1>2, <1>3, <1>4
<1>6. \A i \in DOMAIN m : m[i] \in {"VADAT", "STATE"} =>
         \E k \in DOMAIN m : k < i /\ m[k] = "RVSIG_COL"
  BY <1>1, <1>3
<1>7. ASSUME ~outside, NEW i \in DOMAIN s
      PROVE  /\ s[i][1] = "RVSIG_COL" =>
                i = 1 /\ ("VADAT" \in Range(m) \/ Consistent(file["VADAT"], s[i][2]))
             /\ s[i][1] = "VADAT" => \A k \in DOMAIN s :
                s[k][1] = "RVSIG_COL" => Consistent(s[i][2], s[k][2])
  BY <1>2, <1>3, <1>4, <1>7
<1>8. Ready(m, s)
  BY <1>1, <1>2, <1>4, <1>5, <1>6, <1>7 DEF Ready
<1> QED  BY <1>8 DEF m, s, InputState

LEMMA Prepared ==
    ASSUME TypesOK, ReviewOK, review # NoReview, AsReviewed, begun < MaxOps
    PROVE  Ready(Moves, Installs)
<1> USE EditAssumption
<1> DEFINE eM == <<"MARKER", Marker(TRUE)>>
<1>1. ASSUME NEW n \in Names, NEW c \in Of(n) \ {Absent}
      PROVE  <<n, c>> \in Entries /\ <<n, c>>[1] = n /\ <<n, c>>[2] = c
  BY <1>1, Kinds DEF Entries
<1>2. eM \in Entries /\ eM[1] = "MARKER" /\ eM = <<"MARKER", Marker(TRUE)>>
  BY <1>1, Kinds, MarkerParts DEF Names
<1> HIDE DEF eM
<1>3. begun \in 0 .. MaxOps /\ MaxOps \in Nat /\ file \in Snapshots
  BY DEF TypesOK
<1>4. ASSUME StructureReviewed PROVE Ready(Moves, Installs)
  <2>1. PICK v \in Velocities, n \in 0 .. begun + 1, radii \in BOOLEAN, seen \in Snapshots :
            /\ review = [kind |-> "structure", seen |-> seen, install |->
                            <<<<"RVSIG_COL", Structure(v, n)>>>> \o
                            (IF radii THEN <<<<"VADAT", seen["VADAT"]>>>> ELSE <<>>)]
            /\ Uses(seen["VADAT"])
            /\ ~outside => Consistent(seen["VADAT"], Structure(v, n))
    BY <1>4 DEF StructureReviewed
  <2> DEFINE S == Structure(v, n)
             V == file["VADAT"]
             B == Baseline(FALSE, V, S)
             eR == <<"RVSIG_COL", S>>
             eV == <<"VADAT", V>>
             eS == <<"STATE", B>>
  <2>2. n \in Nat /\ n \in 0 .. MaxOps
    BY <1>3
  <2>3. S \in Structures /\ S # Absent
    BY <2>2, StructureParts
  <2>4. seen["VADAT"] = V
    BY <2>1 DEF AsReviewed, Names
  <2>5. V \in Controls
    BY <1>3, <2>1, <2>4, SnapshotFacts, AbsentParts
  <2>6. B \in Baselines /\ B # Absent /\ B[2] = FALSE
    BY <2>3, <2>5, SettledParts
  <2>7. /\ eR \in Entries /\ eR[1] = "RVSIG_COL" /\ eR[2] = S
        /\ eV \in Entries /\ eV[1] = "VADAT" /\ eV[2] = V
        /\ eS \in Entries /\ eS[1] = "STATE" /\ eS[2] = B
    BY <1>1, <2>3, <2>5, <2>6, Kinds, ControlParts DEF Names
  <2>8. ~outside => Consistent(V, S)
    BY <2>1, <2>4
  <2>9. review.kind = "structure" /\ review.install = <<eR>> \o (IF radii THEN <<eV>> ELSE <<>>)
    BY <2>1, <2>4
  <2>10. Installs = review.install \o <<<<"STATE", Baseline(FALSE, V, review.install[1][2])>>>> \o <<eM>>
    BY <2>9 DEF Installs, eM
  <2>11. /\ "RVSIG_COL" \in Names /\ "VADAT" \in Names /\ "STATE" \in Names
         /\ "MARKER" \in Names /\ "CHECKPOINT" \in Names
    BY DEF Names
  <2>12. <<"STATE", Baseline(FALSE, V, S)>> = eS
    OBVIOUS
  <2> HIDE DEF S, V, B, eR, eV, eS
  <2>13. CASE radii
    <3>1. review.install = <<eR, eV>>
      BY <2>7, <2>9, <2>13, JoinTwo
    <3>2. Moves = <<"RVSIG_COL", "VADAT", "STATE", "MARKER", "CHECKPOINT">>
      <4> DEFINE s == [i \in DOMAIN review.install |-> review.install[i][1]]
      <4>1. s \in Seq(Names) /\ Len(s) = 2 /\ s[1] = "RVSIG_COL" /\ s[2] = "VADAT"
        BY <2>7, <3>1 DEF Names
      <4>2. Moves = s \o <<"STATE", "MARKER", "CHECKPOINT">>
        BY <2>9 DEF Moves
      <4> HIDE DEF s
      <4>3. s = <<s[1], s[2]>>
        BY <4>1
      <4>4. <<"RVSIG_COL", "VADAT">> \o <<"STATE", "MARKER", "CHECKPOINT">>
                = <<"RVSIG_COL", "VADAT", "STATE", "MARKER", "CHECKPOINT">>
        BY <2>11, JoinFive
      <4> QED  BY <4>1, <4>2, <4>3, <4>4
    <3>3. Installs = <<eR, eV, eS, eM>>
      <4>1. review.install[1][2] = S
        BY <2>7, <3>1
      <4>2. Installs = <<eR, eV>> \o <<eS>> \o <<eM>>
        BY <2>10, <2>12, <3>1, <4>1
      <4>3. <<eR, eV>> \o <<eS>> = <<eR, eV, eS>>
        BY <2>7, JoinThree
      <4>4. <<eR, eV, eS>> \o <<eM>> = <<eR, eV, eS, eM>>
        <5>1. eR \in Entries /\ eV \in Entries /\ eS \in Entries /\ eM \in Entries
          BY <1>2, <2>7
        <5> QED  BY <5>1, JoinFour
      <4> QED  BY <4>2, <4>3, <4>4
    <3> QED  BY <1>2, <2>6, <2>7, <2>8, <3>2, <3>3, ReadyBoth
  <2>14. CASE ~radii
    <3>1. review.install = <<eR>>
      BY <2>7, <2>9, <2>14, JoinOne
    <3>2. Moves = <<"RVSIG_COL", "STATE", "MARKER", "CHECKPOINT">>
      <4> DEFINE s == [i \in DOMAIN review.install |-> review.install[i][1]]
      <4>1. s \in Seq(Names) /\ Len(s) = 1 /\ s[1] = "RVSIG_COL"
        BY <2>7, <3>1 DEF Names
      <4>2. Moves = s \o <<"STATE", "MARKER", "CHECKPOINT">>
        BY <2>9 DEF Moves
      <4> HIDE DEF s
      <4>3. s = <<s[1]>>
        BY <4>1
      <4>4. <<"RVSIG_COL">> \o <<"STATE", "MARKER", "CHECKPOINT">>
                = <<"RVSIG_COL", "STATE", "MARKER", "CHECKPOINT">>
        BY <2>11, JoinFour
      <4> QED  BY <4>1, <4>2, <4>3, <4>4
    <3>3. Installs = <<eR, eS, eM>>
      <4>1. review.install[1][2] = S
        BY <2>7, <3>1
      <4>2. Installs = <<eR>> \o <<eS>> \o <<eM>>
        BY <2>10, <2>12, <3>1, <4>1
      <4>3. <<eR>> \o <<eS>> = <<eR, eS>>
        BY <2>7, JoinTwo
      <4> QED  BY <1>2, <2>7, <4>2, <4>3, JoinThree
    <3> QED  BY <1>2, <2>6, <2>7, <2>8, <3>2, <3>3, ReadyStructure DEF V
  <2> QED  BY <2>13, <2>14
<1>5. ASSUME InputsReviewed PROVE Ready(Moves, Installs)
  <2>1. PICK v \in Controls, r \in Structures \cup {Absent}, seen \in Snapshots :
            /\ review = [kind |-> "inputs", seen |-> seen, install |->
                            (IF r = Absent THEN <<>> ELSE <<<<"RVSIG_COL", r>>>>) \o <<<<"VADAT", v>>>>]
            /\ ~outside => Consistent(v, r)
    BY <1>5 DEF InputsReviewed
  <2> DEFINE eR == <<"RVSIG_COL", r>>
             eV == <<"VADAT", v>>
  <2>2. eV \in Entries /\ eV[1] = "VADAT" /\ eV[2] = v
    BY <1>1, Kinds, ControlParts DEF Names
  <2>3. /\ review.kind = "inputs"
        /\ review.install = (IF r = Absent THEN <<>> ELSE <<eR>>) \o <<eV>>
    BY <2>1
  <2>4. r # Absent => eR \in Entries /\ eR[1] = "RVSIG_COL" /\ eR[2] = r
    BY <1>1, Kinds DEF Names
  <2>5. Moves = InputState /\ Installs = review.install \o <<>> \o <<eM>>
    BY <2>3 DEF Moves, Installs, eM
  <2> HIDE DEF eR, eV
  <2>6. CASE r = Absent
    <3>1. review.install = <<eV>>
      BY <2>2, <2>3, <2>6, JoinOne
    <3>2. <<eV>> \o <<>> = <<eV>>
      BY <2>2, JoinOne
    <3>3. Installs = <<eV, eM>>
      BY <1>2, <2>2, <2>5, <3>1, <3>2, JoinTwo
    <3> QED  BY <1>2, <2>2, <2>5, <3>3, ReadyControls
  <2>7. CASE r # Absent
    <3>1. review.install = <<eR, eV>>
      BY <2>2, <2>3, <2>4, <2>7, JoinTwo
    <3>2. <<eR, eV>> \o <<>> = <<eR, eV>>
      BY <2>2, <2>4, <2>7, JoinTwo
    <3>3. Installs = <<eR, eV, eM>>
      BY <1>2, <2>2, <2>4, <2>5, <2>7, <3>1, <3>2, JoinThree
    <3> QED  BY <1>2, <2>1, <2>2, <2>4, <2>5, <2>7, <3>3, ReadyInputs
  <2> QED  BY <2>6, <2>7
<1> QED  BY <1>4, <1>5 DEF ReviewOK

LEMMA TypesStep == ASSUME TypesOK, ReviewOK, Next PROVE TypesOK'
<1> USE EditAssumption
<1>1. /\ file \in Snapshots /\ op \in {Idle} \cup Saves \cup Updates
      /\ page \in [Pages -> Controls \cup {Absent}] /\ begun \in 0 .. MaxOps
      /\ MaxOps \in Nat
  BY DEF TypesOK
<1>2. /\ \A n \in Names : \A c \in Of(n) : [file EXCEPT ![n] = c] \in Snapshots
      /\ \A n \in Names : file[n] \in Of(n)
  BY <1>1, SnapshotFacts
<1>3. CASE EditOutside
  <2>1. file' \in Snapshots
    BY <1>2, <1>3, Kinds DEF EditOutside, Content, Names
  <2> QED  BY <1>1, <1>3, <2>1 DEF TypesOK, EditOutside
<1>4. CASE Run
  <2>1. file["VADAT"] \in Controls /\ file["RVSIG_COL"] \in Structures \cup {Absent}
    BY <1>1, <1>4, SnapshotFacts DEF Run
  <2>2. begun' \in 0 .. MaxOps
    BY <1>1, <1>4 DEF Run, Begin
  <2>3. PICK rvsig \in {file["RVSIG_COL"]} \cup
            (IF Uses(file["VADAT"]) THEN {Structure(file["VADAT"][2], begun')} ELSE {}) :
            file' = [file EXCEPT !["RVSIG_COL"] = rvsig,
                        !["MOD_SUM"] = Solved(file["VADAT"], rvsig),
                        !["CHECKPOINT"] = Solved(file["VADAT"], rvsig),
                        !["MARKER"] = IF @ = Absent THEN @ ELSE Marker(FALSE)]
    BY <1>4 DEF Run
  <2>4. rvsig \in Structures \cup {Absent}
    BY <2>1, <2>2, <2>3, ControlParts, StructureParts
  <2>5. Solved(file["VADAT"], rvsig) \in Solutions
    BY <2>1, <2>4 DEF Solutions
  <2>6. file' \in [Names -> Contents] /\ \A n \in Names : file'[n] \in Of(n)
    <3>1. file \in [Names -> Contents]
      BY <1>1, SnapshotFacts
    <3>2. /\ rvsig \in Of("RVSIG_COL") /\ Solved(file["VADAT"], rvsig) \in Of("MOD_SUM")
          /\ Solved(file["VADAT"], rvsig) \in Of("CHECKPOINT") /\ Marker(FALSE) \in Of("MARKER")
          /\ \A n \in Names : Of(n) \subseteq Contents
      BY <2>4, <2>5, Kinds
    <3> HIDE DEF Of
    <3>3. /\ DOMAIN file' = Names /\ file' = [n \in Names |-> file'[n]]
          /\ file'["RVSIG_COL"] = rvsig /\ file'["MOD_SUM"] = Solved(file["VADAT"], rvsig)
          /\ file'["CHECKPOINT"] = Solved(file["VADAT"], rvsig)
          /\ file'["MARKER"] \in {file["MARKER"], Marker(FALSE)}
          /\ file'["VADAT"] = file["VADAT"] /\ file'["STATE"] = file["STATE"]
      BY <2>3, <3>1 DEF Names
    <3>4. \A n \in Names : file'[n] \in Of(n)
      BY <1>2, <3>2, <3>3 DEF Names
    <3> QED  BY <3>2, <3>3, <3>4
  <2>7. file' \in Snapshots
    BY <2>6 DEF Snapshots
  <2>8. bundle' \in Controls \X (Structures \cup {Absent})
    BY <1>4, <2>1 DEF Run
  <2> QED  BY <1>1, <1>4, <2>2, <2>7, <2>8 DEF TypesOK, Run, history
<1>5. ASSUME NEW p \in Pages, Load(p) PROVE TypesOK'
  <2>1. file["VADAT"] \in Controls \cup {Absent}
    BY <1>1, SnapshotFacts
  <2> QED  BY <1>1, <1>5, <2>1 DEF TypesOK, Load, history
<1>6. ASSUME NEW p \in Pages, Save(p) PROVE TypesOK'
  <2>1. begun' \in 0 .. MaxOps
    BY <1>1, <1>6 DEF Save, Begin
  <2>2. CASE Fresh(p)
    <3>1. file["VADAT"] \in Controls
      BY <1>1, <1>6, <2>2, SnapshotFacts DEF Save, Fresh
    <3>2. PICK v \in Controls : op' = [pc |-> "backup", page |-> p, copy |-> Absent,
                                       old |-> file["VADAT"], new |-> v]
      BY <1>6, <2>2 DEF Save
    <3>3. op' \in Saves /\ op'.pc = "backup"
      BY <3>1, <3>2 DEF Saves
    <3> QED  BY <1>6, <2>1, <2>2, <3>3 DEF TypesOK, Save, history
  <2>3. CASE ~Fresh(p)
    <3>1. op' = op /\ page' \in [Pages -> Controls \cup {Absent}]
      BY <1>1, <1>6, <2>3 DEF Save
    <3> QED  BY <1>6, <2>1, <3>1 DEF TypesOK, Save, history
  <2> QED  BY <2>2, <2>3
<1>7. CASE WriteBackup
  <2>1. op \in Saves /\ op' = [op EXCEPT !.pc = "track", !.copy = op.old]
    BY <1>7, OpKinds DEF WriteBackup
  <2>2. op' \in Saves /\ op'.pc = "track" /\ op'.copy \in Controls
    BY <2>1 DEF Saves
  <2> QED  BY <1>7, <2>2 DEF TypesOK, WriteBackup, history
<1>8. CASE Track
  <2>1. op \in Saves /\ op' = [op EXCEPT !.pc = "replace"] /\ op.pc = "track"
    BY <1>8, OpKinds DEF Track
  <2>2. op' \in Saves /\ op'.pc = "replace" /\ op'.copy \in Controls
    BY <2>1 DEF Saves, TypesOK
  <2>3. file' \in Snapshots
    BY <1>2, <1>8, <2>1, TypesOfTracked DEF Track, Content, Names
  <2> QED  BY <1>8, <2>2, <2>3 DEF TypesOK, Track, history
<1>9. CASE Replace
  <2>1. op \in Saves /\ op' = [op EXCEPT !.pc = "finish"] /\ op.pc = "replace"
    BY <1>9, OpKinds DEF Replace
  <2>2. op' \in Saves /\ op'.pc = "finish" /\ op'.copy \in Controls /\ op.new \in Of("VADAT")
    BY <2>1, Kinds DEF Saves, TypesOK
  <2>3. file' \in Snapshots
    BY <1>2, <1>9, <2>2 DEF Replace, Content, Names
  <2> QED  BY <1>9, <2>2, <2>3 DEF TypesOK, Replace, history
<1>10. CASE SaveFails
  <2>1. page' \in [Pages -> Controls \cup {Absent}] /\ op' = Idle
    BY <1>1, <1>10 DEF SaveFails
  <2> QED  BY <1>10, <2>1 DEF TypesOK, SaveFails, history, Idle
<1>11. CASE Finish
  <2>1. op \in Saves /\ op' = [op EXCEPT !.pc = "mark"] /\ op.pc = "finish"
    BY <1>11, OpKinds DEF Finish
  <2>2. op' \in Saves /\ op'.pc = "mark" /\ op'.copy \in Controls
    BY <2>1 DEF Saves, TypesOK
  <2>3. Settled => [file["STATE"] EXCEPT ![2] = FALSE] \in Of("STATE")
    <3> SUFFICES ASSUME Settled PROVE [file["STATE"] EXCEPT ![2] = FALSE] \in Of("STATE")
      OBVIOUS
    <3>1. file["STATE"] \in Baselines
      BY <1>1, SnapshotFacts DEF Settled, Pending
    <3>2. /\ [file["STATE"] EXCEPT ![2] = FALSE] = Baseline(FALSE, file["STATE"][3], file["STATE"][4])
          /\ file["STATE"][3] \in Controls /\ file["STATE"][4] \in Structures \cup {Absent}
      BY <3>1, BaselinesParts
    <3>3. Baseline(FALSE, file["STATE"][3], file["STATE"][4]) \in Baselines
      BY <3>2, BaselineParts
    <3> QED  BY <3>2, <3>3, Kinds
  <2>4. file' \in Snapshots
    BY <1>1, <1>2, <1>11, <2>3 DEF Finish, Content, Names
  <2> QED  BY <1>11, <2>2, <2>4 DEF TypesOK, Finish, history
<1>12. CASE Mark
  <2>1. page' \in [Pages -> Controls \cup {Absent}] /\ op' = Idle /\ cut' \in BOOLEAN
    BY <1>1, <1>12 DEF Mark, TypesOK
  <2>2. file' \in Snapshots
    BY <1>1, <1>2, <1>12, Kinds DEF Mark, Content, Names, Marked
  <2> QED  BY <1>12, <2>1, <2>2 DEF TypesOK, Mark, Idle
<1>13. CASE ReviewStructure \/ ReviewInputs
  BY <1>13 DEF TypesOK, ReviewStructure, ReviewInputs, history
<1>14. CASE Apply
  <2>1. begun' \in 0 .. MaxOps /\ begun < MaxOps /\ review # NoReview
    BY <1>1, <1>14 DEF Apply, Begin
  <2>2. op' \in {Idle} \cup Updates
    <3>1. CASE AsReviewed
      <4>1. Moves \in Seq(Names) /\ Installs \in Seq(Entries)
        BY <2>1, <3>1, Prepared DEF Ready
      <4>2. op' = [pc |-> "move", todo |-> Moves, install |-> Installs, done |-> <<>>,
                   moved |-> <<>>, start |-> file]
        BY <1>14, <3>1 DEF Apply
      <4>3. <<>> \in Seq(Names) /\ <<>> \in Seq(Entries)
        OBVIOUS
      <4> QED  BY <1>1, <4>1, <4>2, <4>3 DEF Updates
    <3>2. CASE ~AsReviewed
      BY <1>14, <3>2 DEF Apply
    <3> QED  BY <3>1, <3>2
  <2>3. op'.pc \in {"idle", "move", "remove"}
    BY <2>2 DEF Idle, Updates
  <2> QED  BY <1>14, <2>1, <2>2, <2>3 DEF TypesOK, Apply, history
<1>15. CASE Move
  <2>1. op \in Updates /\ op.todo # <<>> /\ op.todo \in Seq(Names) /\ op.moved \in Seq(Entries)
    BY <1>15, OpKinds DEF Move, Updates
  <2> DEFINE n == op.todo[1]
  <2>2. n \in Names /\ Tail(op.todo) \in Seq(Names)
    BY <2>1
  <2>3. file' \in Snapshots
    BY <1>2, <1>15, <2>2, Kinds DEF Move, Content
  <2>4. (IF file[n] = Absent THEN op.moved ELSE <<<<n, file[n]>>>> \o op.moved) \in Seq(Entries)
    <3>1. CASE file[n] # Absent
      <4>1. <<n, file[n]>> \in Entries
        BY <1>2, <2>2, <3>1, Kinds DEF Entries
      <4> QED  BY <2>1, <4>1
    <3> QED  BY <2>1, <3>1
  <2>5. op' \in Updates
    BY <1>15, <2>1, <2>2, <2>4 DEF Move, Updates
  <2>6. op'.pc \in {"move", "remove"}
    BY <2>5 DEF Updates
  <2> QED  BY <1>15, <2>3, <2>5, <2>6 DEF TypesOK, Move, history
<1>16. CASE Install
  <2>1. /\ op \in Updates /\ op.install # <<>> /\ op.install \in Seq(Entries) /\ op.done \in Seq(Names)
    BY <1>16, OpKinds DEF Install, Updates
  <2> DEFINE n == op.install[1][1]
  <2>2. op.install[1] \in Entries /\ Tail(op.install) \in Seq(Entries)
    BY <2>1
  <2>3. n \in Names /\ op.install[1][2] \in Of(n)
    BY <2>2 DEF Entries
  <2>4. PICK written \in BOOLEAN, ok \in BOOLEAN :
            /\ IF written THEN Content(n, op.install[1][2]) ELSE UNCHANGED file
            /\ op' = [op EXCEPT !.pc = IF ok THEN "move" ELSE "remove",
                                !.install = Tail(@), !.done = Listed(n, ok)]
    BY <1>16 DEF Install
  <2>5. file' \in Snapshots
    BY <1>1, <1>2, <2>3, <2>4 DEF Content
  <2>6. Listed(n, ok) \in Seq(Names)
    BY <2>1, <2>3 DEF Listed
  <2>7. op' \in Updates
    BY <2>1, <2>2, <2>4, <2>6 DEF Updates
  <2>8. op'.pc \in {"move", "remove"}
    BY <2>7 DEF Updates
  <2> QED  BY <1>16, <2>5, <2>7, <2>8 DEF TypesOK, Install, history
<1>17. CASE Complete \/ RolledBack
  BY <1>1, <1>17 DEF TypesOK, Complete, RolledBack, Idle, history
<1>18. CASE Fail
  <2>1. op \in Updates
    BY <1>18, OpKinds DEF Fail
  <2>2. op' \in Updates /\ op'.pc = "remove"
    BY <1>18, <2>1 DEF Fail, Updates
  <2> QED  BY <1>18, <2>2 DEF TypesOK, Fail, history
<1>19. CASE Remove
  <2>1. op \in Updates /\ op.done # <<>> /\ op.done \in Seq(Names)
    BY <1>19, OpKinds DEF Remove, Updates
  <2>2. op.done[1] \in Names /\ Tail(op.done) \in Seq(Names)
    BY <2>1
  <2>3. file' \in Snapshots
    BY <1>2, <1>19, <2>2, Kinds DEF Remove, Content
  <2>4. op' \in Updates
    BY <1>19, <2>1, <2>2 DEF Remove, Updates
  <2>5. op'.pc \in {"move", "remove"}
    BY <2>4 DEF Updates
  <2> QED  BY <1>19, <2>3, <2>4, <2>5 DEF TypesOK, Remove, history
<1>20. CASE Return
  <2>1. op \in Updates /\ op.moved # <<>> /\ op.moved \in Seq(Entries)
    BY <1>20, OpKinds DEF Return, Updates
  <2>2. op.moved[1] \in Entries /\ Tail(op.moved) \in Seq(Entries)
    BY <2>1
  <2>3. file' \in Snapshots
    BY <1>2, <1>20, <2>2 DEF Return, Content, Entries
  <2>4. op' \in Updates
    BY <1>20, <2>1, <2>2 DEF Return, Updates
  <2>5. op'.pc \in {"move", "remove"}
    BY <2>4 DEF Updates
  <2> QED  BY <1>20, <2>3, <2>4, <2>5 DEF TypesOK, Return, history
<1>21. CASE Kill
  <2>1. page' \in [Pages -> Controls \cup {Absent}] /\ op' = Idle
    BY <1>21 DEF Kill
  <2> QED  BY <1>21, <2>1 DEF TypesOK, Kill, Idle
<1> QED  BY <1>3, <1>4, <1>5, <1>6, <1>7, <1>8, <1>9, <1>10, <1>11, <1>12, <1>13, <1>14, <1>15,
            <1>16, <1>17, <1>18, <1>19, <1>20, <1>21 DEF Next

-----------------------------------------------------------------------------
(* A model that was computed from its inputs satisfies the invariant.      *)

LEMMA InitInv == ASSUME Init PROVE EditInv
<1> USE EditAssumption
<1>1. PICK v \in Velocities, u \in BOOLEAN :
        LET vadat == Vadat(v, u)
            rvsig == Structure(v, 0)
        IN file = [n \in Names |-> CASE n = "VADAT" -> vadat
                                     [] n = "RVSIG_COL" -> rvsig
                                     [] n \in {"MOD_SUM", "CHECKPOINT"} -> Solved(vadat, rvsig)
                                     [] OTHER -> Absent]
  BY DEF Init
<1> DEFINE V == Vadat(v, u)
           R == Structure(v, 0)
<1>2. V \in Controls /\ V[2] = v
  BY DEF Controls, Vadat
<1>3. R \in Structures /\ R[2] = v
  BY StructureParts
<1>4. Solved(V, R) \in Solutions
  BY <1>2, <1>3 DEF Solutions
<1>5. /\ file["VADAT"] = V /\ file["RVSIG_COL"] = R /\ file["MOD_SUM"] = Solved(V, R)
      /\ file["CHECKPOINT"] = Solved(V, R) /\ file["STATE"] = Absent /\ file["MARKER"] = Absent
      /\ file = [n \in Names |-> file[n]]
  <2> HIDE DEF Init
  <2> QED  BY <1>1 DEF Names
<1> HIDE DEF V, R
<1>6. file \in Snapshots
  <2>1. \A n \in Names : file[n] \in Of(n) /\ file[n] \in Contents
    BY <1>2, <1>3, <1>4, <1>5, Kinds DEF Names
  <2> QED  BY <1>5, <2>1 DEF Snapshots
<1>7. /\ bundle = <<V, R>> /\ page = [p \in Pages |-> Absent] /\ review = NoReview /\ op = Idle
      /\ begun = 0 /\ lost = FALSE /\ outside = FALSE /\ raced = FALSE /\ cut = FALSE
  BY <1>5 DEF Init
<1>8. bundle \in Controls \X (Structures \cup {Absent}) /\ bundle[1] = V /\ bundle[2] = R
  BY <1>2, <1>3, <1>7
<1>9. op.pc = "idle"
  BY <1>7 DEF Idle
<1>10. TypesOK
  <2>1. page \in [Pages -> Controls \cup {Absent}] /\ begun \in 0 .. MaxOps
    BY <1>7
  <2> QED  BY <1>6, <1>7, <1>8, <1>9, <2>1 DEF TypesOK
<1>11. Tracks
  <2>1. Consistent(V, R)
    BY <1>2, <1>3 DEF Consistent
  <2>2. Sound(file) /\ BaselineSound(file) /\ MarkedStale(file)
    BY <1>5, <2>1 DEF Sound, BaselineSound, Pending, MarkedStale, Stale
  <2> QED  BY <1>8, <1>9, <2>1, <2>2 DEF Tracks
<1> QED  BY <1>7, <1>9, <1>10, <1>11
         DEF EditInv, ReviewOK, SavesSeen, Restorable, StructureFirst, MarkerLast

-----------------------------------------------------------------------------
(* A review is of the model as it was, and of what is right for it.        *)

LEMMA Upwards ==
    ASSUME NEW a \in Nat, NEW b \in Nat, a <= b
    PROVE  a + 1 \in 0 .. b + 1 /\ \A n \in 0 .. a + 1 : n \in 0 .. b + 1
  OBVIOUS

\* What most steps do to a review, and to what is known outside.
LEMMA BegunStep ==
    ASSUME TypesOK, Next
    PROVE  /\ begun \in Nat /\ begun' \in Nat /\ begun <= begun' /\ (~outside' => ~outside)
           /\ (~raced' => ~raced) /\ (~cut' => ~cut)
           /\ review' = review \/ ReviewStructure \/ ReviewInputs \/ review' = NoReview
           /\ begun + 1 \in 0 .. begun' + 1 /\ \A n \in 0 .. begun + 1 : n \in 0 .. begun' + 1
<1>1. begun \in 0 .. MaxOps /\ MaxOps \in Nat
  BY EditAssumption DEF TypesOK
<1>2. begun' = begun \/ begun' = begun + 1
  BY DEF Next, EditOutside, Run, Load, Save, WriteBackup, Track, Replace, SaveFails, Finish, Mark,
         ReviewStructure, ReviewInputs, Apply, Move, Install, Complete, Fail, Remove, Return,
         RolledBack, Kill, Begin, history
<1>3. /\ outside' = outside \/ outside' = TRUE
      /\ raced' = raced \/ raced' = (raced \/ op.pc # "idle")
      /\ cut' = cut \/ cut' = TRUE
  BY Zenon DEF Next, EditOutside, Run, Load, Save, WriteBackup, Track, Replace, SaveFails, Finish, Mark,
         ReviewStructure, ReviewInputs, Apply, Move, Install, Complete, Fail, Remove, Return,
         RolledBack, Kill, Begin, history
<1>4. review' = review \/ ReviewStructure \/ ReviewInputs \/ review' = NoReview
  BY DEF Next, EditOutside, Run, Load, Save, WriteBackup, Track, Replace, SaveFails, Finish, Mark,
         Apply, Move, Install, Complete, Fail, Remove, Return, RolledBack, Kill
<1>5. begun \in Nat /\ begun' \in Nat /\ begun <= begun'
  BY <1>1, <1>2
<1>6. begun + 1 \in 0 .. begun' + 1 /\ \A n \in 0 .. begun + 1 : n \in 0 .. begun' + 1
  BY <1>5, Upwards
<1>7. (~outside' => ~outside) /\ (~raced' => ~raced) /\ (~cut' => ~cut)
  <2>2. ASSUME raced' = (raced \/ op.pc # "idle") PROVE ~raced' => ~raced
    BY <2>2, Zenon
  <2>3. ASSUME raced' = raced PROVE ~raced' => ~raced
    BY <2>3, Zenon
  <2>4. ASSUME cut' = cut PROVE ~cut' => ~cut
    BY <2>4, Zenon
  <2>5. ASSUME outside' = outside PROVE ~outside' => ~outside
    BY <2>5, Zenon
  <2> QED  BY <1>3, <2>2, <2>3, <2>4, <2>5
<1> QED  BY <1>4, <1>5, <1>6, <1>7

LEMMA ReviewStep == ASSUME EditInv, Next PROVE ReviewOK'
<1>1. TypesOK /\ ReviewOK /\ Tracks /\ file \in Snapshots
  BY DEF EditInv, TypesOK
<1>2. /\ begun \in Nat /\ (~outside' => ~outside)
      /\ begun + 1 \in 0 .. begun' + 1 /\ \A n \in 0 .. begun + 1 : n \in 0 .. begun' + 1
  BY <1>1, BegunStep
<1>3. ASSUME review' = review PROVE ReviewOK'
  <2>1. ASSUME StructureReviewed PROVE StructureReviewed'
    <3>1. PICK v \in Velocities, n \in 0 .. begun + 1, radii \in BOOLEAN, seen \in Snapshots :
            /\ review = [kind |-> "structure", seen |-> seen, install |->
                            <<<<"RVSIG_COL", Structure(v, n)>>>> \o
                            (IF radii THEN <<<<"VADAT", seen["VADAT"]>>>> ELSE <<>>)]
            /\ Uses(seen["VADAT"])
            /\ ~outside => Consistent(seen["VADAT"], Structure(v, n))
      BY <2>1 DEF StructureReviewed
    <3>2. n \in 0 .. begun' + 1
      BY <1>2
    <3>3. ~outside' => Consistent(seen["VADAT"], Structure(v, n))
      BY <1>2, <3>1
    <3> QED  BY <1>3, <3>1, <3>2, <3>3 DEF StructureReviewed
  <2>2. ASSUME InputsReviewed PROVE InputsReviewed'
    <3>1. PICK v \in Controls, r \in Structures \cup {Absent}, seen \in Snapshots :
            /\ review = [kind |-> "inputs", seen |-> seen, install |->
                            (IF r = Absent THEN <<>> ELSE <<<<"RVSIG_COL", r>>>>) \o <<<<"VADAT", v>>>>]
            /\ ~outside => Consistent(v, r)
      BY <2>2 DEF InputsReviewed
    <3>2. ~outside' => Consistent(v, r)
      BY <1>2, <3>1
    <3> QED  BY <1>3, <3>1, <3>2 DEF InputsReviewed
  <2> QED  BY <1>1, <1>3, <2>1, <2>2 DEF ReviewOK
<1>4. ASSUME ReviewStructure PROVE StructureReviewed'
  <2>1. PICK v \in Velocities, radii \in BOOLEAN :
            /\ NewStructure(v)
            /\ review' = [kind |-> "structure", seen |-> file, install |->
                            <<<<"RVSIG_COL", Structure(v, begun + 1)>>>> \o
                            (IF radii THEN <<<<"VADAT", file["VADAT"]>>>> ELSE <<>>)]
    BY <1>4 DEF ReviewStructure
  <2>2. begun + 1 \in 0 .. begun' + 1 /\ begun + 1 \in Nat
    BY <1>2
  <2>3. Structure(v, begun + 1)[2] = v
    BY <2>2, StructureParts
  <2>4. outside' = outside
    BY <1>4 DEF ReviewStructure, history
  <2>5. ASSUME ~outside PROVE Consistent(file["VADAT"], Structure(v, begun + 1))
    <3>1. v = file["VADAT"][2] \/ (~Required(file) /\ file["RVSIG_COL"] # Absent /\ v = file["RVSIG_COL"][2])
      BY <2>1 DEF NewStructure
    <3>2. Sound(file) /\ Uses(file["VADAT"])
      BY <1>1, <2>1, <2>5 DEF Tracks, NewStructure
    <3>3. v = file["VADAT"][2]
      BY <3>1, <3>2 DEF Sound, Consistent
    <3> QED  BY <2>3, <3>3 DEF Consistent
  <2>6. Uses(file["VADAT"])
    BY <2>1 DEF NewStructure
  <2> QED  BY <1>1, <2>1, <2>2, <2>4, <2>5, <2>6 DEF StructureReviewed
<1>5. ASSUME ReviewInputs PROVE InputsReviewed'
  <2>1. /\ review' = [kind |-> "inputs", seen |-> file, install |->
                        (IF bundle[2] = Absent THEN <<>> ELSE <<<<"RVSIG_COL", bundle[2]>>>>)
                        \o <<<<"VADAT", bundle[1]>>>>]
        /\ outside' = outside
    BY <1>5 DEF ReviewInputs, history
  <2>2. bundle[1] \in Controls /\ bundle[2] \in Structures \cup {Absent}
    BY <1>1 DEF TypesOK
  <2>3. ~outside => Consistent(bundle[1], bundle[2])
    BY <1>1 DEF Tracks
  <2> QED  BY <1>1, <2>1, <2>2, <2>3 DEF InputsReviewed
<1>6. review' = review \/ ReviewStructure \/ ReviewInputs \/ review' = NoReview
  BY <1>1, BegunStep
<1> QED  BY <1>3, <1>4, <1>5, <1>6 DEF ReviewOK, NoReview

-----------------------------------------------------------------------------
(* A save works on what its page has seen.                                 *)

LEMMA SavesStep == ASSUME TypesOK, SavesSeen, Next PROVE SavesSeen'
<1> DEFINE Seen == /\ file["VADAT"] = op.old /\ page[op.page] = op.old
                   /\ op.pc # "backup" => op.copy = op.old
           Saving == op.pc \in {"backup", "track", "replace"}
<1>1. file \in Snapshots /\ DOMAIN file = Names /\ "VADAT" \in Names /\ "STATE" \in Names
  BY SnapshotFacts DEF TypesOK, Names
<1>2. (lost => raced) /\ (Saving /\ ~raced => Seen)
  BY DEF SavesSeen
<1>3. CASE op'.pc \notin {"backup", "track", "replace"} /\ lost' = lost
  BY <1>2, <1>3, BegunStep DEF SavesSeen
<1>4. CASE EditOutside
  <2>1. raced' = (raced \/ op.pc # "idle") /\ op' = op /\ lost' = lost
    BY <1>4 DEF EditOutside
  <2> QED  BY <1>2, <2>1 DEF SavesSeen
<1>5. ASSUME NEW p \in Pages, Save(p) PROVE SavesSeen'
  <2>1. op.pc = "idle" /\ lost' = lost /\ raced' = raced /\ file' = file
    BY <1>5 DEF Save, Begin, history
  <2>2. CASE Fresh(p)
    <3>1. /\ page' = page /\ op'.pc = "backup" /\ op'.page = p /\ op'.old = file["VADAT"]
      BY <1>5, <2>2 DEF Save
    <3> QED  BY <1>2, <2>1, <2>2, <3>1 DEF SavesSeen, Fresh
  <2>3. CASE ~Fresh(p)
    BY <1>2, <1>5, <2>1, <2>3 DEF SavesSeen, Save
  <2> QED  BY <2>2, <2>3
<1>6. CASE WriteBackup
  <2>1. op \in Saves /\ op' = [op EXCEPT !.pc = "track", !.copy = op.old] /\ op.pc = "backup"
    BY <1>6, OpKinds DEF WriteBackup
  <2>2. op'.pc = "track" /\ op'.copy = op.old /\ op'.old = op.old /\ op'.page = op.page
    BY <2>1 DEF Saves
  <2>3. file' = file /\ page' = page /\ lost' = lost /\ raced' = raced
    BY <1>6 DEF WriteBackup, history
  <2> QED  BY <1>2, <2>1, <2>2, <2>3 DEF SavesSeen
<1>7. CASE Track
  <2>1. op \in Saves /\ op' = [op EXCEPT !.pc = "replace"] /\ op.pc = "track"
    BY <1>7, OpKinds DEF Track
  <2>2. op'.pc = "replace" /\ op'.copy = op.copy /\ op'.old = op.old /\ op'.page = op.page
    BY <2>1 DEF Saves
  <2>3. file'["VADAT"] = file["VADAT"] /\ page' = page /\ lost' = lost /\ raced' = raced
    BY <1>1, <1>7 DEF Track, Content, history
  <2> QED  BY <1>2, <2>1, <2>2, <2>3 DEF SavesSeen
<1>8. CASE Replace
  <2>1. op \in Saves /\ op' = [op EXCEPT !.pc = "finish"] /\ op.pc = "replace"
    BY <1>8, OpKinds DEF Replace
  <2>2. op'.pc = "finish"
    BY <2>1 DEF Saves
  <2>3. /\ lost' = (lost \/ file["VADAT"] # page[op.page] \/ file["VADAT"] # op.copy)
        /\ raced' = raced
    BY <1>8 DEF Replace
  <2> QED  BY <1>2, <2>1, <2>2, <2>3 DEF SavesSeen
<1>9. CASE Run \/ (\E p \in Pages : Load(p)) \/ ReviewStructure \/ ReviewInputs
  <2>1. op.pc = "idle" /\ op' = op /\ lost' = lost
    BY <1>9 DEF Run, Begin, Load, ReviewStructure, ReviewInputs, history
  <2> QED  BY <1>3, <2>1
<1>10. CASE SaveFails \/ Mark \/ Complete \/ RolledBack \/ Kill
  <2>1. op' = Idle /\ lost' = lost
    BY <1>10 DEF SaveFails, Mark, Complete, RolledBack, Kill, history
  <2> QED  BY <1>3, <2>1 DEF Idle
<1>11. CASE Finish
  <2>1. op'.pc = "mark" /\ lost' = lost
    BY <1>11, OpKinds DEF Finish, Saves, history
  <2> QED  BY <1>3, <2>1
<1>12. CASE Apply
  <2>1. (op' = Idle \/ op'.pc = "move") /\ lost' = lost
    BY <1>12 DEF Apply, history
  <2> QED  BY <1>3, <2>1 DEF Idle
<1>13. CASE Move \/ Install \/ Fail \/ Remove \/ Return
  <2>1. op \in Updates
    BY <1>13, OpKinds DEF Move, Install, Fail, Remove, Return
  <2>2. op'.pc \in {"move", "remove"} /\ lost' = lost
    BY <1>13, <2>1 DEF Move, Install, Fail, Remove, Return, Updates, history
  <2> QED  BY <1>3, <2>2
<1> QED  BY <1>4, <1>5, <1>6, <1>7, <1>8, <1>9, <1>10, <1>11, <1>12, <1>13 DEF Next

-----------------------------------------------------------------------------
(* A structure that is wrong is known to be.                               *)

LEMMA SoundFacts ==
    ASSUME NEW f
    PROVE  /\ f["VADAT"] = Absent \/ f["RVSIG_COL"] = Absent => Sound(f)
           /\ Consistent(f["VADAT"], f["RVSIG_COL"]) => Sound(f)
           /\ Sound(f) /\ ~Required(f) => Consistent(f["VADAT"], f["RVSIG_COL"])
           /\ f["STATE"] = Absent \/ ~Pending(f) => ~Required(f) /\ BaselineSound(f)
  BY AbsentParts DEF Sound, Consistent, Required, Pending, BaselineSound

LEMMA SoundSame ==
    ASSUME NEW f, NEW g, g["VADAT"] = f["VADAT"], g["RVSIG_COL"] = f["RVSIG_COL"],
           g["STATE"] = f["STATE"]
    PROVE  (Sound(g) <=> Sound(f)) /\ (BaselineSound(g) <=> BaselineSound(f))
  BY DEF Sound, Required, Pending, Changes, BaselineSound

LEMMA StaleSame ==
    ASSUME NEW f, NEW g, g["VADAT"] = f["VADAT"], g["RVSIG_COL"] = f["RVSIG_COL"],
           g["MOD_SUM"] = f["MOD_SUM"], g["MARKER"] = f["MARKER"]
    PROVE  MarkedStale(g) <=> MarkedStale(f)
  BY DEF MarkedStale, Stale, Modified

LEMMA Replaced ==
    ASSUME NEW f \in Snapshots, NEW n \in Names, NEW c
    PROVE  \A m \in Names : [f EXCEPT ![n] = c][m] = IF m = n THEN c ELSE f[m]
  BY SnapshotFacts

\* An operation that has begun: what it has moved and installed.
LEMMA Updating ==
    ASSUME EditInv, op.pc \in {"move", "remove"}, ~outside
    PROVE  /\ op \in Updates /\ ~raced /\ Restorable /\ StructureFirst /\ MarkerLast
           /\ file \in Snapshots /\ op.start \in Snapshots
           /\ \A i \in DOMAIN op.moved :
                /\ op.moved[i][1] \in Names /\ op.moved[i][2] # Absent
                /\ op.moved[i][2] = op.start[op.moved[i][1]]
           /\ op.start["RVSIG_COL"] = Absent \/ "RVSIG_COL" \in Moved
                => "RVSIG_COL" \in Written \/ file["RVSIG_COL"] = Absent
<1>1. TypesOK /\ op \in Updates /\ ~raced /\ Restorable /\ StructureFirst /\ MarkerLast
  BY OpKinds DEF EditInv, TypesOK
<1>2. file \in Snapshots /\ op.start \in Snapshots /\ op.moved \in Seq(Entries)
  BY <1>1 DEF TypesOK, Updates
<1>3. \A i \in DOMAIN op.moved : op.moved[i] \in Entries
  BY <1>2
<1>4. \A i \in DOMAIN op.moved : op.moved[i][1] \in Names /\ op.moved[i][2] # Absent
  BY <1>3 DEF Entries
<1>5. \A i \in DOMAIN op.moved : op.moved[i][2] = op.start[op.moved[i][1]]
  BY <1>1 DEF Restorable
<1>6. op.start["RVSIG_COL"] = Absent \/ "RVSIG_COL" \in Moved
        => "RVSIG_COL" \in Written \/ file["RVSIG_COL"] = Absent
  BY <1>1 DEF Restorable, Names
<1> QED  BY <1>1, <1>2, <1>4, <1>5, <1>6

LEMMA NothingLeft == Range(<<>>) = {}
  BY DEF Range

LEMMA TracksStep == ASSUME EditInv, Next PROVE Tracks'
<1> SUFFICES ASSUME ~outside' PROVE Tracks'
  BY DEF Tracks
<1>1. /\ TypesOK /\ Tracks /\ ~outside /\ ~raced /\ file \in Snapshots
      /\ file["VADAT"] \in Controls \cup {Absent} /\ file["RVSIG_COL"] \in Structures \cup {Absent}
  BY BegunStep, SnapshotFacts DEF EditInv, TypesOK
<1>2. /\ Sound(file) /\ BaselineSound(file) /\ Consistent(bundle[1], bundle[2])
      /\ op.pc = "replace" /\ Relevant => Pending(file)
      /\ op.pc \in {"idle", "backup", "track", "replace"} /\ ~cut => MarkedStale(file)
  BY <1>1 DEF Tracks
<1>3. \A n \in Names, m \in Names : \A c : [file EXCEPT ![n] = c][m] = IF m = n THEN c ELSE file[m]
  BY <1>1, Replaced
<1>4. /\ "VADAT" \in Names /\ "RVSIG_COL" \in Names /\ "STATE" \in Names /\ "MARKER" \in Names
      /\ "MOD_SUM" \in Names /\ "CHECKPOINT" \in Names
  BY DEF Names
<1>5. CASE EditOutside
  BY <1>5 DEF EditOutside
<1>6. CASE Run
  <2>1. PICK rvsig \in {file["RVSIG_COL"]} \cup
            (IF Uses(file["VADAT"]) THEN {Structure(file["VADAT"][2], begun')} ELSE {}) :
            file' = [file EXCEPT !["RVSIG_COL"] = rvsig,
                        !["MOD_SUM"] = Solved(file["VADAT"], rvsig),
                        !["CHECKPOINT"] = Solved(file["VADAT"], rvsig),
                        !["MARKER"] = IF @ = Absent THEN @ ELSE Marker(FALSE)]
    BY <1>6 DEF Run
  <2>2. DOMAIN file = Names
    BY <1>1, SnapshotFacts
  <2>3. /\ file'["VADAT"] = file["VADAT"] /\ file'["RVSIG_COL"] = rvsig
        /\ file'["MOD_SUM"] = Solved(file["VADAT"], rvsig) /\ file'["STATE"] = file["STATE"]
    BY <1>4, <2>1, <2>2
  <2>4. /\ file["VADAT"] \in Controls /\ ~Required(file)
        /\ bundle' = <<file["VADAT"], file["RVSIG_COL"]>> /\ op' = op /\ op.pc = "idle"
    BY <1>1, <1>6 DEF Run, Begin
  <2>5. Consistent(file["VADAT"], file["RVSIG_COL"])
    BY <1>2, <2>4, SoundFacts
  <2>6. begun' \in Nat /\ file["VADAT"][2] \in Velocities
    BY <1>1, <2>4, BegunStep, ControlParts
  <2>7. Consistent(file["VADAT"], rvsig)
    BY <2>1, <2>5, <2>6, StructureParts DEF Consistent
  <2>8. Sound(file')
    BY <2>3, <2>7, SoundFacts
  <2>9. BaselineSound(file')
    BY <1>2, <2>3 DEF BaselineSound, Pending
  <2>10. MarkedStale(file')
    BY <2>3 DEF MarkedStale, Stale
  <2> QED  BY <2>4, <2>5, <2>8, <2>9, <2>10 DEF Tracks
<1>7. CASE (\E p \in Pages : Load(p) \/ Save(p)) \/ ReviewStructure \/ ReviewInputs \/ Apply
  <2>1. /\ file' = file /\ bundle' = bundle /\ cut' = cut /\ op.pc = "idle"
        /\ op' = op \/ op'.pc = "backup" \/ op' = Idle \/ op'.pc = "move"
    BY <1>7 DEF Load, Save, ReviewStructure, ReviewInputs, Apply, Begin, history
  <2>2. op'.pc # "replace"
    BY <2>1 DEF Idle
  <2> QED  BY <1>2, <2>1, <2>2 DEF Tracks
<1>8. CASE WriteBackup
  <2>1. /\ file' = file /\ bundle' = bundle /\ cut' = cut /\ op.pc = "backup" /\ op'.pc = "track"
    BY <1>1, <1>8, OpKinds DEF WriteBackup, history, Saves
  <2> QED  BY <1>2, <2>1 DEF Tracks
<1>9. CASE Track
  <2>1. op \in Saves /\ op' = [op EXCEPT !.pc = "replace"] /\ op.pc = "track"
    BY <1>1, <1>9, OpKinds DEF Track
  <2>2. op'.pc = "replace" /\ op'.old = op.old /\ op'.new = op.new
    BY <2>1 DEF Saves
  <2>3. file["VADAT"] = op.old
    BY <1>1, <2>1 DEF EditInv, SavesSeen
  <2>4. file' = [file EXCEPT !["STATE"] = Tracked] /\ bundle' = bundle /\ cut' = cut
    BY <1>9 DEF Track, Content, history
  <2>5. /\ file'["VADAT"] = file["VADAT"] /\ file'["RVSIG_COL"] = file["RVSIG_COL"]
        /\ file'["MOD_SUM"] = file["MOD_SUM"] /\ file'["MARKER"] = file["MARKER"]
        /\ file'["STATE"] = Tracked
    BY <1>3, <1>4, <2>4
  <2>6. MarkedStale(file') <=> MarkedStale(file)
    BY <2>5, StaleSame
  <2>7. CASE Relevant /\ ~Pending(file)
    <3> DEFINE B == Baseline(TRUE, op.old, file["RVSIG_COL"])
    <3>1. file'["STATE"] = B
      BY <2>5, <2>7 DEF Tracked
    <3>2. Consistent(file["VADAT"], file["RVSIG_COL"])
      BY <1>2, <2>7, SoundFacts
    <3>3. op.old \in Controls
      BY <2>1 DEF Saves
    <3>4. B # Absent /\ B[2] = TRUE /\ B[3] = op.old /\ B[4] = file["RVSIG_COL"]
      BY <1>1, <3>3, PendingParts
    <3> HIDE DEF B
    <3>5. Pending(file') /\ BaselineSound(file')
      BY <2>3, <3>1, <3>2, <3>4 DEF Pending, BaselineSound
    <3>6. Sound(file')
      BY <2>5, <3>2, SoundFacts
    <3> QED  BY <1>2, <2>1, <2>2, <2>4, <2>6, <3>5, <3>6 DEF Tracks
  <2>8. CASE ~(Relevant /\ ~Pending(file))
    <3>1. file'["STATE"] = file["STATE"]
      BY <2>5, <2>8 DEF Tracked
    <3>2. Sound(file') /\ BaselineSound(file')
      BY <1>2, <2>5, <3>1, SoundSame
    <3>3. Relevant' => Relevant
      BY <2>2 DEF Relevant
    <3>4. Relevant' => Pending(file')
      BY <2>8, <3>1, <3>3 DEF Pending
    <3> QED  BY <1>2, <2>1, <2>2, <2>4, <2>6, <3>2, <3>4 DEF Tracks
  <2> QED  BY <2>7, <2>8
<1>10. CASE Replace
  <2>1. op \in Saves /\ op' = [op EXCEPT !.pc = "finish"] /\ op.pc = "replace"
    BY <1>1, <1>10, OpKinds DEF Replace
  <2>2. op'.pc = "finish" /\ file' = [file EXCEPT !["VADAT"] = op.new] /\ bundle' = bundle
    BY <1>10, <2>1 DEF Saves, Replace, Content
  <2>3. /\ file'["VADAT"] = op.new /\ file'["RVSIG_COL"] = file["RVSIG_COL"]
        /\ file'["STATE"] = file["STATE"]
    BY <1>3, <1>4, <2>2
  <2>4. BaselineSound(file')
    BY <1>2, <2>3 DEF BaselineSound, Pending
  <2>5. Sound(file')
    <3>1. CASE ~Uses(op.new)
      BY <2>3, <3>1, SoundFacts DEF Consistent
    <3>2. CASE Uses(op.new)
      <4>1. Pending(file')
        BY <1>2, <2>1, <2>3, <3>2 DEF Relevant, Pending
      <4>2. CASE file'["STATE"][3] = op.new /\ file'["STATE"][4] = file["RVSIG_COL"]
        BY <2>3, <2>4, <4>1, <4>2, SoundFacts DEF BaselineSound
      <4>3. CASE ~(file'["STATE"][3] = op.new /\ file'["STATE"][4] = file["RVSIG_COL"])
        BY <2>3, <3>2, <4>1, <4>3 DEF Sound, Required, Changes
      <4> QED  BY <4>2, <4>3
    <3> QED  BY <3>1, <3>2
  <2> QED  BY <1>2, <2>2, <2>4, <2>5 DEF Tracks
<1>11. CASE SaveFails
  <2>1. /\ file' = file /\ bundle' = bundle /\ cut' = cut /\ op' = Idle
        /\ op.pc \in {"backup", "track", "replace"}
    BY <1>11 DEF SaveFails, history
  <2> QED  BY <1>2, <2>1 DEF Tracks, Idle
<1>12. CASE Finish
  <2>1. op'.pc = "mark" /\ bundle' = bundle
    BY <1>1, <1>12, OpKinds DEF Finish, Saves
  <2>2. CASE file' = file
    BY <1>2, <2>1, <2>2 DEF Tracks
  <2>3. CASE Settled /\ file' = [file EXCEPT !["STATE"] = [file["STATE"] EXCEPT ![2] = FALSE]]
    <3>1. /\ file'["VADAT"] = file["VADAT"] /\ file'["RVSIG_COL"] = file["RVSIG_COL"]
          /\ file'["STATE"] = [file["STATE"] EXCEPT ![2] = FALSE]
      <4> DEFINE c == [file["STATE"] EXCEPT ![2] = FALSE]
      <4>1. file' = [file EXCEPT !["STATE"] = c]
        BY <2>3
      <4> HIDE DEF c
      <4>2. /\ file'["VADAT"] = file["VADAT"] /\ file'["RVSIG_COL"] = file["RVSIG_COL"]
            /\ file'["STATE"] = c
        BY <1>3, <1>4, <4>1
      <4> QED  BY <4>2 DEF c
    <3>2. file["STATE"] \in Baselines
      BY <1>1, <2>3, SnapshotFacts DEF Settled, Pending
    <3>3. /\ file["STATE"][3] \in Controls /\ file["STATE"][4] \in Structures \cup {Absent}
          /\ [file["STATE"] EXCEPT ![2] = FALSE] = Baseline(FALSE, file["STATE"][3], file["STATE"][4])
      BY <3>2, BaselinesParts
    <3>4. file'["STATE"][2] = FALSE
      BY <3>1, <3>3, SettledParts
    <3>5. ~Pending(file')
      BY <3>4 DEF Pending
    <3>6. Consistent(file["VADAT"], file["RVSIG_COL"])
      BY <1>2, <2>3, SoundFacts DEF Settled
    <3>7. Sound(file') /\ BaselineSound(file')
      BY <3>1, <3>5, <3>6, SoundFacts
    <3> QED  BY <1>2, <2>1, <3>7 DEF Tracks
  <2>4. CASE ~Settled /\ file' = [file EXCEPT !["STATE"] = file["STATE"]]
    <3>1. /\ file'["VADAT"] = file["VADAT"] /\ file'["RVSIG_COL"] = file["RVSIG_COL"]
          /\ file'["STATE"] = file["STATE"]
      BY <1>3, <1>4, <2>4
    <3>2. Sound(file') /\ BaselineSound(file')
      BY <1>2, <3>1, SoundSame
    <3> QED  BY <1>2, <2>1, <3>2 DEF Tracks
  <2> QED  BY <1>12, <2>2, <2>3, <2>4 DEF Finish, Content
<1>13. CASE Mark
  <2>1. op' = Idle /\ bundle' = bundle
    BY <1>13 DEF Mark
  <2>2. CASE file' = file /\ cut' = TRUE
    BY <1>2, <2>1, <2>2 DEF Tracks, Idle
  <2>3. CASE file' = [file EXCEPT !["MARKER"] = Marker(TRUE)]
    <3>1. /\ file'["VADAT"] = file["VADAT"] /\ file'["RVSIG_COL"] = file["RVSIG_COL"]
          /\ file'["STATE"] = file["STATE"] /\ file'["MARKER"] = Marker(TRUE)
      <4> DEFINE c == Marker(TRUE)
      <4>1. file' = [file EXCEPT !["MARKER"] = c]
        BY <2>3
      <4> HIDE DEF c
      <4>2. /\ file'["VADAT"] = file["VADAT"] /\ file'["RVSIG_COL"] = file["RVSIG_COL"]
            /\ file'["STATE"] = file["STATE"] /\ file'["MARKER"] = c
        BY <1>3, <1>4, <4>1
      <4> QED  BY <4>2 DEF c
    <3>2. Sound(file') /\ BaselineSound(file')
      BY <1>2, <3>1, SoundSame
    <3>3. MarkedStale(file')
      BY <3>1, MarkerParts DEF MarkedStale, Modified
    <3> QED  BY <1>2, <2>1, <3>2, <3>3 DEF Tracks, Idle
  <2> QED  BY <1>13, <2>2, <2>3 DEF Mark, Content, Marked
<1>14. CASE Move
  <2>1. op.pc = "move" /\ op.todo # <<>> /\ op \in Updates
    BY <1>1, <1>14, OpKinds DEF Move
  <2> DEFINE n == op.todo[1]
  <2>2. n \in Names /\ op.todo \in Seq(Names) /\ 1 \in DOMAIN op.todo /\ DOMAIN op.todo = 1 .. Len(op.todo)
    BY <2>1, Rest DEF Updates
  <2>3. op'.pc = "move" /\ file' = [file EXCEPT ![n] = Absent] /\ bundle' = bundle
    BY <1>14, <2>1 DEF Move, Content, Updates
  <2>4. \A m \in Names : file'[m] = IF m = n THEN Absent ELSE file[m]
    <3>1. n \in Names /\ file' = [file EXCEPT ![n] = Absent]
      BY <2>2, <2>3
    <3> HIDE DEF n
    <3> QED  BY <1>3, <3>1
  <2>5. Sound(file') /\ BaselineSound(file')
    <3>1. CASE n = "VADAT" \/ n = "RVSIG_COL"
      <4>1. Sound(file')
        BY <1>4, <2>4, <3>1, SoundFacts
      <4>2. file'["STATE"] = file["STATE"]
        BY <1>4, <2>4, <3>1
      <4> QED  BY <1>2, <4>1, <4>2 DEF BaselineSound, Pending
    <3>2. CASE n = "STATE"
      <4>1. file["RVSIG_COL"] = Absent \/ \E k \in DOMAIN op.todo : k < 1 /\ op.todo[k] = "RVSIG_COL"
        BY <1>1, <2>1, <2>2, <3>2 DEF EditInv, StructureFirst, GoesFirst
      <4>2. file["RVSIG_COL"] = Absent
        BY <2>2, <4>1
      <4>3. file'["RVSIG_COL"] = Absent /\ file'["STATE"] = Absent
        BY <1>4, <2>4, <3>2, <4>2
      <4> QED  BY <4>3, SoundFacts
    <3>3. CASE n \notin {"VADAT", "RVSIG_COL", "STATE"}
      BY <1>2, <1>4, <2>4, <3>3, SoundSame
    <3> QED  BY <3>1, <3>2, <3>3
  <2> QED  BY <1>2, <2>3, <2>5 DEF Tracks
<1>15. CASE Install
  <2>1. op.pc = "move" /\ op.todo = <<>> /\ op.install # <<>> /\ op \in Updates
    BY <1>1, <1>15, OpKinds DEF Install
  <2> DEFINE n == op.install[1][1]
             c == op.install[1][2]
  <2>2. 1 \in DOMAIN op.install /\ op.install[1] \in Entries
    BY <2>1, Rest DEF Updates
  <2>3. n \in Names
    BY <2>2 DEF Entries
  <2>4. op'.pc \in {"move", "remove"} /\ bundle' = bundle
    BY <1>15, <2>1 DEF Install, Updates
  <2>5. file' = [file EXCEPT ![n] = c] \/ file' = file
    BY <1>15 DEF Install, Content
  <2>6. CASE file' = file
    BY <1>2, <2>4, <2>6 DEF Tracks
  <2>7. CASE file' = [file EXCEPT ![n] = c]
    <3>1. \A m \in Names : file'[m] = IF m = n THEN c ELSE file[m]
      BY <1>3, <2>3, <2>7
    <3>2. StructureFits /\ ControlsFit /\ BaselineFits
      BY <1>1, <2>1 DEF EditInv, StructureFirst
    <3>3. Sound(file') /\ BaselineSound(file')
      <4>1. CASE n = "RVSIG_COL"
        <5>1. Consistent(file["VADAT"], c)
          BY <2>1, <2>2, <3>2, <4>1, NothingLeft DEF StructureFits
        <5>2. file'["VADAT"] = file["VADAT"] /\ file'["RVSIG_COL"] = c /\ file'["STATE"] = file["STATE"]
          BY <1>4, <3>1, <4>1
        <5> QED  BY <1>2, <5>1, <5>2, SoundFacts DEF BaselineSound, Pending
      <4>2. CASE n = "VADAT"
        <5>1. Consistent(c, file["RVSIG_COL"])
          BY <2>1, <2>2, <3>2, <4>2, NothingLeft DEF ControlsFit
        <5>2. /\ file'["VADAT"] = c /\ file'["RVSIG_COL"] = file["RVSIG_COL"]
              /\ file'["STATE"] = file["STATE"]
          BY <1>4, <3>1, <4>2
        <5> QED  BY <1>2, <5>1, <5>2, SoundFacts DEF BaselineSound, Pending
      <4>3. CASE n = "STATE"
        <5>1. file["STATE"] = Absent /\ c[2] = FALSE
          BY <2>1, <2>2, <3>2, <4>3, NothingLeft DEF BaselineFits
        <5>2. Consistent(file["VADAT"], file["RVSIG_COL"])
          BY <1>2, <5>1, SoundFacts
        <5>3. /\ file'["VADAT"] = file["VADAT"] /\ file'["RVSIG_COL"] = file["RVSIG_COL"]
              /\ file'["STATE"] = c
          BY <1>4, <3>1, <4>3
        <5>4. ~Pending(file')
          BY <5>1, <5>3 DEF Pending
        <5> QED  BY <5>2, <5>3, <5>4, SoundFacts
      <4>4. CASE n \notin {"VADAT", "RVSIG_COL", "STATE"}
        BY <1>2, <1>4, <3>1, <4>4, SoundSame
      <4> QED  BY <4>1, <4>2, <4>3, <4>4
    <3> QED  BY <1>2, <2>4, <3>3 DEF Tracks
  <2> QED  BY <2>5, <2>6, <2>7
<1>16. CASE Complete
  <2>1. /\ file' = file /\ bundle' = bundle /\ op' = Idle /\ op.pc = "move" /\ op.install = <<>>
    BY <1>16 DEF Complete
  <2>2. file["MARKER"] = Marker(TRUE)
    BY <1>1, <2>1 DEF EditInv, MarkerLast
  <2>3. MarkedStale(file)
    BY <2>2, MarkerParts DEF MarkedStale, Modified
  <2> QED  BY <1>2, <2>1, <2>3 DEF Tracks, Idle
<1>17. CASE Fail
  <2>1. file' = file /\ bundle' = bundle /\ op'.pc = "remove"
    BY <1>1, <1>17, OpKinds DEF Fail, Updates
  <2> QED  BY <1>2, <2>1 DEF Tracks
<1>18. CASE Remove
  <2>1. op.pc = "remove" /\ op.done # <<>> /\ op \in Updates
    BY <1>1, <1>18, OpKinds DEF Remove
  <2> DEFINE n == op.done[1]
  <2>2. n \in Names /\ n \in Written
    BY <2>1, Rest DEF Updates, Written
  <2>3. op'.pc = "remove" /\ file' = [file EXCEPT ![n] = Absent] /\ bundle' = bundle
    BY <1>18, <2>1 DEF Remove, Content, Updates
  <2>4. \A m \in Names : file'[m] = IF m = n THEN Absent ELSE file[m]
    BY <1>3, <2>2, <2>3
  <2>5. Sound(file') /\ BaselineSound(file')
    <3>1. CASE n = "VADAT" \/ n = "RVSIG_COL"
      <4>1. Sound(file')
        BY <1>4, <2>4, <3>1, SoundFacts
      <4>2. file'["STATE"] = file["STATE"]
        BY <1>4, <2>4, <3>1
      <4> QED  BY <1>2, <4>1, <4>2 DEF BaselineSound, Pending
    <3>2. CASE n = "STATE"
      <4>1. Consistent(file["VADAT"], file["RVSIG_COL"])
        BY <1>1, <2>1, <2>2, <3>2 DEF EditInv, StructureFirst
      <4>2. /\ file'["VADAT"] = file["VADAT"] /\ file'["RVSIG_COL"] = file["RVSIG_COL"]
            /\ file'["STATE"] = Absent
        BY <1>4, <2>4, <3>2
      <4> QED  BY <4>1, <4>2, SoundFacts
    <3>3. CASE n \notin {"VADAT", "RVSIG_COL", "STATE"}
      BY <1>2, <1>4, <2>4, <3>3, SoundSame
    <3> QED  BY <3>1, <3>2, <3>3
  <2> QED  BY <1>2, <2>3, <2>5 DEF Tracks
<1>19. CASE Return
  <2>1. op.pc = "remove" /\ op.done = <<>> /\ op.moved # <<>>
    BY <1>19 DEF Return
  <2> DEFINE n == op.moved[1][1]
             c == op.moved[1][2]
  <2>2. /\ op \in Updates /\ Restorable /\ StructureFirst /\ op.start \in Snapshots
        /\ \A i \in DOMAIN op.moved :
                /\ op.moved[i][1] \in Names /\ op.moved[i][2] # Absent
                /\ op.moved[i][2] = op.start[op.moved[i][1]]
        /\ op.start["RVSIG_COL"] = Absent \/ "RVSIG_COL" \in Moved
                => "RVSIG_COL" \in Written \/ file["RVSIG_COL"] = Absent
    BY <1>1, <2>1, Updating
  <2>3. /\ 1 \in DOMAIN op.moved /\ n \in Names /\ c # Absent /\ c = op.start[n]
        /\ DOMAIN op.moved = 1 .. Len(op.moved)
    BY <2>1, <2>2, Rest DEF Updates
  <2>4. Written = {}
    BY <2>1, NothingLeft DEF Written
  <2>5. /\ \A i, k \in DOMAIN op.moved : op.moved[i][1] = op.moved[k][1] => i = k
        /\ \A m \in Names \ Moved : file[m] = op.start[m]
    BY <1>1, <2>1, <2>2, <2>4 DEF Restorable
  <2>6. Sound(op.start) /\ BaselineSound(op.start) /\ ReturnsLast
    BY <1>1, <2>1, <2>2 DEF StructureFirst
  <2>7. op'.pc = "remove" /\ file' = [file EXCEPT ![n] = c] /\ bundle' = bundle
    BY <1>19, <2>1, <2>2 DEF Return, Content, Updates
  <2>8. \A m \in Names : file'[m] = IF m = n THEN c ELSE file[m]
    BY <1>3, <2>3, <2>7
  <2>9. Sound(file') /\ BaselineSound(file')
    <3>1. CASE n = "RVSIG_COL"
      <4>1. ASSUME NEW m \in {"VADAT", "STATE"} PROVE file[m] = op.start[m]
        <5>1. m \in Names
          BY <1>4
        <5>2. ASSUME m \in Moved PROVE FALSE
          <6>1. PICK i \in DOMAIN op.moved : op.moved[i][1] = m
            BY <5>2 DEF Moved
          <6>2. PICK k \in DOMAIN op.moved : k > i /\ op.moved[k][1] = "RVSIG_COL"
            BY <2>3, <2>6, <3>1, <6>1 DEF ReturnsLast
          <6>3. k = 1
            BY <2>3, <2>5, <3>1, <6>2
          <6> QED  BY <2>3, <6>2, <6>3
        <5> QED  BY <2>5, <5>1, <5>2
      <4>2. /\ file'["VADAT"] = op.start["VADAT"] /\ file'["RVSIG_COL"] = op.start["RVSIG_COL"]
            /\ file'["STATE"] = op.start["STATE"]
        BY <1>4, <2>3, <2>8, <3>1, <4>1
      <4> QED  BY <2>6, <4>2, SoundSame
    <3>2. CASE n \in {"VADAT", "STATE"}
      <4>1. op.start["RVSIG_COL"] = Absent \/ "RVSIG_COL" \in Moved
        BY <2>3, <2>6, <3>2 DEF ReturnsLast, Moved
      <4>2. file["RVSIG_COL"] = Absent
        BY <2>2, <2>4, <4>1
      <4>3. file'["RVSIG_COL"] = Absent
        BY <1>4, <2>8, <3>2, <4>2
      <4>4. file'["STATE"] = file["STATE"] \/ file'["STATE"] = op.start["STATE"]
        BY <1>4, <2>3, <2>8, <3>2
      <4>5. BaselineSound(file')
        BY <1>2, <2>6, <4>4 DEF BaselineSound, Pending
      <4> QED  BY <4>3, <4>5, SoundFacts
    <3>3. CASE n \notin {"VADAT", "RVSIG_COL", "STATE"}
      BY <1>2, <1>4, <2>8, <3>3, SoundSame
    <3> QED  BY <3>1, <3>2, <3>3
  <2> QED  BY <1>2, <2>7, <2>9 DEF Tracks
<1>20. CASE RolledBack
  <2>1. /\ file' = file /\ bundle' = bundle /\ cut' = cut /\ op' = Idle
        /\ op.pc = "remove" /\ op.done = <<>> /\ op.moved = <<>>
    BY <1>20 DEF RolledBack, history
  <2>2. Restorable /\ MarkerLast
    BY DEF EditInv
  <2>3. Moved = {} /\ Written = {}
    BY <2>1, NothingLeft DEF Moved, Written
  <2>4. \A m \in Names : file[m] = op.start[m]
    BY <1>1, <2>1, <2>2, <2>3 DEF Restorable
  <2>5. ~cut => MarkedStale(op.start)
    BY <1>1, <2>1, <2>2 DEF MarkerLast
  <2>6. ~cut => MarkedStale(file)
    BY <1>4, <2>4, <2>5, StaleSame
  <2> QED  BY <1>2, <2>1, <2>6 DEF Tracks, Idle
<1>21. CASE Kill
  <2>1. file' = file /\ bundle' = bundle /\ cut' = TRUE /\ op' = Idle
    BY <1>21 DEF Kill
  <2> QED  BY <1>2, <2>1 DEF Tracks, Idle
<1> QED  BY <1>5, <1>6, <1>7, <1>8, <1>9, <1>10, <1>11, <1>12, <1>13, <1>14, <1>15, <1>16, <1>17,
            <1>18, <1>19, <1>20, <1>21 DEF Next

-----------------------------------------------------------------------------
(* An update can be undone at every step.                                  *)

LEMMA ConsistentAbsent == \A x : Consistent(Absent, x) /\ Consistent(x, Absent)
  BY DEF Consistent, Uses

LEMMA ApplyStep == ASSUME EditInv, Apply PROVE (Restorable /\ StructureFirst /\ MarkerLast)'
<1>1. /\ TypesOK /\ ReviewOK /\ Tracks /\ op.pc = "idle" /\ begun < MaxOps /\ review # NoReview
      /\ file' = file /\ outside' = outside /\ raced' = raced /\ cut' = cut
  BY DEF EditInv, Apply, Begin, history
<1>2. CASE ~AsReviewed
  BY <1>2 DEF Apply, Idle, Restorable, StructureFirst, MarkerLast
<1>3. CASE AsReviewed
  <2> DEFINE m == Moves
             s == Installs
  <2>1. Ready(m, s)
    BY <1>1, <1>3, Prepared
  <2>2. op' = [pc |-> "move", todo |-> m, install |-> s, done |-> <<>>, moved |-> <<>>, start |-> file]
    BY <1>3 DEF Apply
  <2> HIDE DEF m, s
  <2>3. /\ op'.pc = "move" /\ op'.todo = m /\ op'.install = s /\ op'.done = <<>>
        /\ op'.moved = <<>> /\ op'.start = file
    BY <2>2
  <2>4. Moved' = {} /\ Written' = {}
    BY <2>3, NothingLeft DEF Moved, Written
  <2>5. Restorable'
    BY <1>1, <2>1, <2>3, <2>4 DEF Restorable, Ready
  <2>6. ASSUME ~outside PROVE Sound(file) /\ BaselineSound(file) /\ (~cut => MarkedStale(file))
    BY <1>1, <2>6 DEF Tracks
  <2>7. ASSUME ~outside PROVE ReturnsLast' /\ GoesFirst' /\ StructureFits' /\ ControlsFit' /\ BaselineFits'
    <3>1. ReturnsLast' /\ GoesFirst'
      BY <2>1, <2>3 DEF ReturnsLast, GoesFirst, Ready
    <3>2. StructureFits' /\ ControlsFit'
      BY <1>1, <2>1, <2>3, <2>7 DEF StructureFits, ControlsFit, Ready
    <3>3. BaselineFits'
      BY <2>1, <2>3 DEF BaselineFits, Ready
    <3> QED  BY <3>1, <3>2, <3>3
  <2>8. StructureFirst'
    BY <1>1, <2>3, <2>4, <2>6, <2>7 DEF StructureFirst
  <2>9. MarkerLast'
    BY <1>1, <2>1, <2>3, <2>6 DEF MarkerLast, Ready
  <2> QED  BY <2>5, <2>8, <2>9
<1> QED  BY <1>2, <1>3

LEMMA MoveStep == ASSUME EditInv, Move PROVE (Restorable /\ StructureFirst /\ MarkerLast)'
<1> DEFINE n == op.todo[1]
<1>1. /\ TypesOK /\ Restorable /\ StructureFirst /\ MarkerLast /\ op.pc = "move" /\ op.todo # <<>>
      /\ outside' = outside /\ raced' = raced /\ cut' = cut
  BY DEF EditInv, Move, history
<1>2. op \in Updates /\ op.todo \in Seq(Names) /\ op.moved \in Seq(Entries) /\ file \in Snapshots
  BY <1>1, OpKinds DEF Updates, TypesOK
<1>3. /\ 1 \in DOMAIN op.todo /\ n \in Names /\ Range(op.todo) = {n} \cup Range(Tail(op.todo))
      /\ DOMAIN op.todo = 1 .. Len(op.todo)
      /\ \A i \in DOMAIN Tail(op.todo) : i + 1 \in DOMAIN op.todo /\ Tail(op.todo)[i] = op.todo[i + 1]
      /\ \A k \in DOMAIN op.todo :
            k # 1 => k - 1 \in DOMAIN Tail(op.todo) /\ Tail(op.todo)[k - 1] = op.todo[k]
  BY <1>1, <1>2, Rest
<1>4. /\ op'.pc = "move" /\ op'.todo = Tail(op.todo) /\ op'.install = op.install
      /\ op'.done = op.done /\ op'.start = op.start
      /\ op'.moved = IF file[n] = Absent THEN op.moved ELSE <<<<n, file[n]>>>> \o op.moved
      /\ file' = [file EXCEPT ![n] = Absent]
  BY <1>1, <1>2 DEF Move, Content, Updates
<1>5. \A m \in Names : file'[m] = IF m = n THEN Absent ELSE file[m]
  <2>1. n \in Names /\ file' = [file EXCEPT ![n] = Absent]
    BY <1>3, <1>4
  <2> HIDE DEF n
  <2>2. DOMAIN file = Names
    BY <1>2, SnapshotFacts
  <2> QED  BY <2>1, <2>2
<1>6. op.done = <<>> /\ Written = {} /\ Written' = {}
  BY <1>1, <1>4, NothingLeft DEF Restorable, Written
<1> HIDE DEF n
<1>7. \A i \in DOMAIN op.moved : i \in Nat /\ op.moved[i] \in Entries /\ op.moved[i][1] \in Names
  <2>1. \A i \in DOMAIN op.moved : i \in Nat /\ op.moved[i] \in Entries
    BY <1>2
  <2> QED  BY <2>1 DEF Entries
<1>8. PICK d \in {0, 1} :
        /\ \A i \in DOMAIN op.moved : i + d \in DOMAIN op'.moved /\ op'.moved[i + d] = op.moved[i]
        /\ \A k \in DOMAIN op'.moved :
            \/ k - d \in DOMAIN op.moved /\ op'.moved[k] = op.moved[k - d] /\ k \in Nat
            \/ d = 1 /\ k = 1 /\ op'.moved[k][1] = n /\ op'.moved[k][2] = file[n] /\ file[n] # Absent
        /\ Moved' = Moved \cup (IF file[n] = Absent THEN {} ELSE {n})
  <2>1. CASE file[n] = Absent
    <3>1. op'.moved = op.moved /\ Moved' = Moved
      BY <1>4, <2>1 DEF Moved
    <3>2. \A i \in DOMAIN op.moved : i + 0 = i /\ i - 0 = i
      BY <1>7
    <3> QED  BY <1>7, <2>1, <3>1, <3>2
  <2>2. CASE file[n] # Absent
    <3> DEFINE x == <<n, file[n]>>
               t == <<x>> \o op.moved
    <3>1. x \in Entries /\ x[1] = n /\ x[2] = file[n]
      BY <1>2, <1>3, <2>2, SnapshotFacts, Kinds DEF Entries
    <3>2. op'.moved = t
      BY <1>4, <2>2
    <3> HIDE DEF x
    <3>3. /\ 1 \in DOMAIN t /\ t[1] = x
          /\ \A i \in DOMAIN op.moved : i + 1 \in DOMAIN t /\ t[i + 1] = op.moved[i] /\ i \in Nat
          /\ \A k \in DOMAIN t : k # 1 => k - 1 \in DOMAIN op.moved /\ t[k] = op.moved[k - 1] /\ k \in Nat
      BY <1>2, <3>1, InFront
    <3> HIDE DEF t
    <3>4. \A k \in DOMAIN t : k = 1 \/ (k - 1 \in DOMAIN op.moved /\ t[k] = op.moved[k - 1] /\ k \in Nat)
      BY <3>3
    <3>5. Moved' = Moved \cup {n}
      <4>1. Moved' = {t[k][1] : k \in DOMAIN t}
        BY <3>2 DEF Moved
      <4>2. Moved \cup {n} \subseteq Moved'
        BY <3>1, <3>3, <4>1 DEF Moved
      <4>3. ASSUME NEW k \in DOMAIN t PROVE t[k][1] \in Moved \cup {n}
        <5>1. CASE k = 1
          BY <3>1, <3>3, <5>1
        <5>2. CASE k # 1
          BY <3>4, <5>2 DEF Moved
        <5> QED  BY <5>1, <5>2
      <4> QED  BY <4>1, <4>2, <4>3
    <3> WITNESS 1 \in {0, 1}
    <3> QED  BY <2>2, <3>1, <3>2, <3>3, <3>4, <3>5
  <2> QED  BY <2>1, <2>2
<1>9. Moved \subseteq Names
  BY <1>7 DEF Moved
<1>10. ASSUME ~raced
       PROVE  /\ \A i \in DOMAIN op'.moved : op'.moved[i][2] = op.start[op'.moved[i][1]]
              /\ \A i, k \in DOMAIN op'.moved : op'.moved[i][1] = op'.moved[k][1] => i = k
              /\ \A m \in Names \ Moved' : file'[m] = op.start[m]
              /\ \A m \in Moved' : file'[m] = Absent
              /\ \A i \in DOMAIN op.install :
                    \/ op.install[i][1] \in Moved' \cup Range(op'.todo)
                    \/ op.start[op.install[i][1]] = Absent
  <2>1. /\ \A i \in DOMAIN op.moved : op.moved[i][2] = op.start[op.moved[i][1]]
        /\ \A i, k \in DOMAIN op.moved : op.moved[i][1] = op.moved[k][1] => i = k
        /\ \A m \in Names \ Moved : file[m] = op.start[m]
        /\ \A m \in Moved : file[m] = Absent
        /\ \A i \in DOMAIN op.install :
              \/ op.install[i][1] \in Moved \cup Range(op.todo)
              \/ op.start[op.install[i][1]] = Absent
    BY <1>1, <1>6, <1>10 DEF Restorable
  <2>2. file[n] # Absent => n \notin Moved /\ file[n] = op.start[n]
    BY <1>3, <2>1
  <2>3. \A i \in DOMAIN op'.moved : op'.moved[i][2] = op.start[op'.moved[i][1]]
    BY <1>8, <2>1, <2>2
  <2>4. ASSUME NEW i \in DOMAIN op'.moved, NEW k \in DOMAIN op'.moved, op'.moved[i][1] = op'.moved[k][1]
        PROVE  i = k
    <3>1. CASE i - d \in DOMAIN op.moved /\ op'.moved[i] = op.moved[i - d] /\ i \in Nat
      <4>1. CASE k - d \in DOMAIN op.moved /\ op'.moved[k] = op.moved[k - d] /\ k \in Nat
        <5>1. i - d = k - d
          BY <2>1, <2>4, <3>1, <4>1
        <5> QED  BY <3>1, <4>1, <5>1
      <4>2. CASE op'.moved[k][1] = n /\ file[n] # Absent
        BY <2>2, <2>4, <3>1, <4>2 DEF Moved
      <4> QED  BY <1>8, <4>1, <4>2
    <3>2. CASE d = 1 /\ i = 1 /\ op'.moved[i][1] = n /\ file[n] # Absent
      <4>1. CASE k - d \in DOMAIN op.moved /\ op'.moved[k] = op.moved[k - d] /\ k \in Nat
        BY <2>2, <2>4, <3>2, <4>1 DEF Moved
      <4> QED  BY <1>8, <3>2, <4>1
    <3> QED  BY <1>8, <3>1, <3>2
  <2>5. \A m \in Names \ Moved' : file'[m] = op.start[m]
    BY <1>5, <1>8, <2>1
  <2>6. \A m \in Moved' : file'[m] = Absent
    BY <1>3, <1>5, <1>8, <1>9, <2>1
  <2>7. ASSUME NEW i \in DOMAIN op.install
        PROVE  \/ op.install[i][1] \in Moved' \cup Range(op'.todo)
               \/ op.start[op.install[i][1]] = Absent
    <3>1. CASE op.install[i][1] = n /\ file[n] = Absent
      BY <1>3, <1>8, <2>1, <3>1
    <3>2. CASE op.install[i][1] = n /\ file[n] # Absent
      BY <1>8, <3>2
    <3>3. CASE op.install[i][1] # n
      BY <1>3, <1>4, <1>8, <2>1, <3>3
    <3> QED  BY <3>1, <3>2, <3>3
  <2> QED  BY <2>3, <2>4, <2>5, <2>6, <2>7
<1>11. Restorable'
  BY <1>1, <1>4, <1>6, <1>10 DEF Restorable
<1>12. ASSUME ~outside PROVE StructureFirst'
  <2>1. /\ Sound(op.start) /\ BaselineSound(op.start) /\ ReturnsLast
        /\ GoesFirst /\ StructureFits /\ ControlsFit /\ BaselineFits
    BY <1>1, <1>12 DEF StructureFirst
  <2>2. ~raced
    BY <1>1, <1>12 DEF TypesOK
  <2>3. /\ "VADAT" \in Names /\ "RVSIG_COL" \in Names /\ "STATE" \in Names
    BY DEF Names
  <2>4. n \in {"VADAT", "STATE"} => file["RVSIG_COL"] = Absent
    <3>1. op.todo[1] \in {"VADAT", "STATE"} =>
            file["RVSIG_COL"] = Absent \/ \E k \in DOMAIN op.todo : k < 1 /\ op.todo[k] = "RVSIG_COL"
      BY <1>3, <2>1 DEF GoesFirst
    <3>2. \A k \in DOMAIN op.todo : ~(k < 1)
      BY <1>3
    <3> QED  BY <3>1, <3>2 DEF n
  <2>5. ReturnsLast'
    <3> SUFFICES ASSUME NEW k \in DOMAIN op'.moved, op'.moved[k][1] \in {"VADAT", "STATE"},
                        op.start["RVSIG_COL"] # Absent
                 PROVE  \E j \in DOMAIN op'.moved : j > k /\ op'.moved[j][1] = "RVSIG_COL"
      BY <1>4 DEF ReturnsLast
    <3>1. CASE k - d \in DOMAIN op.moved /\ op'.moved[k] = op.moved[k - d] /\ k \in Nat
      <4>1. PICK j \in DOMAIN op.moved : j > k - d /\ op.moved[j][1] = "RVSIG_COL"
        BY <2>1, <3>1 DEF ReturnsLast
      <4>2. j + d \in DOMAIN op'.moved /\ op'.moved[j + d][1] = "RVSIG_COL"
        BY <1>8, <4>1
      <4>3. j + d > k
        BY <1>7, <3>1, <4>1
      <4> QED  BY <4>2, <4>3
    <3>2. CASE d = 1 /\ k = 1 /\ op'.moved[k][1] = n
      <4>1. file["RVSIG_COL"] = Absent
        BY <2>4, <3>2
      <4>2. "RVSIG_COL" \in Moved
        BY <1>1, <1>6, <2>2, <2>3, <4>1 DEF Restorable
      <4>3. PICK j \in DOMAIN op.moved : op.moved[j][1] = "RVSIG_COL"
        BY <4>2 DEF Moved
      <4>4. j + d \in DOMAIN op'.moved /\ op'.moved[j + d][1] = "RVSIG_COL"
        BY <1>8, <4>3
      <4>5. j \in Nat /\ j # 0
        BY <1>2, <4>3
      <4>6. j + d > k
        BY <3>2, <4>5
      <4> QED  BY <4>4, <4>6
    <3> QED  BY <1>8, <3>1, <3>2
  <2>6. GoesFirst'
    <3> SUFFICES ASSUME NEW i \in DOMAIN Tail(op.todo), Tail(op.todo)[i] \in {"VADAT", "STATE"},
                        file'["RVSIG_COL"] # Absent
                 PROVE  \E k \in DOMAIN Tail(op.todo) : k < i /\ Tail(op.todo)[k] = "RVSIG_COL"
      BY <1>4 DEF GoesFirst
    <3>1. n # "RVSIG_COL" /\ file["RVSIG_COL"] # Absent
      BY <1>5, <2>3
    <3>2. PICK k \in DOMAIN op.todo : k < i + 1 /\ op.todo[k] = "RVSIG_COL"
      BY <1>3, <2>1, <3>1 DEF GoesFirst
    <3>3. k # 1
      BY <3>1, <3>2 DEF n
    <3>4. k - 1 \in DOMAIN Tail(op.todo) /\ Tail(op.todo)[k - 1] = "RVSIG_COL"
      BY <1>3, <3>2, <3>3
    <3>5. i \in Nat /\ k \in Nat
      BY <1>2, <1>3
    <3>6. k - 1 < i
      BY <3>2, <3>5
    <3> QED  BY <3>4, <3>6
  <2>7. StructureFits'
    <3> SUFFICES ASSUME NEW i \in DOMAIN op.install, op.install[i][1] = "RVSIG_COL"
                 PROVE  /\ i = 1 /\ op.done = <<>>
                        /\ "VADAT" \in Range(op'.todo) \/ Consistent(file'["VADAT"], op.install[i][2])
      BY <1>4 DEF StructureFits
    <3>1. i = 1 /\ ("VADAT" \in Range(op.todo) \/ Consistent(file["VADAT"], op.install[i][2]))
      BY <2>1 DEF StructureFits
    <3>2. CASE n = "VADAT"
      BY <1>5, <1>6, <2>3, <3>1, <3>2, ConsistentAbsent
    <3>3. CASE n # "VADAT"
      BY <1>3, <1>4, <1>5, <1>6, <2>3, <3>1, <3>3
    <3> QED  BY <3>2, <3>3
  <2>8. ControlsFit'
    <3> SUFFICES ASSUME NEW i \in DOMAIN op.install, op.install[i][1] = "VADAT"
                 PROVE  "RVSIG_COL" \in Range(op'.todo) \/ Consistent(op.install[i][2], file'["RVSIG_COL"])
      BY <1>4, <2>1 DEF ControlsFit
    <3>1. "RVSIG_COL" \in Range(op.todo) \/ Consistent(op.install[i][2], file["RVSIG_COL"])
      BY <2>1 DEF ControlsFit
    <3>2. CASE n = "RVSIG_COL"
      BY <1>5, <2>3, <3>2, ConsistentAbsent
    <3>3. CASE n # "RVSIG_COL"
      BY <1>3, <1>4, <1>5, <2>3, <3>1, <3>3
    <3> QED  BY <3>2, <3>3
  <2>9. BaselineFits'
    BY <1>3, <1>4, <1>5, <2>1, <2>3 DEF BaselineFits
  <2> QED  BY <1>1, <1>4, <1>6, <2>1, <2>5, <2>6, <2>7, <2>8, <2>9 DEF StructureFirst
<1>13. MarkerLast'
  <2>1. ASSUME ~outside
        PROVE  /\ ~cut => MarkedStale(op.start)
               /\ op.install # <<>> /\ op.install[Len(op.install)] = <<"MARKER", Marker(TRUE)>>
    BY <1>1, <2>1 DEF MarkerLast
  <2> QED  BY <1>1, <1>4, <2>1 DEF MarkerLast
<1> QED  BY <1>1, <1>11, <1>12, <1>13 DEF StructureFirst

LEMMA InstallStep == ASSUME EditInv, Install PROVE (Restorable /\ StructureFirst /\ MarkerLast)'
<1> DEFINE n == op.install[1][1]
           c == op.install[1][2]
<1>1. /\ TypesOK /\ Tracks /\ Restorable /\ StructureFirst /\ MarkerLast
      /\ op.pc = "move" /\ op.todo = <<>> /\ op.install # <<>>
      /\ outside' = outside /\ raced' = raced /\ cut' = cut
  BY DEF EditInv, Install, history
<1>2. op \in Updates /\ op.install \in Seq(Entries) /\ op.done \in Seq(Names) /\ file \in Snapshots
  BY <1>1, OpKinds DEF Updates, TypesOK
<1>3. /\ 1 \in DOMAIN op.install /\ op.install[1] \in Entries /\ Len(op.install) \in Nat \ {0}
      /\ DOMAIN op.install = 1 .. Len(op.install) /\ Len(Tail(op.install)) = Len(op.install) - 1
      /\ DOMAIN Tail(op.install) = 1 .. Len(op.install) - 1
      /\ \A i \in DOMAIN Tail(op.install) :
            i + 1 \in DOMAIN op.install /\ Tail(op.install)[i] = op.install[i + 1]
      /\ Tail(op.install) = <<>> <=> Len(op.install) = 1
  BY <1>1, <1>2, Rest
<1>4. \A i \in DOMAIN Tail(op.install) : i + 1 # 1 /\ i \in Nat
  BY <1>3
<1>5. n \in Names
  BY <1>3 DEF Entries
<1>6. PICK written \in BOOLEAN, ok \in BOOLEAN :
        /\ ok => written
        /\ IF written THEN Content(n, c) ELSE UNCHANGED file
        /\ op' = [op EXCEPT !.pc = IF ok THEN "move" ELSE "remove",
                            !.install = Tail(@), !.done = Listed(n, ok)]
  BY DEF Install
<1>7. /\ op'.pc = (IF ok THEN "move" ELSE "remove") /\ op'.install = Tail(op.install)
      /\ op'.done = <<n>> \o op.done /\ op'.todo = <<>> /\ op'.moved = op.moved /\ op'.start = op.start
  BY <1>1, <1>2, <1>6 DEF Updates, Listed
<1> HIDE DEF n, c
<1>8. Moved' = Moved /\ Written' = Written \cup {n}
  <2>1. Moved' = Moved
    BY <1>7 DEF Moved
  <2>2. Range(<<n>> \o op.done) = {n} \cup Range(op.done)
    BY <1>2, <1>5, InFront
  <2> QED  BY <1>7, <2>1, <2>2 DEF Written
<1>9. DOMAIN file = Names
  BY <1>2, SnapshotFacts
<1>10. /\ \A m \in Names : m # n => file'[m] = file[m]
       /\ file' = file \/ file'[n] = c
       /\ ok => file'[n] = c
  BY <1>5, <1>6, <1>9 DEF Content
<1>11. Restorable'
  <2> SUFFICES ASSUME ~raced
        PROVE  /\ \A i \in DOMAIN op.moved : op.moved[i][2] = op.start[op.moved[i][1]]
               /\ \A i, k \in DOMAIN op.moved : op.moved[i][1] = op.moved[k][1] => i = k
               /\ \A m \in Names \ (Moved \cup Written') : file'[m] = op.start[m]
               /\ \A m \in Moved \ Written' : file'[m] = Absent
               /\ \A m \in Written' : m \in Moved \/ op.start[m] = Absent
               /\ \A i \in DOMAIN Tail(op.install) :
                    Tail(op.install)[i][1] \in Moved \/ op.start[Tail(op.install)[i][1]] = Absent
    BY <1>1, <1>7, <1>8 DEF Restorable
  <2>1. /\ \A i \in DOMAIN op.moved : op.moved[i][2] = op.start[op.moved[i][1]]
        /\ \A i, k \in DOMAIN op.moved : op.moved[i][1] = op.moved[k][1] => i = k
        /\ \A m \in Names \ (Moved \cup Written) : file[m] = op.start[m]
        /\ \A m \in Moved \ Written : file[m] = Absent
        /\ \A m \in Written : m \in Moved \/ op.start[m] = Absent
        /\ \A i \in DOMAIN op.install :
             op.install[i][1] \in Moved \cup Range(op.todo) \/ op.start[op.install[i][1]] = Absent
    BY <1>1 DEF Restorable
  <2>2. \A i \in DOMAIN op.install : op.install[i][1] \in Moved \/ op.start[op.install[i][1]] = Absent
    BY <1>1, <2>1, NothingLeft
  <2>3. n \in Moved \/ op.start[n] = Absent
    BY <1>3, <2>2 DEF n
  <2>4. \A i \in DOMAIN Tail(op.install) :
             Tail(op.install)[i][1] \in Moved \/ op.start[Tail(op.install)[i][1]] = Absent
    BY <1>3, <2>2
  <2>5. Moved \subseteq Names
    <3>1. op.moved \in Seq(Entries)
      BY <1>2 DEF Updates
    <3>2. \A i \in DOMAIN op.moved : op.moved[i] \in Entries
      BY <3>1
    <3> QED  BY <3>2 DEF Moved, Entries
  <2> QED  BY <1>8, <1>10, <2>1, <2>3, <2>4, <2>5
<1>12. ASSUME ~outside PROVE StructureFirst'
  <2>1. /\ Sound(op.start) /\ BaselineSound(op.start) /\ ReturnsLast
        /\ "STATE" \in Written => Consistent(file["VADAT"], file["RVSIG_COL"])
        /\ StructureFits /\ ControlsFit /\ BaselineFits /\ Sound(file)
    BY <1>1, <1>12 DEF StructureFirst, Tracks
  <2>2. /\ "VADAT" \in Names /\ "RVSIG_COL" \in Names /\ "STATE" \in Names
    BY DEF Names
  <2>3. /\ n = "RVSIG_COL" => op.done = <<>> /\ Consistent(file["VADAT"], c)
        /\ n = "VADAT" => Consistent(c, file["RVSIG_COL"])
        /\ n = "STATE" => file["STATE"] = Absent
    BY <1>1, <1>3, <2>1, NothingLeft DEF StructureFits, ControlsFit, BaselineFits, n, c
  <2>4. ASSUME "STATE" \in Written' PROVE Consistent(file'["VADAT"], file'["RVSIG_COL"])
    <3>1. CASE n = "STATE"
      <4>1. Consistent(file["VADAT"], file["RVSIG_COL"])
        BY <2>1, <2>3, <3>1, SoundFacts
      <4> QED  BY <1>10, <2>2, <3>1, <4>1
    <3>2. CASE n # "STATE"
      <4>1. "STATE" \in Written /\ Consistent(file["VADAT"], file["RVSIG_COL"])
        BY <1>8, <2>1, <2>4, <3>2
      <4>2. n # "RVSIG_COL"
        BY <2>3, <4>1, NothingLeft DEF Written
      <4>3. file'["RVSIG_COL"] = file["RVSIG_COL"]
        BY <1>10, <2>2, <4>2
      <4>4. CASE n = "VADAT"
        BY <1>10, <2>3, <4>1, <4>3, <4>4
      <4>5. CASE n # "VADAT"
        BY <1>10, <2>2, <4>1, <4>3, <4>5
      <4> QED  BY <4>4, <4>5
    <3> QED  BY <3>1, <3>2
  <2>5. ReturnsLast'
    BY <1>7, <2>1 DEF ReturnsLast
  <2>6. ASSUME ok PROVE GoesFirst' /\ StructureFits' /\ ControlsFit' /\ BaselineFits'
    <3>1. GoesFirst'
      BY <1>7 DEF GoesFirst
    <3>2. \A i \in DOMAIN Tail(op.install) : Tail(op.install)[i][1] # "RVSIG_COL"
      BY <1>3, <1>4, <2>1 DEF StructureFits
    <3>3. StructureFits'
      BY <1>7, <3>2 DEF StructureFits
    <3>4. ASSUME NEW i \in DOMAIN Tail(op.install), Tail(op.install)[i][1] = "VADAT"
          PROVE  Consistent(Tail(op.install)[i][2], file'["RVSIG_COL"])
      <4>1. /\ i + 1 \in DOMAIN op.install /\ op.install[i + 1][1] = "VADAT"
            /\ Tail(op.install)[i] = op.install[i + 1]
        BY <1>3, <3>4
      <4>2. CASE n = "RVSIG_COL"
        <5>1. Consistent(op.install[i + 1][2], c)
          BY <1>3, <2>1, <4>1, <4>2 DEF ControlsFit, n, c
        <5> QED  BY <1>10, <2>6, <4>1, <4>2, <5>1
      <4>3. CASE n # "RVSIG_COL"
        <5>1. Consistent(op.install[i + 1][2], file["RVSIG_COL"])
          BY <1>1, <2>1, <4>1, NothingLeft DEF ControlsFit
        <5> QED  BY <1>10, <2>2, <4>1, <4>3, <5>1
      <4> QED  BY <4>2, <4>3
    <3>5. ControlsFit'
      BY <1>7, <3>2, <3>4 DEF ControlsFit
    <3>6. ASSUME NEW i \in DOMAIN Tail(op.install), NEW k \in DOMAIN Tail(op.install),
                 Tail(op.install)[i][1] = Tail(op.install)[k][1]
          PROVE  i = k
      <4>1. i + 1 = k + 1
        BY <1>3, <2>1, <3>6 DEF BaselineFits
      <4> QED  BY <1>4, <4>1
    <3>7. ASSUME NEW i \in DOMAIN Tail(op.install), Tail(op.install)[i][1] = "STATE"
          PROVE  file'["STATE"] = Absent /\ Tail(op.install)[i][2][2] = FALSE
      <4>1. /\ i + 1 \in DOMAIN op.install /\ op.install[i + 1][1] = "STATE"
            /\ Tail(op.install)[i] = op.install[i + 1] /\ i + 1 # 1
        BY <1>3, <1>4, <3>7
      <4>2. n # "STATE"
        BY <1>3, <2>1, <4>1 DEF BaselineFits, n
      <4>3. file["STATE"] = Absent /\ op.install[i + 1][2][2] = FALSE
        BY <1>1, <2>1, <4>1, NothingLeft DEF BaselineFits
      <4> QED  BY <1>10, <2>2, <4>1, <4>2, <4>3
    <3>8. BaselineFits'
      BY <1>7, <3>6, <3>7 DEF BaselineFits
    <3> QED  BY <3>1, <3>3, <3>5, <3>8
  <2>7. op'.pc = "move" => ok
    BY <1>7
  <2> QED  BY <1>7, <2>1, <2>4, <2>5, <2>6, <2>7 DEF StructureFirst
<1>13. ASSUME ~outside PROVE MarkerLast'
  <2>1. /\ ~cut => MarkedStale(op.start)
        /\ op.install[Len(op.install)] = <<"MARKER", Marker(TRUE)>>
    BY <1>1, <1>13 DEF MarkerLast
  <2>2. ASSUME ok, Tail(op.install) = <<>> PROVE file'["MARKER"] = Marker(TRUE)
    <3>1. op.install[1] = <<"MARKER", Marker(TRUE)>>
      BY <1>3, <2>1, <2>2
    <3>2. n = "MARKER" /\ c = Marker(TRUE)
      BY <3>1 DEF n, c
    <3> QED  BY <1>10, <2>2, <3>2
  <2>3. ASSUME Tail(op.install) # <<>>
        PROVE  Tail(op.install)[Len(Tail(op.install))] = <<"MARKER", Marker(TRUE)>>
    <3> DEFINE k == Len(Tail(op.install))
    <3>1. k \in DOMAIN Tail(op.install) /\ k + 1 = Len(op.install)
      BY <1>3, <2>3
    <3>2. Tail(op.install)[k] = op.install[k + 1]
      BY <1>3, <3>1
    <3> QED  BY <2>1, <3>1, <3>2
  <2>4. op'.pc = "move" => ok
    BY <1>7
  <2> QED  BY <1>1, <1>7, <2>1, <2>2, <2>3, <2>4 DEF MarkerLast
<1>14. op'.pc \in {"move", "remove"}
  BY <1>7
<1> QED  BY <1>1, <1>11, <1>12, <1>13 DEF StructureFirst, MarkerLast

LEMMA FailStep == ASSUME EditInv, Fail PROVE (Restorable /\ StructureFirst /\ MarkerLast)'
<1>1. /\ TypesOK /\ Restorable /\ StructureFirst /\ MarkerLast /\ op.pc = "move"
      /\ outside' = outside /\ raced' = raced /\ cut' = cut /\ file' = file
  BY DEF EditInv, Fail, history
<1>2. op \in Updates
  BY <1>1, OpKinds
<1>3. /\ op'.pc = "remove" /\ op'.todo = op.todo /\ op'.install = op.install /\ op'.done = op.done
      /\ op'.moved = op.moved /\ op'.start = op.start
  BY <1>2 DEF Fail, Updates
<1>4. Moved' = Moved /\ Written' = Written
  BY <1>3 DEF Moved, Written
<1>5. Restorable'
  BY <1>1, <1>3, <1>4 DEF Restorable
<1>6. StructureFirst'
  BY <1>1, <1>3, <1>4 DEF StructureFirst, ReturnsLast
<1>7. MarkerLast'
  BY <1>1, <1>3 DEF MarkerLast
<1> QED  BY <1>5, <1>6, <1>7

LEMMA RemoveStep == ASSUME EditInv, Remove PROVE (Restorable /\ StructureFirst /\ MarkerLast)'
<1> DEFINE n == op.done[1]
<1>1. /\ TypesOK /\ Restorable /\ StructureFirst /\ MarkerLast /\ op.pc = "remove" /\ op.done # <<>>
      /\ outside' = outside /\ raced' = raced /\ cut' = cut
  BY DEF EditInv, Remove, history
<1>2. op \in Updates /\ op.done \in Seq(Names) /\ op.moved \in Seq(Entries) /\ file \in Snapshots
  BY <1>1, OpKinds DEF Updates, TypesOK
<1>3. n \in Names /\ Range(op.done) = {n} \cup Range(Tail(op.done))
  BY <1>1, <1>2, Rest
<1>4. /\ op'.pc = "remove" /\ op'.todo = op.todo /\ op'.install = op.install
      /\ op'.done = Tail(op.done) /\ op'.moved = op.moved /\ op'.start = op.start
      /\ file' = [file EXCEPT ![n] = Absent]
  BY <1>1, <1>2 DEF Remove, Content, Updates
<1> HIDE DEF n
<1>5. \A m \in Names : file'[m] = IF m = n THEN Absent ELSE file[m]
  <2>1. DOMAIN file = Names
    BY <1>2, SnapshotFacts
  <2> QED  BY <1>3, <1>4, <2>1
<1>6. Moved' = Moved /\ Written = Written' \cup {n} /\ op.todo = <<>>
  BY <1>1, <1>3, <1>4 DEF Moved, Written, Restorable
<1>7. Moved \subseteq Names
  <2>1. \A i \in DOMAIN op.moved : op.moved[i] \in Entries
    BY <1>2
  <2> QED  BY <2>1 DEF Moved, Entries
<1>8. Restorable'
  <2> SUFFICES ASSUME ~raced
        PROVE  /\ \A m \in Names \ (Moved \cup Written') : file'[m] = op.start[m]
               /\ \A m \in Moved \ Written' : file'[m] = Absent
               /\ \A m \in Written' : m \in Moved \/ op.start[m] = Absent
    BY <1>1, <1>4, <1>6 DEF Restorable
  <2>1. /\ \A m \in Names \ (Moved \cup Written) : file[m] = op.start[m]
        /\ \A m \in Moved \ Written : file[m] = Absent
        /\ \A m \in Written : m \in Moved \/ op.start[m] = Absent
    BY <1>1 DEF Restorable
  <2> QED  BY <1>5, <1>6, <1>7, <2>1
<1>9. ASSUME ~outside PROVE StructureFirst'
  <2>1. /\ Sound(op.start) /\ BaselineSound(op.start) /\ ReturnsLast
        /\ "STATE" \in Written => Consistent(file["VADAT"], file["RVSIG_COL"])
    BY <1>1, <1>9 DEF StructureFirst
  <2>2. "VADAT" \in Names /\ "RVSIG_COL" \in Names
    BY DEF Names
  <2>3. ASSUME "STATE" \in Written' PROVE Consistent(file'["VADAT"], file'["RVSIG_COL"])
    BY <1>5, <1>6, <2>1, <2>2, <2>3, ConsistentAbsent
  <2>4. ReturnsLast'
    BY <1>4, <2>1 DEF ReturnsLast
  <2> QED  BY <1>4, <2>1, <2>3, <2>4 DEF StructureFirst
<1>10. MarkerLast'
  BY <1>1, <1>4 DEF MarkerLast
<1> QED  BY <1>1, <1>8, <1>9, <1>10 DEF StructureFirst

LEMMA ReturnStep == ASSUME EditInv, Return PROVE (Restorable /\ StructureFirst /\ MarkerLast)'
<1> DEFINE n == op.moved[1][1]
           c == op.moved[1][2]
<1>1. /\ TypesOK /\ Restorable /\ StructureFirst /\ MarkerLast /\ op.pc = "remove"
      /\ op.done = <<>> /\ op.moved # <<>>
      /\ outside' = outside /\ raced' = raced /\ cut' = cut
  BY DEF EditInv, Return, history
<1>2. op \in Updates /\ op.moved \in Seq(Entries) /\ file \in Snapshots
  BY <1>1, OpKinds DEF Updates, TypesOK
<1>3. /\ 1 \in DOMAIN op.moved /\ op.moved[1] \in Entries
      /\ DOMAIN op.moved = 1 .. Len(op.moved) /\ DOMAIN Tail(op.moved) = 1 .. Len(op.moved) - 1
      /\ \A i \in DOMAIN Tail(op.moved) : i + 1 \in DOMAIN op.moved /\ Tail(op.moved)[i] = op.moved[i + 1]
      /\ \A k \in DOMAIN op.moved :
            k # 1 => k - 1 \in DOMAIN Tail(op.moved) /\ Tail(op.moved)[k - 1] = op.moved[k]
  BY <1>1, <1>2, Rest
<1>4. /\ op'.pc = "remove" /\ op'.todo = op.todo /\ op'.install = op.install
      /\ op'.done = <<>> /\ op'.moved = Tail(op.moved) /\ op'.start = op.start
      /\ file' = [file EXCEPT ![n] = c]
  BY <1>1, <1>2 DEF Return, Content, Updates
<1>5. n \in Names
  BY <1>3 DEF Entries
<1>6. \A i \in DOMAIN op.moved : op.moved[i] \in Entries /\ i \in Nat
  BY <1>2
<1> HIDE DEF n, c
<1>7. \A m \in Names : file'[m] = IF m = n THEN c ELSE file[m]
  <2>1. DOMAIN file = Names
    BY <1>2, SnapshotFacts
  <2> QED  BY <1>4, <1>5, <2>1
<1>8. Written = {} /\ Written' = {}
  BY <1>1, <1>4, NothingLeft DEF Written
<1>9. Moved = {n} \cup Moved' /\ Moved \subseteq Names
  <2>1. \A k \in DOMAIN op.moved : op.moved[k][1] \in {n} \cup Moved'
    <3> SUFFICES ASSUME NEW k \in DOMAIN op.moved PROVE op.moved[k][1] \in {n} \cup Moved'
      OBVIOUS
    <3>1. CASE k = 1
      BY <3>1 DEF n
    <3>2. CASE k # 1
      <4>1. k - 1 \in DOMAIN op'.moved /\ op'.moved[k - 1][1] = op.moved[k][1]
        BY <1>3, <1>4, <3>2
      <4> QED  BY <4>1 DEF Moved
    <3> QED  BY <3>1, <3>2
  <2>2. Moved' \subseteq Moved
    BY <1>3, <1>4 DEF Moved
  <2>3. n \in Moved
    BY <1>3 DEF Moved, n
  <2>4. Moved \subseteq Names
    BY <1>6 DEF Moved, Entries
  <2> QED  BY <2>1, <2>2, <2>3, <2>4 DEF Moved
<1>10. ASSUME ~raced
       PROVE  /\ \A i \in DOMAIN Tail(op.moved) :
                    Tail(op.moved)[i][2] = op.start[Tail(op.moved)[i][1]]
              /\ \A i, k \in DOMAIN Tail(op.moved) : Tail(op.moved)[i][1] = Tail(op.moved)[k][1] => i = k
              /\ \A m \in Names \ Moved' : file'[m] = op.start[m]
              /\ \A m \in Moved' : file'[m] = Absent
  <2>1. /\ \A i \in DOMAIN op.moved : op.moved[i][2] = op.start[op.moved[i][1]]
        /\ \A i, k \in DOMAIN op.moved : op.moved[i][1] = op.moved[k][1] => i = k
        /\ \A m \in Names \ Moved : file[m] = op.start[m]
        /\ \A m \in Moved : file[m] = Absent
    BY <1>1, <1>8, <1>10 DEF Restorable
  <2>2. c = op.start[n]
    BY <1>3, <2>1 DEF n, c
  <2>3. n \notin Moved'
    <3> SUFFICES ASSUME NEW i \in DOMAIN Tail(op.moved), Tail(op.moved)[i][1] = n PROVE FALSE
      BY <1>4 DEF Moved
    <3>1. i + 1 \in DOMAIN op.moved /\ op.moved[i + 1][1] = op.moved[1][1]
      BY <1>3 DEF n
    <3>2. i + 1 = 1
      BY <1>3, <2>1, <3>1
    <3>3. i \in 1 .. Len(op.moved) - 1
      BY <1>3
    <3> QED  BY <3>2, <3>3
  <2>4. \A i \in DOMAIN Tail(op.moved) : Tail(op.moved)[i][2] = op.start[Tail(op.moved)[i][1]]
    BY <1>3, <2>1
  <2>5. ASSUME NEW i \in DOMAIN Tail(op.moved), NEW k \in DOMAIN Tail(op.moved),
               Tail(op.moved)[i][1] = Tail(op.moved)[k][1]
        PROVE  i = k
    <3>1. i + 1 = k + 1
      BY <1>3, <2>1, <2>5
    <3>2. i \in 1 .. Len(op.moved) - 1 /\ k \in 1 .. Len(op.moved) - 1
      BY <1>3
    <3> QED  BY <3>1, <3>2
  <2>6. \A m \in Names \ Moved' : file'[m] = op.start[m]
    BY <1>7, <1>9, <2>1, <2>2
  <2>7. \A m \in Moved' : file'[m] = Absent
    BY <1>7, <1>9, <2>1, <2>3
  <2> QED  BY <2>4, <2>5, <2>6, <2>7
<1>11. Restorable'
  BY <1>1, <1>4, <1>8, <1>10 DEF Restorable
<1>12. ASSUME ~outside PROVE StructureFirst'
  <2>1. Sound(op.start) /\ BaselineSound(op.start) /\ ReturnsLast
    BY <1>1, <1>12 DEF StructureFirst
  <2>2. ReturnsLast'
    <3> SUFFICES ASSUME NEW i \in DOMAIN Tail(op.moved), Tail(op.moved)[i][1] \in {"VADAT", "STATE"},
                        op.start["RVSIG_COL"] # Absent
                 PROVE  \E j \in DOMAIN Tail(op.moved) : j > i /\ Tail(op.moved)[j][1] = "RVSIG_COL"
      BY <1>4 DEF ReturnsLast
    <3>1. PICK k \in DOMAIN op.moved : k > i + 1 /\ op.moved[k][1] = "RVSIG_COL"
      BY <1>3, <2>1 DEF ReturnsLast
    <3>2. i \in Nat /\ i >= 1 /\ k \in Nat
      BY <1>3, <1>6
    <3>3. k # 1 /\ k - 1 > i
      BY <3>1, <3>2
    <3>4. k - 1 \in DOMAIN Tail(op.moved) /\ Tail(op.moved)[k - 1][1] = "RVSIG_COL"
      BY <1>3, <3>1, <3>3
    <3> QED  BY <3>3, <3>4
  <2> QED  BY <1>4, <1>8, <2>1, <2>2 DEF StructureFirst
<1>13. MarkerLast'
  BY <1>1, <1>4 DEF MarkerLast
<1> QED  BY <1>1, <1>11, <1>12, <1>13 DEF StructureFirst

LEMMA UpdateStep == ASSUME EditInv, Next PROVE (Restorable /\ StructureFirst /\ MarkerLast)'
<1>1. TypesOK /\ Restorable /\ StructureFirst /\ MarkerLast
  BY DEF EditInv
<1>2. CASE op'.pc \notin {"move", "remove"}
  BY <1>2 DEF Restorable, StructureFirst, MarkerLast
<1>3. CASE EditOutside
  <2>1. /\ op' = op /\ outside' = TRUE /\ raced' = (raced \/ op.pc # "idle")
    BY <1>3 DEF EditOutside
  <2> QED  BY <1>1, <2>1 DEF Restorable, StructureFirst, MarkerLast
<1>4. CASE Run \/ (\E p \in Pages : Load(p) \/ Save(p)) \/ ReviewStructure \/ ReviewInputs
  <2>1. op.pc = "idle" /\ (op' = op \/ op'.pc = "backup")
    <3>1. CASE Run \/ (\E p \in Pages : Load(p)) \/ ReviewStructure \/ ReviewInputs
      BY <3>1 DEF Run, Begin, Load, ReviewStructure, ReviewInputs
    <3>2. ASSUME NEW p \in Pages, Save(p) PROVE op.pc = "idle" /\ (op' = op \/ op'.pc = "backup")
      <4>1. op.pc = "idle"
        BY <3>2 DEF Save, Begin
      <4>2. CASE Fresh(p)
        <5>1. PICK v \in Controls : op' = [pc |-> "backup", page |-> p, copy |-> Absent,
                                           old |-> file["VADAT"], new |-> v]
          BY <3>2, <4>2 DEF Save
        <5> QED  BY <4>1, <5>1
      <4>3. CASE ~Fresh(p)
        BY <3>2, <4>1, <4>3 DEF Save
      <4> QED  BY <4>2, <4>3
    <3> QED  BY <1>4, <3>1, <3>2
  <2> QED  BY <1>2, <2>1
<1>5. CASE WriteBackup \/ Track \/ Replace \/ Finish
  <2>1. op \in Saves
    BY <1>1, <1>5, OpKinds DEF WriteBackup, Track, Replace, Finish
  <2>2. op'.pc \in {"track", "replace", "finish", "mark"}
    BY <1>5, <2>1 DEF WriteBackup, Track, Replace, Finish, Saves
  <2> QED  BY <1>2, <2>2
<1>6. CASE SaveFails \/ Mark \/ Complete \/ RolledBack \/ Kill
  <2>1. op' = Idle
    BY <1>6 DEF SaveFails, Mark, Complete, RolledBack, Kill
  <2> QED  BY <1>2, <2>1 DEF Idle
<1> QED  BY <1>3, <1>4, <1>5, <1>6, ApplyStep, MoveStep, InstallStep, FailStep, RemoveStep,
            ReturnStep DEF Next

-----------------------------------------------------------------------------
(* The theorems.                                                           *)

(* EditInv holds in every state of every execution. *)
THEOREM EditsHold == Spec => []EditInv
<1>1. Init => EditInv
  BY InitInv
<1>2. EditInv /\ [Next]_vars => EditInv'
  <2> SUFFICES ASSUME EditInv, [Next]_vars PROVE EditInv'
    OBVIOUS
  <2>1. CASE Next
    <3>1. TypesOK' /\ ReviewOK' /\ SavesSeen' /\ Tracks'
      BY <2>1, TypesStep, ReviewStep, SavesStep, TracksStep DEF EditInv
    <3> QED  BY <2>1, <3>1, UpdateStep DEF EditInv
  <2>2. CASE UNCHANGED vars
    <3>1. /\ file' = file /\ bundle' = bundle /\ page' = page /\ review' = review /\ op' = op
          /\ begun' = begun /\ lost' = lost /\ outside' = outside /\ raced' = raced /\ cut' = cut
      BY <2>2 DEF vars, history
    <3>2. TypesOK' /\ ReviewOK'
      BY <3>1 DEF EditInv, TypesOK, ReviewOK, StructureReviewed, InputsReviewed
    <3>3. SavesSeen' /\ Tracks'
      BY <3>1 DEF EditInv, SavesSeen, Tracks, Relevant
    <3>4. Restorable' /\ MarkerLast'
      <4>1. Moved' = Moved /\ Written' = Written
        BY <3>1 DEF Moved, Written
      <4>2. Restorable'
        BY <3>1, <4>1 DEF EditInv, Restorable
      <4>3. MarkerLast'
        BY <3>1 DEF EditInv, MarkerLast
      <4> QED  BY <4>2, <4>3
    <3>5. StructureFirst'
      BY <3>1 DEF EditInv, StructureFirst, ReturnsLast, GoesFirst, StructureFits, ControlsFit,
                  BaselineFits, Written
    <3> QED  BY <3>2, <3>3, <3>4, <3>5 DEF EditInv
  <2> QED  BY <2>1, <2>2
<1> QED  BY <1>1, <1>2, PTL DEF Spec

(* Whoever saves has seen what he replaces and has a copy of it, unless the file is edited
   outside while he saves: for any number of pages and of saves. *)
THEOREM SavesLoseNothing == Spec => []NoEditLost
<1>1. EditInv => NoEditLost
  <2> SUFFICES ASSUME EditInv PROVE NoEditLost
    OBVIOUS
  <2>1. TypesOK /\ SavesSeen /\ file \in Snapshots
    BY DEF EditInv, TypesOK
  <2>2. /\ DOMAIN file = Names /\ file["VADAT"] \in Controls \cup {Absent}
        /\ file["RVSIG_COL"] \in Structures \cup {Absent}
        /\ file["STATE"] \in Baselines \cup {Absent}
        /\ file["MARKER"] \in Markers \cup {Absent}
        /\ file["MOD_SUM"] \in Solutions \cup {Absent} /\ file["CHECKPOINT"] \in Solutions \cup {Absent}
    BY <2>1, SnapshotFacts DEF Markers
  <2>3. file["STATE"] = Absent \/ /\ file["STATE"][2] \in BOOLEAN
                                  /\ file["STATE"][3] \in Controls
                                  /\ file["STATE"][4] \in Structures \cup {Absent}
    BY <2>2, BaselinesParts
  <2>4. op.pc \in {"track", "replace", "finish", "mark"} =>
            op.page \in Pages /\ {op.old, op.copy, op.new} \subseteq Controls
    BY <2>1, OpKinds DEF TypesOK, Saves
  <2>5. op.pc \in {"idle", "backup", "track", "replace", "finish", "mark", "move", "remove"}
    BY <2>1 DEF TypesOK, Idle, Saves, Updates
  <2>6. \A n \in {"MOD_SUM", "CHECKPOINT"} :
            file[n] = Absent \/ file[n] \in {Solved(v, r) : v \in Controls, r \in Structures \cup {Absent}}
    BY <2>2 DEF Solutions
  <2>7. /\ page \in [Pages -> Controls \cup {Absent}]
        /\ begun \in 0 .. MaxOps /\ {lost, outside, raced, cut} \subseteq BOOLEAN
    BY <2>1 DEF TypesOK
  <2>8. TypeOK
    BY <2>2, <2>3, <2>4, <2>5, <2>6, <2>7 DEF TypeOK
  <2> QED  BY <2>1, <2>8 DEF NoEditLost, SavesSeen
<1> QED  BY <1>1, EditsHold, PTL

(* A structure that was made for other controls is known to be out of date, and so is a
   solution that is older than the inputs: through any sequence of edits, updates,
   restorations and runs, and whatever fails. *)
THEOREM OutdatedIsReported == Spec => []OutdatedReported
<1>1. EditInv => OutdatedReported
  <2> SUFFICES ASSUME EditInv PROVE OutdatedReported
    OBVIOUS
  <2>1. StructureTracked
    BY DEF EditInv, Tracks, StructureTracked, Sound, Consistent
  <2>2. StaleMarked
    BY DEF EditInv, Tracks, StaleMarked, MarkedStale, Stale
  <2> QED  BY <2>1, <2>2 DEF OutdatedReported
<1> QED  BY <1>1, EditsHold, PTL

(* A reviewed operation that fails at any step leaves the model as it was. *)
THEOREM UpdatesAreWhole == Spec => UpdateAllOrNothing
<1> DEFINE Whole == op.pc = "remove" /\ op'.pc = "idle" /\ ~raced /\ ~cut' => file' = op.start
<1>1. EditInv /\ [Next]_vars => [Whole]_vars
  <2> SUFFICES ASSUME EditInv, Next, op.pc = "remove", op'.pc = "idle", ~raced, ~cut'
               PROVE  file' = op.start
    OBVIOUS
  <2>1. TypesOK /\ op \in Updates /\ Restorable
    BY OpKinds DEF EditInv
  <2>2. RolledBack
    <3>1. ~Remove /\ ~Return
      BY <2>1 DEF Remove, Return, Updates
    <3> QED  BY <3>1 DEF Next, EditOutside, Run, Begin, Load, Save, WriteBackup, Track, Replace, SaveFails,
                Finish, Mark, ReviewStructure, ReviewInputs, Apply, Move, Install, Complete, Fail, Kill
  <2>3. file' = file /\ Moved = {} /\ Written = {}
    BY <2>2, NothingLeft DEF RolledBack, Moved, Written
  <2>4. \A m \in Names : file[m] = op.start[m]
    BY <2>1, <2>3 DEF Restorable
  <2>5. DOMAIN file = Names /\ DOMAIN op.start = Names
        /\ file \in [Names -> Contents] /\ op.start \in [Names -> Contents]
    BY <2>1, SnapshotFacts DEF TypesOK, Updates
  <2> QED  BY <2>3, <2>4, <2>5
<1> QED  BY <1>1, EditsHold, PTL DEF Spec, UpdateAllOrNothing
=============================================================================
