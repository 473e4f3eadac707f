---------------------------- MODULE StorageProofs ----------------------------
(***************************************************************************)
(* What is stored stays whole.                                             *)
(*                                                                         *)
(* The bundle of an upload holds and counts what a user was told last,     *)
(* for any number of requests, whatever they submit and whichever calls    *)
(* fail, up to the mishaps that BundleTrue names: UploadsInv says, of the  *)
(* one request at work, what each step of it has made of the bundle so     *)
(* far, what it could put back and which mishaps it has met.               *)
(*                                                                         *)
(* The native sources are the patch set that the state names, and keep     *)
(* what people edited, for any files, patch sets, updaters, edits and      *)
(* kills: SourceInv says, of the one updater at work, which of its files   *)
(* are as it found them and which as it wants them.                        *)
(*                                                                         *)
(* Model folders keep their files through any requests to copy, move and   *)
(* clean them and through what people do to them in between: ModelsKept    *)
(* says where the files of each folder come from, ClerksKnow, of each      *)
(* request, what it has read of folders that may have changed since.       *)
(*                                                                         *)
(* An imported grid is whole and the index of a finished download true,    *)
(* wherever their programs fail or are killed: ImportsInv says what an     *)
(* importer has put into its hidden folder, DownloadInv which of the       *)
(* archives it found a run has done, which spectra are on disk and which   *)
(* members of the archive at work it has been through.                     *)
(***************************************************************************)
EXTENDS Uploads, SourcePatch, GridDownload, ModelFolders, TLAPS

-----------------------------------------------------------------------------
(* Uploaded tables.                                                        *)

Steps == {"idle", "folder", "look", "table", "before", "write", "fill", "parse", "record",
          "restore", "refill", "unlink", "rmdir", "done", "refused", "failed", "killed"}
RequestTypes(q) ==
    /\ q = [at |-> q.at, kind |-> q.kind, text |-> q.text, rows |-> q.rows, before |-> q.before,
            added |-> q.added, points |-> q.points]
    /\ q.at \in Steps /\ q.kind \in {"none", "upload", "form", "save", "append", "delete"}
    /\ q.at = "idle" => q = Idle
    /\ q.at = "table" => q.kind = "append"
    /\ q.text \in Tables \/ (q.text = Nothing /\ q.kind = "append" /\ q.at \in {"look", "table", "refused", "killed"})
    /\ q.at \in {"fill", "parse", "record"} => q.kind \in {"upload", "form"} \/ Normalized(q.text, FALSE) # Refused
    /\ q.rows \in Tables /\ q.before \in Tables
UploadTypes ==
    /\ request = [r \in Requests |-> request[r]] /\ \A r \in Requests : RequestTypes(request[r])
    /\ source \in Tables \cup {Nothing} /\ told \in Tables \cup {Nothing}
    /\ folder \in BOOLEAN

\* Nothing happens before the upload.
NoBundle == source = Nothing /\ manifest = Nothing /\ ~folder
Untouched == ~Uploaded =>
    /\ NoBundle /\ told = Nothing
    /\ \A r \in Requests : request[r].at \in {"idle", "look", "refused", "killed"}

\* What a user was told, as far as nothing has gone wrong since.
Certain == "killed" \notin mishaps /\ "unremoved" \notin mishaps
Counted == manifest = Count(told) /\ Accepted(told) /\ source # Nothing /\ folder
Kept(table) ==
    /\ mishaps \subseteq {"unrecorded"} => Accepted(table)
    /\ mishaps = {} => table = told
Promised == Certain =>
    IF told = Nothing THEN manifest = Nothing /\ (mishaps = {} => NoBundle) ELSE Counted /\ Kept(source)

\* A request has written so much; one for a new table has no manifest yet; one for a table
\* that is there can put the former content back, which the manifest still counts.
Stored(r) ==
    /\ request[r].at \in {"fill", "refill"} => source = <<>>
    /\ request[r].at \in {"parse", "record"} => source = Canonical(r)
    /\ request[r].at = "record" => request[r].points = Count(Canonical(r)) /\ Accepted(Canonical(r))
Creates(r) ==
    /\ request[r].at \in {"folder", "write", "fill", "parse", "record", "unlink", "rmdir"}
    /\ Certain => /\ told = Nothing /\ manifest = Nothing
                  /\ (request[r].at = "folder" /\ mishaps = {}) => NoBundle
Saving == {"table", "before", "write", "fill", "parse", "record", "restore", "refill"}
Changes(r) ==
    /\ request[r].kind \in {"save", "append", "delete"}
    /\ request[r].at \in IF request[r].kind = "delete" THEN {"look", "unlink", "rmdir"} ELSE {"look"} \cup Saving
    /\ request[r].at \in {"look", "table", "before", "write"} => Promised
    /\ Certain => /\ request[r].at \in Saving => told # Nothing /\ Counted
                  /\ request[r].at \in Saving \ {"table", "before"} => Kept(request[r].before)
Alone(r) == Running(r) /\ \A q \in Requests \ {r} : ~Running(q)
AtWork(r) == Alone(r) /\ Stored(r) /\ IF Creating(r) THEN Creates(r) ELSE Changes(r)
Situation == (Quiet /\ Promised) \/ \E r \in Requests : AtWork(r)
UploadsInv ==
    /\ UploadTypes /\ Untouched
    /\ "mixed" \notin mishaps => Situation

(* Normalizing a table yields a table, or refuses it. *)
LEMMA ModernRowTyped ==
    ASSUME NEW t \in Seq(AnyToken), Len(t) >= 3
    PROVE  /\ ModernRow(t).wave \in AnyToken /\ ModernRow(t).width \in AnyToken
           /\ ModernRow(t).flux \in AnyToken /\ ModernRow(t).error \in AnyToken
           /\ ModernRow(t).note \in Seq(AnyToken)
<1>1. Len(t) \in Nat /\ \A i \in 1 .. Len(t) : t[i] \in AnyToken
  OBVIOUS
<1>2. t[1] \in AnyToken /\ t[2] \in AnyToken /\ t[3] \in AnyToken /\ (Len(t) >= 4 => t[4] \in AnyToken)
  BY <1>1
<1>3. Short(0) \in AnyToken
  BY DEF Short, Number, AnyToken
<1>4. From(t, 5) \in Seq(AnyToken) /\ From(t, 6) \in Seq(AnyToken)
  <2>1. ASSUME NEW i \in {5, 6} PROVE From(t, i) \in Seq(AnyToken)
    <3>1. \A k \in i .. Len(t) : t[k] \in AnyToken
      BY <1>1
    <3> QED  BY <1>1, <3>1 DEF From
  <2> QED  BY <2>1
<1>5. /\ ModernRow(t).wave = t[1] /\ ModernRow(t).width = t[2] /\ ModernRow(t).flux = t[3]
      /\ ModernRow(t).error = IF Len(t) < 4 \/ FourthIsFlag(t) THEN Short(0) ELSE t[4]
      /\ ModernRow(t).note = IF Len(t) >= 5 /\ IsFlag(t[5]) THEN From(t, 6) ELSE From(t, 5)
  BY DEF ModernRow
<1>6. ModernRow(t).error \in AnyToken
  BY <1>1, <1>2, <1>3, <1>5
<1>7. ModernRow(t).note \in Seq(AnyToken)
  BY <1>4, <1>5
<1> QED  BY <1>2, <1>5, <1>6, <1>7

LEMMA RowTyped ==
    ASSUME NEW l \in AnyLine
    PROVE  RowOf(l, FALSE) \in AnyLine \cup {Refused}
<1> DEFINE t == Split(l)
<1>1. t \in Seq(AnyToken)
  <2>1. Word \in AnyToken
    BY DEF Word, AnyToken
  <2>2. l.tokens \in Seq(AnyToken)
    BY DEF AnyLine
  <2> QED  BY <2>1, <2>2 DEF Split
<1> HIDE DEF t
<1>2. CASE Len(t) < 3 \/ ~Measured(ModernRow(t).wave, ModernRow(t).width, ModernRow(t).flux)
  BY <1>2 DEF RowOf, t
<1>3. CASE ~(Len(t) < 3 \/ ~Measured(ModernRow(t).wave, ModernRow(t).width, ModernRow(t).flux))
  <2> DEFINE r == ModernRow(t)
             e == IF Finite(r.error) /\ r.error.value >= 0 THEN r.error.value ELSE 0
             f == IF r.enabled THEN 1 ELSE 0
             c == IF l.hash THEN l.comment ELSE r.note
             h == c # <<>>
  <2>1. /\ r.wave \in AnyToken /\ r.width \in AnyToken /\ r.flux \in AnyToken /\ r.error \in AnyToken
        /\ r.note \in Seq(AnyToken)
    <3>1. Len(t) >= 3
      BY <1>1, <1>3
    <3> QED  BY <1>1, <3>1, ModernRowTyped
  <2> HIDE DEF r
  <2>2. r.wave.value \in Int /\ r.width.value \in Int /\ r.flux.value \in Int /\ e \in Int /\ f \in Int
    BY <2>1 DEF AnyToken
  <2>3. c \in Seq(AnyToken) /\ h \in BOOLEAN
    BY <2>1 DEF AnyLine
  <2>4. RowOf(l, FALSE) = Line(<<Short(r.wave.value), Short(r.width.value), Short(r.flux.value),
                                 Short(e), Short(f)>>, h, c)
    BY <1>1, <1>3 DEF RowOf, t, r
  <2> HIDE DEF e, f, c, h
  <2>5. \A v \in Int : Short(v) \in AnyToken
    BY DEF Short, Number, AnyToken
  <2> DEFINE s == <<Short(r.wave.value), Short(r.width.value), Short(r.flux.value), Short(e), Short(f)>>
  <2>6. s \in Seq(AnyToken) /\ RowOf(l, FALSE) = Line(s, h, c)
    <3>1. s \in Seq(AnyToken)
      BY <2>2, <2>5
    <3>2. RowOf(l, FALSE) = Line(s, h, c)
      BY <2>4, Zenon
    <3> QED  BY <3>1, <3>2
  <2> HIDE DEF s
  <2>7. Line(s, h, c) \in AnyLine
    BY <2>3, <2>6 DEF Line, AnyLine
  <2> QED  BY <2>6, <2>7
<1> QED  BY <1>2, <1>3

LEMMA NormalizedTable ==
    ASSUME NEW table \in Tables
    PROVE  Normalized(table, FALSE) \in Tables \cup {Refused}
<1> DEFINE rows == [i \in DOMAIN table |-> RowOf(table[i], FALSE)]
<1>1. Len(table) \in Nat /\ DOMAIN table = 1 .. Len(table) /\ \A i \in 1 .. Len(table) : table[i] \in AnyLine
  BY DEF Tables
<1>2. \A i \in 1 .. Len(table) : rows[i] \in AnyLine \cup {Refused}
  BY <1>1, RowTyped
<1>3. Normalized(table, FALSE) = IF Refused \in Range(rows) THEN Refused ELSE rows
  BY DEF Normalized
<1>4. rows = [i \in 1 .. Len(table) |-> rows[i]]
  BY <1>1
<1> HIDE DEF rows
<1>5. CASE Refused \notin Range(rows)
  <2>1. DOMAIN rows = 1 .. Len(table)
    BY <1>4
  <2>2. \A i \in 1 .. Len(table) : rows[i] \in AnyLine
    BY <1>2, <1>5, <2>1 DEF Range
  <2>3. rows \in [1 .. Len(table) -> AnyLine]
    BY <1>4, <2>2
  <2>4. rows \in Tables
    BY <1>1, <2>3 DEF Tables
  <2> QED  BY <1>3, <2>4
<1> QED  BY <1>3, <1>5

(* The rows that VizieR brings, and a table that they are added to, are tables. *)
LEMMA VizierRows ==
    ASSUME NEW answer \in Seq(AnyPoint)
    PROVE  [i \in DOMAIN answer |-> VizierLine(answer[i])] \in Tables
<1>1. Len(answer) \in Nat /\ DOMAIN answer = 1 .. Len(answer) /\ \A i \in 1 .. Len(answer) : answer[i] \in AnyPoint
  OBVIOUS
<1>2. ASSUME NEW p \in AnyPoint PROVE VizierLine(p) \in AnyLine
  <2> DEFINE c == p.comment
             h == c # <<>>
             w == IF p.wave = Shortest THEN 0 ELSE p.wave
  <2>1. /\ p.wave \in Int /\ p.width \in Int /\ p.flux \in Int /\ p.error \in Int
        /\ c \in Seq(AnyToken) /\ h \in BOOLEAN /\ w \in Int
    BY DEF AnyPoint
  <2>2. VizierLine(p) = Line(<<Long(w), Long(p.width), Long(p.flux), Long(p.error), Short(1)>>, h, c)
    BY DEF VizierLine, Decimals
  <2> HIDE DEF c, h, w
  <2>3. /\ \A v \in Int : Long(v) \in AnyToken
        /\ Short(1) \in AnyToken
    BY DEF Short, Long, Number, AnyToken
  <2>4. <<Long(w), Long(p.width), Long(p.flux), Long(p.error), Short(1)>> \in Seq(AnyToken)
    BY <2>1, <2>3
  <2> QED  BY <2>1, <2>2, <2>4 DEF Line, AnyLine
<1> DEFINE rows == [i \in DOMAIN answer |-> VizierLine(answer[i])]
<1>3. rows \in [1 .. Len(answer) -> AnyLine]
  BY <1>1, <1>2
<1> HIDE DEF rows
<1>4. rows \in Tables
  BY <1>1, <1>3 DEF Tables
<1> QED  BY <1>4 DEF rows

LEMMA MergedTable ==
    ASSUME NEW base \in Tables, NEW extra \in Tables
    PROVE  Merged(base, extra) \in Tables
<1> DEFINE places == [i \in DOMAIN extra |-> i]
           new == {i \in DOMAIN extra : NewKey(base, extra, i)}
           added == Only(places, new)
           rows == [n \in DOMAIN added |-> extra[added[n]]]
<1>1. Len(extra) \in Nat /\ DOMAIN extra = 1 .. Len(extra) /\ \A i \in 1 .. Len(extra) : extra[i] \in AnyLine
  BY DEF Tables
<1>2. places \in Seq(DOMAIN extra)
  BY <1>1
<1> HIDE DEF places, new
<1>3. added \in Seq(DOMAIN extra)
  BY <1>2, OnlySelects
<1> HIDE DEF added
<1>4. Len(added) \in Nat /\ DOMAIN added = 1 .. Len(added) /\ \A n \in DOMAIN added : added[n] \in DOMAIN extra
  BY <1>3
<1>5. rows \in [1 .. Len(added) -> AnyLine]
  BY <1>1, <1>4
<1> HIDE DEF rows
<1>6. rows \in Tables
  BY <1>4, <1>5 DEF Tables
<1>7. base \o rows \in Tables
  BY <1>6 DEF Tables
<1> QED  BY <1>7 DEF Merged, rows, added, new, places

LEMMA EmptyTable == <<>> \in Tables /\ <<>> # Nothing /\ Nothing \notin Tables
<1>1. <<>> \in Tables
  BY DEF Tables
<1> QED  BY <1>1, TableAssumption

(* What requests and the disk can hold, whatever fails and whoever overlaps. *)
LEMMA InitUploads == UploadsInit => UploadsInv
<1> SUFFICES ASSUME UploadsInit PROVE UploadsInv
  OBVIOUS
<1>1. <<>> \in Tables
  BY DEF Tables
<1>2. UploadTypes
  BY <1>1 DEF UploadsInit, UploadTypes, RequestTypes, Idle, Steps
<1>3. Quiet /\ Promised /\ Untouched
  BY DEF UploadsInit, Quiet, Running, Idle, Promised, NoBundle, Untouched
<1> QED  BY <1>2, <1>3 DEF UploadsInv, Situation

(* A step of one request leaves the others as they were. *)
LEMMA OneTyped ==
    ASSUME UploadTypes, NEW r \in Requests, NEW q,
           request' = [request EXCEPT ![r] = q], RequestTypes(q),
           source' \in Tables \cup {Nothing}, told' \in Tables \cup {Nothing},
           folder' \in BOOLEAN
    PROVE  UploadTypes'
<1>1. /\ request' = [x \in Requests |-> request'[x]]
      /\ \A x \in Requests : request'[x] = IF x = r THEN q ELSE request[x]
  BY DEF UploadTypes
<1>2. ASSUME NEW x \in Requests PROVE RequestTypes(request'[x])
  BY <1>1, <1>2 DEF UploadTypes
<1> QED  BY <1>1, <1>2 DEF UploadTypes

(* What a request writes is a table. *)
LEMMA CanonicalTable ==
    ASSUME UploadTypes, NEW r \in Requests, request[r].at \in {"write", "fill", "parse", "record"}
    PROVE  /\ Canonical(r) \in Tables \cup {Refused}
           /\ ~At(r, "write") => Canonical(r) \in Tables
<1>1. request[r].text \in Tables
  BY DEF UploadTypes, RequestTypes
<1>2. Refused \notin Tables
  BY TableAssumption
<1>3. ~At(r, "write") => Creating(r) \/ Normalized(request[r].text, FALSE) # Refused
  BY DEF UploadTypes, RequestTypes, Creating, At
<1> QED  BY <1>1, <1>2, <1>3, NormalizedTable DEF Canonical

(* The next step of a request. *)
LEMMA GoIs ==
    ASSUME UploadTypes, NEW r \in Requests, NEW p, Go(r, p)
    PROVE  LET q == request[r] IN
           /\ request' = [request EXCEPT ![r] = [at |-> p, kind |-> q.kind, text |-> q.text, rows |-> q.rows,
                              before |-> q.before, added |-> q.added, points |-> q.points]]
           /\ request'[r] = [at |-> p, kind |-> q.kind, text |-> q.text, rows |-> q.rows,
                              before |-> q.before, added |-> q.added, points |-> q.points]
           /\ \A x \in Requests \ {r} : request'[x] = request[x]
<1> DEFINE q == request[r]
           n == [at |-> p, kind |-> q.kind, text |-> q.text, rows |-> q.rows,
                 before |-> q.before, added |-> q.added, points |-> q.points]
<1>1. q = [at |-> q.at, kind |-> q.kind, text |-> q.text, rows |-> q.rows, before |-> q.before,
           added |-> q.added, points |-> q.points]
  <2>1. RequestTypes(q)
    BY DEF UploadTypes
  <2> HIDE DEF q
  <2> QED  BY <2>1, Zenon DEF RequestTypes
<1>2. request' = [request EXCEPT ![r] = [q EXCEPT !.at = p]]
  BY DEF Go
<1>3. [q EXCEPT !.at = p] = n
  BY <1>1
<1>4. request' = [request EXCEPT ![r] = n]
  BY <1>2, <1>3
<1> HIDE DEF n
<1>5. request = [x \in Requests |-> request[x]]
  BY DEF UploadTypes
<1> QED  BY <1>4, <1>5 DEF n

LEMMA GoTyped ==
    ASSUME UploadTypes, NEW r \in Requests, NEW p \in Steps \ {"idle"}, Go(r, p),
           p \in {"refused", "killed"} \/
               (/\ request[r].kind = "append" => request[r].at # "look" \/ p = "table"
                /\ p = "table" => request[r].at = "look" /\ request[r].kind = "append"
                /\ p \in {"fill", "parse"} => Canonical(r) # Refused
                /\ p \notin {"look", "record"} /\ request[r].at \notin {"table", "refused", "killed"}),
           source' \in Tables \cup {Nothing}, told' \in Tables \cup {Nothing},
           folder' \in BOOLEAN
    PROVE  UploadTypes'
<1> DEFINE q == request[r]
           n == [at |-> p, kind |-> q.kind, text |-> q.text, rows |-> q.rows, before |-> q.before,
                 added |-> q.added, points |-> q.points]
<1>1. request' = [request EXCEPT ![r] = n]
  BY GoIs
<1>2. RequestTypes(q)
  BY DEF UploadTypes
<1>3. p \in {"fill", "parse"} => q.kind \in {"upload", "form"} \/ Normalized(q.text, FALSE) # Refused
  BY DEF Canonical, Creating
<1>4. RequestTypes(n)
  <2>1. n = [at |-> n.at, kind |-> n.kind, text |-> n.text, rows |-> n.rows, before |-> n.before,
             added |-> n.added, points |-> n.points]
    OBVIOUS
  <2>2. n.at = p /\ n.kind = q.kind /\ n.text = q.text /\ n.rows = q.rows /\ n.before = q.before
    OBVIOUS
  <2> HIDE DEF n
  <2> QED  BY <1>2, <1>3, <2>1, <2>2 DEF RequestTypes
<1> HIDE DEF n
<1> QED  BY <1>1, <1>4, OneTyped

LEMMA BeginsTyped ==
    ASSUME UploadTypes, NEW r \in Requests, NEW kind \in {"upload", "form", "save", "append", "delete"}, NEW text, NEW rows \in Tables,
           text \in Tables \/ (kind = "append" /\ text = Nothing), Begins(r, kind, text, rows)
    PROVE  UploadTypes'
<1> DEFINE a == IF kind \in {"upload", "form"} THEN "folder" ELSE "look"
           n == [at |-> a, kind |-> kind, text |-> text, rows |-> rows, before |-> <<>>, added |-> FALSE, points |-> 0]
<1>1. request' = [request EXCEPT ![r] = n]
  <2>1. request' = [request EXCEPT ![r] = [Idle EXCEPT !.at = a, !.kind = kind, !.text = text, !.rows = rows]]
    BY DEF Begins
  <2> HIDE DEF a
  <2>2. [Idle EXCEPT !.at = a, !.kind = kind, !.text = text, !.rows = rows] = n
    <3>1. [Idle EXCEPT !.at = a, !.kind = kind, !.text = text, !.rows = rows] =
              [i \in DOMAIN Idle |-> IF i = "at" THEN a ELSE IF i = "kind" THEN kind ELSE IF i = "text" THEN text
                                  ELSE IF i = "rows" THEN rows ELSE Idle[i]]
      OBVIOUS
    <3>2. DOMAIN Idle = {"at", "kind", "text", "rows", "before", "added", "points"}
      BY DEF Idle
    <3>3. Idle.before = <<>> /\ Idle.added = FALSE /\ Idle.points = 0
      BY DEF Idle
    <3>4. [i \in DOMAIN Idle |-> IF i = "at" THEN a ELSE IF i = "kind" THEN kind ELSE IF i = "text" THEN text
                                  ELSE IF i = "rows" THEN rows ELSE Idle[i]] =
              [at |-> a, kind |-> kind, text |-> text, rows |-> rows,
               before |-> Idle.before, added |-> Idle.added, points |-> Idle.points]
      BY <3>2
    <3> QED  BY <3>1, <3>3, <3>4
  <2> QED  BY <2>1, <2>2
<1>2. RequestTypes(n)
  <2>1. <<>> \in Tables
    BY DEF Tables
  <2> QED  BY <2>1 DEF RequestTypes, Steps
<1>3. source' \in Tables \cup {Nothing} /\ told' \in Tables \cup {Nothing} /\ folder' \in BOOLEAN
  BY DEF Begins, bundle, UploadTypes
<1> HIDE DEF n
<1> QED  BY <1>1, <1>2, <1>3, OneTyped

LEMMA BeginningTyped ==
    ASSUME UploadTypes, NEW r \in Requests, Upload(r) \/ Save(r) \/ AppendRows(r) \/ Delete(r)
    PROVE  UploadTypes'
<1>1. Texts \subseteq Tables /\ Nothing \notin Tables /\ Refused \notin Tables /\ <<>> \in Tables
  BY UploadsAssumption, TableAssumption DEF Tables
<1>2. ASSUME Upload(r) PROVE UploadTypes'
  <2>1. PICK text \in Texts : Begins(r, "upload", text, <<>>)
            \/ (Normalized(text, FALSE) # Refused /\ Begins(r, "form", Normalized(text, FALSE), <<>>))
    BY <1>2 DEF Upload
  <2>2. CASE Begins(r, "upload", text, <<>>)
    BY <1>1, <2>2, BeginsTyped
  <2>3. CASE Normalized(text, FALSE) # Refused /\ Begins(r, "form", Normalized(text, FALSE), <<>>)
    <3>1. Normalized(text, FALSE) \in Tables
      BY <1>1, <2>3, NormalizedTable
    <3> DEFINE table == Normalized(text, FALSE)
    <3>2. table \in Tables /\ Begins(r, "form", table, <<>>)
      BY <2>3, <3>1
    <3> HIDE DEF table
    <3> QED  BY <1>1, <3>2, BeginsTyped
  <2> QED  BY <2>1, <2>2, <2>3
<1>3. ASSUME Save(r) PROVE UploadTypes'
  <2>1. PICK text \in Texts : Begins(r, "save", text, <<>>)
    BY <1>3 DEF Save
  <2> QED  BY <1>1, <2>1, BeginsTyped
<1>4. ASSUME Delete(r) PROVE UploadTypes'
  BY <1>1, <1>4, BeginsTyped DEF Delete
<1>5. ASSUME AppendRows(r) PROVE UploadTypes'
  <2>1. PICK text \in Texts \cup {Nothing}, answer \in Answers :
            IF answer = Refused \/ answer = <<>> THEN At(r, "idle") /\ Go(r, "refused") /\ Keep
            ELSE Begins(r, "append", text, [i \in DOMAIN answer |-> VizierLine(answer[i])])
    BY <1>5 DEF AppendRows
  <2>2. CASE answer = Refused \/ answer = <<>>
    <3>1. Go(r, "refused") /\ Keep
      BY <2>1, <2>2
    <3>2. /\ source' \in Tables \cup {Nothing} /\ told' \in Tables \cup {Nothing}
          /\ folder' \in BOOLEAN /\ "refused" \in Steps \ {"idle"}
      BY <3>1 DEF Keep, bundle, UploadTypes, Steps
    <3> QED  BY <3>1, <3>2, GoTyped
  <2>3. CASE ~(answer = Refused \/ answer = <<>>)
    <3> DEFINE rows == [i \in DOMAIN answer |-> VizierLine(answer[i])]
    <3>1. answer \in Seq(AnyPoint)
      BY <2>3, UploadsAssumption
    <3>2. rows \in Tables
      BY <3>1, VizierRows
    <3>3. Begins(r, "append", text, rows)
      BY <2>1, <2>3
    <3> HIDE DEF rows
    <3> QED  BY <1>1, <3>2, <3>3, BeginsTyped
  <2> QED  BY <2>1, <2>2, <2>3
<1> QED  BY <1>2, <1>3, <1>4, <1>5

(* What a request knows after it has read something. *)
LEMMA ReadingIs ==
    ASSUME UploadTypes, NEW r \in Requests
    PROVE  LET q == request[r] IN
           /\ ReadTable(r) => \E merged \in Tables : \E more :
                  request' = [request EXCEPT ![r] = [at |-> "before", kind |-> q.kind, text |-> merged, rows |-> q.rows,
                                  before |-> q.before, added |-> more, points |-> q.points]]
           /\ ReadBefore(r) => \E former \in Tables :
                  /\ Reads(former)
                  /\ request' = [request EXCEPT ![r] = [at |-> "write", kind |-> q.kind, text |-> q.text, rows |-> q.rows,
                                  before |-> former, added |-> q.added, points |-> q.points]]
           /\ ParseSource(r) /\ Accepts(r) =>
                  request' = [request EXCEPT ![r] = [at |-> "record", kind |-> q.kind, text |-> q.text, rows |-> q.rows,
                                  before |-> q.before, added |-> q.added,
                                  points |-> IF Unparsed(r) THEN 0 ELSE Count(source)]]
<1> DEFINE q == request[r]
<1>1. /\ q = [at |-> q.at, kind |-> q.kind, text |-> q.text, rows |-> q.rows, before |-> q.before,
              added |-> q.added, points |-> q.points]
      /\ RequestTypes(q)
  <2>1. RequestTypes(q)
    BY DEF UploadTypes
  <2> HIDE DEF q
  <2> QED  BY <2>1, Zenon DEF RequestTypes
<1>2. DOMAIN q = {"at", "kind", "text", "rows", "before", "added", "points"}
  BY <1>1
<1>3. ASSUME ReadTable(r)
      PROVE  \E merged \in Tables : \E more :
                  request' = [request EXCEPT ![r] = [at |-> "before", kind |-> q.kind, text |-> merged, rows |-> q.rows,
                                  before |-> q.before, added |-> more, points |-> q.points]]
  <2>1. PICK base \in {ReadText, <<>>, q.text} :
            /\ q.text = Nothing => base \in {ReadText, <<>>}
            /\ q.text # Nothing => base = q.text
            /\ LET merged == Merged(base, q.rows)
               IN request' = [request EXCEPT
                    ![r].at = "before", ![r].text = merged, ![r].added = Len(merged) > Len(base)]
    BY <1>3 DEF ReadTable, Reads
  <2> DEFINE merged == Merged(base, q.rows)
             more == Len(merged) > Len(base)
             n == [at |-> "before", kind |-> q.kind, text |-> merged, rows |-> q.rows, before |-> q.before,
                   added |-> more, points |-> q.points]
             e == [q EXCEPT !.at = "before", !.text = merged, !.added = more]
             f == [i \in DOMAIN q |-> IF i = "at" THEN "before" ELSE IF i = "text" THEN merged
                                      ELSE IF i = "added" THEN more ELSE q[i]]
  <2>3. base \in Tables
    BY <1>1, <2>1, EmptyTable DEF ReadText, UploadTypes, RequestTypes
  <2>4. merged \in Tables
    BY <1>1, <2>3, MergedTable DEF RequestTypes
  <2> HIDE DEF merged, more
  <2>5. request' = [request EXCEPT ![r] = e]
    <3>1. request' = [request EXCEPT ![r].at = "before", ![r].text = merged, ![r].added = more]
      BY <2>1 DEF merged, more
    <3> QED  BY <3>1 DEF UploadTypes
  <2>6. e = f
    OBVIOUS
  <2>7. f = n
    BY <1>1, <1>2
  <2> QED  BY <2>4, <2>5, <2>6, <2>7
<1>4. ASSUME ReadBefore(r)
      PROVE  \E former \in Tables :
                  /\ Reads(former)
                  /\ request' = [request EXCEPT ![r] = [at |-> "write", kind |-> q.kind, text |-> q.text,
                                  rows |-> q.rows, before |-> former, added |-> q.added, points |-> q.points]]
  <2>0. PICK former \in {ReadText, <<>>} :
            Reads(former) /\ request' = [request EXCEPT ![r].at = "write", ![r].before = former]
    BY <1>4 DEF ReadBefore
  <2> DEFINE n == [at |-> "write", kind |-> q.kind, text |-> q.text, rows |-> q.rows, before |-> former,
                   added |-> q.added, points |-> q.points]
             e == [q EXCEPT !.at = "write", !.before = former]
             f == [i \in DOMAIN q |-> IF i = "at" THEN "write" ELSE IF i = "before" THEN former ELSE q[i]]
  <2>1. request' = [request EXCEPT ![r] = e]
    BY <2>0 DEF UploadTypes
  <2>2. e = f
    OBVIOUS
  <2>3. f = n
    BY <1>1, <1>2
  <2>4. former \in Tables
    BY <2>0, EmptyTable DEF ReadText, UploadTypes
  <2> QED  BY <2>0, <2>1, <2>2, <2>3, <2>4
<1>5. ASSUME ParseSource(r), Accepts(r)
      PROVE  request' = [request EXCEPT ![r] = [at |-> "record", kind |-> q.kind, text |-> q.text, rows |-> q.rows,
                                  before |-> q.before, added |-> q.added,
                                  points |-> IF Unparsed(r) THEN 0 ELSE Count(source)]]
  <2> DEFINE m == IF Unparsed(r) THEN 0 ELSE Count(source)
             n == [at |-> "record", kind |-> q.kind, text |-> q.text, rows |-> q.rows, before |-> q.before,
                   added |-> q.added, points |-> m]
             e == [q EXCEPT !.at = "record", !.points = m]
             f == [i \in DOMAIN q |-> IF i = "at" THEN "record" ELSE IF i = "points" THEN m ELSE q[i]]
  <2>1. request' = [request EXCEPT ![r] = e]
    BY <1>5 DEF UploadTypes, ParseSource
  <2> HIDE DEF m
  <2>2. e = f
    OBVIOUS
  <2>3. f = n
    BY <1>1, <1>2
  <2> QED  BY <2>1, <2>2, <2>3 DEF m
<1> QED  BY <1>3, <1>4, <1>5

LEMMA ReadingTyped ==
    ASSUME UploadTypes, NEW r \in Requests, ReadTable(r) \/ ReadBefore(r) \/ ParseSource(r)
    PROVE  UploadTypes'
<1> DEFINE q == request[r]
<1>1. RequestTypes(q)
  BY DEF UploadTypes
<1>2. /\ source' \in Tables \cup {Nothing} /\ told' \in Tables \cup {Nothing}
      /\ folder' \in BOOLEAN
  BY DEF UploadTypes, ReadTable, ReadBefore, ParseSource, Keep, bundle
<1>4. ASSUME ReadTable(r) PROVE UploadTypes'
  <2>0. PICK merged \in Tables : \E more :
            request' = [request EXCEPT ![r] = [at |-> "before", kind |-> q.kind, text |-> merged, rows |-> q.rows,
                            before |-> q.before, added |-> more, points |-> q.points]]
    BY <1>4, ReadingIs
  <2>1. PICK more :
            request' = [request EXCEPT ![r] = [at |-> "before", kind |-> q.kind, text |-> merged, rows |-> q.rows,
                            before |-> q.before, added |-> more, points |-> q.points]]
    BY <2>0
  <2> DEFINE n == [at |-> "before", kind |-> q.kind, text |-> merged, rows |-> q.rows, before |-> q.before,
                   added |-> more, points |-> q.points]
  <2>2. RequestTypes(n)
    BY <1>1 DEF RequestTypes, Steps
  <2> HIDE DEF n
  <2> QED  BY <1>2, <2>1, <2>2, OneTyped DEF n
<1>5. ASSUME ReadBefore(r) PROVE UploadTypes'
  <2>1. PICK former \in Tables :
            request' = [request EXCEPT ![r] = [at |-> "write", kind |-> q.kind, text |-> q.text, rows |-> q.rows,
                            before |-> former, added |-> q.added, points |-> q.points]]
    BY <1>5, ReadingIs
  <2> DEFINE n == [at |-> "write", kind |-> q.kind, text |-> q.text, rows |-> q.rows, before |-> former,
                   added |-> q.added, points |-> q.points]
  <2>2. RequestTypes(n)
    BY <1>1, <1>5 DEF RequestTypes, Steps, ReadBefore, At
  <2> HIDE DEF n
  <2> QED  BY <1>2, <2>1, <2>2, OneTyped DEF n
<1>6. ASSUME ParseSource(r) PROVE UploadTypes'
  <2>1. CASE Accepts(r)
    <3> DEFINE m == IF Unparsed(r) THEN 0 ELSE Count(source)
               n == [at |-> "record", kind |-> q.kind, text |-> q.text, rows |-> q.rows, before |-> q.before,
                     added |-> q.added, points |-> m]
    <3>1. request' = [request EXCEPT ![r] = n]
      BY <1>6, <2>1, ReadingIs
    <3> HIDE DEF m
    <3>2. RequestTypes(n)
      <4>1. n = [at |-> n.at, kind |-> n.kind, text |-> n.text, rows |-> n.rows, before |-> n.before,
                 added |-> n.added, points |-> n.points]
        OBVIOUS
      <4>2. n.at = "record" /\ n.kind = q.kind /\ n.text = q.text /\ n.rows = q.rows /\ n.before = q.before
        OBVIOUS
      <4> HIDE DEF n
      <4> QED  BY <1>1, <1>6, <4>1, <4>2 DEF RequestTypes, Steps, ParseSource, At
    <3> HIDE DEF n
    <3> QED  BY <1>2, <3>1, <3>2, OneTyped
  <2>2. CASE ~Accepts(r)
    <3> DEFINE p == AfterError(r)
    <3>1. Go(r, p) /\ p \in Steps \ {"idle"} /\ q.at = "parse" /\ p \in {"unlink", "restore"}
      BY <1>6, <2>2 DEF ParseSource, AfterError, Steps, At
    <3> HIDE DEF p
    <3> QED  BY <1>2, <3>1, GoTyped
  <2> QED  BY <2>1, <2>2
<1> QED  BY <1>4, <1>5, <1>6

(* Every step keeps the types. *)
LEMMA UploadTypesStep == UploadTypes /\ [UploadsNext]_uploads => UploadTypes'
<1> SUFFICES ASSUME UploadTypes, [UploadsNext]_uploads PROVE UploadTypes'
  OBVIOUS
<1>1. CASE UNCHANGED uploads
  BY <1>1 DEF uploads, bundle, UploadTypes
<1>2. CASE UploadsNext
  <2>1. PICK r \in Requests :
            \/ Upload(r) \/ Save(r) \/ AppendRows(r) \/ Delete(r)
            \/ Process(r) \/ Unlink(r) \/ RemoveFolder(r) \/ CallFails(r) \/ Kill(r)
    BY <1>2 DEF UploadsNext
  <2> DEFINE q == request[r]
             Onward(p) == /\ Go(r, p)
                        /\ source' \in Tables \cup {Nothing} /\ told' \in Tables \cup {Nothing}
                        /\ folder' \in BOOLEAN
  <2>2. /\ source \in Tables \cup {Nothing} /\ told \in Tables \cup {Nothing}
        /\ folder \in BOOLEAN /\ RequestTypes(q) /\ <<>> \in Tables
    BY DEF UploadTypes, Tables
  <2>3. CASE Upload(r) \/ Save(r) \/ AppendRows(r) \/ Delete(r)
    BY <2>3, BeginningTyped
  <2>4. CASE ReadTable(r) \/ ReadBefore(r) \/ ParseSource(r)
    BY <2>4, ReadingTyped
  <2>5. CASE MakeFolder(r)
    <3>1. Onward("write") /\ q.at = "folder"
      BY <2>2, <2>5 DEF MakeFolder, At
    <3> QED  BY <3>1, GoTyped DEF Steps
  <2>6. CASE Look(r)
    <3>1. q.at = "look" /\ \E p \in {"refused", "unlink", "table", "before"} :
              Onward(p) /\ (p # "refused" => (p = "table" <=> q.kind = "append"))
      BY <2>2, <2>6 DEF Look, At, Keep, bundle
    <3>2. PICK p \in {"refused", "unlink", "table", "before"} :
              Onward(p) /\ (p # "refused" => (p = "table" <=> q.kind = "append"))
      BY <3>1
    <3> QED  BY <3>1, <3>2, GoTyped DEF Steps
  <2>7. CASE NothingNew(r)
    <3>1. Onward("refused")
      BY <2>2, <2>7 DEF NothingNew, Keep, bundle
    <3> QED  BY <3>1, GoTyped DEF Steps
  <2>8. CASE Truncate(r)
    <3>1. q.at = "write" /\ \E p \in {"fill", "unlink", "restore"} :
              Onward(p) /\ (p = "fill" => Canonical(r) # Refused)
      BY <2>2, <2>8 DEF Truncate, At, AfterError
    <3>2. PICK p \in {"fill", "unlink", "restore"} : Onward(p) /\ (p = "fill" => Canonical(r) # Refused)
      BY <3>1
    <3> QED  BY <3>1, <3>2, GoTyped DEF Steps
  <2>9. CASE Fill(r)
    <3>1. q.at = "fill" /\ Go(r, "parse") /\ folder' \in BOOLEAN
          /\ told' \in Tables \cup {Nothing} /\ source' = IF source = Nothing THEN Nothing ELSE Canonical(r)
      BY <2>2, <2>9 DEF Fill, At
    <3>2. Canonical(r) \in Tables /\ Refused \notin Tables
      BY <3>1, CanonicalTable, TableAssumption DEF At
    <3> QED  BY <3>1, <3>2, GoTyped DEF Steps
  <2>10. CASE WriteManifest(r)
    <3>1. q.at = "record" /\ Go(r, "done") /\ folder' \in BOOLEAN
          /\ source' \in Tables \cup {Nothing} /\ told' = Canonical(r)
      BY <2>2, <2>10 DEF WriteManifest, At
    <3>2. Canonical(r) \in Tables
      BY <3>1, CanonicalTable DEF At
    <3> QED  BY <3>1, <3>2, GoTyped DEF Steps
  <2>11. CASE Reopen(r)
    <3>1. q.at = "restore" /\ \E p \in {"refill", "failed"} : Onward(p)
      BY <2>2, <2>11 DEF Reopen, At
    <3>2. PICK p \in {"refill", "failed"} : Onward(p)
      BY <3>1
    <3> QED  BY <3>1, <3>2, GoTyped DEF Steps
  <2>12. CASE Refill(r)
    <3>1. q.at = "refill" /\ Onward("failed")
      BY <2>2, <2>12 DEF Refill, At, Former, RequestTypes
    <3> QED  BY <3>1, GoTyped DEF Steps
  <2>13. CASE Unlink(r)
    <3>1. \/ source' \in Tables \cup {Nothing} /\ UNCHANGED <<folder, request, told>>
          \/ q.at = "unlink" /\ Onward("rmdir")
      BY <2>2, <2>13 DEF Unlink, At, bundle
    <3>2. CASE source' \in Tables \cup {Nothing} /\ UNCHANGED <<folder, request, told>>
      BY <3>2 DEF UploadTypes
    <3>3. CASE q.at = "unlink" /\ Onward("rmdir")
      BY <3>3, GoTyped DEF Steps
    <3> QED  BY <3>1, <3>2, <3>3
  <2>14. CASE RemoveFolder(r)
    <3>1. q.at = "rmdir" /\ \E p \in {"done", "failed"} : Onward(p)
      BY <2>2, <2>14 DEF RemoveFolder, At
    <3>2. PICK p \in {"done", "failed"} : Onward(p)
      BY <3>1
    <3> QED  BY <3>1, <3>2, GoTyped DEF Steps
  <2>15. CASE CallFails(r)
    <3>1. \E p \in {"refused", "unlink", "restore", "failed"} :
              Onward(p) /\ (p # "refused" => q.at \notin {"look", "table", "refused", "killed"})
      BY <2>2, <2>15 DEF CallFails, At, AfterError, bundle
    <3>2. PICK p \in {"refused", "unlink", "restore", "failed"} :
              Onward(p) /\ (p # "refused" => q.at \notin {"look", "table", "refused", "killed"})
      BY <3>1
    <3> QED  BY <3>2, GoTyped DEF Steps
  <2>16. CASE Kill(r)
    <3>1. Onward("killed")
      BY <2>2, <2>16 DEF Kill, bundle
    <3> QED  BY <3>1, GoTyped DEF Steps
  <2> QED  BY <2>1, <2>3, <2>4, <2>5, <2>6, <2>7, <2>8, <2>9, <2>10, <2>11, <2>12, <2>13, <2>14, <2>15,
              <2>16 DEF Process
<1> QED  BY <1>1, <1>2

(* Without overlaps, a request that runs is the one at work. *)
LEMMA OneWorks ==
    ASSUME Situation, NEW r \in Requests, Running(r)
    PROVE  AtWork(r)
<1>1. ~Quiet
  BY DEF Quiet
<1>2. PICK x \in Requests : AtWork(x)
  BY <1>1 DEF Situation
<1>3. x = r
  BY <1>2 DEF AtWork, Alone
<1> QED  BY <1>2, <1>3

(* It goes on alone, or nobody runs any more; and it stays what it is. *)
LEMMA Continues ==
    ASSUME NEW r \in Requests, Alone(r), \A x \in Requests \ {r} : request'[x] = request[x],
           request'[r].kind = request[r].kind
    PROVE  /\ Running(r)' => Alone(r)'
           /\ ~Running(r)' => Quiet'
           /\ Creating(r)' = Creating(r)
           /\ Uploaded' = Uploaded
<1>1. \A x \in Requests \ {r} : ~Running(x)'
  BY DEF Alone, Running
<1>2. \A x \in Requests : request'[x].kind = request[x].kind
  OBVIOUS
<1> QED  BY <1>1, <1>2 DEF Alone, Quiet, Creating, Uploaded

(* The fields of a request that a step leaves. *)
LEMMA GoesOn ==
    ASSUME UploadTypes, NEW r \in Requests, NEW p, Go(r, p)
    PROVE  /\ request'[r].at = p /\ request'[r].kind = request[r].kind /\ request'[r].text = request[r].text
           /\ request'[r].before = request[r].before /\ request'[r].points = request[r].points
           /\ \A x \in Requests \ {r} : request'[x] = request[x]
           /\ Canonical(r)' = Canonical(r)
<1>1. /\ request'[r].at = p /\ request'[r].kind = request[r].kind /\ request'[r].text = request[r].text
      /\ request'[r].before = request[r].before /\ request'[r].points = request[r].points
      /\ \A x \in Requests \ {r} : request'[x] = request[x]
  <2> DEFINE q == request[r]
             n == [at |-> p, kind |-> q.kind, text |-> q.text, rows |-> q.rows,
                   before |-> q.before, added |-> q.added, points |-> q.points]
  <2>1. request'[r] = n /\ \A x \in Requests \ {r} : request'[x] = request[x]
    BY GoIs
  <2> QED  BY <2>1
<1> QED  BY <1>1 DEF Canonical, Creating

(* A request that begins. *)
LEMMA BeginsIs ==
    ASSUME UploadTypes, NEW r \in Requests, NEW kind, NEW text, NEW rows, Begins(r, kind, text, rows)
    PROVE  /\ request'[r].at = (IF kind \in {"upload", "form"} THEN "folder" ELSE "look") /\ request'[r].kind = kind
           /\ \A x \in Requests \ {r} : request'[x] = request[x]
           /\ request[r] = Idle /\ UNCHANGED <<source, manifest, folder, told>>
<1> DEFINE a == IF kind \in {"upload", "form"} THEN "folder" ELSE "look"
           n == [Idle EXCEPT !.at = a, !.kind = kind, !.text = text, !.rows = rows]
<1>1. request' = [request EXCEPT ![r] = n] /\ UNCHANGED <<source, manifest, folder, told>> /\ request[r].at = "idle"
  BY DEF Begins, bundle, At
<1>2. n.at = a /\ n.kind = kind
  BY DEF Idle
<1> HIDE DEF n
<1>3. request'[r] = n /\ \A x \in Requests \ {r} : request'[x] = request[x]
  BY <1>1 DEF UploadTypes
<1>4. request[r] = Idle
  BY <1>1 DEF UploadTypes, RequestTypes
<1> QED  BY <1>1, <1>2, <1>3, <1>4

Step(r) == Process(r) \/ Unlink(r) \/ RemoveFolder(r) \/ CallFails(r) \/ Kill(r)

(* Where the steps of a request lead, and what they leave of it. *)
LEMMA Moves ==
    ASSUME UploadTypes, NEW r \in Requests, Step(r)
    PROVE  /\ request'[r].kind = request[r].kind /\ \A x \in Requests \ {r} : request'[x] = request[x]
           /\ ~ReadBefore(r) => request'[r].before = request[r].before
           /\ ReadTable(r) => request'[r].at = "before"
           /\ ReadBefore(r) => request'[r].at = "write" /\ Reads(request'[r].before)
                              /\ request'[r].before \in Tables
           /\ ParseSource(r) /\ Accepts(r) =>
                /\ request'[r].at = "record" /\ Canonical(r)' = Canonical(r)
                /\ request'[r].points = IF Unparsed(r) THEN 0 ELSE Count(source)
<1> DEFINE q == request[r]
<1>1. CASE ReadTable(r) \/ ReadBefore(r)
  <2>1. CASE ReadTable(r)
    <3>1. ~ReadBefore(r) /\ ~ParseSource(r)
      BY <2>1 DEF ReadTable, ReadBefore, ParseSource, At
    <3>2. PICK merged \in Tables : \E more :
              request' = [request EXCEPT ![r] = [at |-> "before", kind |-> q.kind, text |-> merged, rows |-> q.rows,
                              before |-> q.before, added |-> more, points |-> q.points]]
      BY <2>1, ReadingIs
    <3>3. PICK more :
              request' = [request EXCEPT ![r] = [at |-> "before", kind |-> q.kind, text |-> merged, rows |-> q.rows,
                              before |-> q.before, added |-> more, points |-> q.points]]
      BY <3>2
    <3>4. /\ request'[r].at = "before" /\ request'[r].kind = q.kind /\ request'[r].before = q.before
          /\ \A x \in Requests \ {r} : request'[x] = request[x]
      BY <3>3 DEF UploadTypes
    <3> QED  BY <3>1, <3>4
  <2>2. CASE ReadBefore(r)
    <3>1. ~ReadTable(r) /\ ~ParseSource(r)
      BY <2>2 DEF ReadTable, ReadBefore, ParseSource, At
    <3>2. PICK former \in Tables :
              /\ Reads(former)
              /\ request' = [request EXCEPT ![r] = [at |-> "write", kind |-> q.kind, text |-> q.text, rows |-> q.rows,
                              before |-> former, added |-> q.added, points |-> q.points]]
      BY <2>2, ReadingIs
    <3>3. /\ request'[r].at = "write" /\ request'[r].kind = q.kind /\ request'[r].before = former
          /\ \A x \in Requests \ {r} : request'[x] = request[x]
      BY <3>2 DEF UploadTypes
    <3> QED  BY <2>2, <3>1, <3>2, <3>3
  <2> QED  BY <1>1, <2>1, <2>2
<1>2. CASE ParseSource(r) /\ Accepts(r)
  <2> DEFINE m == IF Unparsed(r) THEN 0 ELSE Count(source)
             n == [at |-> "record", kind |-> request[r].kind, text |-> request[r].text, rows |-> request[r].rows,
                   before |-> request[r].before, added |-> request[r].added, points |-> m]
  <2>1. request' = [request EXCEPT ![r] = n] /\ ~ReadTable(r) /\ ~ReadBefore(r)
    BY <1>2, ReadingIs DEF ParseSource, ReadTable, ReadBefore, At
  <2> HIDE DEF m
  <2>2. /\ request'[r].at = "record" /\ request'[r].kind = request[r].kind
        /\ request'[r].text = request[r].text /\ request'[r].points = m
        /\ request'[r].before = request[r].before
        /\ \A x \in Requests \ {r} : request'[x] = request[x]
    BY <2>1 DEF UploadTypes
  <2>3. Canonical(r)' = Canonical(r)
    BY <2>2 DEF Canonical, Creating
  <2> QED  BY <2>1, <2>2, <2>3 DEF m
<1>3. CASE \E p : Go(r, p) /\ ~ReadTable(r) /\ ~ReadBefore(r) /\ ~(ParseSource(r) /\ Accepts(r))
  BY <1>3, GoesOn
<1>4. CASE request' = request /\ Unlink(r)
  BY <1>4 DEF ReadTable, ReadBefore, ParseSource, Unlink, At
<1>5. ~ReadTable(r) /\ ~ReadBefore(r) /\ ~(ParseSource(r) /\ Accepts(r)) =>
          (\E p : Go(r, p)) \/ (request' = request /\ Unlink(r))
  BY DEF Step, Process, MakeFolder, Look, NothingNew, Truncate, Fill, ParseSource, WriteManifest, Reopen, Refill,
     Unlink, RemoveFolder, CallFails, Kill, AfterError
<1> QED  BY <1>1, <1>2, <1>3, <1>4, <1>5

(* What is written stays what it is to be. *)
LEMMA StoredStep ==
    ASSUME UploadTypes, NEW r \in Requests, Stored(r), Step(r)
    PROVE  Stored(r)'
<1>1. CASE Truncate(r) \/ Reopen(r)
  <2>1. PICK p \in {"unlink", "restore", "failed", "fill", "refill"} : Go(r, p) /\ (p \in {"fill", "refill"} => source' = <<>>)
    BY <1>1 DEF Truncate, Reopen, AfterError
  <2> QED  BY <2>1, GoesOn DEF Stored
<1>2. CASE Fill(r)
  <2>1. source = <<>> /\ <<>> # Nothing
    BY <1>2, EmptyTable DEF Stored, Fill, At
  <2> QED  BY <1>2, <2>1, GoesOn DEF Stored, Fill
<1>3. CASE ParseSource(r) /\ Accepts(r)
  <2>1. source = Canonical(r) /\ source' = source
    BY <1>3 DEF Stored, ParseSource, At, Keep, bundle
  <2>2. /\ request'[r].at = "record" /\ Canonical(r)' = Canonical(r)
        /\ request'[r].points = IF Unparsed(r) THEN 0 ELSE Count(source)
    BY <1>3, Moves
  <2>3. request'[r].points = Count(Canonical(r)) /\ Accepted(Canonical(r))
    BY <1>3, <2>1, <2>2 DEF Accepts, Unparsed, Count, Accepted
  <2>4. Accepted(Canonical(r))' /\ Count(Canonical(r))' = Count(Canonical(r))
    BY <2>2, <2>3 DEF Accepted, Readable, Count
  <2> QED  BY <2>1, <2>2, <2>3, <2>4 DEF Stored
<1>4. CASE ReadTable(r) \/ ReadBefore(r)
  BY <1>4, Moves DEF Stored
<1>5. CASE \E p \in {"write", "refused", "unlink", "table", "before", "restore", "done", "failed", "rmdir", "killed"} : Go(r, p)
  BY <1>5, GoesOn DEF Stored
<1>6. CASE request' = request /\ Unlink(r)
  BY <1>6 DEF Unlink, Stored, At
<1> QED  BY <1>1, <1>2, <1>3, <1>4, <1>5, <1>6
            DEF Step, Process, MakeFolder, Look, NothingNew, ParseSource, WriteManifest, Refill, Unlink, RemoveFolder,
                CallFails, Kill, AfterError

(* A table that is recorded is what the user is told. *)
LEMMA RecordedAsTold ==
    ASSUME UploadTypes, NEW r \in Requests, Stored(r), WriteManifest(r), "mixed" \notin mishaps
    PROVE  Promised'
<1>1. /\ manifest' = request[r].points /\ folder' = TRUE /\ told' = Canonical(r) /\ source' = source
      /\ request[r].at = "record" /\ mishaps' = {}
  BY DEF WriteManifest, At, Cleared
<1>2. source = Canonical(r) /\ request[r].points = Count(Canonical(r)) /\ Accepted(Canonical(r))
  BY <1>1 DEF Stored
<1>3. Canonical(r) # Nothing
  BY <1>1, CanonicalTable, EmptyTable DEF At
<1>4. Count(told)' = Count(Canonical(r)) /\ Accepted(told)' /\ Accepted(source)'
  BY <1>1, <1>2 DEF Count, Accepted, Readable
<1> QED  BY <1>1, <1>2, <1>3, <1>4 DEF Promised, Counted, Kept

(* A removal that leaves nothing has nothing to answer for. *)
LEMMA RemovedAsTold ==
    ASSUME NEW r \in Requests, RemoveFolder(r), ~Creating(r), "mixed" \notin mishaps
    PROVE  Promised'
<1>1. CASE folder'
  BY <1>1 DEF RemoveFolder, Marked, Promised, Certain
<1>2. CASE ~folder'
  BY <1>2 DEF RemoveFolder, Promised, NoBundle
<1> QED  BY <1>1, <1>2

(* A new request finds things as promised. *)
LEMMA BeginsSituated ==
    ASSUME UploadsInv, NEW r \in Requests, NEW kind \in {"upload", "form", "save", "append", "delete"},
           NEW text, NEW rows, Begins(r, kind, text, rows), kind \in {"upload", "form"} => ~Uploaded,
           "mixed" \notin mishaps'
    PROVE  Situation'
<1>1. /\ request'[r].at = (IF kind \in {"upload", "form"} THEN "folder" ELSE "look") /\ request'[r].kind = kind
      /\ \A x \in Requests \ {r} : request'[x] = request[x]
      /\ UNCHANGED <<source, manifest, folder, told>>
  BY BeginsIs DEF UploadsInv
<1>2. Quiet /\ mishaps' = mishaps
  BY DEF Begins
<1>3. Promised
  BY <1>2 DEF UploadsInv, Situation, Quiet, AtWork, Alone
<1>4. Alone(r)' /\ Stored(r)'
  BY <1>1, <1>2 DEF Alone, Running, Quiet, Stored
<1>5. CASE kind \in {"upload", "form"}
  <2>1. Creating(r)' /\ told = Nothing /\ NoBundle
    BY <1>1, <1>5 DEF Creating, UploadsInv, Untouched
  <2>2. Creates(r)'
    BY <1>1, <1>5, <2>1 DEF Creates, NoBundle
  <2> QED  BY <1>4, <2>1, <2>2 DEF Situation, AtWork
<1>6. CASE kind \notin {"upload", "form"}
  <2>1. ~Creating(r)' /\ request'[r].at = "look" /\ request'[r].kind = kind
    BY <1>1, <1>6 DEF Creating
  <2>2. Promised'
    BY <1>1, <1>2, <1>3 DEF Promised, Certain, Counted, Kept, NoBundle, Count, Accepted, Readable
  <2>3. Changes(r)'
    BY <1>6, <2>1, <2>2 DEF Changes, Saving
  <2> QED  BY <1>4, <2>1, <2>3 DEF Situation, AtWork
<1> QED  BY <1>5, <1>6

(* The steps of a request for a new table. *)
LEMMA CreatesStep ==
    ASSUME UploadTypes, NEW r \in Requests, Stored(r), Creating(r), Creates(r), Step(r), "mixed" \notin mishaps
    PROVE  IF Running(r)' THEN Creates(r)' ELSE Promised'
<1>1. /\ request[r].at \in {"folder", "write", "fill", "parse", "record", "unlink", "rmdir"}
      /\ Certain => told = Nothing /\ manifest = Nothing
  BY DEF Creates
<1>2. CASE WriteManifest(r)
  BY <1>2, RecordedAsTold, GoesOn DEF WriteManifest, Running
<1>3. CASE Kill(r)
  <2>1. ~Certain' /\ ~Running(r)'
    BY <1>3, GoesOn DEF Kill, Marked, Certain, Running
  <2> QED  BY <2>1 DEF Promised
<1>4. CASE RemoveFolder(r)
  <2>1. Go(r, "failed") /\ told' = told /\ UNCHANGED <<source, manifest>> /\ request[r].at = "rmdir"
        /\ IF folder' THEN Marked("litter") ELSE UNCHANGED mishaps
    BY <1>4 DEF RemoveFolder, At
  <2>2. ~Running(r)'
    BY <2>1, GoesOn DEF Running
  <2>3. Promised'
    <3>1. CASE folder'
      BY <1>1, <2>1, <3>1 DEF Promised, Marked, Certain
    <3>2. CASE ~folder'
      BY <1>1, <1>4, <2>1, <3>2 DEF Promised, Certain, NoBundle, RemoveFolder
    <3> QED  BY <3>1, <3>2
  <2> QED  BY <2>2, <2>3
<1>5. CASE CallFails(r) /\ At(r, "folder")
  <2>1. Go(r, "failed") /\ UNCHANGED <<source, manifest, folder, told, mishaps>>
    BY <1>5 DEF CallFails, At, bundle
  <2> QED  BY <1>1, <1>5, <2>1, GoesOn DEF Promised, Certain, NoBundle, Creates, Running, At
<1>6. CASE Unlink(r)
  <2>1. told' = told /\ mishaps' = mishaps /\ (manifest = Nothing => manifest' = Nothing) /\ request[r].at = "unlink"
        /\ ((\E p \in {"rmdir"} : Go(r, p)) \/ request' = request)
    BY <1>6 DEF Unlink, At, bundle
  <2>2. request'[r].at \in {"unlink", "rmdir"}
    BY <2>1, GoesOn
  <2> QED  BY <1>1, <2>1, <2>2 DEF Creates, Running, Certain
<1>7. CASE \/ MakeFolder(r) \/ Truncate(r) \/ Fill(r) \/ ParseSource(r)
           \/ (CallFails(r) /\ ~At(r, "folder"))
  <2>1. /\ told' = told /\ mishaps' = mishaps /\ manifest' = manifest
        /\ \/ ParseSource(r) /\ Accepts(r)
           \/ \E p \in {"write", "fill", "parse", "unlink"} : Go(r, p)
    BY <1>1, <1>7 DEF MakeFolder, Truncate, Fill, ParseSource, CallFails, AfterError, At, Keep, bundle
  <2>2. request'[r].at \in {"write", "fill", "parse", "record", "unlink"}
    BY <2>1, Moves, GoesOn
  <2> QED  BY <1>1, <2>1, <2>2 DEF Creates, Running, Certain
<1>8. ~Look(r) /\ ~ReadTable(r) /\ ~ReadBefore(r) /\ ~NothingNew(r) /\ ~Reopen(r) /\ ~Refill(r)
  BY <1>1 DEF Creating, Look, ReadTable, ReadBefore, NothingNew, Reopen, Refill, At
<1> QED  BY <1>2, <1>3, <1>4, <1>5, <1>6, <1>7, <1>8 DEF Step, Process

(* The steps of a request for a table that is there. *)
LEMMA ChangesStep ==
    ASSUME UploadTypes, NEW r \in Requests, Stored(r), ~Creating(r), Changes(r), Step(r), "mixed" \notin mishaps
    PROVE  IF Running(r)' THEN Changes(r)' ELSE Promised'
<1>0. /\ Accepted(told)' = (told' # <<>> => Readable(told'))
      /\ told' = told => Count(told)' = Count(told) /\ Accepted(told)' = Accepted(told)
  BY DEF Count, Accepted, Readable
<1>1. /\ request[r].kind \in {"save", "append", "delete"}
      /\ request[r].at \in IF request[r].kind = "delete" THEN {"look", "unlink", "rmdir"} ELSE {"look"} \cup Saving
      /\ request[r].at \in {"look", "table", "before", "write"} => Promised
      /\ Certain /\ request[r].at \in Saving => told # Nothing /\ Counted
      /\ Certain /\ request[r].at \in Saving \ {"table", "before"} => Kept(request[r].before)
      /\ request'[r].kind = request[r].kind /\ <<>> # Nothing
      /\ ~ReadBefore(r) => request'[r].before = request[r].before
      /\ request[r].before \in Tables
  BY Moves, EmptyTable DEF Changes, UploadTypes, RequestTypes
<1>2. CASE WriteManifest(r)
  BY <1>2, RecordedAsTold, GoesOn DEF WriteManifest, Running
<1>3. CASE Kill(r)
  <2>1. ~Certain' /\ ~Running(r)'
    BY <1>3, GoesOn DEF Kill, Marked, Certain, Running
  <2> QED  BY <2>1 DEF Promised
<1>4. CASE RemoveFolder(r)
  <2>1. ~Running(r)'
    BY <1>4, GoesOn DEF RemoveFolder, Running
  <2> QED  BY <1>4, <2>1, RemovedAsTold
<1>5. CASE Unlink(r)
  <2>1. request[r].at = "unlink" /\ ((\E p \in {"rmdir"} : Go(r, p)) \/ request' = request)
    BY <1>5 DEF Unlink, At
  <2>2. request'[r].at \in {"unlink", "rmdir"}
    BY <2>1, GoesOn
  <2> QED  BY <1>1, <2>1, <2>2 DEF Changes, Running, Saving
\* What leaves the bundle and the history alone leaves the promise, too.
<1>6. UNCHANGED <<source, manifest, folder, told, mishaps>> =>
          /\ Promised' = Promised /\ Certain' = Certain /\ Counted' = Counted
          /\ \A table : Kept(table) => table = table /\ (mishaps' = {} => table = told')
  BY <1>0 DEF Promised, Certain, Counted, Kept, NoBundle, Accepted, Readable
<1>7. CASE Look(r) \/ NothingNew(r) \/ (CallFails(r) /\ At(r, "look"))
  <2>1. /\ UNCHANGED <<source, manifest, folder, told, mishaps>> /\ request[r].at \in {"look", "write"}
        /\ \/ Go(r, "refused")
           \/ manifest # Nothing /\ \E p \in {"unlink", "table", "before"} :
                  Go(r, p) /\ (p = "unlink" <=> request[r].kind = "delete")
    BY <1>1, <1>7 DEF Look, NothingNew, CallFails, At, Keep, bundle
  <2>2. CASE Go(r, "refused")
    BY <1>1, <1>6, <2>1, <2>2, GoesOn DEF Running
  <2>3. CASE ~Go(r, "refused")
    <3>1. PICK p \in {"unlink", "table", "before"} : Go(r, p) /\ (p = "unlink" <=> request[r].kind = "delete")
      BY <2>1, <2>3
    <3>2. Certain => told # Nothing /\ Counted
      BY <1>1, <2>1, <2>3 DEF Promised
    <3>3. request'[r].at = p
      BY <3>1, GoesOn
    <3> QED  BY <1>1, <1>6, <2>1, <3>1, <3>2, <3>3 DEF Changes, Saving, Running
  <2> QED  BY <2>2, <2>3
<1>8. CASE ReadTable(r) \/ ReadBefore(r)
  <2>1. /\ UNCHANGED <<source, manifest, folder, told>> /\ request[r].at \in {"table", "before"}
        /\ request'[r].at \in {"before", "write"} /\ (request'[r].at = "write" => ReadBefore(r))
        /\ mishaps' = mishaps \/ mishaps' = mishaps \cup {"unread"}
    BY <1>8, Moves DEF ReadTable, ReadBefore, At, bundle, Reads, Marked
  <2>2. Certain' = Certain /\ (Certain => Promised /\ told # Nothing /\ Counted /\ Kept(source))
    BY <1>1, <2>1 DEF Saving, Certain, Promised
  <2>3. Counted' = Counted
    BY <1>0, <2>1 DEF Counted
  <2>4. Kept(source) => Kept(source)'
    BY <2>1 DEF Kept, Accepted, Readable
  <2>5. ReadBefore(r) /\ Certain => Kept(request[r].before)'
    <3>1. CASE ReadBefore(r) /\ Certain
      <4>1. Reads(request'[r].before)
        BY <3>1, Moves
      <4>2. source # Nothing
        BY <2>2, <3>1 DEF Counted
      <4>3. CASE mishaps' = mishaps
        <5>1. CASE request'[r].before = source
          BY <2>2, <3>1, <4>3, <2>1, <5>1 DEF Kept, Accepted, Readable
        <5>2. CASE request'[r].before # source
          <6>1. "unread" \in mishaps
            BY <4>1, <4>2, <4>3, <5>2 DEF Reads, ReadText, Marked
          <6> QED  BY <4>3, <6>1 DEF Kept
        <5> QED  BY <5>1, <5>2
      <4>4. CASE mishaps' = mishaps \cup {"unread"}
        BY <4>4 DEF Kept
      <4> QED  BY <2>1, <4>3, <4>4
    <3> QED  BY <3>1
  <2>6. Promised'
    BY <2>1, <2>2, <2>3, <2>4 DEF Promised
  <2> QED  BY <1>1, <2>1, <2>2, <2>3, <2>5, <2>6 DEF Changes, Saving, Running
<1>9. CASE Truncate(r) \/ Fill(r) \/ (CallFails(r) /\ request[r].at \in {"write", "fill", "parse"})
           \/ ParseSource(r) \/ (Reopen(r) /\ folder)
  <2>1. /\ UNCHANGED <<manifest, folder, told, mishaps>> /\ request[r].at \in {"write", "fill", "parse", "restore"}
        /\ source' \in {source, <<>>} \/ (source # Nothing => source' = Canonical(r) /\ Fill(r))
        /\ \/ ParseSource(r) /\ Accepts(r)
           \/ \E p \in {"fill", "parse", "restore", "refill"} : Go(r, p)
    BY <1>9 DEF Truncate, Fill, CallFails, AfterError, Keep, bundle, ParseSource, Reopen, At
  <2>2. request'[r].at \in {"fill", "parse", "restore", "refill", "record"}
    BY <2>1, Moves, GoesOn
  <2>3. source # Nothing => source' # Nothing
    BY <1>1, <2>1, CanonicalTable, EmptyTable DEF Fill, At
  <2>4. Certain' = Certain /\ (Certain => told # Nothing /\ Counted /\ Kept(request[r].before))
    BY <1>1, <2>1 DEF Saving, Certain
  <2>5. Certain => Counted'
    BY <1>0, <2>1, <2>3, <2>4 DEF Counted
  <2>6. Certain => Kept(request[r].before)'
    <3>1. request'[r].before = request[r].before
      BY <1>1, <2>1 DEF ReadBefore, At
    <3> QED  BY <2>1, <2>4, <3>1 DEF Kept, Accepted, Readable
  <2> QED  BY <1>1, <2>1, <2>2, <2>4, <2>5, <2>6 DEF Changes, Saving, Running
<1>10. CASE Refill(r) \/ (Reopen(r) /\ ~folder) \/ (CallFails(r) /\ request[r].at \in {"restore", "refill", "record"})
  <2>1. /\ UNCHANGED <<manifest, folder, told>> /\ request[r].at \in {"restore", "refill", "record"} /\ Go(r, "failed")
        /\ \/ Refill(r) /\ request[r].at = "refill" /\ mishaps' = mishaps
           \/ Reopen(r) /\ ~folder /\ mishaps' = mishaps
           \/ source' = source /\ mishaps' = mishaps \cup {"unrestored"}
           \/ source' = source /\ mishaps' = mishaps \cup {"unrecorded"} /\ request[r].at = "record"
    BY <1>1, <1>10 DEF Refill, Reopen, CallFails, bundle, Marked, At, Creating
  <2>2. Certain' = Certain /\ (Certain => told # Nothing /\ Counted /\ Kept(request[r].before))
    BY <1>1, <2>1 DEF Saving, Certain
  <2>3. Certain => Counted' /\ Kept(source)'
    <3>1. CASE Certain /\ Refill(r)
      <4>1. source' = request[r].before /\ source' # Nothing /\ mishaps' = mishaps
        BY <1>1, <2>1, <2>2, <3>1, EmptyTable DEF Refill, Former, Counted, Reopen, At
      <4> QED  BY <1>0, <2>1, <2>2, <3>1, <4>1 DEF Counted, Kept, Accepted, Readable
    <3>2. CASE Certain /\ source' = source /\ mishaps' = mishaps \cup {"unrestored"}
      BY <1>0, <2>1, <2>2, <3>2 DEF Counted, Kept
    <3>3. CASE Certain /\ source' = source /\ mishaps' = mishaps \cup {"unrecorded"} /\ request[r].at = "record"
      <4>1. Accepted(source)
        BY <3>3 DEF Stored
      <4> QED  BY <1>0, <2>1, <2>2, <3>3, <4>1 DEF Counted, Kept, Accepted, Readable
    <3>4. ~(Certain /\ Reopen(r) /\ ~folder)
      BY <2>2 DEF Counted
    <3> QED  BY <2>1, <3>1, <3>2, <3>3, <3>4
  <2>4. ~Running(r)'
    BY <2>1, GoesOn DEF Running
  <2> QED  BY <2>1, <2>2, <2>3, <2>4 DEF Promised
<1>11. ~MakeFolder(r) /\ ~(CallFails(r) /\ request[r].at \notin {"look", "write", "fill", "parse", "restore", "refill", "record"})
  BY <1>1 DEF MakeFolder, CallFails, At, Saving
<1> QED  BY <1>2, <1>3, <1>4, <1>5, <1>7, <1>8, <1>9, <1>10, <1>11 DEF Step, Process, At

(* Nothing happens before the upload. *)
LEMMA UntouchedStep ==
    ASSUME UploadTypes, Untouched, UploadsNext
    PROVE  Untouched'
<1> SUFFICES ASSUME ~Uploaded'
             PROVE  /\ NoBundle' /\ told' = Nothing
                    /\ \A x \in Requests : request'[x].at \in {"idle", "look", "refused", "killed"}
  BY DEF Untouched
<1>1. PICK r \in Requests : Upload(r) \/ Save(r) \/ AppendRows(r) \/ Delete(r) \/ Step(r)
  BY DEF UploadsNext, Step
<1>2. CASE Step(r)
  <2>1. /\ request'[r].kind = request[r].kind /\ \A x \in Requests \ {r} : request'[x] = request[x]
    BY <1>2, Moves
  <2>2. ~Uploaded
    BY <2>1 DEF Uploaded, Creating
  <2>3. NoBundle /\ told = Nothing /\ \A x \in Requests : request[x].at \in {"idle", "look", "refused", "killed"}
    BY <2>2 DEF Untouched
  <2>4. Look(r) \/ Kill(r) \/ (CallFails(r) /\ At(r, "look"))
    BY <1>2, <2>3 DEF Step, Process, MakeFolder, Look, ReadTable, ReadBefore, NothingNew, Truncate, Fill, ParseSource,
       WriteManifest, Reopen, Refill, Unlink, RemoveFolder, CallFails, Kill, At
  <2>5. (Go(r, "refused") \/ Go(r, "killed")) /\ UNCHANGED <<source, manifest, folder, told>>
    BY <2>3, <2>4 DEF Look, Kill, CallFails, At, NoBundle, Keep, bundle
  <2>6. request'[r].at \in {"refused", "killed"}
    BY <2>5, GoesOn
  <2> QED  BY <2>1, <2>3, <2>5, <2>6 DEF NoBundle
<1>3. CASE At(r, "idle") /\ Go(r, "refused") /\ Keep
  <2>1. /\ request'[r].at = "refused" /\ request'[r].kind = request[r].kind
        /\ \A x \in Requests \ {r} : request'[x] = request[x]
    BY <1>3, GoesOn
  <2>2. ~Uploaded /\ UNCHANGED <<source, manifest, folder, told>>
    BY <1>3, <2>1 DEF Uploaded, Creating, Keep, bundle
  <2> QED  BY <2>1, <2>2 DEF Untouched, NoBundle
<1>4. CASE \E kind \in {"upload", "form", "save", "append", "delete"} : \E text, rows : Begins(r, kind, text, rows)
  <2>1. PICK kind \in {"upload", "form", "save", "append", "delete"} : \E text, rows : Begins(r, kind, text, rows)
    BY <1>4
  <2>2. PICK text, rows : Begins(r, kind, text, rows)
    BY <2>1
  <2>3. /\ request'[r].at = (IF kind \in {"upload", "form"} THEN "folder" ELSE "look") /\ request'[r].kind = kind
        /\ \A x \in Requests \ {r} : request'[x] = request[x]
        /\ request[r] = Idle /\ UNCHANGED <<source, manifest, folder, told>>
    BY <2>2, BeginsIs
  <2>4. kind \notin {"upload", "form"} /\ ~Uploaded
    BY <2>3 DEF Uploaded, Creating, Idle
  <2> QED  BY <2>3, <2>4 DEF Untouched, NoBundle
<1>5. Upload(r) \/ Save(r) \/ AppendRows(r) \/ Delete(r) =>
          \/ At(r, "idle") /\ Go(r, "refused") /\ Keep
          \/ \E kind \in {"upload", "form", "save", "append", "delete"} : \E text, rows : Begins(r, kind, text, rows)
  BY Zenon DEF Upload, Save, AppendRows, Delete
<1> QED  BY <1>1, <1>2, <1>3, <1>4, <1>5

(* No step leaves the invariant. *)
LEMMA UploadsStep == UploadsInv /\ [UploadsNext]_uploads => UploadsInv'
<1> SUFFICES ASSUME UploadsInv, [UploadsNext]_uploads PROVE UploadsInv'
  OBVIOUS
<1>1. UploadTypes /\ UploadTypes' /\ Untouched
  BY UploadTypesStep DEF UploadsInv
<1>2. ASSUME UNCHANGED <<source, manifest, folder, told, mishaps>>, Situation, NEW r \in Requests,
             r = r /\ ~Running(r) /\ ~Running(r)' /\ request'[r].kind = request[r].kind,
             \A x \in Requests \ {r} : request'[x] = request[x]
      PROVE  Situation'
  <2>1. \A x \in Requests : Running(x)' = Running(x) /\ Creating(x)' = Creating(x)
    BY <1>2 DEF Running, Creating
  <2>2. Quiet' = Quiet /\ Promised' = Promised
    BY <1>2, <2>1 DEF Quiet, Promised, Certain, Counted, Kept, NoBundle, Count, Accepted, Readable
  <2>3. ASSUME NEW x \in Requests, AtWork(x) PROVE AtWork(x)'
    <3>1. x # r /\ Alone(x) /\ request'[x] = request[x]
      BY <1>2, <2>3 DEF AtWork, Alone
    <3>2. Alone(x)' /\ Creating(x)' = Creating(x) /\ Canonical(x)' = Canonical(x)
      BY <2>1, <3>1 DEF Alone, Canonical
    <3>3. Stored(x)' = Stored(x) /\ Counted' = Counted /\ Certain' = Certain /\ NoBundle' = NoBundle
      BY <1>2, <3>1, <3>2 DEF Stored, Counted, Certain, NoBundle, Count, Accepted, Readable
    <3>4. Kept(request[x].before)' = Kept(request[x].before)
      BY <1>2, <3>1 DEF Kept, Accepted, Readable
    <3>5. Creates(x)' = Creates(x) /\ Changes(x)' = Changes(x)
      BY <1>2, <2>2, <3>1, <3>3, <3>4 DEF Creates, Changes
    <3> QED  BY <2>3, <3>2, <3>3, <3>5 DEF AtWork
  <2> QED  BY <1>2, <2>2, <2>3 DEF Situation
<1>3. CASE UNCHANGED uploads
  <2>1. UNCHANGED <<source, manifest, folder, request, told, mishaps>>
    BY <1>3 DEF uploads, bundle
  <2>2. Quiet' = Quiet /\ Promised' = Promised /\ Untouched'
    BY <1>1, <2>1 DEF Quiet, Running, Promised, Certain, Counted, Kept, NoBundle, Count, Accepted, Readable,
          Untouched, Uploaded, Creating
  <2>3. ASSUME NEW x \in Requests PROVE AtWork(x)' = AtWork(x)
    <3>1. Alone(x)' = Alone(x) /\ Creating(x)' = Creating(x) /\ Canonical(x)' = Canonical(x)
      BY <2>1 DEF Alone, Running, Creating, Canonical
    <3>2. Stored(x)' = Stored(x) /\ Counted' = Counted /\ Certain' = Certain /\ NoBundle' = NoBundle
          /\ Kept(request[x].before)' = Kept(request[x].before)
      BY <2>1, <3>1 DEF Stored, Counted, Certain, NoBundle, Kept, Count, Accepted, Readable
    <3>3. Creates(x)' = Creates(x) /\ Changes(x)' = Changes(x)
      BY <2>1, <2>2, <3>2 DEF Creates, Changes
    <3> QED  BY <3>1, <3>2, <3>3 DEF AtWork
  <2> QED  BY <1>1, <2>1, <2>2, <2>3 DEF UploadsInv, Situation
<1>4. ASSUME UploadsNext, "mixed" \notin mishaps' PROVE Situation'
  <2>1. PICK r \in Requests : Upload(r) \/ Save(r) \/ AppendRows(r) \/ Delete(r) \/ Step(r)
    BY <1>4 DEF UploadsNext, Step
  <2>2. CASE \E kind \in {"upload", "form", "save", "append", "delete"} : \E text, rows :
                 Begins(r, kind, text, rows) /\ (kind \in {"upload", "form"} => ~Uploaded)
    <3>1. PICK kind \in {"upload", "form", "save", "append", "delete"} : \E text, rows :
                 Begins(r, kind, text, rows) /\ (kind \in {"upload", "form"} => ~Uploaded)
      BY <2>2
    <3>2. PICK text, rows : Begins(r, kind, text, rows) /\ (kind \in {"upload", "form"} => ~Uploaded)
      BY <3>1
    <3> QED  BY <1>4, <3>2, BeginsSituated
  <2>3. CASE At(r, "idle") /\ Go(r, "refused") /\ Keep
    <3>1. UNCHANGED <<source, manifest, folder, told, mishaps>> /\ Situation
      BY <1>4, <2>3 DEF Keep, bundle, UploadsInv
    <3>2. /\ request'[r].at = "refused" /\ request'[r].kind = request[r].kind
          /\ \A x \in Requests \ {r} : request'[x] = request[x]
      BY <1>1, <2>3, GoesOn
    <3>3. ~Running(r) /\ ~Running(r)'
      BY <2>3, <3>2 DEF Running, At
    <3> QED  BY <1>2, <3>1, <3>2, <3>3
  <2>4. CASE Step(r)
    <3>1. "mixed" \notin mishaps
      BY <1>4, <2>4 DEF Step, Process, MakeFolder, Look, ReadTable, ReadBefore, NothingNew, Truncate, Fill, ParseSource,
         WriteManifest, Reopen, Refill, Unlink, RemoveFolder, CallFails, Kill, Keep, Reads, Marked, Cleared
    <3>2. Running(r)
      BY <2>4 DEF Step, Process, MakeFolder, Look, ReadTable, ReadBefore, NothingNew, Truncate, Fill, ParseSource,
         WriteManifest, Reopen, Refill, Unlink, RemoveFolder, CallFails, Kill, At, Running
    <3>3. AtWork(r)
      BY <3>1, <3>2, OneWorks DEF UploadsInv
    <3>4. /\ Running(r)' => Alone(r)'
          /\ ~Running(r)' => Quiet'
          /\ Creating(r)' = Creating(r)
      BY <1>1, <2>4, <3>3, Moves, Continues DEF AtWork
    <3>5. Stored(r)'
      BY <1>1, <2>4, <3>3, StoredStep DEF AtWork
    <3>6. CASE Creating(r)
      <4>1. IF Running(r)' THEN Creates(r)' ELSE Promised'
        BY <1>1, <2>4, <3>1, <3>3, <3>6, CreatesStep DEF AtWork
      <4> QED  BY <3>4, <3>5, <3>6, <4>1 DEF Situation, AtWork
    <3>7. CASE ~Creating(r)
      <4>1. IF Running(r)' THEN Changes(r)' ELSE Promised'
        BY <1>1, <2>4, <3>1, <3>3, <3>7, ChangesStep DEF AtWork
      <4> QED  BY <3>4, <3>5, <3>7, <4>1 DEF Situation, AtWork
    <3> QED  BY <3>6, <3>7
  <2>5. Upload(r) \/ Save(r) \/ AppendRows(r) \/ Delete(r) =>
            \/ At(r, "idle") /\ Go(r, "refused") /\ Keep
            \/ \E kind \in {"upload", "form", "save", "append", "delete"} : \E text, rows :
                   Begins(r, kind, text, rows) /\ (kind \in {"upload", "form"} => ~Uploaded)
    BY Zenon DEF Upload, Save, AppendRows, Delete
  <2> QED  BY <2>1, <2>2, <2>3, <2>4, <2>5
<1> QED  BY <1>1, <1>3, <1>4, UntouchedStep DEF UploadsInv

(* Of any number of requests, as long as none overlap, and whichever call fails
   (upload_views.py, upload_service.py, observed_spectrum.py): what BundleTrue says of the
   bundle after a kill or an incomplete deletion has been made good by a request that was
   done, after requests that were undone, and after those whose table could not be put
   back or whose manifest could not be written. *)
THEOREM BundlesTrue == UploadsInit /\ [][UploadsNext]_uploads => []BundleTrue
<1>1. UploadsInv => BundleTrue
  <2> SUFFICES ASSUME UploadsInv, Quiet, mishaps \cap {"mixed", "killed", "unremoved"} = {}
               PROVE  IF told = Nothing THEN manifest = Nothing /\ (mishaps = {} => source = Nothing /\ ~folder)
                      ELSE /\ manifest = Count(told) /\ Accepted(told) /\ source # Nothing /\ folder
                           /\ mishaps \subseteq {"unrecorded"} => Accepted(source)
                           /\ mishaps = {} => source = told
    BY DEF BundleTrue
  <2>1. "mixed" \notin mishaps /\ Certain
    BY DEF Certain
  <2>2. Promised
    BY <2>1 DEF UploadsInv, Situation, Quiet, AtWork, Alone
  <2> QED  BY <2>1, <2>2 DEF Promised, Counted, Kept, NoBundle
<1> QED  BY InitUploads, UploadsStep, <1>1, PTL

-----------------------------------------------------------------------------
(* The native sources.                                                     *)

Over == {"refused", "done", "failed", "broken", "killed"}
Planned == {"plan", "backup", "check", "write", "keep", "publish", "undo state", "undo", "restore"}
\* What an updater holds; before it has read the state, and afterwards, nothing.
UpdaterTypes(u) ==
    LET x == up[u] IN
    /\ x.pc \in {"start", "read"} \cup Planned \cup Over
    /\ x.desired \in Sets /\ x.old \subseteq Sets /\ x.previous \in Sets \cup {0}
    /\ x.todo \in Seq(Paths) /\ x.done \in Seq(Paths) /\ x.edits0 \in Nat /\ x.edits0 <= edits
    /\ x.pc \notin Planned => x.plan = <<>> /\ x.new = <<>> /\ x.done = <<>> /\ x.todo = <<>>
\* What it plans: upstream's files and those of known sets become the desired set's.
PlanTypes(u) ==
    LET x == up[u] IN
    /\ x.previous # 0 => x.previous \in kept
    /\ DOMAIN x.plan \subseteq Paths /\ x.tree0 \in [Paths -> Contents]
    /\ Names(x.desired, x.previous) = DOMAIN x.plan \cup (IF x.pc = "plan" THEN Range(x.todo) ELSE {})
    /\ \A p \in DOMAIN x.new : x.new[p] = Target(x.desired, p)
    /\ \A p \in DOMAIN x.plan \ DOMAIN x.new : x.plan[p] = Target(x.desired, p)
    /\ \A p \in DOMAIN x.plan : x.plan[p] \notin Edits
\* What it has still to do.
WorkTypes(u) ==
    LET x == up[u] IN
    /\ x.pc \in {"plan", "backup"} => x.done = <<>>
    /\ x.pc \notin {"plan", "backup"} =>
           DOMAIN x.before = DOMAIN x.new /\ \A p \in DOMAIN x.new : x.before[p] \in Contents
    /\ x.pc \in {"check", "write"} => IsInjective(x.todo) /\ Range(x.todo) \subseteq DOMAIN x.new \ Range(x.done)
    /\ x.pc \in {"undo", "restore"} => Range(x.todo) \subseteq DOMAIN x.new
    /\ x.pc \in {"write", "restore"} => x.todo # <<>>

\* A file nobody has edited since the state was read, or ever, is as it was then, or as
\* planned when it is on the list of written ones that are not yet rolled back; what was
\* planned and what would be put back is what it was then.
Steady(u, p) == p \notin DOMAIN edited \/ edits = up[u].edits0
Touched(u) == Range(IF up[u].pc \in {"undo", "restore"} THEN up[u].todo ELSE up[u].done)
Behind(u) ==
    LET x == up[u] IN
    \A p \in Paths : Steady(u, p) =>
        /\ p \in DOMAIN x.plan => x.plan[p] = x.tree0[p]
        /\ x.pc \notin {"plan", "backup"} /\ p \in DOMAIN x.new => x.before[p] = x.tree0[p]
        /\ tree[p] = x.tree0[p] \/ (p \in Touched(u) /\ tree[p] = x.new[p])
\* A file is what was found a moment ago, unless it has just been edited.
Looked(u) ==
    LET x == up[u] IN
    /\ x.pc = "write" => x.todo[1] \in raced \/ tree[x.todo[1]] = x.plan[x.todo[1]]
    /\ x.pc = "restore" => x.todo[1] \in raced \/ tree[x.todo[1]] = x.new[x.todo[1]]
\* The state names the set before, but between the last write and the rollback of a
\* publication that failed; by then the tree is the desired set.
WholeSet(u) == \A p \in DOMAIN up[u].plan \ DOMAIN edited : tree[p] = Target(up[u].desired, p)
Recorded(u) ==
    LET x == up[u] IN
    /\ installed = x.previous \/ (x.pc = "undo state" /\ installed = x.desired /\ x.desired \in kept)
    /\ x.pc = "publish" => x.desired \in kept
    /\ x.pc \in {"keep", "publish"} \/ (x.pc = "undo state" /\ installed # x.previous) => WholeSet(u)
\* Of the files nobody has edited, each is from the set that the state names or from one that
\* was installed in part.
Mixed(files, state) ==
    \A p \in Paths \ DOMAIN edited : \E r \in {state} \cup unfinished : files[p] = Target(r, p)
InWork(u) ==
    /\ PlanTypes(u) /\ WorkTypes(u) /\ Behind(u) /\ Looked(u) /\ Recorded(u)
    /\ Mixed(up[u].tree0, up[u].previous)
NoneInWork == \A u \in Updaters : up[u].pc \notin Planned
SourceInv ==
    /\ TypeOK /\ up = [u \in Updaters |-> up[u]] /\ \A u \in Updaters : UpdaterTypes(u)
    /\ installed # 0 => installed \in kept
    /\ SourceEditsKept
    /\ NoneInWork => Mixed(tree, installed)
    /\ \A u \in Updaters : up[u].pc \in Planned => InWork(u)

\* The parts of TypeOK.
GlobalTypes ==
    /\ tree \in [Paths -> Contents] /\ installed \in 0..Len(Revisions)
    /\ kept \subseteq Sets /\ lock \in Updaters \cup {"free"}
    /\ edits \in 0..MaxEdits /\ crashes \in 0..MaxCrashes
    /\ edited \in UNION {[S -> Edits] : S \in SUBSET Paths}
    /\ raced \subseteq Paths /\ unfinished \subseteq Sets
OwnTypes(u) ==
    /\ DOMAIN up[u] = Fields /\ (Working(u) <=> lock = u)
    /\ DOMAIN up[u].new \subseteq DOMAIN up[u].plan
    /\ Range(up[u].done) \subseteq DOMAIN up[u].new /\ IsInjective(up[u].done)
    /\ Range(up[u].todo) \subseteq Paths

(* What patch sets hold, and what is never an edit. *)
LEMMA SetContents ==
    ASSUME NEW r \in Sets \cup {0}
    PROVE  /\ Changed(r) \subseteq Paths
           /\ \A p \in Paths : Target(r, p) \in Contents /\ Target(r, p) \notin Edits
           /\ \A p \in Paths \ Changed(r) : Target(r, p) = Upstream(p)
<1>1. Changed(r) \subseteq Paths
  BY PatchAssumption DEF Changed
<1>2. ASSUME NEW p \in Paths
      PROVE  Target(r, p) \in Contents /\ Target(r, p) \notin Edits
  <2>1. Upstream(p) \in Contents /\ Upstream(p) \notin Edits
    BY PatchAssumption DEF Upstream, Contents, Edits, Absent, Text
  <2>2. CASE p \in Changed(r)
    <3>1. r \in 1 .. Len(Revisions) /\ Len(Revisions) \in Nat /\ Revisions[r][p] \in 1 .. r
      BY <2>2, PatchAssumption DEF Changed
    <3>2. Revisions[r][p] \in 0 .. Len(Revisions)
      BY <3>1
    <3>3. Text(Revisions[r][p]) \in Contents
      BY <3>2 DEF Contents
    <3>4. Text(Revisions[r][p]) \notin Edits
      BY DEF Text, Edits
    <3> QED  BY <2>2, <3>3, <3>4 DEF Target
  <2> QED  BY <2>1, <2>2 DEF Target
<1> QED  BY <1>1, <1>2 DEF Target

LEMMA ConsFacts ==
    ASSUME NEW A, NEW s \in Seq(A), NEW x \in A
    PROVE  /\ <<x>> \o s \in Seq(A) /\ Range(<<x>> \o s) = {x} \cup Range(s)
           /\ IsInjective(s) /\ x \notin Range(s) => IsInjective(<<x>> \o s)
<1>1. <<x>> \in Seq(A) /\ Range(<<x>>) = {x} /\ IsInjective(<<x>>)
  BY DEF Range, IsInjective
<1> DEFINE l == <<x>>
<1>2. l \in Seq(A) /\ Range(l) = {x} /\ IsInjective(l)
  BY <1>1
<1> HIDE DEF l
<1>3. /\ l \o s \in Seq(A) /\ Range(l \o s) = Range(l) \cup Range(s)
      /\ IsInjective(l) /\ IsInjective(s) /\ Range(l) \cap Range(s) = {} => IsInjective(l \o s)
  BY <1>2, JoinFacts
<1>4. /\ l \o s \in Seq(A) /\ Range(l \o s) = {x} \cup Range(s)
      /\ IsInjective(s) /\ x \notin Range(s) => IsInjective(l \o s)
  BY <1>2, <1>3
<1> QED  BY <1>4 DEF l

LEMMA FirstFacts ==
    ASSUME NEW A, NEW s \in Seq(A), s # <<>>
    PROVE  /\ s[1] \in A /\ Tail(s) \in Seq(A) /\ Range(s) = {s[1]} \cup Range(Tail(s))
           /\ IsInjective(s) => IsInjective(Tail(s)) /\ s[1] \notin Range(Tail(s))
<1>1. Head(s) = s[1]
  OBVIOUS
<1> QED  BY <1>1, TailFacts

LEMMA EmptyFacts == Range(<<>>) = {} /\ IsInjective(<<>>) /\ <<>> \in Seq(Paths) /\ DOMAIN <<>> = {}
  BY DEF Range, IsInjective

LEMMA PutFacts ==
    ASSUME NEW f, NEW p, NEW c
    PROVE  /\ DOMAIN Put(f, p, c) = DOMAIN f \cup {p} /\ Put(f, p, c)[p] = c
           /\ \A q \in DOMAIN f : q # p => Put(f, p, c)[q] = f[q]
  BY DEF Put

(* Only the updater that holds the lock works. *)
LEMMA OneUpdates ==
    ASSUME SourceInv, NEW u \in Updaters, Working(u)
    PROVE  lock = u /\ \A v \in Updaters \ {u} : ~Working(v) /\ up[v].pc \notin Planned
<1>1. \A v \in Updaters : Working(v) <=> lock = v
  BY DEF SourceInv, TypeOK
<1>2. \A v \in Updaters : up[v].pc \in Planned => Working(v)
  BY DEF Working, Planned
<1> QED  BY <1>1, <1>2

(* What an updater knows and has done is the same as long as nothing moves. *)
LEMMA Undisturbed ==
    ASSUME NEW u, up'[u] = up[u], UNCHANGED <<tree, installed, kept, edits, edited, raced, unfinished>>
    PROVE  InWork(u)' = InWork(u)
<1>1. PlanTypes(u)' = PlanTypes(u) /\ WorkTypes(u)' = WorkTypes(u)
  BY DEF PlanTypes, WorkTypes
<1>2. Touched(u)' = Touched(u) /\ WholeSet(u)' = WholeSet(u) /\ \A p : Steady(u, p)' = Steady(u, p)
  BY DEF Touched, WholeSet, Steady
<1>3. Behind(u)' = Behind(u) /\ Looked(u)' = Looked(u) /\ Recorded(u)' = Recorded(u)
  BY <1>2 DEF Behind, Looked, Recorded
<1>4. Mixed(up[u].tree0, up[u].previous)' = Mixed(up[u].tree0, up[u].previous)
  BY DEF Mixed
<1> QED  BY <1>1, <1>3, <1>4 DEF InWork

LEMMA TypeParts == TypeOK <=> GlobalTypes /\ \A u \in Updaters : OwnTypes(u)
  BY DEF TypeOK, GlobalTypes, OwnTypes

(* A step of the updater that holds the lock concerns no other. *)
LEMMA OneMoves ==
    ASSUME SourceInv, NEW u \in Updaters, Working(u),
           up' = [v \in Updaters |-> up'[v]], \A v \in Updaters \ {u} : up'[v] = up[v],
           GlobalTypes', OwnTypes(u)', UpdaterTypes(u)', lock' \in {u, "free"}, edits' = edits,
           (installed # 0 => installed \in kept)', SourceEditsKept',
           up'[u].pc \in Planned => InWork(u)',
           up'[u].pc \notin Planned => Mixed(tree, installed)'
    PROVE  SourceInv'
<1>1. lock = u /\ \A v \in Updaters \ {u} : ~Working(v) /\ up[v].pc \notin Planned
  BY OneUpdates
<1>2. ASSUME NEW v \in Updaters \ {u} PROVE OwnTypes(v)' /\ UpdaterTypes(v)' /\ up'[v].pc \notin Planned
  <2>1. OwnTypes(v) /\ UpdaterTypes(v)
    BY TypeParts DEF SourceInv
  <2>2. up'[v] = up[v] /\ ~Working(v)' /\ lock' # v
    BY <1>1, PatchAssumption DEF Working
  <2> QED  BY <1>1, <2>1, <2>2 DEF OwnTypes, UpdaterTypes
<1>3. TypeOK'
  <2>1. (\A v \in Updaters : OwnTypes(v))'
    BY <1>2
  <2> QED  BY <2>1 DEF TypeOK, GlobalTypes, OwnTypes
<1>4. (NoneInWork => Mixed(tree, installed))'
  BY DEF NoneInWork
<1> QED  BY <1>2, <1>3, <1>4 DEF SourceInv

(* When it ends, nothing of its work is left but what is on the disk. *)
LEMMA OneEnds ==
    ASSUME SourceInv, NEW u \in Updaters, Working(u), NEW pc \in Over, End(u, pc),
           UNCHANGED <<tree, kept, edits, edited, raced>>, crashes' \in 0..MaxCrashes,
           unfinished' \subseteq Sets, installed' \in kept \cup {0},
           Mixed(tree, installed)'
    PROVE  SourceInv'
<1>1. /\ up = [v \in Updaters |-> up[v]] /\ GlobalTypes /\ OwnTypes(u) /\ UpdaterTypes(u)
      /\ SourceEditsKept
  BY TypeParts DEF SourceInv
<1>2. /\ up'[u].pc = pc /\ up'[u].desired = up[u].desired /\ up'[u].old = up[u].old
      /\ up'[u].previous = 0 /\ up'[u].plan = <<>> /\ up'[u].new = <<>> /\ up'[u].todo = <<>>
      /\ up'[u].done = <<>> /\ up'[u].edits0 = 0 /\ DOMAIN up'[u] = Fields
      /\ up' = [v \in Updaters |-> up'[v]] /\ \A v \in Updaters \ {u} : up'[v] = up[v]
      /\ lock' = "free"
  BY <1>1 DEF End, Fresh, Fields
<1>3. pc \notin Planned /\ ~Working(u)' /\ lock' # u
  BY <1>2, PatchAssumption DEF Planned, Over, Working
<1>4. OwnTypes(u)'
  BY <1>2, <1>3, EmptyFacts DEF OwnTypes
<1>5. UpdaterTypes(u)'
  BY <1>1, <1>2, EmptyFacts DEF UpdaterTypes, GlobalTypes
<1>6. GlobalTypes'
  BY <1>1, <1>2, PatchAssumption DEF GlobalTypes
<1>7. SourceEditsKept'
  BY <1>1 DEF SourceEditsKept
<1> QED  BY <1>2, <1>3, <1>4, <1>5, <1>6, <1>7, OneMoves

(* What is on the disk while an updater works: each file is of the set it found, of one
   installed in part, or of its own. *)
LEMMA MixedInWork ==
    ASSUME SourceInv, NEW u \in Updaters, up[u].pc \in Planned
    PROVE  /\ Touched(u) = {} => Mixed(tree, up[u].previous)
           /\ \A p \in Paths \ DOMAIN edited :
                \E r \in {installed, up[u].desired} \cup unfinished : tree[p] = Target(r, p)
           /\ WholeSet(u) /\ (up[u].pc = "plan" => up[u].todo = <<>>) =>
                \A p \in Paths \ DOMAIN edited :
                    \E r \in {up[u].desired} \cup (unfinished \ {up[u].desired}) : tree[p] = Target(r, p)
<1>1. /\ PlanTypes(u) /\ WorkTypes(u) /\ Behind(u) /\ Recorded(u)
      /\ Mixed(up[u].tree0, up[u].previous)
  BY DEF SourceInv, InWork
<1>2. /\ up[u].previous \in Sets \cup {0} /\ up[u].desired \in Sets
      /\ Range(up[u].done) \subseteq DOMAIN up[u].new
      /\ DOMAIN up[u].new \subseteq DOMAIN up[u].plan
  BY DEF SourceInv, UpdaterTypes, TypeOK
<1>3. Touched(u) \subseteq DOMAIN up[u].new
  BY <1>1, <1>2 DEF Touched, WorkTypes
<1>4. ASSUME NEW p \in Paths \ DOMAIN edited
      PROVE  /\ \E r \in {up[u].previous} \cup unfinished : up[u].tree0[p] = Target(r, p)
             /\ tree[p] = up[u].tree0[p]
                    \/ (p \in Touched(u) /\ tree[p] = Target(up[u].desired, p) /\ p \in DOMAIN up[u].plan)
  <2>1. Steady(u, p)
    BY <1>4 DEF Steady
  <2>2. tree[p] = up[u].tree0[p] \/ (p \in Touched(u) /\ tree[p] = up[u].new[p])
    BY <1>1, <2>1 DEF Behind
  <2>3. p \in Touched(u) => up[u].new[p] = Target(up[u].desired, p) /\ p \in DOMAIN up[u].plan
    BY <1>1, <1>2, <1>3 DEF PlanTypes
  <2> QED  BY <1>1, <2>2, <2>3 DEF Mixed
<1>5. ASSUME WholeSet(u), up[u].pc = "plan" => up[u].todo = <<>>, NEW p \in Paths \ DOMAIN edited
      PROVE  \E r \in {up[u].desired} \cup (unfinished \ {up[u].desired}) : tree[p] = Target(r, p)
  <2>1. CASE p \in DOMAIN up[u].plan
    BY <1>5, <2>1 DEF WholeSet
  <2>2. CASE p \notin DOMAIN up[u].plan
    <3>1. p \notin Changed(up[u].desired) \cup Changed(up[u].previous)
      BY <1>1, <1>5, <2>2, EmptyFacts DEF PlanTypes, Names
    <3>2. Target(up[u].desired, p) = Target(up[u].previous, p)
      BY <3>1 DEF Target
    <3>3. PICK r \in {up[u].previous} \cup unfinished : tree[p] = Target(r, p)
      BY <1>4, <2>2
    <3> QED  BY <3>2, <3>3
  <2> QED  BY <2>1, <2>2
<1>6. ASSUME NEW p \in Paths \ DOMAIN edited
      PROVE  \E r \in {installed, up[u].desired} \cup unfinished : tree[p] = Target(r, p)
  <2>1. CASE installed = up[u].previous
    BY <1>4, <2>1
  <2>2. CASE installed # up[u].previous
    BY <1>1, <1>5, <2>2 DEF Recorded
  <2> QED  BY <2>1, <2>2
<1>7. Touched(u) = {} => Mixed(tree, up[u].previous)
  BY <1>4 DEF Mixed
<1> QED  BY <1>5, <1>6, <1>7

LEMMA InitSources == Init => SourceInv
<1> SUFFICES ASSUME Init PROVE SourceInv
  OBVIOUS
<1>1. PICK r \in 0 .. Len(Revisions) :
        /\ tree = [p \in Paths |-> Target(r, p)]
        /\ installed \in {0, r} /\ kept = (IF installed = 0 THEN {} ELSE {r})
  BY DEF Init
<1>2. r \in Sets \cup {0} /\ (r # 0 => r \in Sets)
  BY <1>1, PatchAssumption
<1>3. tree \in [Paths -> Contents] /\ installed \in 0 .. Len(Revisions) /\ kept \subseteq Sets
      /\ (installed # 0 => installed \in kept)
  BY <1>1, <1>2, SetContents, PatchAssumption
<1>4. PICK d \in [Updaters -> Sets] : \E h \in BOOLEAN :
          up = [u \in Updaters |-> Fresh(d[u], IF h THEN 1 .. d[u] ELSE {})]
  BY DEF Init
<1>5. ASSUME NEW u \in Updaters
      PROVE  /\ up[u].pc = "start" /\ up[u].desired \in Sets /\ up[u].old \subseteq Sets
             /\ up[u].previous = 0 /\ up[u].plan = <<>> /\ up[u].new = <<>> /\ up[u].todo = <<>>
             /\ up[u].done = <<>> /\ up[u].edits0 = 0 /\ DOMAIN up[u] = Fields
  <2>1. PICK h \in BOOLEAN : up = [v \in Updaters |-> Fresh(d[v], IF h THEN 1 .. d[v] ELSE {})]
    BY <1>4
  <2>2. d[u] \in Sets /\ 1 .. d[u] \subseteq Sets
    BY <1>4, PatchAssumption
  <2> QED  BY <2>1, <2>2 DEF Fresh, Fields
<1>6. /\ lock = "free" /\ edits = 0 /\ crashes = 0 /\ edited = <<>> /\ raced = {}
      /\ unfinished = {tree[Version][2]} \ {0, installed}
  BY DEF Init
<1>7. tree[Version][2] = r
  <2>1. CASE r = 0
    BY <1>1, <2>1, PatchAssumption DEF Target, Changed, Upstream, Text
  <2>2. CASE r # 0
    <3>1. Version \in Changed(r) /\ Revisions[r][Version] = r /\ Version \in Paths
      BY <1>2, <2>2, PatchAssumption
    <3> QED  BY <1>1, <3>1 DEF Target, Text
  <2> QED  BY <2>1, <2>2
<1>8. DOMAIN edited = {} /\ edited \in UNION {[S -> Edits] : S \in SUBSET Paths}
  <2>1. edited \in [{} -> Edits] /\ {} \in SUBSET Paths
    BY <1>6, EmptyFacts
  <2> QED  BY <2>1
<1>9. GlobalTypes
  <2>1. unfinished \subseteq Sets /\ raced \subseteq Paths /\ lock \in Updaters \cup {"free"}
    BY <1>2, <1>6, <1>7
  <2>2. edits \in 0 .. MaxEdits /\ crashes \in 0 .. MaxCrashes
    BY <1>6, PatchAssumption
  <2> QED  BY <1>3, <1>8, <2>1, <2>2 DEF GlobalTypes
<1>10. \A u \in Updaters : OwnTypes(u)
  BY <1>5, <1>6, EmptyFacts, PatchAssumption DEF OwnTypes, Working
<1>11. ASSUME NEW u \in Updaters PROVE UpdaterTypes(u) /\ up[u].pc \notin Planned
  <2>1. up[u].edits0 \in Nat /\ up[u].edits0 <= edits
    BY <1>5, <1>6
  <2> QED  BY <1>5, <2>1, EmptyFacts DEF UpdaterTypes, Planned
<1>12. Mixed(tree, installed)
  BY <1>1, <1>2, <1>6, <1>7 DEF Mixed
<1>13. TypeOK /\ up = [u \in Updaters |-> up[u]] /\ SourceEditsKept
  BY <1>4, <1>8, <1>9, <1>10, TypeParts DEF SourceEditsKept
<1> QED  BY <1>3, <1>11, <1>12, <1>13 DEF SourceInv, NoneInWork

(* An edit: the file is not what it was, and nothing is said of it any more. *)
LEMMA EditStep ==
    ASSUME SourceInv, NEW p \in Paths, Edit(p)
    PROVE  SourceInv'
<1>1. /\ GlobalTypes /\ up = [u \in Updaters |-> up[u]] /\ SourceEditsKept
      /\ \A u \in Updaters : OwnTypes(u) /\ UpdaterTypes(u)
      /\ installed # 0 => installed \in kept
      /\ \A u \in Updaters : up[u].pc \in Planned => InWork(u)
      /\ NoneInWork => Mixed(tree, installed)
  BY TypeParts DEF SourceInv
<1> DEFINE e == <<"edit", edits + 1>>
<1>2. /\ edits' = edits + 1 /\ edits < MaxEdits /\ tree' = [tree EXCEPT ![p] = e]
      /\ edited' = Put(edited, p, e)
      /\ raced' = raced \cup {q \in {p} : \E u \in Updaters :
                    up[u].pc \in {"write", "restore"} /\ up[u].todo[1] = p}
      /\ UNCHANGED <<installed, kept, lock, up, crashes, unfinished>>
  BY DEF Edit
<1>3. e \in Edits /\ edits' \in 0 .. MaxEdits /\ edits \in Nat
  BY <1>1, <1>2, PatchAssumption DEF Edits, GlobalTypes
<1> HIDE DEF e
<1>4. /\ tree' \in [Paths -> Contents] /\ tree'[p] = e /\ \A q \in Paths : q # p => tree'[q] = tree[q]
  BY <1>1, <1>2, <1>3 DEF GlobalTypes, Contents
<1>5. /\ DOMAIN edited' = DOMAIN edited \cup {p} /\ edited'[p] = e
      /\ \A q \in DOMAIN edited : q # p => edited'[q] = edited[q]
      /\ DOMAIN edited \subseteq Paths
  <2>1. PICK S \in SUBSET Paths : edited \in [S -> Edits]
    BY <1>1 DEF GlobalTypes
  <2>2. /\ DOMAIN Put(edited, p, e) = DOMAIN edited \cup {p} /\ Put(edited, p, e)[p] = e
        /\ \A q \in DOMAIN edited : q # p => Put(edited, p, e)[q] = edited[q]
    BY DEF Put
  <2>3. DOMAIN edited \subseteq Paths
    BY <2>1
  <2> QED  BY <1>2, <2>2, <2>3
<1>6. edited' \in UNION {[S -> Edits] : S \in SUBSET Paths}
  <2>1. edited' = [q \in DOMAIN edited \cup {p} |-> edited'[q]]
    BY <1>2, <1>5 DEF Put
  <2>2. \A q \in DOMAIN edited : edited[q] \in Edits
    BY <1>1 DEF GlobalTypes
  <2>3. edited' \in [DOMAIN edited \cup {p} -> Edits] /\ DOMAIN edited \cup {p} \in SUBSET Paths
    BY <1>3, <1>5, <2>1, <2>2
  <2> QED  BY <2>3
<1>7. GlobalTypes'
  BY <1>1, <1>2, <1>3, <1>4, <1>6 DEF GlobalTypes
<1>8. \A u \in Updaters : OwnTypes(u)' /\ UpdaterTypes(u)'
  BY <1>1, <1>2, <1>3 DEF OwnTypes, UpdaterTypes, Working
<1>9. SourceEditsKept'
  BY <1>1, <1>2, <1>4, <1>5 DEF SourceEditsKept
<1>10. (NoneInWork => Mixed(tree, installed))'
  BY <1>1, <1>2, <1>4, <1>5 DEF NoneInWork, Mixed
<1>11. ASSUME NEW u \in Updaters, up[u].pc \in Planned PROVE InWork(u)'
  <2>1. /\ PlanTypes(u) /\ WorkTypes(u) /\ Behind(u) /\ Looked(u) /\ Recorded(u)
        /\ Mixed(up[u].tree0, up[u].previous) /\ up[u].edits0 \in Nat /\ up[u].edits0 <= edits
    BY <1>1, <1>11 DEF InWork, UpdaterTypes
  <2>2. PlanTypes(u)' /\ WorkTypes(u)' /\ Mixed(up[u].tree0, up[u].previous)'
    BY <1>2, <1>5, <2>1 DEF PlanTypes, WorkTypes, Mixed
  <2>3. \A q \in Paths : Steady(u, q)' => Steady(u, q) /\ q # p
    BY <1>2, <1>3, <1>5, <2>1 DEF Steady
  <2>4. Behind(u)'
    BY <1>2, <1>4, <2>1, <2>3 DEF Behind, Touched
  <2>5. Looked(u)'
    <3>1. up[u].todo \in Seq(Paths)
      BY <1>1 DEF UpdaterTypes
    <3>2. up[u].pc \in {"write", "restore"} => up[u].todo[1] \in Paths
      BY <2>1, <3>1 DEF WorkTypes
    <3>3. up[u].pc \in {"write", "restore"} /\ up[u].todo[1] = p => p \in raced'
      BY <1>2
    <3> QED  BY <1>2, <1>4, <2>1, <3>2, <3>3 DEF Looked
  <2>6. Recorded(u)'
    <3>1. WholeSet(u) => WholeSet(u)'
      BY <1>2, <1>4, <1>5, <2>1 DEF WholeSet, PlanTypes
    <3> QED  BY <1>2, <2>1, <3>1 DEF Recorded
  <2> QED  BY <2>2, <2>4, <2>5, <2>6 DEF InWork
<1>12. TypeOK'
  BY <1>7, <1>8 DEF TypeOK, GlobalTypes, OwnTypes
<1> QED  BY <1>1, <1>2, <1>8, <1>9, <1>10, <1>11, <1>12 DEF SourceInv

(* The lock is taken, or not; an updater is run again. *)
LEMMA StartStep ==
    ASSUME SourceInv, NEW u \in Updaters, Lock(u) \/ Again(u)
    PROVE  SourceInv'
<1>1. /\ GlobalTypes /\ up = [v \in Updaters |-> up[v]] /\ SourceEditsKept
      /\ \A v \in Updaters : OwnTypes(v) /\ UpdaterTypes(v)
      /\ installed # 0 => installed \in kept
      /\ \A v \in Updaters : up[v].pc \in Planned => InWork(v)
      /\ NoneInWork => Mixed(tree, installed)
  BY TypeParts DEF SourceInv
<1>2. UNCHANGED <<tree, installed, kept, edits, crashes, edited, raced, unfinished>>
  BY DEF Lock, Again, disk, history
<1>3. /\ up' = [v \in Updaters |-> up'[v]] /\ \A v \in Updaters \ {u} : up'[v] = up[v]
      /\ OwnTypes(u)' /\ UpdaterTypes(u)' /\ up'[u].pc \notin Planned /\ up[u].pc \notin Planned
      /\ lock' \in Updaters \cup {"free"}
      /\ \A v \in Updaters \ {u} : Working(v)' <=> lock' = v
  <2>1. OwnTypes(u) /\ UpdaterTypes(u) /\ (\A v \in Updaters : Working(v) <=> lock = v)
        /\ lock \in Updaters \cup {"free"}
    BY <1>1 DEF GlobalTypes, OwnTypes
  <2>2. CASE Again(u)
    <3>1. /\ up'[u].pc = "start" /\ up'[u].desired = up[u].desired /\ up'[u].old = up[u].old
          /\ up'[u].previous = 0 /\ up'[u].plan = <<>> /\ up'[u].new = <<>> /\ up'[u].todo = <<>>
          /\ up'[u].done = <<>> /\ up'[u].edits0 = 0 /\ DOMAIN up'[u] = Fields
          /\ up' = [v \in Updaters |-> up'[v]] /\ \A v \in Updaters \ {u} : up'[v] = up[v]
          /\ up[u].pc \in {"killed", "broken"} /\ lock' = lock
      BY <1>1, <2>2 DEF Again, Fresh, Fields
    <3>2. OwnTypes(u)' /\ UpdaterTypes(u)'
      BY <1>1, <1>2, <2>1, <3>1, EmptyFacts DEF OwnTypes, UpdaterTypes, Working, GlobalTypes
    <3> QED  BY <2>1, <3>1, <3>2 DEF Planned, Working
  <2>3. CASE Lock(u)
    <3>1. PICK pc \in {"read", "refused"} :
            /\ up' = [up EXCEPT ![u].pc = pc]
            /\ pc = "read" => Free /\ lock' = u
            /\ pc = "refused" => lock' = lock
      BY <2>3 DEF Lock, Goto
    <3>2. /\ up'[u].pc = pc /\ \A f \in Fields \ {"pc"} : up'[u][f] = up[u][f]
          /\ DOMAIN up'[u] = Fields
          /\ up' = [v \in Updaters |-> up'[v]] /\ \A v \in Updaters \ {u} : up'[v] = up[v]
          /\ up[u].pc = "start"
      BY <1>1, <2>1, <2>3, <3>1 DEF Lock, OwnTypes, Fields
    <3>3. /\ up'[u].desired = up[u].desired /\ up'[u].old = up[u].old /\ up'[u].previous = up[u].previous
          /\ up'[u].plan = up[u].plan /\ up'[u].new = up[u].new /\ up'[u].todo = up[u].todo
          /\ up'[u].done = up[u].done /\ up'[u].edits0 = up[u].edits0
      BY <3>2 DEF Fields
    <3>4. UpdaterTypes(u)'
      BY <1>2, <2>1, <3>2, <3>3 DEF UpdaterTypes, Planned, Over
    <3>5. OwnTypes(u)'
      BY <2>1, <3>1, <3>2, <3>3, PatchAssumption DEF OwnTypes, Working, Free
    <3>6. \A v \in Updaters \ {u} : Working(v)' <=> lock' = v
      BY <2>1, <3>1, <3>2, PatchAssumption DEF Working, Free
    <3> QED  BY <2>1, <3>1, <3>2, <3>4, <3>5, <3>6 DEF Planned
  <2> QED  BY <2>2, <2>3
<1>4. \A v \in Updaters : OwnTypes(v)' /\ UpdaterTypes(v)'
  BY <1>1, <1>2, <1>3 DEF OwnTypes, UpdaterTypes
<1>5. GlobalTypes'
  BY <1>1, <1>2, <1>3 DEF GlobalTypes
<1>6. TypeOK' /\ SourceEditsKept' /\ (installed # 0 => installed \in kept)'
  BY <1>1, <1>2, <1>4, <1>5 DEF TypeOK, GlobalTypes, OwnTypes, SourceEditsKept
<1>7. NoneInWork' => Mixed(tree, installed)'
  BY <1>1, <1>2, <1>3 DEF NoneInWork, Mixed
<1>8. \A v \in Updaters : up'[v].pc \in Planned => InWork(v)'
  BY <1>1, <1>2, <1>3, Undisturbed
<1> QED  BY <1>3, <1>4, <1>6, <1>7, <1>8 DEF SourceInv

(* The state is read and guarded against downgrades; then the plan starts. *)
LEMMA ReadStep ==
    ASSUME SourceInv, NEW u \in Updaters, ReadState(u)
    PROVE  SourceInv'
<1>1. /\ GlobalTypes /\ up = [v \in Updaters |-> up[v]] /\ SourceEditsKept
      /\ OwnTypes(u) /\ UpdaterTypes(u) /\ (installed # 0 => installed \in kept)
  BY TypeParts DEF SourceInv
<1>2. /\ up[u].pc = "read" /\ Working(u)
      /\ UNCHANGED <<tree, installed, kept, edits, crashes, edited, raced, unfinished>>
  BY DEF ReadState, disk, history, Working
<1>3. NoneInWork /\ Mixed(tree, installed) /\ lock = u
  <2>1. NoneInWork
    BY <1>2, OneUpdates DEF NoneInWork, Planned
  <2> QED  BY <1>2, <2>1, OneUpdates DEF SourceInv
<1>4. CASE End(u, "refused")
  <2>1. Mixed(tree, installed)'
    BY <1>2, <1>3 DEF Mixed
  <2>2. "refused" \in Over /\ unfinished' \subseteq Sets /\ crashes' \in 0 .. MaxCrashes /\ installed' \in kept \cup {0}
    BY <1>1, <1>2 DEF Over, GlobalTypes
  <2> QED  BY <1>2, <1>4, <2>1, <2>2, OneEnds
<1>5. CASE ~End(u, "refused")
  <2> DEFINE t == Only(Order, Names(up[u].desired, installed))
  <2>1. /\ up' = [up EXCEPT ![u].pc = "plan", ![u].previous = installed, ![u].todo = t,
                            ![u].tree0 = tree, ![u].edits0 = edits]
        /\ lock' = lock
    BY <1>5 DEF ReadState
  <2>2. t \in Seq(Paths) /\ Range(t) = Names(up[u].desired, installed)
    <3>1. installed \in Sets \cup {0} /\ up[u].desired \in Sets
      BY <1>1, PatchAssumption DEF GlobalTypes, UpdaterTypes
    <3>2. Names(up[u].desired, installed) \subseteq Paths
      BY <3>1, SetContents DEF Names
    <3>3. t \in Seq(Paths) /\ Range(t) = Range(Order) \cap Names(up[u].desired, installed)
      BY PatchAssumption, OnlySelects
    <3> QED  BY <3>2, <3>3 DEF Paths
  <2> HIDE DEF t
  <2>3. /\ up'[u].pc = "plan" /\ up'[u].previous = installed /\ up'[u].todo = t
        /\ up'[u].tree0 = tree /\ up'[u].edits0 = edits /\ DOMAIN up'[u] = Fields
        /\ up'[u].desired = up[u].desired /\ up'[u].old = up[u].old
        /\ up'[u].plan = up[u].plan /\ up'[u].new = up[u].new
        /\ up'[u].done = up[u].done
        /\ up' = [v \in Updaters |-> up'[v]] /\ \A v \in Updaters \ {u} : up'[v] = up[v]
    BY <1>1, <2>1 DEF OwnTypes, Fields
  <2>4. up[u].plan = <<>> /\ up[u].new = <<>> /\ up[u].done = <<>>
    BY <1>1, <1>2 DEF UpdaterTypes, Planned
  <2>5. GlobalTypes' /\ SourceEditsKept' /\ (installed # 0 => installed \in kept)' /\ lock' \in {u, "free"}
    BY <1>1, <1>2, <1>3, <2>1 DEF GlobalTypes, SourceEditsKept
  <2>6. OwnTypes(u)'
    <3>1. Range(t) \subseteq Paths
      BY <2>2 DEF Range
    <3>2. Working(u)' /\ lock' = u
      BY <1>3, <2>1, <2>3 DEF Working
    <3> QED  BY <2>3, <2>4, <3>1, <3>2, EmptyFacts DEF OwnTypes
  <2>7. UpdaterTypes(u)'
    <3>1. installed \in Sets \cup {0} /\ edits \in Nat
      BY <1>1, PatchAssumption DEF GlobalTypes
    <3>2. up'[u].previous \in Sets \cup {0} /\ up'[u].edits0 \in Nat /\ up'[u].edits0 <= edits'
      BY <1>2, <2>3, <3>1
    <3>3. /\ up'[u].todo \in Seq(Paths) /\ up'[u].done \in Seq(Paths)
          /\ up'[u].desired \in Sets /\ up'[u].old \subseteq Sets
      BY <1>1, <2>2, <2>3, <2>4, EmptyFacts DEF UpdaterTypes
    <3>4. up'[u].pc \in Planned
      BY <2>3 DEF Planned
    <3> QED  BY <3>2, <3>3, <3>4 DEF UpdaterTypes
  <2>8. InWork(u)'
    <3>1. PlanTypes(u)'
      <4>1. (Names(up[u].desired, up[u].previous) = DOMAIN up[u].plan \cup Range(up[u].todo))'
        BY <2>2, <2>3, <2>4, EmptyFacts DEF Names
      <4> QED  BY <1>1, <1>2, <2>3, <2>4, <4>1, EmptyFacts DEF PlanTypes, GlobalTypes
    <3>2. WorkTypes(u)'
      BY <2>3, <2>4 DEF WorkTypes
    <3>3. Behind(u)' /\ Looked(u)'
      BY <1>2, <2>3, <2>4, EmptyFacts DEF Behind, Looked
    <3>4. Recorded(u)'
      BY <1>2, <2>3 DEF Recorded
    <3>5. Mixed(up[u].tree0, up[u].previous)'
      BY <1>2, <1>3, <2>3 DEF Mixed
    <3> QED  BY <3>1, <3>2, <3>3, <3>4, <3>5 DEF InWork
  <2>9. up'[u].pc \in Planned
    BY <2>3 DEF Planned
  <2> QED  BY <1>2, <2>3, <2>5, <2>6, <2>7, <2>8, <2>9, OneMoves
<1> QED  BY <1>4, <1>5

(* An updater at work, and what it leaves alone when it goes on. *)
LEMMA AtWorkFacts ==
    ASSUME SourceInv, NEW u \in Updaters, up[u].pc \in Planned
    PROVE  /\ GlobalTypes /\ up = [v \in Updaters |-> up[v]] /\ SourceEditsKept
           /\ OwnTypes(u) /\ UpdaterTypes(u) /\ (installed # 0 => installed \in kept)
           /\ PlanTypes(u) /\ WorkTypes(u) /\ Behind(u) /\ Looked(u) /\ Recorded(u)
           /\ Mixed(up[u].tree0, up[u].previous) /\ Working(u) /\ lock = u
<1>1. Working(u)
  BY DEF Working, Planned
<1> QED  BY <1>1, OneUpdates, TypeParts DEF SourceInv, InWork

LEMMA GoesOnWith ==
    ASSUME SourceInv, NEW u \in Updaters, up[u].pc \in Planned, up'[u].pc \in Planned,
           up' = [v \in Updaters |-> up'[v]], \A v \in Updaters \ {u} : up'[v] = up[v],
           DOMAIN up'[u] = Fields, UNCHANGED <<lock, edits, crashes, edited, raced, unfinished>>,
           tree' \in [Paths -> Contents], installed' \in {installed, up[u].previous, up[u].desired},
           kept' \in {kept, kept \cup {up[u].desired}},
           installed' \in kept' \cup {0}, SourceEditsKept',
           up'[u].desired = up[u].desired, up'[u].old = up[u].old, up'[u].previous = up[u].previous,
           up'[u].tree0 = up[u].tree0, up'[u].edits0 = up[u].edits0,
           up'[u].todo \in Seq(Paths), up'[u].done \in Seq(Paths), IsInjective(up'[u].done),
           Range(up'[u].done) \subseteq DOMAIN up'[u].new, DOMAIN up'[u].new \subseteq DOMAIN up'[u].plan,
           PlanTypes(u)', WorkTypes(u)', Behind(u)', Looked(u)', Recorded(u)'
    PROVE  SourceInv'
<1>1. /\ GlobalTypes /\ OwnTypes(u) /\ UpdaterTypes(u) /\ Working(u) /\ lock = u
      /\ Mixed(up[u].tree0, up[u].previous)
  BY AtWorkFacts
<1>2. installed' \in 0 .. Len(Revisions) /\ kept' \subseteq Sets
  BY <1>1, PatchAssumption DEF GlobalTypes, UpdaterTypes
<1>3. GlobalTypes'
  BY <1>1, <1>2 DEF GlobalTypes
<1>4. Range(up'[u].todo) \subseteq Paths
  BY DEF Range
<1>5. OwnTypes(u)'
  BY <1>1, <1>4 DEF OwnTypes, Working, Planned
<1>6. UpdaterTypes(u)'
  BY <1>1 DEF UpdaterTypes
<1>7. Mixed(up[u].tree0, up[u].previous)'
  BY <1>1 DEF Mixed
<1>8. InWork(u)'
  BY <1>7 DEF InWork
<1>9. (installed # 0 => installed \in kept)'
  OBVIOUS
<1> QED  BY <1>1, <1>3, <1>5, <1>6, <1>8, <1>9, OneMoves

(* Before anything is written, the update may stop and has changed nothing. *)
LEMMA RefusedAtWork ==
    ASSUME SourceInv, NEW u \in Updaters, up[u].pc \in Planned, NEW pc \in Over, End(u, pc),
           UNCHANGED <<tree, installed, kept, edits, crashes, edited, raced, unfinished>>,
           Touched(u) = {}, installed = up[u].previous
    PROVE  SourceInv'
<1>1. GlobalTypes /\ Working(u) /\ (installed # 0 => installed \in kept)
  BY AtWorkFacts
<1>2. Mixed(tree, installed)
  BY MixedInWork
<1>3. Mixed(tree, installed)' /\ unfinished' \subseteq Sets /\ crashes' \in 0 .. MaxCrashes
      /\ installed' \in kept \cup {0}
  BY <1>1, <1>2 DEF Mixed, GlobalTypes
<1> QED  BY <1>1, <1>3, OneEnds

(* The next file of the plan. *)
LEMMA PlanStep ==
    ASSUME SourceInv, NEW u \in Updaters, PlanFile(u)
    PROVE  SourceInv'
<1>1. /\ up[u].pc = "plan" /\ up[u].todo # <<>> /\ up[u].pc \in Planned
      /\ UNCHANGED <<tree, installed, kept, edits, crashes, edited, raced, unfinished>>
  BY DEF PlanFile, disk, history, Planned
<1>2. /\ GlobalTypes /\ up = [v \in Updaters |-> up[v]] /\ SourceEditsKept
      /\ OwnTypes(u) /\ UpdaterTypes(u) /\ (installed # 0 => installed \in kept)
      /\ PlanTypes(u) /\ WorkTypes(u) /\ Behind(u) /\ Looked(u) /\ Recorded(u)
  BY <1>1, AtWorkFacts
<1>3. up[u].done = <<>> /\ Touched(u) = {} /\ installed = up[u].previous
  BY <1>1, <1>2, EmptyFacts DEF WorkTypes, Touched, Recorded
<1> DEFINE p == up[u].todo[1]
           t == Target(up[u].desired, p)
<1>4. CASE ~Recognised(u, p)
  <2>1. End(u, "refused") /\ "refused" \in Over
    BY <1>4 DEF PlanFile, Over
  <2> QED  BY <1>1, <1>3, <2>1, RefusedAtWork
<1>5. CASE Recognised(u, p)
  <2> DEFINE plan2 == Put(up[u].plan, p, tree[p])
             new2 == IF tree[p] = t THEN up[u].new ELSE Put(up[u].new, p, t)
             rest == Tail(up[u].todo)
  <2>1. up' = [up EXCEPT ![u].todo = rest, ![u].plan = plan2, ![u].new = new2] /\ lock' = lock
    BY <1>5 DEF PlanFile
  <2>2. p \in Paths /\ rest \in Seq(Paths) /\ Range(up[u].todo) = {p} \cup Range(rest)
    <3>1. up[u].todo \in Seq(Paths) /\ up[u].todo # <<>>
      BY <1>1, <1>2 DEF UpdaterTypes
    <3> QED  BY <3>1, FirstFacts
  <2>3. tree[p] \notin Edits /\ tree[p] \in Contents /\ t \notin Edits
    <3>1. \A r \in Sets \cup {0} : Target(r, p) \notin Edits
      BY <2>2, SetContents
    <3>2. up[u].desired \in Sets /\ Known(u) \subseteq Sets \cup {0} /\ Upstream(p) = Target(0, p)
      BY <1>2 DEF UpdaterTypes, Known, Target, Changed
    <3>3. tree[p] \notin Edits
      BY <1>5, <3>1, <3>2 DEF Recognised
    <3> QED  BY <1>2, <2>2, <3>1, <3>2, <3>3 DEF GlobalTypes
  <2>4. /\ DOMAIN plan2 = DOMAIN up[u].plan \cup {p} /\ plan2[p] = tree[p]
        /\ \A q \in DOMAIN up[u].plan : q # p => plan2[q] = up[u].plan[q]
    BY DEF Put
  <2>5. /\ DOMAIN new2 = DOMAIN up[u].new \cup (IF tree[p] = t THEN {} ELSE {p})
        /\ p \in DOMAIN new2 /\ tree[p] # t => new2[p] = t
        /\ \A q \in DOMAIN up[u].new : q # p => new2[q] = up[u].new[q]
        /\ p \in DOMAIN up[u].new => new2[p] \in {t, up[u].new[p]}
    BY DEF Put
  <2> HIDE DEF plan2, new2, rest, t, p
  <2>6. /\ up'[u].plan = plan2 /\ up'[u].new = new2 /\ up'[u].todo = rest
        /\ up'[u].pc = up[u].pc /\ up'[u].desired = up[u].desired /\ up'[u].old = up[u].old
        /\ up'[u].previous = up[u].previous /\ up'[u].done = up[u].done /\ up'[u].before = up[u].before
        /\ up'[u].tree0 = up[u].tree0 /\ up'[u].edits0 = up[u].edits0 /\ DOMAIN up'[u] = Fields
        /\ up' = [v \in Updaters |-> up'[v]] /\ \A v \in Updaters \ {u} : up'[v] = up[v]
    BY <1>2, <2>1 DEF OwnTypes, Fields
  <2>7. PlanTypes(u)'
    <3>1. (Names(up[u].desired, up[u].previous) = DOMAIN up[u].plan \cup (IF up[u].pc = "plan" THEN Range(up[u].todo) ELSE {}))'
      BY <1>1, <1>2, <2>2, <2>4, <2>6 DEF PlanTypes, Names
    <3>2. \A q \in DOMAIN new2 : new2[q] = Target(up[u].desired, q)
      BY <1>2, <2>5 DEF PlanTypes, t
    <3>3. \A q \in DOMAIN plan2 \ DOMAIN new2 : plan2[q] = Target(up[u].desired, q)
      BY <1>2, <2>4, <2>5 DEF PlanTypes, t
    <3>4. \A q \in DOMAIN plan2 : plan2[q] \notin Edits
      BY <1>2, <2>3, <2>4 DEF PlanTypes
    <3>5. DOMAIN plan2 \subseteq Paths /\ up[u].tree0 \in [Paths -> Contents]
          /\ (up[u].previous # 0 => up[u].previous \in kept)
      BY <1>2, <2>2, <2>4 DEF PlanTypes
    <3> QED  BY <1>1, <2>6, <3>1, <3>2, <3>3, <3>4, <3>5 DEF PlanTypes
  <2>8. WorkTypes(u)'
    BY <1>1, <1>3, <2>6 DEF WorkTypes
  <2>9. Touched(u)' = {} /\ \A q \in Paths : Steady(u, q)' => Steady(u, q)
    BY <1>1, <1>3, <2>6, EmptyFacts DEF Touched, Steady
  <2>10. Behind(u)'
    <3>1. ASSUME NEW q \in Paths, Steady(u, q)
          PROVE  tree[q] = up[u].tree0[q] /\ (q \in DOMAIN plan2 => plan2[q] = up[u].tree0[q])
      <4>1. tree[q] = up[u].tree0[q] /\ (q \in DOMAIN up[u].plan => up[u].plan[q] = up[u].tree0[q])
        BY <1>2, <1>3, <3>1 DEF Behind
      <4> QED  BY <2>4, <4>1
    <3> QED  BY <1>1, <2>6, <2>9, <3>1 DEF Behind
  <2>11. Looked(u)' /\ Recorded(u)'
    BY <1>1, <1>3, <2>6 DEF Looked, Recorded
  <2>12. Range(up'[u].done) \subseteq DOMAIN up'[u].new /\ DOMAIN up'[u].new \subseteq DOMAIN up'[u].plan
         /\ IsInjective(up'[u].done)
    BY <1>2, <1>3, <2>4, <2>5, <2>6, EmptyFacts DEF OwnTypes
  <2>13. up'[u].pc \in Planned /\ tree' \in [Paths -> Contents] /\ SourceEditsKept'
         /\ installed' \in kept' \cup {0} /\ up'[u].todo \in Seq(Paths) /\ up'[u].done \in Seq(Paths)
    BY <1>1, <1>2, <1>3, <2>2, <2>6, EmptyFacts DEF GlobalTypes, SourceEditsKept
  <2> QED  BY <1>1, <2>1, <2>6, <2>7, <2>8, <2>10, <2>11, <2>12, <2>13, GoesOnWith
<1> QED  BY <1>4, <1>5

(* There was nothing to do, and the state says so. *)
LEMMA CurrentStep ==
    ASSUME SourceInv, NEW u \in Updaters, Current(u)
    PROVE  SourceInv'
<1>1. /\ up[u].pc = "plan" /\ up[u].todo = <<>> /\ up[u].new = <<>>
      /\ up[u].previous = up[u].desired /\ up[u].pc \in Planned
      /\ End(u, "done") /\ unfinished' = unfinished \ {up[u].desired}
      /\ UNCHANGED <<tree, installed, kept, edits, crashes, edited, raced>>
  BY DEF Current, disk, Planned, Succeed
<1>2. /\ GlobalTypes /\ Working(u) /\ (installed # 0 => installed \in kept)
      /\ PlanTypes(u) /\ WorkTypes(u) /\ Behind(u) /\ Recorded(u)
  BY <1>1, AtWorkFacts
<1>3. Touched(u) = {} /\ installed = up[u].desired
  BY <1>1, <1>2, EmptyFacts DEF WorkTypes, Touched, Recorded
<1>4. WholeSet(u)
  <2> SUFFICES ASSUME NEW p \in DOMAIN up[u].plan \ DOMAIN edited
               PROVE  tree[p] = Target(up[u].desired, p)
    BY DEF WholeSet
  <2>1. p \in Paths /\ Steady(u, p) /\ up[u].plan[p] = Target(up[u].desired, p)
    BY <1>1, <1>2, EmptyFacts DEF PlanTypes, Steady
  <2> QED  BY <1>2, <1>3, <2>1 DEF Behind
<1>5. \A p \in Paths \ DOMAIN edited :
          \E r \in {up[u].desired} \cup (unfinished \ {up[u].desired}) : tree[p] = Target(r, p)
  BY <1>1, <1>4, MixedInWork
<1>6. Mixed(tree, installed)'
  BY <1>1, <1>3, <1>5 DEF Mixed
<1>7. "done" \in Over /\ unfinished' \subseteq Sets /\ crashes' \in 0 .. MaxCrashes /\ installed' \in kept \cup {0}
  BY <1>1, <1>2 DEF GlobalTypes, Over
<1> QED  BY <1>1, <1>2, <1>6, <1>7, OneEnds

(* Once it is made, the plan stays. *)
LEMMA PlanStays ==
    ASSUME NEW u, PlanTypes(u), up[u].pc = "plan" => up[u].todo = <<>>, up'[u].pc # "plan",
           up'[u].desired = up[u].desired, up'[u].previous = up[u].previous,
           up'[u].plan = up[u].plan, up'[u].new = up[u].new, up'[u].tree0 = up[u].tree0,
           kept \subseteq kept'
    PROVE  PlanTypes(u)'
<1>1. Names(up[u].desired, up[u].previous) = DOMAIN up[u].plan
  BY EmptyFacts DEF PlanTypes
<1>2. (Names(up[u].desired, up[u].previous) = DOMAIN up[u].plan)'
  BY <1>1 DEF Names
<1> QED  BY <1>2 DEF PlanTypes

(* So does what was copied, and what is on the list. *)
LEMMA BehindStays ==
    ASSUME NEW u, Behind(u), up[u].pc \notin {"plan", "backup"}, UNCHANGED <<tree, edits, edited>>,
           up'[u].plan = up[u].plan, up'[u].new = up[u].new, up'[u].before = up[u].before,
           up'[u].tree0 = up[u].tree0, up'[u].edits0 = up[u].edits0, Touched(u)' = Touched(u)
    PROVE  Behind(u)'
<1>1. \A q \in Paths : Steady(u, q)' = Steady(u, q)
  BY DEF Steady
<1>2. ASSUME NEW q \in Paths, Steady(u, q)
      PROVE  /\ q \in DOMAIN up[u].plan => up[u].plan[q] = up[u].tree0[q]
             /\ q \in DOMAIN up[u].new => up[u].before[q] = up[u].tree0[q]
             /\ tree[q] = up[u].tree0[q] \/ (q \in Touched(u) /\ tree[q] = up[u].new[q])
  BY <1>2 DEF Behind
<1> QED  BY <1>1, <1>2 DEF Behind

(* The files are as planned, and copied. *)
LEMMA BackupStep ==
    ASSUME SourceInv, NEW u \in Updaters, BeginInstall(u) \/ Backup(u)
    PROVE  SourceInv'
<1>1. /\ up[u].pc \in {"plan", "backup"} /\ up[u].pc \in Planned
      /\ up[u].pc = "plan" => up[u].todo = <<>>
      /\ UNCHANGED <<tree, installed, kept, edits, crashes, edited, raced, unfinished>>
  BY DEF BeginInstall, Backup, disk, history, Planned
<1>2. /\ GlobalTypes /\ up = [v \in Updaters |-> up[v]] /\ SourceEditsKept
      /\ OwnTypes(u) /\ UpdaterTypes(u) /\ (installed # 0 => installed \in kept)
      /\ PlanTypes(u) /\ WorkTypes(u) /\ Behind(u) /\ Looked(u) /\ Recorded(u)
  BY <1>1, AtWorkFacts
<1>3. up[u].done = <<>> /\ Touched(u) = {} /\ installed = up[u].previous
  BY <1>1, <1>2, EmptyFacts DEF WorkTypes, Touched, Recorded
<1>4. CASE End(u, "refused")
  <2>1. "refused" \in Over
    BY DEF Over
  <2> QED  BY <1>1, <1>3, <1>4, <2>1, RefusedAtWork
<1>5. CASE BeginInstall(u) /\ ~End(u, "refused")
  <2>1. up' = [up EXCEPT ![u].pc = "backup"] /\ lock' = lock
    BY <1>5 DEF BeginInstall, Goto
  <2>2. /\ up'[u].plan = up[u].plan /\ up'[u].new = up[u].new /\ up'[u].todo = up[u].todo
        /\ up'[u].pc = "backup" /\ up'[u].desired = up[u].desired /\ up'[u].old = up[u].old
        /\ up'[u].previous = up[u].previous /\ up'[u].done = up[u].done
        /\ up'[u].tree0 = up[u].tree0 /\ up'[u].edits0 = up[u].edits0 /\ DOMAIN up'[u] = Fields
        /\ up' = [v \in Updaters |-> up'[v]] /\ \A v \in Updaters \ {u} : up'[v] = up[v]
    BY <1>2, <2>1 DEF OwnTypes, Fields
  <2>3. PlanTypes(u)'
    BY <1>1, <1>2, <2>2, PlanStays
  <2>4. WorkTypes(u)' /\ Looked(u)' /\ Recorded(u)'
    BY <1>1, <1>3, <2>2 DEF WorkTypes, Looked, Recorded
  <2>5. Behind(u)'
    <3>1. \A q \in Paths : Steady(u, q)' => Steady(u, q)
      BY <1>1, <2>2 DEF Steady
    <3> QED  BY <1>1, <1>2, <1>3, <2>2, <3>1 DEF Behind
  <2>6. Range(up'[u].done) \subseteq DOMAIN up'[u].new /\ DOMAIN up'[u].new \subseteq DOMAIN up'[u].plan
         /\ IsInjective(up'[u].done) /\ up'[u].todo \in Seq(Paths) /\ up'[u].done \in Seq(Paths)
    BY <1>2, <2>2 DEF OwnTypes, UpdaterTypes
  <2>7. up'[u].pc \in Planned /\ tree' \in [Paths -> Contents] /\ SourceEditsKept'
         /\ installed' \in kept' \cup {0}
    BY <1>1, <1>2, <2>2 DEF GlobalTypes, SourceEditsKept, Planned
  <2> QED  BY <1>1, <2>1, <2>2, <2>3, <2>4, <2>5, <2>6, <2>7, GoesOnWith
<1>6. CASE Backup(u)
  <2> DEFINE s == ToWrite(u)
             b == [p \in DOMAIN up[u].new |-> tree[p]]
  <2>1. up' = [up EXCEPT ![u].pc = "check", ![u].todo = s, ![u].before = b] /\ lock' = lock
        /\ up[u].pc = "backup"
    BY <1>6 DEF Backup
  <2>2. s \in Seq(Paths) /\ IsInjective(s) /\ Range(s) \subseteq DOMAIN up[u].new
    BY PatchAssumption, OnlySelects, OnlyOnce DEF ToWrite
  <2>3. DOMAIN b = DOMAIN up[u].new /\ \A p \in DOMAIN up[u].new : b[p] = tree[p] /\ p \in Paths
    BY <1>2 DEF OwnTypes, PlanTypes
  <2> HIDE DEF s, b
  <2>4. /\ up'[u].plan = up[u].plan /\ up'[u].new = up[u].new /\ up'[u].todo = s
        /\ up'[u].pc = "check" /\ up'[u].desired = up[u].desired /\ up'[u].old = up[u].old
        /\ up'[u].previous = up[u].previous /\ up'[u].done = up[u].done /\ up'[u].before = b
        /\ up'[u].tree0 = up[u].tree0 /\ up'[u].edits0 = up[u].edits0 /\ DOMAIN up'[u] = Fields
        /\ up' = [v \in Updaters |-> up'[v]] /\ \A v \in Updaters \ {u} : up'[v] = up[v]
    BY <1>2, <2>1 DEF OwnTypes, Fields
  <2>5. PlanTypes(u)'
    BY <1>1, <1>2, <2>4, PlanStays
  <2>6. WorkTypes(u)'
    BY <1>2, <1>3, <2>2, <2>3, <2>4, EmptyFacts DEF WorkTypes, GlobalTypes
  <2>7. Looked(u)' /\ Recorded(u)'
    BY <1>1, <1>3, <2>4 DEF Looked, Recorded
  <2>8. Behind(u)'
    <3>1. \A q \in Paths : Steady(u, q)' => Steady(u, q)
      BY <1>1, <2>4 DEF Steady
    <3> QED  BY <1>1, <1>2, <1>3, <2>3, <2>4, <3>1 DEF Behind
  <2>9. Range(up'[u].done) \subseteq DOMAIN up'[u].new /\ DOMAIN up'[u].new \subseteq DOMAIN up'[u].plan
         /\ IsInjective(up'[u].done) /\ up'[u].todo \in Seq(Paths) /\ up'[u].done \in Seq(Paths)
    BY <1>2, <2>2, <2>4 DEF OwnTypes, UpdaterTypes
  <2>10. up'[u].pc \in Planned /\ tree' \in [Paths -> Contents] /\ SourceEditsKept'
         /\ installed' \in kept' \cup {0}
    BY <1>1, <1>2, <2>4 DEF GlobalTypes, SourceEditsKept, Planned
  <2> QED  BY <1>1, <2>1, <2>4, <2>5, <2>6, <2>7, <2>8, <2>9, <2>10, GoesOnWith
<1> QED  BY <1>4, <1>5, <1>6

(* A last look at the file; a step that only goes to another place. *)
LEMMA CheckStep ==
    ASSUME SourceInv, NEW u \in Updaters, Check(u) \/ Verify(u)
    PROVE  SourceInv'
<1>1. /\ up[u].pc = "check" /\ up[u].pc \in Planned /\ lock' = lock
      /\ UNCHANGED <<tree, installed, kept, edits, crashes, edited, raced, unfinished>>
  BY DEF Check, Verify, disk, history, Planned
<1>2. /\ GlobalTypes /\ up = [v \in Updaters |-> up[v]] /\ SourceEditsKept
      /\ OwnTypes(u) /\ UpdaterTypes(u) /\ (installed # 0 => installed \in kept)
      /\ PlanTypes(u) /\ WorkTypes(u) /\ Behind(u) /\ Looked(u) /\ Recorded(u)
  BY <1>1, AtWorkFacts
<1>3. PICK pc \in {"write", "keep", "undo state"} :
        /\ up' = [up EXCEPT ![u].pc = pc]
        /\ pc = "write" => up[u].todo # <<>> /\ CheckFile(u, up[u].todo[1])
        /\ pc = "keep" => AllWritten(u)
  BY DEF Check, Verify, Goto, Fail
<1>4. /\ up'[u].plan = up[u].plan /\ up'[u].new = up[u].new /\ up'[u].todo = up[u].todo
      /\ up'[u].pc = pc /\ up'[u].desired = up[u].desired /\ up'[u].old = up[u].old
      /\ up'[u].previous = up[u].previous /\ up'[u].done = up[u].done /\ up'[u].before = up[u].before
      /\ up'[u].tree0 = up[u].tree0 /\ up'[u].edits0 = up[u].edits0 /\ DOMAIN up'[u] = Fields
      /\ up' = [v \in Updaters |-> up'[v]] /\ \A v \in Updaters \ {u} : up'[v] = up[v]
  BY <1>2, <1>3 DEF OwnTypes, Fields
<1>5. PlanTypes(u)'
  BY <1>1, <1>2, <1>4, PlanStays
<1>6. WorkTypes(u)'
  BY <1>1, <1>2, <1>3, <1>4 DEF WorkTypes
<1>7. Looked(u)'
  BY <1>1, <1>3, <1>4 DEF Looked, CheckFile
<1>8. Recorded(u)'
  <2>1. installed = up[u].previous
    BY <1>1, <1>2 DEF Recorded
  <2>2. AllWritten(u) => WholeSet(u)'
    BY <1>1, <1>2, <1>4 DEF AllWritten, WholeSet, PlanTypes, OwnTypes
  <2> QED  BY <1>1, <1>3, <1>4, <2>1, <2>2 DEF Recorded
<1>9. Behind(u)'
  <2>1. Touched(u)' = Touched(u)
    BY <1>1, <1>3, <1>4 DEF Touched
  <2> QED  BY <1>1, <1>2, <1>4, <2>1, BehindStays
<1>10. Range(up'[u].done) \subseteq DOMAIN up'[u].new /\ DOMAIN up'[u].new \subseteq DOMAIN up'[u].plan
       /\ IsInjective(up'[u].done) /\ up'[u].todo \in Seq(Paths) /\ up'[u].done \in Seq(Paths)
  BY <1>2, <1>4 DEF OwnTypes, UpdaterTypes
<1>11. up'[u].pc \in Planned /\ tree' \in [Paths -> Contents] /\ SourceEditsKept'
       /\ installed' \in kept' \cup {0}
  BY <1>1, <1>2, <1>4 DEF GlobalTypes, SourceEditsKept, Planned
<1> QED  BY <1>1, <1>4, <1>5, <1>6, <1>7, <1>8, <1>9, <1>10, <1>11, GoesOnWith

(* A file is written, or not, and is on the list either way. *)
LEMMA WriteStep ==
    ASSUME SourceInv, NEW u \in Updaters, Write(u)
    PROVE  SourceInv'
<1> DEFINE p == up[u].todo[1]
           rest == Tail(up[u].todo)
           list == <<p>> \o up[u].done
<1>1. /\ up[u].pc = "write" /\ up[u].pc \in Planned
      /\ UNCHANGED <<installed, kept, lock, edits, crashes, edited, raced, unfinished>>
  BY DEF Write, history, Planned
<1>2. /\ GlobalTypes /\ up = [v \in Updaters |-> up[v]] /\ SourceEditsKept
      /\ OwnTypes(u) /\ UpdaterTypes(u) /\ (installed # 0 => installed \in kept)
      /\ PlanTypes(u) /\ WorkTypes(u) /\ Behind(u) /\ Looked(u) /\ Recorded(u)
  BY <1>1, AtWorkFacts
<1>3. PICK pc \in {"check", "undo state"} :
        /\ tree' \in {tree, [tree EXCEPT ![p] = up[u].new[p]]}
        /\ up' = [up EXCEPT ![u].pc = pc, ![u].todo = rest, ![u].done = list]
  BY DEF Write, Listed
<1>4. /\ p \in Paths /\ rest \in Seq(Paths) /\ Range(up[u].todo) = {p} \cup Range(rest)
      /\ IsInjective(rest) /\ p \notin Range(rest)
  <2>1. up[u].todo \in Seq(Paths) /\ up[u].todo # <<>> /\ IsInjective(up[u].todo)
    BY <1>1, <1>2 DEF UpdaterTypes, WorkTypes
  <2> QED  BY <2>1, FirstFacts
<1>5. p \in DOMAIN up[u].new /\ p \notin Range(up[u].done) /\ Range(rest) \subseteq DOMAIN up[u].new \ Range(up[u].done)
      /\ DOMAIN up[u].new \subseteq DOMAIN up[u].plan
  BY <1>1, <1>2, <1>4 DEF WorkTypes, OwnTypes
<1>6. list \in Seq(Paths) /\ Range(list) = {p} \cup Range(up[u].done) /\ IsInjective(list)
  <2>1. up[u].done \in Seq(Paths) /\ IsInjective(up[u].done)
    BY <1>2 DEF UpdaterTypes, OwnTypes
  <2> HIDE DEF p
  <2> QED  BY <1>4, <1>5, <2>1, ConsFacts
<1>7. /\ up[u].new[p] = Target(up[u].desired, p) /\ up[u].desired \in Sets
      /\ up[u].new[p] \in Contents /\ up[u].new[p] \notin Edits /\ up[u].plan[p] \notin Edits
  <2>1. up[u].desired \in Sets /\ up[u].new[p] = Target(up[u].desired, p) /\ up[u].plan[p] \notin Edits
    BY <1>2, <1>5 DEF PlanTypes, UpdaterTypes
  <2> HIDE DEF p
  <2>2. Target(up[u].desired, p) \in Contents /\ Target(up[u].desired, p) \notin Edits
    BY <1>4, <2>1, SetContents
  <2> QED  BY <2>1, <2>2
<1> HIDE DEF p, rest, list
<1>8. /\ tree' \in [Paths -> Contents] /\ tree'[p] \in {tree[p], up[u].new[p]}
      /\ \A q \in Paths : q # p => tree'[q] = tree[q]
  BY <1>2, <1>3, <1>4, <1>7 DEF GlobalTypes
<1>9. /\ up'[u].plan = up[u].plan /\ up'[u].new = up[u].new /\ up'[u].todo = rest
      /\ up'[u].pc = pc /\ up'[u].desired = up[u].desired /\ up'[u].old = up[u].old
      /\ up'[u].previous = up[u].previous /\ up'[u].done = list /\ up'[u].before = up[u].before
      /\ up'[u].tree0 = up[u].tree0 /\ up'[u].edits0 = up[u].edits0 /\ DOMAIN up'[u] = Fields
      /\ up' = [v \in Updaters |-> up'[v]] /\ \A v \in Updaters \ {u} : up'[v] = up[v]
  BY <1>2, <1>3 DEF OwnTypes, Fields
<1>10. PlanTypes(u)'
  BY <1>1, <1>2, <1>3, <1>9, PlanStays
<1>11. WorkTypes(u)'
  BY <1>1, <1>2, <1>3, <1>4, <1>5, <1>6, <1>9 DEF WorkTypes
<1>12. Looked(u)' /\ Recorded(u)'
  BY <1>1, <1>2, <1>3, <1>9 DEF Looked, Recorded
<1>13. Behind(u)'
  <2>1. Touched(u)' = Touched(u) \cup {p} /\ \A q \in Paths : Steady(u, q)' => Steady(u, q)
    BY <1>1, <1>3, <1>6, <1>9 DEF Steady, Touched
  <2>2. ASSUME NEW q \in Paths, Steady(u, q)
        PROVE  /\ q \in DOMAIN up[u].plan => up[u].plan[q] = up[u].tree0[q]
               /\ q \in DOMAIN up[u].new => up[u].before[q] = up[u].tree0[q]
               /\ tree'[q] = up[u].tree0[q] \/ (q \in Touched(u) \cup {p} /\ tree'[q] = up[u].new[q])
    <3>1. /\ q \in DOMAIN up[u].plan => up[u].plan[q] = up[u].tree0[q]
          /\ q \in DOMAIN up[u].new => up[u].before[q] = up[u].tree0[q]
          /\ tree[q] = up[u].tree0[q] \/ (q \in Touched(u) /\ tree[q] = up[u].new[q])
      BY <1>1, <1>2, <2>2 DEF Behind
    <3>2. tree'[q] = tree[q] \/ (q = p /\ tree'[q] = up[u].new[q])
      BY <1>8
    <3> QED  BY <3>1, <3>2
  <2> QED  BY <1>9, <2>1, <2>2 DEF Behind
<1>14. SourceEditsKept'
  <2>1. p \in raced \/ tree[p] \notin Edits
    BY <1>1, <1>2, <1>7 DEF Looked, p
  <2>2. \A q \in DOMAIN edited : q \in Paths /\ edited[q] \in Edits
    BY <1>2 DEF GlobalTypes
  <2> QED  BY <1>1, <1>2, <1>8, <2>1, <2>2 DEF SourceEditsKept
<1>15. Range(up'[u].done) \subseteq DOMAIN up'[u].new /\ DOMAIN up'[u].new \subseteq DOMAIN up'[u].plan
       /\ IsInjective(up'[u].done) /\ up'[u].todo \in Seq(Paths) /\ up'[u].done \in Seq(Paths)
  BY <1>2, <1>4, <1>5, <1>6, <1>9 DEF OwnTypes
<1>16. up'[u].pc \in Planned /\ installed' \in kept' \cup {0}
  BY <1>1, <1>2, <1>3, <1>9 DEF Planned
<1> QED  BY <1>1, <1>8, <1>9, <1>10, <1>11, <1>12, <1>13, <1>14, <1>15, <1>16, GoesOnWith

(* Whoever stops in between leaves a set that is installed in part. *)
LEMMA AbandonStep ==
    ASSUME SourceInv, NEW u \in Updaters, UndoFails(u) \/ Crash(u)
    PROVE  SourceInv'
<1>1. PICK pc \in {"broken", "killed"} : End(u, pc)
  BY DEF UndoFails, Crash
<1>2. /\ Working(u) /\ crashes' \in {crashes, crashes + 1} /\ (crashes' # crashes => crashes < MaxCrashes)
      /\ unfinished' = unfinished \cup {up[u].desired}
      /\ UNCHANGED <<tree, installed, kept, edits, edited, raced>>
  BY DEF UndoFails, Crash, disk, Working
<1>3. GlobalTypes /\ UpdaterTypes(u) /\ (installed # 0 => installed \in kept)
  BY TypeParts DEF SourceInv
<1>4. \A p \in Paths \ DOMAIN edited :
          \E r \in {installed, up[u].desired} \cup unfinished : tree[p] = Target(r, p)
  <2>1. CASE up[u].pc \in Planned
    BY <2>1, MixedInWork
  <2>2. CASE up[u].pc \notin Planned
    <3>1. NoneInWork
      BY <1>2, <2>2, OneUpdates DEF NoneInWork
    <3>2. Mixed(tree, installed)
      BY <3>1 DEF SourceInv
    <3> QED  BY <3>2 DEF Mixed
  <2> QED  BY <2>1, <2>2
<1>5. Mixed(tree, installed)'
  BY <1>2, <1>4 DEF Mixed
<1>6. unfinished' \subseteq Sets /\ installed' \in kept \cup {0} /\ crashes' \in 0 .. MaxCrashes
  BY <1>2, <1>3, PatchAssumption DEF GlobalTypes, UpdaterTypes
<1>7. pc \in Over
  BY <1>1 DEF Over
<1> QED  BY <1>1, <1>2, <1>5, <1>6, <1>7, OneEnds

(* Everything is put back. *)
LEMMA RolledBackStep ==
    ASSUME SourceInv, NEW u \in Updaters, RolledBack(u)
    PROVE  /\ SourceInv' /\ installed = up[u].previous
           /\ edits = up[u].edits0 => tree = up[u].tree0
<1>1. /\ up[u].pc = "undo" /\ up[u].todo = <<>> /\ up[u].pc \in Planned /\ End(u, "failed")
      /\ UNCHANGED <<tree, installed, kept, edits, crashes, edited, raced, unfinished>>
  BY DEF RolledBack, disk, history, Planned
<1>2. GlobalTypes /\ PlanTypes(u) /\ Behind(u) /\ Recorded(u)
  BY <1>1, AtWorkFacts
<1>3. Touched(u) = {} /\ installed = up[u].previous /\ "failed" \in Over
  BY <1>1, <1>2, EmptyFacts DEF Touched, Recorded, Over
<1>4. ASSUME edits = up[u].edits0 PROVE tree = up[u].tree0
  <2>1. \A q \in Paths : tree[q] = up[u].tree0[q]
    BY <1>2, <1>3, <1>4 DEF Behind, Steady
  <2>2. tree \in [Paths -> Contents] /\ up[u].tree0 \in [Paths -> Contents]
    BY <1>2 DEF GlobalTypes, PlanTypes
  <2> QED  BY <2>1, <2>2
<1> QED  BY <1>1, <1>3, <1>4, RefusedAtWork

(* The patch is kept, then the state names it; either may fail. *)
LEMMA RecordStep ==
    ASSUME SourceInv, NEW u \in Updaters, Record(u)
    PROVE  SourceInv'
<1>1. /\ up[u].pc \in {"keep", "publish"} /\ up[u].pc \in Planned
      /\ UNCHANGED <<tree, edits, crashes, edited, raced>>
  BY DEF Record, Planned
<1>2. /\ GlobalTypes /\ up = [v \in Updaters |-> up[v]] /\ SourceEditsKept /\ Working(u)
      /\ OwnTypes(u) /\ UpdaterTypes(u) /\ (installed # 0 => installed \in kept)
      /\ PlanTypes(u) /\ WorkTypes(u) /\ Behind(u) /\ Looked(u) /\ Recorded(u)
  BY <1>1, AtWorkFacts
<1>3. installed = up[u].previous /\ WholeSet(u) /\ (up[u].pc = "publish" => up[u].desired \in kept)
  BY <1>1, <1>2 DEF Recorded
<1>4. CASE Publish(u) /\ up[u].pc = "publish" /\ Succeed(u)
  <2>1. /\ installed' = up[u].desired /\ kept' = kept /\ up[u].desired \in kept
        /\ End(u, "done") /\ unfinished' = unfinished \ {up[u].desired} /\ "done" \in Over
    BY <1>3, <1>4 DEF Publish, Succeed, Over
  <2>2. \A p \in Paths \ DOMAIN edited :
            \E r \in {up[u].desired} \cup (unfinished \ {up[u].desired}) : tree[p] = Target(r, p)
    BY <1>1, <1>3, MixedInWork
  <2>3. Mixed(tree, installed)'
    BY <1>1, <2>1, <2>2 DEF Mixed
  <2>4. unfinished' \subseteq Sets /\ installed' \in kept \cup {0} /\ crashes' \in 0 .. MaxCrashes
    BY <1>1, <1>2, <2>1 DEF GlobalTypes
  <2> QED  BY <1>1, <1>2, <2>1, <2>3, <2>4, OneEnds
<1>5. CASE ~(Publish(u) /\ up[u].pc = "publish" /\ Succeed(u))
  <2>1. PICK pc \in {"publish", "undo state"} :
          /\ up' = [up EXCEPT ![u].pc = pc] /\ lock' = lock /\ unfinished' = unfinished
          /\ pc = "publish" => Publish(u) /\ up[u].pc = "keep"
          /\ Publish(u) \/ UNCHANGED <<installed, kept>>
    BY <1>1, <1>5 DEF Record, Goto, Fail
  <2>2. /\ kept \subseteq kept' /\ kept' \in {kept, kept \cup {up[u].desired}}
        /\ installed' \in {installed, up[u].desired}
        /\ installed' # installed => up[u].desired \in kept'
        /\ pc = "publish" => up[u].desired \in kept' /\ installed' = installed
    BY <1>1, <1>3, <2>1 DEF Publish
  <2>3. /\ up'[u].plan = up[u].plan /\ up'[u].new = up[u].new /\ up'[u].todo = up[u].todo
        /\ up'[u].pc = pc /\ up'[u].desired = up[u].desired /\ up'[u].old = up[u].old
        /\ up'[u].previous = up[u].previous /\ up'[u].done = up[u].done /\ up'[u].before = up[u].before
        /\ up'[u].tree0 = up[u].tree0 /\ up'[u].edits0 = up[u].edits0 /\ DOMAIN up'[u] = Fields
        /\ up' = [v \in Updaters |-> up'[v]] /\ \A v \in Updaters \ {u} : up'[v] = up[v]
    BY <1>2, <2>1 DEF OwnTypes, Fields
  <2>4. PlanTypes(u)'
    BY <1>1, <1>2, <2>1, <2>2, <2>3, PlanStays
  <2>5. WorkTypes(u)' /\ Looked(u)'
    BY <1>1, <1>2, <2>1, <2>3 DEF WorkTypes, Looked
  <2>6. Recorded(u)'
    <3>1. WholeSet(u)'
      BY <1>1, <1>3, <2>3 DEF WholeSet
    <3> QED  BY <1>3, <2>1, <2>2, <2>3, <3>1 DEF Recorded
  <2>7. Behind(u)'
    <3>1. Touched(u)' = Touched(u)
      BY <1>1, <2>1, <2>3 DEF Touched
    <3> QED  BY <1>1, <1>2, <2>3, <3>1, BehindStays
  <2>8. Range(up'[u].done) \subseteq DOMAIN up'[u].new /\ DOMAIN up'[u].new \subseteq DOMAIN up'[u].plan
         /\ IsInjective(up'[u].done) /\ up'[u].todo \in Seq(Paths) /\ up'[u].done \in Seq(Paths)
    BY <1>2, <2>3 DEF OwnTypes, UpdaterTypes
  <2>9. /\ up'[u].pc \in Planned /\ tree' \in [Paths -> Contents] /\ SourceEditsKept'
        /\ installed' \in kept' \cup {0}
    BY <1>1, <1>2, <2>1, <2>2, <2>3 DEF GlobalTypes, SourceEditsKept, Planned
  <2> QED  BY <1>1, <2>1, <2>2, <2>3, <2>4, <2>5, <2>6, <2>7, <2>8, <2>9, GoesOnWith
<1> QED  BY <1>4, <1>5

(* The rollback: the state first, then the files, from the last one written. *)
LEMMA UndoStateStep ==
    ASSUME SourceInv, NEW u \in Updaters, UndoState(u)
    PROVE  SourceInv'
<1>1. /\ up[u].pc = "undo state" /\ up[u].pc \in Planned /\ installed' = up[u].previous
      /\ up' = [up EXCEPT ![u].pc = "undo", ![u].todo = up[u].done]
      /\ UNCHANGED <<tree, kept, lock, edits, crashes, edited, raced, unfinished>>
  BY DEF UndoState, history, Planned
<1>2. /\ GlobalTypes /\ up = [v \in Updaters |-> up[v]] /\ SourceEditsKept
      /\ OwnTypes(u) /\ UpdaterTypes(u)
      /\ PlanTypes(u) /\ WorkTypes(u) /\ Behind(u)
  BY <1>1, AtWorkFacts
<1>3. /\ up'[u].plan = up[u].plan /\ up'[u].new = up[u].new /\ up'[u].todo = up[u].done
      /\ up'[u].pc = "undo" /\ up'[u].desired = up[u].desired /\ up'[u].old = up[u].old
      /\ up'[u].previous = up[u].previous /\ up'[u].done = up[u].done /\ up'[u].before = up[u].before
      /\ up'[u].tree0 = up[u].tree0 /\ up'[u].edits0 = up[u].edits0 /\ DOMAIN up'[u] = Fields
      /\ up' = [v \in Updaters |-> up'[v]] /\ \A v \in Updaters \ {u} : up'[v] = up[v]
  BY <1>1, <1>2 DEF OwnTypes, Fields
<1>4. PlanTypes(u)'
  BY <1>1, <1>2, <1>3, PlanStays
<1>5. WorkTypes(u)' /\ Looked(u)' /\ Recorded(u)'
  BY <1>1, <1>2, <1>3 DEF WorkTypes, Looked, Recorded, OwnTypes
<1>6. Behind(u)'
  <2>1. Touched(u)' = Touched(u)
    BY <1>1, <1>3 DEF Touched
  <2> QED  BY <1>1, <1>2, <1>3, <2>1, BehindStays
<1>7. Range(up'[u].done) \subseteq DOMAIN up'[u].new /\ DOMAIN up'[u].new \subseteq DOMAIN up'[u].plan
       /\ IsInjective(up'[u].done) /\ up'[u].todo \in Seq(Paths) /\ up'[u].done \in Seq(Paths)
  BY <1>2, <1>3 DEF OwnTypes, UpdaterTypes
<1>8. /\ up'[u].pc \in Planned /\ tree' \in [Paths -> Contents] /\ SourceEditsKept'
      /\ installed' \in kept' \cup {0}
  BY <1>1, <1>2, <1>3 DEF GlobalTypes, SourceEditsKept, Planned, PlanTypes
<1> QED  BY <1>1, <1>3, <1>4, <1>5, <1>6, <1>7, <1>8, GoesOnWith

LEMMA UndoStep ==
    ASSUME SourceInv, NEW u \in Updaters, (Undo(u) \/ Restore(u))
    PROVE  SourceInv'
<1> DEFINE p == up[u].todo[1]
           rest == Tail(up[u].todo)
<1>1. /\ up[u].pc \in {"undo", "restore"} /\ up[u].pc \in Planned /\ up[u].todo # <<>>
      /\ UNCHANGED <<installed, kept, lock, edits, crashes, edited, raced, unfinished>>
  <2>1. up[u].pc \in {"undo", "restore"} /\ up[u].pc \in Planned
        /\ UNCHANGED <<installed, kept, lock, edits, crashes, edited, raced, unfinished>>
    BY DEF Undo, Restore, disk, history, Planned
  <2>2. up[u].pc = "restore" => up[u].todo # <<>>
    BY <2>1, AtWorkFacts DEF WorkTypes
  <2> QED  BY <2>1, <2>2 DEF Undo, Restore
<1>2. /\ GlobalTypes /\ up = [v \in Updaters |-> up[v]] /\ SourceEditsKept
      /\ OwnTypes(u) /\ UpdaterTypes(u) /\ (installed # 0 => installed \in kept)
      /\ PlanTypes(u) /\ WorkTypes(u) /\ Behind(u) /\ Looked(u) /\ Recorded(u)
  BY <1>1, AtWorkFacts
<1>3. /\ p \in Paths /\ rest \in Seq(Paths) /\ Range(up[u].todo) = {p} \cup Range(rest)
      /\ p \in DOMAIN up[u].new /\ p \in DOMAIN up[u].plan
  <2>1. up[u].todo \in Seq(Paths)
    BY <1>2 DEF UpdaterTypes
  <2>2. p \in Paths /\ rest \in Seq(Paths) /\ Range(up[u].todo) = {p} \cup Range(rest)
    BY <1>1, <2>1, FirstFacts
  <2> QED  BY <1>1, <1>2, <2>2 DEF WorkTypes, OwnTypes
<1>4. installed = up[u].previous /\ up[u].new[p] \notin Edits
  <2>1. up[u].new[p] = Target(up[u].desired, p) /\ up[u].desired \in Sets
    BY <1>2, <1>3 DEF PlanTypes, UpdaterTypes
  <2>2. Target(up[u].desired, p) \notin Edits
    <3> HIDE DEF p
    <3> QED  BY <1>3, <2>1, SetContents
  <2> QED  BY <1>1, <1>2, <2>1, <2>2 DEF Recorded
<1>5. CASE Undo(u) /\ tree[p] # up[u].plan[p] /\ Owned(u, p)
  <2>1. up' = [up EXCEPT ![u].pc = "restore"] /\ tree' = tree
    BY <1>5 DEF Undo, Goto, disk
  <2>2. /\ up'[u].plan = up[u].plan /\ up'[u].new = up[u].new /\ up'[u].todo = up[u].todo
        /\ up'[u].pc = "restore" /\ up'[u].desired = up[u].desired /\ up'[u].old = up[u].old
        /\ up'[u].previous = up[u].previous /\ up'[u].done = up[u].done /\ up'[u].before = up[u].before
        /\ up'[u].tree0 = up[u].tree0 /\ up'[u].edits0 = up[u].edits0 /\ DOMAIN up'[u] = Fields
        /\ up' = [v \in Updaters |-> up'[v]] /\ \A v \in Updaters \ {u} : up'[v] = up[v]
    BY <1>2, <2>1 DEF OwnTypes, Fields
  <2>3. PlanTypes(u)'
    BY <1>1, <1>2, <2>2, PlanStays
  <2>4. WorkTypes(u)' /\ Looked(u)' /\ Recorded(u)'
    BY <1>1, <1>2, <1>4, <1>5, <2>1, <2>2 DEF WorkTypes, Looked, Recorded, Owned
  <2>5. Behind(u)'
    <3>1. Touched(u)' = Touched(u)
      BY <1>1, <2>2 DEF Touched
    <3> QED  BY <1>1, <1>2, <2>1, <2>2, <3>1, BehindStays
  <2>6. Range(up'[u].done) \subseteq DOMAIN up'[u].new /\ DOMAIN up'[u].new \subseteq DOMAIN up'[u].plan
         /\ IsInjective(up'[u].done) /\ up'[u].todo \in Seq(Paths) /\ up'[u].done \in Seq(Paths)
    BY <1>2, <2>2 DEF OwnTypes, UpdaterTypes
  <2>7. /\ up'[u].pc \in Planned /\ tree' \in [Paths -> Contents] /\ SourceEditsKept'
        /\ installed' \in kept' \cup {0}
    BY <1>1, <1>2, <2>1, <2>2 DEF GlobalTypes, SourceEditsKept, Planned
  <2> QED  BY <1>1, <2>2, <2>3, <2>4, <2>5, <2>6, <2>7, GoesOnWith
<1>6. CASE ~(Undo(u) /\ tree[p] # up[u].plan[p] /\ Owned(u, p))
  <2>1. /\ up' = [up EXCEPT ![u].pc = "undo", ![u].todo = rest]
        /\ tree' = IF up[u].pc = "restore" THEN [tree EXCEPT ![p] = up[u].before[p]] ELSE tree
        /\ up[u].pc = "undo" => tree[p] = up[u].plan[p] \/ tree[p] # up[u].new[p]
    <3>1. CASE Restore(u)
      BY <3>1 DEF Restore
    <3>2. CASE Undo(u)
      <4>1. up[u].pc = "undo" /\ up' = [up EXCEPT ![u].todo = rest] /\ tree' = tree
            /\ (tree[p] = up[u].plan[p] \/ tree[p] # up[u].new[p])
        BY <1>6, <3>2 DEF Undo, disk, Owned
      <4>2. [up EXCEPT ![u].todo = rest] = [up EXCEPT ![u].pc = "undo", ![u].todo = rest]
        <5> HIDE DEF rest
        <5> QED  BY <1>2, <4>1 DEF OwnTypes, Fields
      <4> QED  BY <4>1, <4>2
    <3> QED  BY <3>1, <3>2
  <2>2. up[u].before[p] \in Contents
    BY <1>1, <1>2, <1>3 DEF WorkTypes
  <2>3. /\ tree' \in [Paths -> Contents]
        /\ \A q \in Paths : q # p \/ up[u].pc = "undo" => tree'[q] = tree[q]
        /\ up[u].pc = "restore" => tree'[p] = up[u].before[p]
    BY <1>1, <1>2, <1>3, <2>1, <2>2 DEF GlobalTypes
  <2>4. SourceEditsKept'
    <3>1. up[u].pc = "restore" => p \in raced \/ tree[p] \notin Edits
      BY <1>2, <1>4 DEF Looked
    <3>2. \A q \in DOMAIN edited : q \in Paths /\ edited[q] \in Edits
      BY <1>2 DEF GlobalTypes
    <3> HIDE DEF p
    <3> QED  BY <1>1, <1>2, <2>3, <3>1, <3>2 DEF SourceEditsKept
  <2> HIDE DEF p, rest
  <2>5. /\ up'[u].plan = up[u].plan /\ up'[u].new = up[u].new /\ up'[u].todo = rest
        /\ up'[u].pc = "undo" /\ up'[u].desired = up[u].desired /\ up'[u].old = up[u].old
        /\ up'[u].previous = up[u].previous /\ up'[u].done = up[u].done /\ up'[u].before = up[u].before
        /\ up'[u].tree0 = up[u].tree0 /\ up'[u].edits0 = up[u].edits0 /\ DOMAIN up'[u] = Fields
        /\ up' = [v \in Updaters |-> up'[v]] /\ \A v \in Updaters \ {u} : up'[v] = up[v]
    BY <1>2, <2>1 DEF OwnTypes, Fields
  <2>6. PlanTypes(u)'
    BY <1>1, <1>2, <2>5, PlanStays
  <2>7. WorkTypes(u)' /\ Looked(u)' /\ Recorded(u)'
    BY <1>1, <1>2, <1>3, <1>4, <2>5 DEF WorkTypes, Looked, Recorded
  <2>8. Behind(u)'
    <3>1. /\ Touched(u) = Touched(u)' \cup {p} /\ \A q \in Paths : Steady(u, q)' => Steady(u, q)
      BY <1>1, <1>3, <2>5 DEF Steady, Touched
    <3>2. ASSUME NEW q \in Paths, Steady(u, q)
          PROVE  /\ q \in DOMAIN up[u].plan => up[u].plan[q] = up[u].tree0[q]
                 /\ q \in DOMAIN up[u].new => up[u].before[q] = up[u].tree0[q]
                 /\ tree'[q] = up[u].tree0[q] \/ (q \in Touched(u)' /\ tree'[q] = up[u].new[q])
      <4>1. /\ q \in DOMAIN up[u].plan => up[u].plan[q] = up[u].tree0[q]
            /\ q \in DOMAIN up[u].new => up[u].before[q] = up[u].tree0[q]
            /\ tree[q] = up[u].tree0[q] \/ (q \in Touched(u) /\ tree[q] = up[u].new[q])
        BY <1>1, <1>2, <3>2 DEF Behind
      <4>2. CASE q # p
        BY <2>3, <3>1, <4>1, <4>2
      <4>3. CASE q = p
        BY <1>1, <1>3, <2>1, <2>3, <4>1, <4>3
      <4> QED  BY <4>2, <4>3
    <3> QED  BY <2>5, <3>1, <3>2 DEF Behind
  <2>9. Range(up'[u].done) \subseteq DOMAIN up'[u].new /\ DOMAIN up'[u].new \subseteq DOMAIN up'[u].plan
         /\ IsInjective(up'[u].done) /\ up'[u].todo \in Seq(Paths) /\ up'[u].done \in Seq(Paths)
    BY <1>2, <1>3, <2>5 DEF OwnTypes, UpdaterTypes
  <2>10. up'[u].pc \in Planned /\ installed' \in kept' \cup {0}
    BY <1>1, <1>2, <2>5 DEF Planned
  <2> QED  BY <1>1, <2>3, <2>4, <2>5, <2>6, <2>7, <2>8, <2>9, <2>10, GoesOnWith
<1> QED  BY <1>5, <1>6

(* No step leaves the invariant. *)
LEMMA SourceStep == SourceInv /\ [Next]_vars => SourceInv'
<1> SUFFICES ASSUME SourceInv, [Next]_vars PROVE SourceInv'
  OBVIOUS
<1>1. CASE UNCHANGED vars
  <2>1. UNCHANGED <<tree, installed, kept, lock, up, edits, crashes, edited, raced, unfinished>>
    BY <1>1 DEF vars, disk, history
  <2>2. TypeOK' = TypeOK /\ SourceEditsKept' = SourceEditsKept /\ NoneInWork' = NoneInWork
        /\ Mixed(tree, installed)' = Mixed(tree, installed)
    BY <2>1 DEF TypeOK, Working, SourceEditsKept, NoneInWork, Mixed
  <2>3. \A u \in Updaters : UpdaterTypes(u)' = UpdaterTypes(u)
    BY <2>1 DEF UpdaterTypes
  <2>4. \A u \in Updaters : InWork(u)' = InWork(u)
    BY <2>1, Undisturbed
  <2> QED  BY <2>1, <2>2, <2>3, <2>4 DEF SourceInv
<1>2. ASSUME NEW p \in Paths, Edit(p) PROVE SourceInv'
  BY <1>2, EditStep
<1>3. ASSUME NEW u \in Updaters, Update(u) \/ Crash(u) \/ Again(u) PROVE SourceInv'
  BY <1>3, StartStep, ReadStep, PlanStep, CurrentStep, BackupStep, CheckStep, WriteStep, RecordStep,
     UndoStateStep, UndoStep, AbandonStep, RolledBackStep DEF Update
<1> QED  BY <1>1, <1>2, <1>3 DEF Next

LEMMA SourcesKept == Spec => []SourceInv
  BY InitSources, SourceStep, PTL DEF Spec

(* For any files, patch sets, updaters, edits and kills (cmfgen_patch.py): the state can
   always be read, whatever was left half done; with no set in part the files nobody
   edited are wholly the set that the state names; and no update or rollback overwrites an
   edit, but for one that falls between the last look at a file and its replacement. *)
THEOREM SourcesAreTrue == Spec => []SourcesTrue
<1>1. SourceInv => SourcesTrue
  <2> SUFFICES ASSUME SourceInv PROVE SourcesTrue
    OBVIOUS
  <2>1. StateReadable /\ SourceEditsKept
    BY DEF SourceInv, StateReadable
  <2>2. RegisteredIsWhole
    <3> SUFFICES ASSUME lock = "free", unfinished = {}, NEW p \in Paths \ DOMAIN edited
                 PROVE  tree[p] = Target(installed, p)
      BY DEF RegisteredIsWhole
    <3>1. NoneInWork
      <4>1. \A u \in Updaters : Working(u) <=> lock = u
        BY DEF SourceInv, TypeOK
      <4> QED  BY <4>1, PatchAssumption DEF NoneInWork, Working, Planned
    <3> QED  BY <3>1 DEF SourceInv, Mixed
  <2> QED  BY <2>1, <2>2 DEF SourcesTrue
<1> QED  BY SourcesKept, <1>1, PTL

(* An update that fails and is rolled back to the end has put back the state and, where
   nobody edited meanwhile, every file of the tree as it was found. *)
THEOREM FailedUpdateRestores == Spec => FailureRestoresSource
<1>1. ASSUME SourceInv, [Next]_vars
      PROVE  [\A u \in Updaters : up[u].pc = "undo" /\ up'[u].pc = "failed" =>
                  /\ installed = up[u].previous
                  /\ edits = up[u].edits0 => tree = up[u].tree0]_vars
  <2> SUFFICES ASSUME Next, NEW u \in Updaters, up[u].pc = "undo", up'[u].pc = "failed"
               PROVE  installed = up[u].previous /\ (edits = up[u].edits0 => tree = up[u].tree0)
    BY <1>1
  <2>1. up = [v \in Updaters |-> up[v]] /\ \A v \in Updaters : DOMAIN up[v] = Fields
    BY <1>1 DEF SourceInv, TypeOK
  <2>2. RolledBack(u)
    <3>1. \A p \in Paths : ~Edit(p)
      BY DEF Edit
    <3>2. PICK v \in Updaters : Update(v) \/ Crash(v) \/ Again(v)
      BY <3>1 DEF Next
    <3>3. CASE v # u
      BY <2>1, <3>2, <3>3 DEF Update, Crash, Again, Lock, ReadState, PlanFile, Current, BeginInstall, Backup,
         Check, Write, Verify, Record, UndoState, Undo, Restore, UndoFails, RolledBack, End, Succeed, Goto, Fail
    <3>4. CASE v = u
      <4>1. Crash(u) => up'[u].pc = "killed"
        BY <2>1 DEF Crash, End, Fresh
      <4>2. UndoFails(u) => up'[u].pc = "broken"
        BY <2>1 DEF UndoFails, End, Fresh
      <4>3. Undo(u) => up'[u].pc \in {"undo", "restore"}
        BY <2>1 DEF Undo, Goto, Fields
      <4> QED  BY <3>2, <3>4, <4>1, <4>2, <4>3 DEF Update, Again, Lock, ReadState, PlanFile, Current, BeginInstall,
           Backup, Check, Write, Verify, Record, UndoState, Restore
    <3> QED  BY <3>3, <3>4
  <2> QED  BY <1>1, <2>2, RolledBackStep
<1> QED  BY SourcesKept, <1>1, PTL DEF Spec, FailureRestoresSource

-----------------------------------------------------------------------------
(* Model folders.                                                          *)

\* Versions that were seen: edits come with new ones.
Seen == ((ModelPaths \cup {Shelf}) \X {0}) \cup ({"edit"} \X (1 .. acts))
\* A folder people made is no model; a folder of a given name was made already.
Named(f) ==
    /\ \A k \in Nat : f.id = <<"user", k>> =>
        /\ k <= acts /\ DOMAIN f.files \subseteq {"MOD_SUM"}
        /\ "MOD_SUM" \in DOMAIN f.files \/ <<f.id, "MOD_SUM">> \in gone
    /\ \A k \in Nat : f.id = <<"copy", k>> => k < ids
IsFolder(f) ==
    /\ f = [id |-> f.id, files |-> f.files, inner |-> f.inner, archive |-> f.archive]
    /\ \A n \in DOMAIN f.files : f.files[n] \in Seen
    /\ Named(f)
\* What a folder was moved into is no model, so that it is not moved itself.
FolderTypes ==
    /\ acts \in Nat /\ ids \in Nat
    /\ Shelf \in DOMAIN models /\ DOMAIN models \subseteq ModelPaths \cup {Shelf}
    /\ models = [p \in DOMAIN models |-> models[p]]
    /\ \A p \in DOMAIN models :
        /\ IsFolder(models[p])
        /\ \A f \in models[p].inner : IsFolder(f) /\ f.inner = {}
        /\ models[p].inner # {} => DOMAIN models[p].files \subseteq {"MOD_SUM"}
Placed ==
    \A p \in DOMAIN Initially \ {Shelf} : \E f \in All :
        /\ f.id = <<"at", p>>
        /\ \A n \in Initially[p] \ Cleanable : n \in DOMAIN f.files \/ <<f.id, n>> \in gone
Apart ==
    \A p, q \in ModelPaths : p # q => {f.id : f \in Under(p)} \cap {f.id : f \in Under(q)} \subseteq {None}

\* The version of MOD_SUM tells the model, in folders and in summaries.
SumOf(f) == <<f.files["MOD_SUM"], f.id>>
Told(s) == <<s.stamp[2], s.id>>
Sums ==
    {SumOf(f) : f \in {g \in All : "MOD_SUM" \in DOMAIN g.files}}
    \cup {Told(cache[p]) : p \in {q \in ModelPaths : cache[q] # None}}
    \cup {Told(s) : s \in {bulk} \ {None}}
SumsTell == \A x \in Sums : x[1] \in Seen /\ \A y \in Sums : x[1] = y[1] => x[2] = y[2]
IsSummary(s, p) == s = [name |-> p, id |-> s.id, stamp |-> s.stamp]
SummaryTypes ==
    /\ cache = [p \in ModelPaths |-> cache[p]]
    /\ \A p \in ModelPaths : cache[p] # None => IsSummary(cache[p], p)
    /\ bulk # None => \E p \in ModelPaths : IsSummary(bulk, p)
ModelsKept == FolderTypes /\ Placed /\ Apart /\ SumsTell /\ SummaryTypes

Guarding == {"create", "copy", "look", "publish", "rename", "move", "cleanup", "clean"}
Kind(pc) == IF pc \in {"create", "copy", "look", "publish", "forget"} THEN "create"
            ELSE IF pc \in {"rename", "move", "settle", "relocate", "drop"} THEN "rename" ELSE "cleanup"
IsClerk(r) ==
    /\ r = [pc |-> r.pc, job |-> r.job, plan |-> r.plan, snap |-> r.snap, staged |-> r.staged,
            candidates |-> r.candidates, todo |-> r.todo, removed |-> r.removed,
            skipped |-> r.skipped, failed |-> r.failed]
    /\ r.pc \in Guarding \cup {"rest", "ask", "failed", "done", "forget", "settle", "relocate", "drop", "check"}
    /\ r.pc \notin {"rest", "failed"} => r.job \in Jobs
    /\ r.pc \notin {"rest", "ask", "failed", "done"} => r.job.kind = Kind(r.pc)
    /\ r.pc \in {"rest", "ask", "create", "rename", "cleanup"} =>
        r.staged = <<>> /\ r.removed = {} /\ r.skipped = {} /\ r.failed = {}
    /\ r.pc \in {"look", "publish", "forget"} => r.staged = r.snap
    /\ r.pc \in {"clean", "check"} =>
        /\ r.removed \subseteq Cleanable
        /\ r.job.names = UNION {r.todo, r.removed, r.skipped, r.failed}
        /\ r.removed \cap (r.skipped \cup r.failed) = {} /\ r.todo \cap r.removed = {}
        /\ r.todo \cap (r.skipped \cup r.failed) = {}
        /\ r.job.expected # None => r.skipped = {}
    /\ r.pc = "clean" =>
        /\ DOMAIN r.candidates \subseteq Cleanable
        /\ r.job.expected # None => r.job.names \subseteq DOMAIN r.candidates
\* Under the guard: what is planned and copied belongs to the folders that are there.
Copying(c) ==
    LET r == clerk[c] IN
    /\ There(Job(c).from)
    /\ "MOD_SUM" \notin DOMAIN r.snap /\ \A d \in DOMAIN r.snap : r.snap[d] \in Seen
    /\ r.snap = [d \in DOMAIN r.snap |-> r.snap[d]] /\ r.staged = [d \in DOMAIN r.staged |-> r.staged[d]]
    /\ Doing(c, "copy") =>
        /\ r.plan # Refusal /\ DOMAIN r.plan.entries = DOMAIN r.snap /\ DOMAIN r.staged \subseteq DOMAIN r.snap
        /\ \A d \in DOMAIN r.staged :
            \/ r.staged[d] = r.snap[d]
            \/ ~Present(c, r.plan.entries[d])
            \/ VersionOf(c, r.plan.entries[d]) # r.snap[d]
Moving(c) ==
    LET from == Job(c).from
        to == Job(c).to
    IN /\ There(from) /\ from # to /\ models[from].inner = {}
       /\ There(to) => DOMAIN models[to].files \subseteq {"MOD_SUM"}
Sees(c) ==
    /\ owner = c
    /\ clerk[c].pc \in {"copy", "look", "publish"} => Copying(c)
    /\ Doing(c, "move") => Moving(c)
    /\ Doing(c, "clean") => There(Job(c).from) /\ \A k \in Nat : models[Job(c).from].id # <<"user", k>>
ClerksKnow ==
    /\ clerk = [c \in Clerks |-> clerk[c]]
    /\ \A c \in Clerks : IsClerk(clerk[c]) /\ (clerk[c].pc \in Guarding => Sees(c))
FoldersInv == ModelsKept /\ ClerksKnow

LEMMA SeenStays == acts \in Nat /\ acts' \in {acts, acts + 1} => Seen \subseteq Seen'
<1>1. acts \in Nat /\ acts' \in {acts, acts + 1} => 1 .. acts \subseteq 1 .. acts'
  OBVIOUS
<1> QED BY <1>1 DEF Seen

\* A step may make versions and folders, and lose files.
Grows == acts' \in {acts, acts + 1} /\ ids' \in {ids, ids + 1} /\ gone \subseteq gone'
LEMMA FolderStays ==
    ASSUME acts \in Nat, ids \in Nat, Grows, NEW f, IsFolder(f)
    PROVE  IsFolder(f)'
<1>1. \A n \in DOMAIN f.files : f.files[n] \in Seen'
  BY SeenStays DEF Grows, IsFolder
<1>2. \A k \in Nat : (k <= acts => k <= acts') /\ (k < ids => k < ids')
  BY DEF Grows
<1>3. Named(f)'
  BY <1>2 DEF IsFolder, Named, Grows
<1> QED BY <1>1, <1>3 DEF IsFolder

LEMMA SumsStay ==
    ASSUME acts \in Nat, acts' \in {acts, acts + 1}, SumsTell, NEW i,
           Sums' \subseteq Sums \cup (IF acts' = acts THEN {} ELSE {<<<<"edit", acts'>>, i>>})
    PROVE  SumsTell'
<1>1. CASE acts' = acts
  BY <1>1 DEF SumsTell, Seen
<1>2. CASE acts' = acts + 1
  <2> DEFINE new == <<<<"edit", acts'>>, i>>
  <2>1. new[1] = <<"edit", acts'>> /\ new[1] \in Seen'
    <3>1. acts' \in 1 .. acts'
      BY <1>2
    <3> QED BY <3>1 DEF Seen
  <2>2. <<"edit", acts'>> \notin Seen
    <3>1. acts' \notin 1 .. acts /\ acts' # 0
      BY <1>2
    <3> QED BY <3>1 DEF Seen
  <2>3. Seen \subseteq Seen'
    BY SeenStays
  <2>4. Sums' \subseteq Sums \cup {new}
    BY <1>2
  <2>5. SUFFICES ASSUME NEW x \in Sums', NEW y \in Sums'
                 PROVE  x[1] \in Seen' /\ (x[1] = y[1] => x[2] = y[2])
    BY DEF SumsTell
  <2>6. \A z \in Sums : z[1] \in Seen /\ z[1] # <<"edit", acts'>>
    BY <2>2 DEF SumsTell
  <2>7. x[1] \in Seen'
    BY <2>1, <2>3, <2>4, <2>6
  <2>8. ASSUME x[1] = y[1] PROVE x[2] = y[2]
    <3>1. CASE x \in Sums /\ y \in Sums
      BY <2>8, <3>1 DEF SumsTell
    <3>2. CASE x = new /\ y = new
      BY <3>2
    <3>3. CASE x \in Sums /\ y = new
      BY <2>1, <2>6, <2>8, <3>3
    <3>4. CASE x = new /\ y \in Sums
      BY <2>1, <2>6, <2>8, <3>4
    <3> QED BY <2>4, <3>1, <3>2, <3>3, <3>4
  <2> QED BY <2>7, <2>8
<1> QED BY <1>1, <1>2

(* A folder changes its files, by an edit or a cleanup. *)
LEMMA FolderChanges ==
    ASSUME ModelsKept, Grows, NEW p \in DOMAIN models, NEW f,
           models' = [models EXCEPT ![p] = f], UNCHANGED <<cache, bulk>>,
           IsFolder(f)', f.id = models[p].id, f.inner = models[p].inner,
           DOMAIN f.files \subseteq DOMAIN models[p].files,
           \A n \in DOMAIN models[p].files \ DOMAIN f.files : n \in Cleanable \/ <<f.id, n>> \in gone',
           "MOD_SUM" \in DOMAIN f.files =>
               \/ f.files["MOD_SUM"] = models[p].files["MOD_SUM"]
               \/ acts' # acts /\ f.files["MOD_SUM"] = <<"edit", acts'>>
    PROVE  ModelsKept'
<1>1. /\ models = [q \in DOMAIN models |-> models[q]] /\ acts \in Nat /\ ids \in Nat
      /\ acts' \in {acts, acts + 1} /\ gone \subseteq gone'
  BY DEF ModelsKept, FolderTypes, Grows
<1>2. DOMAIN models' = DOMAIN models /\ models'[p] = f /\ \A q \in DOMAIN models \ {p} : models'[q] = models[q]
  BY <1>1
<1>3. FolderTypes'
  <2>1. \A g : IsFolder(g) => IsFolder(g)'
    BY <1>1, FolderStays
  <2>2. acts' \in Nat /\ ids' \in Nat
    BY <1>1 DEF Grows
  <2>3. ASSUME NEW q \in DOMAIN models'
        PROVE  /\ IsFolder(models[q])'
               /\ \A g \in models'[q].inner : IsFolder(g)' /\ g.inner = {}
               /\ models'[q].inner # {} => DOMAIN models'[q].files \subseteq {"MOD_SUM"}
    <3>1. CASE q = p
      BY <1>2, <2>1, <3>1 DEF ModelsKept, FolderTypes
    <3>2. CASE q # p
      BY <1>2, <2>1, <2>3, <3>2 DEF ModelsKept, FolderTypes
    <3> QED BY <3>1, <3>2
  <2> QED BY <1>1, <1>2, <2>2, <2>3 DEF ModelsKept, FolderTypes
<1>4. ASSUME NEW q \in ModelPaths, NEW g \in Under(q)
      PROVE  \E h \in Under(q)' : h = g \/ (q = p /\ g = models[p] /\ h = f)
  <2>1. CASE q = p /\ g = models[p]
    BY <1>2, <2>1 DEF Under, There
  <2>2. CASE ~(q = p /\ g = models[p])
    BY <1>2, <2>2 DEF Under, There
  <2> QED BY <2>1, <2>2
<1>5. ASSUME NEW q \in ModelPaths, NEW h \in Under(q)'
      PROVE  h \in Under(q) \/ (q = p /\ h = f)
  BY <1>2 DEF Under, There
<1>6. Placed'
  <2>1. SUFFICES ASSUME NEW m \in DOMAIN Initially \ {Shelf}
                 PROVE  \E h \in All' : /\ h.id = <<"at", m>>
                                       /\ \A n \in Initially[m] \ Cleanable : n \in DOMAIN h.files \/ <<h.id, n>> \in gone'
    BY DEF Placed
  <2>2. PICK g \in All : /\ g.id = <<"at", m>>
                         /\ \A n \in Initially[m] \ Cleanable : n \in DOMAIN g.files \/ <<g.id, n>> \in gone
    BY DEF ModelsKept, Placed
  <2>3. PICK q \in ModelPaths : g \in Under(q)
    BY DEF All
  <2>4. PICK h \in Under(q)' : h = g \/ (g = models[p] /\ h = f)
    BY <1>4, <2>3
  <2>5. h \in All'
    BY <2>4 DEF All
  <2>6. h.id = <<"at", m>> /\ \A n \in Initially[m] \ Cleanable : n \in DOMAIN h.files \/ <<h.id, n>> \in gone'
    <3>1. CASE h = g
      BY <1>1, <2>2, <3>1
    <3>2. CASE g = models[p] /\ h = f
      BY <1>1, <2>2, <3>2
    <3> QED BY <2>4, <3>1, <3>2
  <2> QED BY <2>5, <2>6
<1>7. Apart'
  <2>1. ASSUME NEW q \in ModelPaths
        PROVE  {h.id : h \in Under(q)'} \subseteq {g.id : g \in Under(q)}
    <3>1. p \in DOMAIN models => models[p] \in Under(p)
      BY DEF Under, There
    <3> QED BY <1>5, <3>1
  <2> QED BY <2>1 DEF ModelsKept, Apart
<1>8. SumsTell'
  <2>1. Sums' \subseteq Sums \cup (IF acts' = acts THEN {} ELSE {<<<<"edit", acts'>>, f.id>>})
    <3>1. SUFFICES ASSUME NEW h \in All', "MOD_SUM" \in DOMAIN h.files
                   PROVE  SumOf(h) \in Sums \cup (IF acts' = acts THEN {} ELSE {<<<<"edit", acts'>>, f.id>>})
      BY DEF Sums
    <3>2. PICK q \in ModelPaths : h \in Under(q)'
      BY DEF All
    <3>3. CASE h \in Under(q)
      BY <3>1, <3>3 DEF Sums, All
    <3>4. CASE q = p /\ h = f
      <4>1. models[p] \in All /\ "MOD_SUM" \in DOMAIN models[p].files
        BY <3>1, <3>4 DEF All, Under, There
      <4>2. SumOf(models[p]) \in Sums
        BY <4>1 DEF Sums
      <4> QED BY <3>1, <3>4, <4>2 DEF SumOf
    <3> QED BY <1>5, <3>2, <3>3, <3>4
  <2> QED BY <1>1, <2>1, SumsStay DEF ModelsKept
<1>9. SummaryTypes'
  BY DEF ModelsKept, SummaryTypes, IsSummary
<1> QED BY <1>3, <1>6, <1>7, <1>8, <1>9 DEF ModelsKept

(* A folder appears, or takes the place of an empty one. *)
LEMMA FolderAppears ==
    ASSUME ModelsKept, Grows, gone' = gone, NEW p \in ModelPaths, NEW f,
           There(p) => models[p].id = None /\ models[p].inner = {} /\ models[p].files = <<>>,
           models' = With(models, p, f), UNCHANGED <<cache, bulk>>,
           IsFolder(f)', f.inner = {}, f.id = None \/ \A g \in All : g.id # f.id,
           "MOD_SUM" \in DOMAIN f.files => acts' # acts /\ f.files["MOD_SUM"] = <<"edit", acts'>>
    PROVE  ModelsKept'
<1>1. models = [q \in DOMAIN models |-> models[q]] /\ acts \in Nat /\ ids \in Nat /\ acts' \in {acts, acts + 1}
  BY DEF ModelsKept, FolderTypes, Grows
<1>2. DOMAIN models' = DOMAIN models \cup {p} /\ models'[p] = f /\ \A q \in DOMAIN models \ {p} : models'[q] = models[q]
  BY <1>1 DEF With
<1>3. FolderTypes'
  <2>1. \A g : IsFolder(g) => IsFolder(g)'
    BY <1>1, FolderStays
  <2>2. acts' \in Nat /\ ids' \in Nat
    BY <1>1 DEF Grows
  <2>3. ASSUME NEW q \in DOMAIN models'
        PROVE  /\ IsFolder(models[q])'
               /\ \A g \in models'[q].inner : IsFolder(g)' /\ g.inner = {}
               /\ models'[q].inner # {} => DOMAIN models'[q].files \subseteq {"MOD_SUM"}
    <3>1. CASE q = p
      BY <1>2, <3>1
    <3>2. CASE q # p
      BY <1>2, <2>1, <2>3, <3>2 DEF ModelsKept, FolderTypes
    <3> QED BY <3>1, <3>2
  <2>4. models' = [q \in DOMAIN models' |-> models'[q]]
    BY DEF With
  <2> QED BY <1>2, <2>2, <2>3, <2>4 DEF ModelsKept, FolderTypes
<1>4. \A q \in ModelPaths \ {p} : Under(q)' = Under(q)
  BY <1>2 DEF Under, There
<1>5. Under(p)' = {f} /\ \A g \in Under(p) : g.id = None /\ g.files = <<>>
  BY <1>2 DEF Under, There
<1>6. Placed'
  <2>1. SUFFICES ASSUME NEW m \in DOMAIN Initially \ {Shelf}
                 PROVE  \E h \in All' : /\ h.id = <<"at", m>>
                                       /\ \A n \in Initially[m] \ Cleanable : n \in DOMAIN h.files \/ <<h.id, n>> \in gone'
    BY DEF Placed
  <2>2. PICK g \in All : /\ g.id = <<"at", m>>
                         /\ \A n \in Initially[m] \ Cleanable : n \in DOMAIN g.files \/ <<g.id, n>> \in gone
    BY DEF ModelsKept, Placed
  <2>3. PICK q \in ModelPaths : g \in Under(q)
    BY DEF All
  <2>4. g.id # None
    BY <2>2, FoldersAssumption
  <2>5. g \in Under(q)'
    BY <1>4, <1>5, <2>3, <2>4
  <2> QED BY <2>2, <2>5 DEF All
<1>7. Apart'
  <2>1. SUFFICES ASSUME NEW q \in ModelPaths, NEW r \in ModelPaths, q # r, NEW g \in Under(q)', NEW h \in Under(r)', g.id = h.id
                 PROVE  g.id = None
    BY DEF Apart
  <2>2. CASE q # p /\ r # p
    BY <1>4, <2>1, <2>2 DEF ModelsKept, Apart
  <2>3. CASE q = p
    <3>1. g = f /\ h \in All
      BY <1>4, <1>5, <2>1, <2>3 DEF All
    <3> QED BY <2>1, <3>1
  <2>4. CASE r = p
    <3>1. h = f /\ g \in All
      BY <1>4, <1>5, <2>1, <2>4 DEF All
    <3> QED BY <2>1, <3>1
  <2> QED BY <2>2, <2>3, <2>4
<1>8. SumsTell'
  <2>1. Sums' \subseteq Sums \cup (IF acts' = acts THEN {} ELSE {<<<<"edit", acts'>>, f.id>>})
    <3>1. SUFFICES ASSUME NEW h \in All', "MOD_SUM" \in DOMAIN h.files
                   PROVE  SumOf(h) \in Sums \cup (IF acts' = acts THEN {} ELSE {<<<<"edit", acts'>>, f.id>>})
      BY DEF Sums
    <3>2. h = f \/ h \in All
      BY <1>4, <1>5 DEF All
    <3>3. CASE h \in All
      BY <3>1, <3>3 DEF Sums
    <3>4. CASE h = f
      BY <3>1, <3>4 DEF SumOf
    <3> QED BY <3>2, <3>3, <3>4
  <2> QED BY <1>1, <2>1, SumsStay DEF ModelsKept
<1>9. SummaryTypes'
  BY DEF ModelsKept, SummaryTypes, IsSummary
<1> QED BY <1>3, <1>6, <1>7, <1>8, <1>9 DEF ModelsKept

(* A summary is made, moved or dropped. *)
LEMMA SummariesChange ==
    ASSUME ModelsKept, UNCHANGED <<models, acts, ids, gone>>, SummaryTypes',
           \A s \in {cache'[p] : p \in ModelPaths} \cup {bulk'} : s = None \/ Told(s) \in Sums
    PROVE  ModelsKept'
<1>1. All' = All /\ Seen' = Seen
  BY DEF All, Under, There, Seen
<1>2. Sums' \subseteq Sums
  BY <1>1 DEF Sums
<1>3. SumsTell'
  BY <1>1, <1>2 DEF ModelsKept, SumsTell
<1>4. FolderTypes'
  BY DEF ModelsKept, FolderTypes, IsFolder, Named, Seen
<1>5. Placed' /\ Apart'
  BY <1>1 DEF ModelsKept, Placed, Apart, Under, There
<1> QED BY <1>3, <1>4, <1>5 DEF ModelsKept

(* A model moves to another path, or into the folder that has appeared there. *)
LEMMA FolderMoves ==
    ASSUME ModelsKept, NEW from \in ModelPaths, NEW to \in ModelPaths, from # to,
           There(from), models[from].inner = {},
           There(to) => models[to].inner = {} /\ DOMAIN models[to].files \subseteq {"MOD_SUM"},
           models' = Moved(from, to), UNCHANGED <<cache, bulk, acts, ids, gone>>
    PROVE  ModelsKept'
<1> DEFINE t == IF There(to) THEN Into(models[to], models[from]) ELSE models[from]
<1>1. /\ models = [q \in DOMAIN models |-> models[q]] /\ acts \in Nat /\ ids \in Nat
      /\ \A q \in DOMAIN models : IsFolder(models[q])
  BY DEF ModelsKept, FolderTypes
<1>2. /\ DOMAIN models' = (DOMAIN models \cup {to}) \ {from} /\ models'[to] = t
      /\ \A q \in DOMAIN models \ {from, to} : models'[q] = models[q]
      /\ models' = [q \in DOMAIN models' |-> models'[q]]
  <2>1. models' = Without(With(models, to, t), from)
    BY DEF Moved
  <2> HIDE DEF t
  <2> QED BY <1>1, <2>1 DEF With, Without
<1>3. CASE ~There(to)
  <2>1. t = models[from]
    BY <1>3
  <2>2. Under(to) = {} /\ Under(from) = {models[from]} /\ Under(to)' = {models[from]} /\ Under(from)' = {}
    BY <1>2, <1>3, <2>1 DEF Under, There
  <2>3. \A q \in ModelPaths \ {from, to} : Under(q)' = Under(q)
    BY <1>2 DEF Under, There
  <2>4. All' = All
    BY <2>2, <2>3 DEF All
  <2> HIDE DEF t
  <2>5. FolderTypes'
    <3>1. \A f : IsFolder(f) => IsFolder(f)'
      BY DEF IsFolder, Named, Seen
    <3>2. ASSUME NEW q \in DOMAIN models'
          PROVE  \E e \in DOMAIN models : models'[q] = models[e]
      BY <1>2, <2>1, <3>2 DEF There
    <3>3. ASSUME NEW q \in DOMAIN models'
          PROVE  /\ IsFolder(models[q])'
                 /\ \A g \in models'[q].inner : IsFolder(g)' /\ g.inner = {}
                 /\ models'[q].inner # {} => DOMAIN models'[q].files \subseteq {"MOD_SUM"}
      BY <3>1, <3>2 DEF ModelsKept, FolderTypes
    <3>4. Shelf \in DOMAIN models' /\ DOMAIN models' \subseteq ModelPaths \cup {Shelf}
      BY <1>2, FoldersAssumption DEF ModelsKept, FolderTypes
    <3> QED BY <1>1, <1>2, <3>3, <3>4 DEF FolderTypes
  <2>6. Placed' /\ SumsTell' /\ SummaryTypes'
    <3>1. Placed'
      BY <2>4 DEF ModelsKept, Placed
    <3>2. Sums' = Sums /\ Seen' = Seen
      BY <2>4 DEF Sums, Seen
    <3>3. SumsTell'
      BY <3>2 DEF ModelsKept, SumsTell
    <3> QED BY <3>1, <3>3 DEF ModelsKept, SummaryTypes, IsSummary
  <2>7. Apart'
    BY <2>2, <2>3 DEF ModelsKept, Apart
  <2> QED BY <2>5, <2>6, <2>7 DEF ModelsKept
<1>4. CASE There(to)
  <2>1. /\ t.id = models[to].id /\ t.files = models[to].files /\ t.inner = {models[from]}
        /\ t = [id |-> t.id, files |-> t.files, inner |-> t.inner, archive |-> t.archive]
    <3>1. models[to] = [id |-> models[to].id, files |-> models[to].files, inner |-> models[to].inner,
                        archive |-> models[to].archive]
      BY <1>1, <1>4 DEF There, IsFolder
    <3> QED BY <1>4, <3>1 DEF Into
  <2> HIDE DEF t
  <2>2. IsFolder(t)
    BY <1>1, <1>4, <2>1 DEF There, IsFolder, Named
  <2>3. Under(to) = {models[to]} /\ Under(from) = {models[from]} /\ Under(to)' = {t, models[from]} /\ Under(from)' = {}
    BY <1>2, <1>4, <2>1 DEF Under, There
  <2>4. \A q \in ModelPaths \ {from, to} : Under(q)' = Under(q)
    BY <1>2 DEF Under, There
  <2>5. \A g \in All : \E h \in All' : h.id = g.id /\ h.files = g.files
    <3>1. \A g \in All : g \in All' \/ g = models[to]
      BY <2>3, <2>4 DEF All
    <3>2. t \in All'
      BY <2>3 DEF All
    <3> QED BY <2>1, <3>1, <3>2
  <2>6. \A h \in All' : \E g \in All : h.id = g.id /\ h.files = g.files
    <3>1. \A h \in All' : h \in All \/ h = t
      BY <2>3, <2>4 DEF All
    <3>2. models[to] \in All
      BY <2>3 DEF All
    <3> QED BY <2>1, <3>1, <3>2
  <2>7. FolderTypes'
    <3>1. \A f : IsFolder(f) => IsFolder(f)'
      BY DEF IsFolder, Named, Seen
    <3>2. ASSUME NEW q \in DOMAIN models'
          PROVE  /\ IsFolder(models[q])'
                 /\ \A g \in models'[q].inner : IsFolder(g)' /\ g.inner = {}
                 /\ models'[q].inner # {} => DOMAIN models'[q].files \subseteq {"MOD_SUM"}
      <4>1. CASE q = to
        <5>1. IsFolder(models[from])
          BY <1>1 DEF There
        <5> QED BY <1>2, <1>4, <2>1, <2>2, <3>1, <4>1, <5>1
      <4>2. CASE q # to
        BY <1>2, <3>1, <3>2, <4>2 DEF ModelsKept, FolderTypes
      <4> QED BY <4>1, <4>2
    <3>3. Shelf \in DOMAIN models' /\ DOMAIN models' \subseteq ModelPaths \cup {Shelf}
      BY <1>2, FoldersAssumption DEF ModelsKept, FolderTypes
    <3> QED BY <1>1, <1>2, <3>2, <3>3 DEF FolderTypes
  <2>8. Placed'
    BY <2>5 DEF ModelsKept, Placed
  <2>9. Sums' \subseteq Sums
    <3>1. \A h \in All' : "MOD_SUM" \in DOMAIN h.files => SumOf(h) \in Sums
      BY <2>6 DEF Sums, SumOf
    <3> QED BY <3>1 DEF Sums
  <2>10. SumsTell' /\ SummaryTypes'
    BY <2>9 DEF ModelsKept, SumsTell, Seen, SummaryTypes, IsSummary
  <2>11. Apart'
    <3>1. SUFFICES ASSUME NEW q \in ModelPaths, NEW r \in ModelPaths, q # r, NEW g \in Under(q)', NEW h \in Under(r)', g.id = h.id
                   PROVE  g.id = None
      BY DEF Apart
    <3>2. q # from /\ r # from
      BY <2>3
    <3>3. CASE q # to /\ r # to
      BY <2>4, <3>1, <3>2, <3>3 DEF ModelsKept, Apart
    <3>4. CASE q = to
      <4>1. h \in Under(r) /\ r \notin {to, from}
        BY <2>4, <3>1, <3>2, <3>4
      <4>2. (\E e \in Under(to) : e.id = g.id) \/ (\E e \in Under(from) : e.id = g.id)
        BY <2>1, <2>3, <3>1, <3>4
      <4> QED BY <3>1, <4>1, <4>2 DEF ModelsKept, Apart
    <3>5. CASE r = to
      <4>1. g \in Under(q) /\ q \notin {to, from}
        BY <2>4, <3>1, <3>2, <3>5
      <4>2. (\E e \in Under(to) : e.id = h.id) \/ (\E e \in Under(from) : e.id = h.id)
        BY <2>1, <2>3, <3>1, <3>5
      <4> QED BY <3>1, <4>1, <4>2 DEF ModelsKept, Apart
    <3> QED BY <3>3, <3>4, <3>5
  <2> QED BY <2>7, <2>8, <2>10, <2>11 DEF ModelsKept
<1> QED BY <1>3, <1>4

-----------------------------------------------------------------------------
LEMMA SeesStays ==
    ASSUME NEW d \in Clerks, Sees(d), clerk'[d] = clerk[d], UNCHANGED <<models, acts, owner>>
    PROVE  Sees(d)'
<1>1. \A p : There(p)' = There(p) /\ \A n : Has(p, n)' = Has(p, n)
  BY DEF There, Has
<1>2. Job(d)' = Job(d) /\ \A pc : Doing(d, pc)' = Doing(d, pc)
  BY DEF Job, Doing
<1>3. \A x : PlaceOf(d, x)' = PlaceOf(d, x)
  BY <1>2 DEF PlaceOf
<1>4. \A x : Present(d, x)' = Present(d, x) /\ VersionOf(d, x)' = VersionOf(d, x)
  BY <1>1, <1>3 DEF Present, VersionOf
<1>5. Seen' = Seen
  BY DEF Seen
<1>6. Copying(d) => Copying(d)'
  BY <1>1, <1>2, <1>4, <1>5 DEF Copying
<1>7. Moving(d) => Moving(d)'
  BY <1>1, <1>2 DEF Moving
<1> QED BY <1>1, <1>2, <1>6, <1>7 DEF Sees

(* The clerk c goes on as r; the others wait for the lock or do not mind. *)
LEMMA ClerkGoesOn ==
    ASSUME ClerksKnow, NEW c \in Clerks, NEW r, clerk' = [clerk EXCEPT ![c] = r], IsClerk(r),
           \/ clerk[c].pc \in Guarding \/ owner = c
           \/ UNCHANGED <<models, acts>> /\ (owner' = owner \/ owner = None),
           r.pc \in Guarding => Sees(c)'
    PROVE  ClerksKnow'
<1>1. clerk' = [d \in Clerks |-> clerk'[d]] /\ clerk'[c] = r /\ \A d \in Clerks \ {c} : clerk'[d] = clerk[d]
  BY DEF ClerksKnow
<1>2. ASSUME NEW d \in Clerks, d # c, clerk[d].pc \in Guarding PROVE Sees(d)'
  <2>1. owner = d /\ Sees(d)
    BY <1>2 DEF ClerksKnow, Sees
  <2>2. ~(clerk[c].pc \in Guarding) /\ owner # c /\ owner # None
    BY <1>2, <2>1, FoldersAssumption DEF ClerksKnow, Sees
  <2>3. UNCHANGED <<models, acts>> /\ owner' = owner /\ clerk'[d] = clerk[d]
    BY <1>1, <1>2, <2>2
  <2> QED BY <2>1, <2>3, SeesStays
<1> QED BY <1>1, <1>2 DEF ClerksKnow

\* Nothing of the clerks changes.
LEMMA ClerksWait ==
    ASSUME ClerksKnow, UNCHANGED <<models, acts, owner, clerk>>
    PROVE  ClerksKnow'
BY SeesStays DEF ClerksKnow

LEMMA ModelsStay ==
    ASSUME ModelsKept, UNCHANGED <<models, acts, ids, gone, cache, bulk>>
    PROVE  ModelsKept'
<1>1. SummaryTypes'
  BY DEF ModelsKept, SummaryTypes, IsSummary
<1>2. \A s \in {cache[p] : p \in ModelPaths} \cup {bulk} : s = None \/ Told(s) \in Sums
  BY DEF Sums
<1> QED BY <1>1, <1>2, SummariesChange

(* The ends and beginnings of requests. *)
LEMMA RejectedStep ==
    ASSUME FoldersInv, NEW c \in Clerks, Rejected(c),
           clerk[c].pc \in Guarding \/ owner = c
    PROVE  FoldersInv'
<1>1. PICK r : r = [clerk[c] EXCEPT !.pc = "failed"]
  OBVIOUS
<1>2. IsClerk(clerk[c])
  BY DEF FoldersInv, ClerksKnow
<1>3. r.pc = "failed" /\ IsClerk(r)
  BY <1>1, <1>2 DEF IsClerk, Guarding, Kind
<1>4. clerk' = [clerk EXCEPT ![c] = r]
  BY <1>1 DEF Rejected, Goes, FoldersInv, ClerksKnow
<1>5. ClerksKnow'
  BY <1>3, <1>4, ClerkGoesOn DEF FoldersInv, Guarding
<1>6. ModelsKept'
  BY ModelsStay DEF Rejected, Aside, FoldersInv
<1> QED BY <1>5, <1>6 DEF FoldersInv

\* The clerk c goes on as r, and nothing else changes but the lock.
LEMMA ClerkStep ==
    ASSUME FoldersInv, NEW c \in Clerks, NEW r, clerk' = [clerk EXCEPT ![c] = r], IsClerk(r),
           UNCHANGED <<models, acts, ids, gone, cache, bulk>>,
           clerk[c].pc \in Guarding \/ owner = c \/ owner' = owner \/ owner = None,
           r.pc \in Guarding => Sees(c)'
    PROVE  FoldersInv'
<1>1. ClerksKnow'
  BY ClerkGoesOn DEF FoldersInv
<1>2. ModelsKept'
  BY ModelsStay DEF FoldersInv
<1> QED BY <1>1, <1>2 DEF FoldersInv

LEMMA BeginStep ==
    ASSUME FoldersInv, NEW c \in Clerks, Begin(c)
    PROVE  FoldersInv'
<1>1. PICK asked \in Jobs : clerk' = [clerk EXCEPT ![c] = Doer(asked)]
  BY DEF Begin
<1>2. PICK r : r = Doer(asked)
  OBVIOUS
<1>3. IsClerk(r) /\ r.pc = "ask"
  BY <1>2 DEF Doer, IsClerk, Guarding, Kind
<1> QED BY <1>1, <1>2, <1>3, ClerkStep DEF Begin, Aside, Guarding

LEMMA EnterStep ==
    ASSUME FoldersInv, NEW c \in Clerks, Enter(c)
    PROVE  FoldersInv'
<1>1. PICK r : r = [clerk[c] EXCEPT !.pc = Job(c).kind]
  OBVIOUS
<1>2. IsClerk(clerk[c]) /\ clerk[c].pc = "ask" /\ owner = None /\ clerk' = [clerk EXCEPT ![c] = r]
  BY <1>1 DEF Enter, FoldersInv, ClerksKnow, Doing, Goes
<1>3. clerk[c].job \in Jobs /\ clerk[c].job.kind \in {"create", "rename", "cleanup"}
  BY <1>2, FoldersAssumption DEF IsClerk
<1>4. IsClerk(r) /\ r.pc \in {"create", "rename", "cleanup"} /\ r.job = clerk[c].job
  BY <1>1, <1>2, <1>3 DEF Job, IsClerk, Guarding, Kind
<1>5. clerk'[c] = r /\ owner' = c
  BY <1>2 DEF Enter, FoldersInv, ClerksKnow
<1>6. Sees(c)'
  BY <1>4, <1>5 DEF Sees, Doing
<1> QED BY <1>2, <1>4, <1>6, ClerkStep DEF Enter, Aside

\* A plan is of files that are there.
LEMMA PlanFinds ==
    ASSUME NEW c \in Clerks, FolderTypes, PlanNow(c) # Refusal
    PROVE  /\ There(Job(c).from) /\ "MOD_SUM" \notin DOMAIN PlanNow(c).entries
           /\ \A d \in DOMAIN PlanNow(c).entries : Present(c, PlanNow(c).entries[d])
<1>1. PICK own : own = DOMAIN models[Job(c).from].files
  OBVIOUS
<1>2. PICK shelf : shelf = DOMAIN models[Shelf].files
  OBVIOUS
<1>3. Allowed(c) /\ PlanNow(c) = PlanOf(own, shelf)
  BY <1>1, <1>2 DEF PlanNow
<1>4. There(Job(c).from) /\ There(Shelf)
  BY <1>3 DEF Allowed, IsModel, FolderTypes, There
<1>5. \A x \in Places(own, shelf) : Present(c, x)
  <2>1. SUFFICES ASSUME NEW x \in Places(own, shelf) PROVE Present(c, x)
    OBVIOUS
  <2>2. CASE x \in {"own"} \X own
    BY <1>1, <1>4, <2>2 DEF Present, PlaceOf, Has
  <2>3. CASE x \in {"shelf"} \X shelf
    <3>1. x[1] = "shelf" /\ x[2] \in shelf /\ x[1] # "own"
      BY <2>3
    <3> QED BY <1>2, <1>4, <3>1 DEF Present, PlaceOf, Has
  <2> QED BY <2>1, <2>2, <2>3 DEF Places
<1> DEFINE setup == {d \in Desired(own, shelf) : Sought(own, shelf, d) # <<>>}
           outputs == own \cap Outputs
           inputs == {Input[o] : o \in outputs}
           entries == [d \in setup \cup inputs |->
                IF d \in setup THEN Head(Sought(own, shelf, d))
                ELSE <<"own", CHOOSE o \in outputs : Input[o] = d>>]
<1>6. PlanNow(c).entries = entries
  BY <1>3 DEF PlanOf
<1>7. \A d \in setup : d # "MOD_SUM" /\ Present(c, Head(Sought(own, shelf, d)))
  <2>1. SUFFICES ASSUME NEW d \in setup PROVE d # "MOD_SUM" /\ Present(c, Head(Sought(own, shelf, d)))
    OBVIOUS
  <2>2. d \in UNION {Required, Optional, Observer} /\ Sought(own, shelf, d) # <<>>
    BY DEF Desired
  <2>3. d # "MOD_SUM" /\ Setup[d] \in Seq({"own", "shelf"} \X STRING)
    BY <2>2, FoldersAssumption
  <2>4. PICK A : A = {"own", "shelf"} \X STRING
    OBVIOUS
  <2>5. PICK s \in Seq(A) : s = Sought(own, shelf, d) /\ Range(s) \subseteq Places(own, shelf)
    <3>1. PICK b \in Seq(A) : b = Setup[d]
      BY <2>3, <2>4
    <3>2. PICK P : P = Places(own, shelf)
      OBVIOUS
    <3>3. Only(b, P) \in Seq(A) /\ Range(Only(b, P)) = Range(b) \cap P
      BY OnlySelects
    <3> QED BY <3>1, <3>2, <3>3 DEF Sought
  <2>6. Head(s) \in Range(s)
    BY <2>2, <2>5, TailFacts
  <2> QED BY <1>5, <2>3, <2>5, <2>6
<1>8. \A d \in inputs : d # "MOD_SUM" /\ Present(c, <<"own", CHOOSE o \in outputs : Input[o] = d>>)
  <2>1. SUFFICES ASSUME NEW d \in inputs PROVE d # "MOD_SUM" /\ Present(c, <<"own", CHOOSE o \in outputs : Input[o] = d>>)
    OBVIOUS
  <2>2. PICK o \in outputs : Input[o] = d
    OBVIOUS
  <2>3. PICK e : e = CHOOSE x \in outputs : Input[x] = d
    OBVIOUS
  <2>4. e \in outputs
    BY <2>2, <2>3
  <2>5. <<"own", e>> \in Places(own, shelf)
    BY <2>4 DEF Places
  <2> QED BY <1>5, <2>2, <2>3, <2>5, FoldersAssumption
<1> HIDE DEF setup, inputs
<1>9. DOMAIN entries = setup \cup inputs
  OBVIOUS
<1>10. ASSUME NEW d \in setup \cup inputs PROVE d # "MOD_SUM" /\ Present(c, entries[d])
  <2>1. CASE d \in setup
    <3>1. entries[d] = Head(Sought(own, shelf, d))
      BY <2>1
    <3> QED BY <1>7, <2>1, <3>1
  <2>2. CASE d \notin setup
    <3>1. d \in inputs /\ entries[d] = <<"own", CHOOSE o \in outputs : Input[o] = d>>
      BY <1>10, <2>2
    <3> QED BY <1>8, <3>1
  <2> QED BY <2>1, <2>2
<1> QED BY <1>4, <1>6, <1>9, <1>10

LEMMA PlanFolderStep ==
    ASSUME FoldersInv, NEW c \in Clerks, Plan(c)
    PROVE  FoldersInv'
<1>1. Doing(c, "create") /\ clerk[c].pc = "create" /\ clerk[c].pc \in Guarding /\ IsClerk(clerk[c]) /\ Sees(c)
  BY DEF Plan, Doing, Guarding, FoldersInv, ClerksKnow
<1>2. CASE Rejected(c)
  BY <1>1, <1>2, RejectedStep
<1>3. CASE /\ PlanNow(c) # Refusal
           /\ clerk' = [clerk EXCEPT ![c] =
                    [@ EXCEPT !.pc = "copy", !.plan = PlanNow(c),
                              !.snap = [d \in DOMAIN PlanNow(c).entries |-> VersionOf(c, PlanNow(c).entries[d])]]]
           /\ UNCHANGED <<models, owner, cache, ids>> /\ Aside
  <2>1. PICK plan : plan = PlanNow(c)
    OBVIOUS
  <2>2. PICK snap : snap = [d \in DOMAIN plan.entries |-> VersionOf(c, plan.entries[d])]
    OBVIOUS
  <2>3. PICK r : r = [clerk[c] EXCEPT !.pc = "copy", !.plan = plan, !.snap = snap]
    OBVIOUS
  <2>4. clerk' = [clerk EXCEPT ![c] = r] /\ clerk'[c] = r
    BY <1>3, <2>1, <2>2, <2>3 DEF FoldersInv, ClerksKnow
  <2>5. IsClerk(r)
    BY <1>1, <2>3 DEF IsClerk, Guarding, Kind
  <2>6. /\ There(Job(c).from) /\ "MOD_SUM" \notin DOMAIN plan.entries
        /\ \A d \in DOMAIN plan.entries : Present(c, plan.entries[d])
    BY <1>3, <2>1, PlanFinds DEF FoldersInv, ModelsKept
  <2>7. \A x : Present(c, x) => VersionOf(c, x) \in Seen
    BY DEF Present, VersionOf, Has, There, FoldersInv, ModelsKept, FolderTypes, IsFolder
  <2>8. r.pc = "copy" /\ r.job = clerk[c].job /\ r.plan = plan /\ r.snap = snap /\ r.staged = <<>>
    BY <1>1, <2>3 DEF IsClerk
  <2>9. \A d \in DOMAIN snap : snap[d] \in Seen
    BY <2>2, <2>6, <2>7
  <2>10. Seen' = Seen /\ (There(Job(c).from))'
    BY <1>3, <2>4, <2>6, <2>8 DEF Seen, Aside, There, Job
  <2>11. plan # Refusal /\ DOMAIN plan.entries = DOMAIN snap /\ snap = [d \in DOMAIN snap |-> snap[d]]
    BY <1>3, <2>1, <2>2
  <2>12. DOMAIN <<>> = {} /\ <<>> = [d \in DOMAIN <<>> |-> <<>>[d]]
    OBVIOUS
  <2>13. Copying(c)'
    BY <2>4, <2>6, <2>8, <2>9, <2>10, <2>11, <2>12 DEF Copying
  <2>14. Sees(c)'
    BY <1>1, <1>3, <2>4, <2>8, <2>13 DEF Sees, Doing
  <2> QED BY <1>1, <1>3, <2>4, <2>5, <2>14, ClerkStep DEF Aside
<1> QED BY <1>2, <1>3 DEF Plan

LEMMA CopyStep ==
    ASSUME FoldersInv, NEW c \in Clerks, Copy(c)
    PROVE  FoldersInv'
<1>1. /\ clerk[c].pc = "copy" /\ clerk[c].pc \in Guarding /\ IsClerk(clerk[c])
      /\ Sees(c) /\ Copying(c) /\ Doing(c, "copy")
  BY DEF Copy, Doing, Guarding, FoldersInv, ClerksKnow, Sees
<1>2. CASE Rejected(c)
  BY <1>1, <1>2, RejectedStep
<1>3. ASSUME NEW d \in DOMAIN clerk[c].snap \ DOMAIN clerk[c].staged,
             clerk' = [clerk EXCEPT ![c].staged = With(@, d, VersionOf(c, clerk[c].plan.entries[d]))],
             UNCHANGED <<models, owner, cache, ids>>, Aside
      PROVE  FoldersInv'
  <2>1. PICK v : v = VersionOf(c, clerk[c].plan.entries[d])
    OBVIOUS
  <2>2. PICK s : s = With(clerk[c].staged, d, v)
    OBVIOUS
  <2>3. PICK r : r = [clerk[c] EXCEPT !.staged = s]
    OBVIOUS
  <2>4. clerk' = [clerk EXCEPT ![c] = r] /\ clerk'[c] = r
    BY <1>3, <2>1, <2>2, <2>3 DEF FoldersInv, ClerksKnow
  <2>5. IsClerk(r)
    BY <1>1, <2>3 DEF IsClerk, Guarding, Kind
  <2>6. /\ r.pc = "copy" /\ r.job = clerk[c].job /\ r.plan = clerk[c].plan /\ r.snap = clerk[c].snap
        /\ r.staged = s
    BY <1>1, <2>3 DEF IsClerk
  <2>7. s = [x \in DOMAIN s |-> s[x]] /\ \A x \in DOMAIN s : IF x = d THEN s[x] = v ELSE x \in DOMAIN clerk[c].staged /\ s[x] = clerk[c].staged[x]
    BY <2>2 DEF With
  <2>8. /\ Seen' = Seen /\ Job(c)' = Job(c)
        /\ \A x : There(x)' = There(x) /\ Present(c, x)' = Present(c, x) /\ VersionOf(c, x)' = VersionOf(c, x)
    BY <1>3, <2>4, <2>6 DEF Seen, Aside, There, Job, Present, VersionOf, PlaceOf, Has
  <2>9. Copying(c)'
    <3>1. \A x \in DOMAIN s : \/ s[x] = r.snap[x]
                              \/ ~Present(c, r.plan.entries[x])
                              \/ VersionOf(c, r.plan.entries[x]) # r.snap[x]
      BY <1>1, <2>1, <2>6, <2>7 DEF Copying
    <3> QED BY <1>1, <2>4, <2>6, <2>7, <2>8, <3>1 DEF Copying
  <2>10. Sees(c)'
    BY <1>1, <1>3, <2>4, <2>6, <2>9 DEF Sees, Doing
  <2> QED BY <1>1, <1>3, <2>4, <2>5, <2>10, ClerkStep DEF Aside
<1> QED BY <1>2, <1>3 DEF Copy

LEMMA VerifyCopyStep ==
    ASSUME FoldersInv, NEW c \in Clerks, VerifyCopy(c)
    PROVE  FoldersInv'
<1>1. /\ clerk[c].pc = "copy" /\ clerk[c].pc \in Guarding /\ IsClerk(clerk[c])
      /\ Sees(c) /\ Copying(c) /\ Doing(c, "copy")
  BY DEF VerifyCopy, Doing, Guarding, FoldersInv, ClerksKnow, Sees
<1>2. CASE Rejected(c)
  BY <1>1, <1>2, RejectedStep
<1>3. CASE Settled(c) /\ Goes(c, "look") /\ UNCHANGED <<models, owner, cache, ids>> /\ Aside
  <2>1. PICK r : r = [clerk[c] EXCEPT !.pc = "look"]
    OBVIOUS
  <2>2. clerk' = [clerk EXCEPT ![c] = r] /\ clerk'[c] = r
    BY <1>3, <2>1 DEF Goes, FoldersInv, ClerksKnow
  <2>3. PlanNow(c) = clerk[c].plan /\ PlanNow(c) # Refusal
    BY <1>1, <1>3 DEF Settled, SamePlan, Copying
  <2>4. \A d \in DOMAIN clerk[c].snap :
            Present(c, clerk[c].plan.entries[d]) /\ VersionOf(c, clerk[c].plan.entries[d]) = clerk[c].snap[d]
    BY <1>1, <1>3, <2>3, PlanFinds DEF Settled, Copying, FoldersInv, ModelsKept
  <2>5. \A d \in DOMAIN clerk[c].snap : clerk[c].staged[d] = clerk[c].snap[d]
    BY <1>1, <2>4 DEF VerifyCopy, Copying
  <2>6. DOMAIN clerk[c].staged = DOMAIN clerk[c].snap
    BY DEF VerifyCopy
  <2>7. clerk[c].staged = clerk[c].snap
    BY <1>1, <2>5, <2>6 DEF Copying
  <2>8. /\ r.pc = "look" /\ r.job = clerk[c].job /\ r.plan = clerk[c].plan /\ r.snap = clerk[c].snap
        /\ r.staged = clerk[c].staged
    BY <1>1, <2>1 DEF IsClerk
  <2>9. IsClerk(r)
    BY <1>1, <2>1, <2>7 DEF IsClerk, Guarding, Kind
  <2>10. Copying(c)'
    <3>1. Seen' = Seen /\ Job(c)' = Job(c) /\ \A x : There(x)' = There(x)
      BY <1>3, <2>2, <2>8 DEF Seen, Aside, There, Job
    <3> QED BY <1>1, <2>2, <2>8, <3>1 DEF Copying, Doing
  <2>11. Sees(c)'
    BY <1>1, <1>3, <2>2, <2>8, <2>10 DEF Sees, Doing
  <2> QED BY <1>1, <1>3, <2>2, <2>9, <2>11, ClerkStep DEF Aside
<1> QED BY <1>2, <1>3 DEF VerifyCopy

LEMMA LookThereStep ==
    ASSUME FoldersInv, NEW c \in Clerks, LookThere(c)
    PROVE  FoldersInv'
<1>1. /\ clerk[c].pc = "look" /\ clerk[c].pc \in Guarding /\ IsClerk(clerk[c])
      /\ Sees(c) /\ Copying(c)
  BY DEF LookThere, Doing, Guarding, FoldersInv, ClerksKnow, Sees
<1>2. CASE Rejected(c)
  BY <1>1, <1>2, RejectedStep
<1>3. CASE Goes(c, "publish") /\ UNCHANGED <<models, owner, cache, ids>> /\ Aside
  <2>1. PICK r : r = [clerk[c] EXCEPT !.pc = "publish"]
    OBVIOUS
  <2>2. clerk' = [clerk EXCEPT ![c] = r] /\ clerk'[c] = r
    BY <1>3, <2>1 DEF Goes, FoldersInv, ClerksKnow
  <2>3. IsClerk(r)
    BY <1>1, <2>1 DEF IsClerk, Guarding, Kind
  <2>4. /\ r.pc = "publish" /\ r.job = clerk[c].job /\ r.plan = clerk[c].plan /\ r.snap = clerk[c].snap
        /\ r.staged = clerk[c].staged
    BY <1>1, <2>1 DEF IsClerk
  <2>5. Copying(c)'
    <3>1. Seen' = Seen /\ Job(c)' = Job(c) /\ \A x : There(x)' = There(x)
      BY <1>3, <2>2, <2>4 DEF Seen, Aside, There, Job
    <3> QED BY <1>1, <2>2, <2>4, <3>1 DEF Copying, Doing
  <2>6. Sees(c)'
    BY <1>1, <1>3, <2>2, <2>4, <2>5 DEF Sees, Doing
  <2> QED BY <1>1, <1>3, <2>2, <2>3, <2>6, ClerkStep DEF Aside
<1> QED BY <1>2, <1>3 DEF LookThere

\* A request lets go of the lock, with or without having changed the folders.
LEMMA ClerkLeaves ==
    ASSUME FoldersInv, NEW c \in Clerks, NEW pc, Goes(c, pc), ModelsKept', clerk[c].pc \in Guarding,
           IsClerk([clerk[c] EXCEPT !.pc = pc]), pc \notin Guarding
    PROVE  FoldersInv'
<1>1. PICK r : r = [clerk[c] EXCEPT !.pc = pc]
  OBVIOUS
<1>2. clerk' = [clerk EXCEPT ![c] = r] /\ r.pc = pc /\ IsClerk(r)
  BY <1>1 DEF Goes, FoldersInv, ClerksKnow, IsClerk
<1>3. ClerksKnow'
  BY <1>2, ClerkGoesOn DEF FoldersInv
<1> QED BY <1>3 DEF FoldersInv

LEMMA AllFolders == FolderTypes => \A f \in All : IsFolder(f)
BY DEF FolderTypes, All, Under, There

LEMMA PublishCopyStep ==
    ASSUME FoldersInv, NEW c \in Clerks, PublishCopy(c)
    PROVE  FoldersInv'
<1>1. /\ clerk[c].pc = "publish" /\ clerk[c].pc \in Guarding /\ IsClerk(clerk[c])
      /\ Sees(c) /\ Copying(c)
  BY DEF PublishCopy, Doing, Guarding, FoldersInv, ClerksKnow, Sees
<1>2. CASE Rejected(c)
  BY <1>1, <1>2, RejectedStep
<1>3. PICK to : to = Job(c).to
  OBVIOUS
<1>4. CASE /\ There(to) => models[to] = Folder(None, <<>>)
           /\ models' = With(models, to, Folder(<<"copy", ids>>, clerk[c].staged))
           /\ ids' = ids + 1
           /\ Leaves(c, "forget") /\ UNCHANGED cache /\ Aside
  <2>1. PICK f : f = Folder(<<"copy", ids>>, clerk[c].staged)
    OBVIOUS
  <2>2. /\ f.id = <<"copy", ids>> /\ f.files = clerk[c].staged /\ f.inner = {}
        /\ f = [id |-> f.id, files |-> f.files, inner |-> f.inner, archive |-> f.archive]
    BY <2>1 DEF Folder
  <2>3. to \in ModelPaths
    BY <1>1, <1>3, FoldersAssumption DEF IsClerk, Job, Kind
  <2>4. "MOD_SUM" \notin DOMAIN f.files /\ \A n \in DOMAIN f.files : f.files[n] \in Seen
    BY <1>1, <2>2 DEF IsClerk, Copying
  <2>5. /\ Seen' = Seen /\ acts \in Nat /\ ids \in Nat /\ ids' = ids + 1
        /\ UNCHANGED <<acts, gone, cache, bulk>> /\ Grows
    BY <1>4 DEF Seen, Aside, Grows, FoldersInv, ModelsKept, FolderTypes
  <2>6. IsFolder(f)'
    BY <2>2, <2>4, <2>5 DEF IsFolder, Named
  <2>7. \A g \in All : g.id # f.id
    <3>1. \A g \in All : Named(g)
      BY AllFolders DEF IsFolder, FoldersInv, ModelsKept
    <3>2. \A g : Named(g) => g.id # <<"copy", ids>>
      BY <2>5 DEF Named
    <3> QED BY <2>2, <3>1, <3>2
  <2>8. There(to) => models[to].id = None /\ models[to].inner = {} /\ models[to].files = <<>>
    BY <1>4 DEF Folder
  <2>9. ModelsKept'
    BY <1>4, <2>1, <2>2, <2>3, <2>4, <2>5, <2>6, <2>7, <2>8, FolderAppears DEF FoldersInv
  <2>10. IsClerk([clerk[c] EXCEPT !.pc = "forget"])
    BY <1>1 DEF IsClerk, Guarding, Kind
  <2> QED BY <1>1, <1>4, <2>9, <2>10, ClerkLeaves DEF Leaves, Guarding
<1> QED BY <1>2, <1>3, <1>4 DEF PublishCopy

LEMMA RenameStep ==
    ASSUME FoldersInv, NEW c \in Clerks, Rename(c)
    PROVE  FoldersInv'
<1>1. clerk[c].pc = "rename" /\ clerk[c].pc \in Guarding /\ IsClerk(clerk[c]) /\ Sees(c)
  BY DEF Rename, Doing, Guarding, FoldersInv, ClerksKnow, Sees
<1>2. CASE Rejected(c)
  BY <1>1, <1>2, RejectedStep
<1>3. CASE Allowed(c) /\ Goes(c, "move") /\ UNCHANGED <<models, owner, cache, ids>> /\ Aside
  <2>1. PICK r : r = [clerk[c] EXCEPT !.pc = "move"]
    OBVIOUS
  <2>2. clerk' = [clerk EXCEPT ![c] = r] /\ clerk'[c] = r
    BY <1>3, <2>1 DEF Goes, FoldersInv, ClerksKnow
  <2>3. IsClerk(r) /\ r.pc = "move" /\ r.job = clerk[c].job
    BY <1>1, <2>1 DEF IsClerk, Guarding, Kind
  <2>4. models[Job(c).from].inner = {}
    BY <1>3, FoldersAssumption DEF Allowed, IsModel, There, FoldersInv, ModelsKept, FolderTypes
  <2>5. Moving(c)'
    BY <1>3, <2>2, <2>3, <2>4 DEF Moving, Allowed, IsModel, There, Job
  <2>6. Sees(c)'
    BY <1>1, <1>3, <2>2, <2>3, <2>5 DEF Sees, Doing
  <2> QED BY <1>1, <1>3, <2>2, <2>3, <2>6, ClerkStep DEF Aside
<1> QED BY <1>2, <1>3 DEF Rename

LEMMA MoveStep ==
    ASSUME FoldersInv, NEW c \in Clerks, Move(c)
    PROVE  FoldersInv'
<1>1. /\ clerk[c].pc = "move" /\ clerk[c].pc \in Guarding /\ IsClerk(clerk[c])
      /\ Sees(c) /\ Moving(c)
  BY DEF Move, Doing, Guarding, FoldersInv, ClerksKnow, Sees
<1>2. CASE Rejected(c)
  BY <1>1, <1>2, RejectedStep
<1>3. PICK from : from = Job(c).from
  OBVIOUS
<1>4. PICK to : to = Job(c).to
  OBVIOUS
<1>5. CASE /\ There(to) => models[to].inner = {}
           /\ models' = Moved(from, to)
           /\ Leaves(c, "settle") /\ UNCHANGED <<cache, ids>> /\ Aside
  <2>1. from \in ModelPaths /\ to \in ModelPaths
    BY <1>1, <1>3, <1>4, FoldersAssumption DEF IsClerk, Job, Kind
  <2>2. /\ from # to /\ There(from) /\ models[from].inner = {}
        /\ There(to) => DOMAIN models[to].files \subseteq {"MOD_SUM"}
    BY <1>1, <1>3, <1>4 DEF Moving
  <2>3. ModelsKept'
    BY <1>5, <2>1, <2>2, FolderMoves DEF FoldersInv, Aside
  <2>4. IsClerk([clerk[c] EXCEPT !.pc = "settle"])
    BY <1>1 DEF IsClerk, Guarding, Kind
  <2> QED BY <1>1, <1>5, <2>3, <2>4, ClerkLeaves DEF Leaves, Guarding
<1> QED BY <1>2, <1>3, <1>4, <1>5 DEF Move

LEMMA CleanStep ==
    ASSUME FoldersInv, NEW c \in Clerks, Clean(c)
    PROVE  FoldersInv'
<1>1. clerk[c].pc = "cleanup" /\ clerk[c].pc \in Guarding /\ IsClerk(clerk[c]) /\ Sees(c)
  BY DEF Clean, Doing, Guarding, FoldersInv, ClerksKnow, Sees
<1>2. CASE Rejected(c)
  BY <1>1, <1>2, RejectedStep
<1>3. PICK now : now = Cleanables(Job(c).from)
  OBVIOUS
<1>4. CASE /\ IsModel(Job(c).from)
           /\ Job(c).expected # None => \A n \in Job(c).names : n \in DOMAIN now
           /\ clerk' = [clerk EXCEPT ![c] = [@ EXCEPT !.pc = "clean", !.candidates = now, !.todo = Job(c).names]]
           /\ UNCHANGED <<models, owner, cache, ids>> /\ Aside
  <2>1. PICK r : r = [clerk[c] EXCEPT !.pc = "clean", !.candidates = now, !.todo = Job(c).names]
    OBVIOUS
  <2>2. clerk' = [clerk EXCEPT ![c] = r] /\ clerk'[c] = r
    BY <1>4, <2>1 DEF FoldersInv, ClerksKnow
  <2>3. DOMAIN now \subseteq Cleanable
    BY <1>3 DEF Cleanables
  <2>4. /\ r = [pc |-> r.pc, job |-> r.job, plan |-> r.plan, snap |-> r.snap, staged |-> r.staged,
                candidates |-> r.candidates, todo |-> r.todo, removed |-> r.removed,
                skipped |-> r.skipped, failed |-> r.failed]
        /\ r.pc = "clean" /\ r.job = clerk[c].job /\ r.job \in Jobs /\ r.job.kind = "cleanup"
        /\ r.candidates = now /\ r.todo = r.job.names /\ r.removed = {} /\ r.skipped = {} /\ r.failed = {}
    BY <1>1, <2>1 DEF IsClerk, Kind, Job
  <2>5. IsClerk(r)
    BY <1>4, <2>3, <2>4 DEF IsClerk, Guarding, Kind, Job
  <2>6. \A k \in Nat : models[Job(c).from].id # <<"user", k>>
    BY <1>4, FoldersAssumption DEF IsModel, There, FoldersInv, ModelsKept, FolderTypes, IsFolder, Named
  <2>7. Sees(c)'
    BY <1>1, <1>4, <2>2, <2>4, <2>6 DEF Sees, Doing, Job, There, IsModel
  <2> QED BY <1>1, <1>4, <2>2, <2>5, <2>7, ClerkStep DEF Aside
<1> QED BY <1>2, <1>3, <1>4 DEF Clean

LEMMA CleanOneStep ==
    ASSUME FoldersInv, NEW c \in Clerks, CleanOne(c)
    PROVE  FoldersInv'
<1>1. /\ clerk[c].pc = "clean" /\ clerk[c].pc \in Guarding /\ IsClerk(clerk[c]) /\ Sees(c)
      /\ Doing(c, "clean") /\ UNCHANGED <<owner, cache, ids, bulk, acts, gone>>
  BY DEF CleanOne, Doing, Guarding, FoldersInv, ClerksKnow, Sees, Aside
<1>2. PICK p : p = Job(c).from
  OBVIOUS
<1>3. There(p) /\ owner = c /\ \A k \in Nat : models[p].id # <<"user", k>>
  BY <1>1, <1>2 DEF Sees
<1>4. ASSUME NEW n \in clerk[c].todo, NEW as \in {"skipped", "failed", "removed"}, Cleaning(c, n, as),
             as = "skipped" <=> ~Candidate(c, n),
             DOMAIN models' = DOMAIN models, p \in DOMAIN models => models'[p].id = models[p].id
      PROVE  ClerksKnow'
  <2>1. PICK r : r = [clerk[c] EXCEPT !.todo = @ \ {n}, ![as] = @ \cup {n}]
    OBVIOUS
  <2>2. clerk' = [clerk EXCEPT ![c] = r] /\ clerk'[c] = r
    <3>1. clerk = [d \in Clerks |-> clerk[d]]
      BY DEF FoldersInv, ClerksKnow
    <3>2. CASE as = "skipped"
      BY <1>4, <2>1, <3>1, <3>2 DEF Cleaning
    <3>3. CASE as = "failed"
      BY <1>4, <2>1, <3>1, <3>3 DEF Cleaning
    <3>4. CASE as = "removed"
      BY <1>4, <2>1, <3>1, <3>4 DEF Cleaning
    <3> QED BY <1>4, <3>2, <3>3, <3>4
  <2>3. /\ r = [pc |-> r.pc, job |-> r.job, plan |-> r.plan, snap |-> r.snap, staged |-> r.staged,
                candidates |-> r.candidates, todo |-> r.todo, removed |-> r.removed,
                skipped |-> r.skipped, failed |-> r.failed]
        /\ r.pc = "clean" /\ r.job = clerk[c].job /\ r.candidates = clerk[c].candidates /\ r.todo = clerk[c].todo \ {n}
        /\ r.skipped = IF as = "skipped" THEN clerk[c].skipped \cup {n} ELSE clerk[c].skipped
        /\ r.failed = IF as = "failed" THEN clerk[c].failed \cup {n} ELSE clerk[c].failed
        /\ r.removed = IF as = "removed" THEN clerk[c].removed \cup {n} ELSE clerk[c].removed
    BY <1>1, <2>1 DEF IsClerk
  <2>4. /\ clerk[c].job \in Jobs /\ clerk[c].job.kind = "cleanup"
        /\ DOMAIN clerk[c].candidates \subseteq Cleanable
        /\ clerk[c].job.expected # None => clerk[c].job.names \subseteq DOMAIN clerk[c].candidates
        /\ clerk[c].removed \subseteq Cleanable
        /\ clerk[c].job.names = UNION {clerk[c].todo, clerk[c].removed, clerk[c].skipped, clerk[c].failed}
        /\ clerk[c].removed \cap (clerk[c].skipped \cup clerk[c].failed) = {}
        /\ clerk[c].todo \cap clerk[c].removed = {}
        /\ clerk[c].todo \cap (clerk[c].skipped \cup clerk[c].failed) = {}
        /\ clerk[c].job.expected # None => clerk[c].skipped = {}
    BY <1>1 DEF IsClerk, Kind
  <2>5. n \in clerk[c].job.names
    BY <1>4, <2>4
  <2>6. /\ as # "skipped" => n \in Cleanable
        /\ clerk[c].job.expected # None => as # "skipped"
    BY <1>4, <2>4, <2>5 DEF Candidate
  <2>7. r.job.names = UNION {r.todo, r.removed, r.skipped, r.failed}
    <3>1. clerk[c].todo = r.todo \cup {n}
      BY <1>4, <2>3
    <3>2. UNION {clerk[c].todo, clerk[c].removed, clerk[c].skipped, clerk[c].failed}
            = clerk[c].todo \cup clerk[c].removed \cup clerk[c].skipped \cup clerk[c].failed
      OBVIOUS
    <3>3. UNION {r.todo, r.removed, r.skipped, r.failed} = r.todo \cup r.removed \cup r.skipped \cup r.failed
      OBVIOUS
    <3>4. r.todo \cup r.removed \cup r.skipped \cup r.failed
            = r.todo \cup {n} \cup clerk[c].removed \cup clerk[c].skipped \cup clerk[c].failed
      <4>1. CASE as = "skipped"
        BY <2>3, <4>1
      <4>2. CASE as = "failed"
        BY <2>3, <4>2
      <4>3. CASE as = "removed"
        BY <2>3, <4>3
      <4> QED BY <1>4, <4>1, <4>2, <4>3
    <3> QED BY <2>3, <2>4, <3>1, <3>2, <3>3, <3>4
  <2>8. /\ r.removed \cap (r.skipped \cup r.failed) = {} /\ r.todo \cap r.removed = {}
        /\ r.todo \cap (r.skipped \cup r.failed) = {}
    BY <1>4, <2>3, <2>4
  <2>9. r.removed \subseteq Cleanable /\ (r.job.expected # None => r.skipped = {})
    BY <2>3, <2>4, <2>6
  <2>10. IsClerk(r)
    BY <2>3, <2>4, <2>7, <2>8, <2>9 DEF IsClerk, Guarding, Kind
  <2>11. Sees(c)'
    BY <1>1, <1>2, <1>3, <1>4, <2>2, <2>3 DEF Sees, Doing, Job, There
  <2> QED BY <1>1, <2>2, <2>10, <2>11, ClerkGoesOn DEF FoldersInv
<1>5. ASSUME NEW n \in clerk[c].todo, ~Candidate(c, n), Cleaning(c, n, "skipped"), UNCHANGED models
      PROVE  FoldersInv'
  BY <1>1, <1>4, <1>5, ModelsStay DEF FoldersInv
<1>6. ASSUME NEW n \in clerk[c].todo, Candidate(c, n), Cleaning(c, n, "failed"), UNCHANGED models
      PROVE  FoldersInv'
  BY <1>1, <1>4, <1>6, ModelsStay DEF FoldersInv
<1>7. ASSUME NEW n \in clerk[c].todo, Candidate(c, n), NEW as \in {"removed", "failed"}, Cleaning(c, n, as),
             NEW keeps,
             models' = [models EXCEPT ![p].files = Without(@, n),
                                      ![p].archive = IF keeps THEN With(@, n, models[p].files[n]) ELSE @]
      PROVE  FoldersInv'
  <2>1. PICK files : files = Without(models[p].files, n)
    OBVIOUS
  <2>2. PICK archive : archive = IF keeps THEN With(models[p].archive, n, models[p].files[n]) ELSE models[p].archive
    OBVIOUS
  <2>3. /\ models = [q \in DOMAIN models |-> models[q]] /\ p \in DOMAIN models /\ IsFolder(models[p])
        /\ acts \in Nat /\ ids \in Nat
    BY <1>3 DEF There, FoldersInv, ModelsKept, FolderTypes
  <2>4. PICK f : f = [models[p] EXCEPT !.files = files, !.archive = archive]
    OBVIOUS
  <2>5. models' = [models EXCEPT ![p] = f]
    BY <1>7, <2>1, <2>2, <2>3, <2>4 DEF IsFolder
  <2>6. /\ f.id = models[p].id /\ f.files = files /\ f.inner = models[p].inner
        /\ f = [id |-> f.id, files |-> f.files, inner |-> f.inner, archive |-> f.archive]
    BY <2>3, <2>4 DEF IsFolder
  <2>7. DOMAIN files = DOMAIN models[p].files \ {n} /\ \A m \in DOMAIN files : files[m] = models[p].files[m]
    BY <2>1 DEF Without
  <2>8. n \in Cleanable
    BY <1>1, <1>7 DEF Candidate, IsClerk
  <2>9. Seen' = Seen /\ Grows
    BY <1>1, <2>3 DEF Seen, Grows
  <2>10. Named(f)'
    <3>1. \A k \in Nat : f.id # <<"user", k>>
      BY <1>3, <2>6
    <3>2. \A k \in Nat : f.id = <<"copy", k>> => k < ids
      BY <2>3, <2>6 DEF IsFolder, Named
    <3> QED BY <1>1, <3>1, <3>2 DEF Named
  <2>11. IsFolder(f)'
    BY <2>3, <2>6, <2>7, <2>9, <2>10 DEF IsFolder
  <2>12. ModelsKept'
    BY <1>1, <2>3, <2>5, <2>6, <2>7, <2>8, <2>9, <2>11, FolderChanges DEF FoldersInv
  <2>13. ClerksKnow'
    BY <1>4, <1>7, <2>3, <2>5, <2>6
  <2> QED BY <2>12, <2>13 DEF FoldersInv
<1> QED BY <1>2, <1>5, <1>6, <1>7 DEF CleanOne

LEMMA CleanedStep ==
    ASSUME FoldersInv, NEW c \in Clerks, Cleaned(c)
    PROVE  FoldersInv'
<1>1. clerk[c].pc = "clean" /\ clerk[c].pc \in Guarding /\ IsClerk(clerk[c])
  BY DEF Cleaned, Doing, Guarding, FoldersInv, ClerksKnow
<1>2. ModelsKept'
  BY ModelsStay DEF Cleaned, Leaves, Aside, FoldersInv
<1>3. IsClerk([clerk[c] EXCEPT !.pc = "done"]) /\ IsClerk([clerk[c] EXCEPT !.pc = "check"])
  BY <1>1 DEF IsClerk, Guarding, Kind
<1>4. PICK pc \in {"done", "check"} : Goes(c, pc)
  BY DEF Cleaned, Leaves
<1> QED BY <1>1, <1>2, <1>3, <1>4, ClerkLeaves DEF Guarding

(* The cached summaries. *)
LEMMA CacheChanges ==
    ASSUME ModelsKept, UNCHANGED <<models, acts, ids, gone, bulk>>, cache' = [p \in ModelPaths |-> cache'[p]],
           \A p \in ModelPaths :
                cache'[p] \in {None, cache[p]} \/ (IsSummary(cache'[p], p) /\ Told(cache'[p]) \in Sums)
    PROVE  ModelsKept'
<1>1. \A p \in ModelPaths : cache[p] # None => IsSummary(cache[p], p) /\ Told(cache[p]) \in Sums
  BY DEF ModelsKept, SummaryTypes, Sums
<1>2. bulk # None => Told(bulk) \in Sums /\ \E p \in ModelPaths : IsSummary(bulk, p)
  BY DEF ModelsKept, SummaryTypes, Sums
<1>3. \A p \in ModelPaths : cache'[p] # None => IsSummary(cache'[p], p) /\ Told(cache'[p]) \in Sums
  BY <1>1
<1>4. SummaryTypes'
  <2>1. \A p \in ModelPaths : cache'[p] # None => IsSummary(cache[p], p)'
    BY <1>3 DEF IsSummary
  <2>2. bulk' # None => \E p \in ModelPaths : IsSummary(bulk, p)'
    BY <1>2 DEF IsSummary
  <2> QED BY <2>1, <2>2 DEF SummaryTypes
<1>5. \A s \in {cache'[p] : p \in ModelPaths} \cup {bulk'} : s = None \/ Told(s) \in Sums
  BY <1>2, <1>3
<1> QED BY <1>4, <1>5, SummariesChange

LEMMA SummaryStep ==
    ASSUME FoldersInv, NEW c \in Clerks, UNCHANGED <<models, owner, ids>>, Aside, NEW pc,
           clerk[c].pc \in {"forget", "settle", "relocate", "drop", "check"}, Goes(c, pc),
           pc = "done" \/ (clerk[c].pc = "settle" /\ pc \in {"relocate", "drop"}),
           cache' = [p \in ModelPaths |-> cache'[p]],
           \A p \in ModelPaths :
                cache'[p] \in {None, cache[p]} \/ (IsSummary(cache'[p], p) /\ Told(cache'[p]) \in Sums)
    PROVE  FoldersInv'
<1>1. PICK r : r = [clerk[c] EXCEPT !.pc = pc]
  OBVIOUS
<1>2. IsClerk(clerk[c]) /\ clerk' = [clerk EXCEPT ![c] = r]
  BY <1>1 DEF Goes, FoldersInv, ClerksKnow
<1>3. IsClerk(r) /\ r.pc \notin Guarding
  BY <1>1, <1>2 DEF IsClerk, Guarding, Kind
<1>4. ClerksKnow'
  BY <1>2, <1>3, ClerkGoesOn DEF FoldersInv, Aside
<1>5. ModelsKept'
  BY CacheChanges DEF FoldersInv, Aside
<1> QED BY <1>4, <1>5 DEF FoldersInv

\* The cache is a function, whose values stay or go.
LEMMA DroppedFacts ==
    ASSUME NEW paths
    PROVE  /\ Dropped(paths) = [p \in ModelPaths |-> Dropped(paths)[p]]
           /\ \A p \in ModelPaths : Dropped(paths)[p] \in {None, cache[p]}
BY DEF Dropped

LEMMA SummariesDropped ==
    ASSUME FoldersInv, NEW c \in Clerks, UNCHANGED <<models, owner, ids>>, Aside, NEW pc,
           clerk[c].pc \in {"forget", "settle", "relocate", "drop", "check"}, Goes(c, pc),
           pc = "done" \/ (clerk[c].pc = "settle" /\ pc \in {"relocate", "drop"}),
           cache' = cache \/ \E paths : cache' = Dropped(paths)
    PROVE  FoldersInv'
<1>1. cache = [p \in ModelPaths |-> cache[p]]
  BY DEF FoldersInv, ModelsKept, SummaryTypes
<1>2. \A paths : cache' = Dropped(paths) =>
            /\ cache' = [p \in ModelPaths |-> cache'[p]]
            /\ \A p \in ModelPaths : cache'[p] \in {None, cache[p]}
  BY DroppedFacts
<1>3. /\ cache' = [p \in ModelPaths |-> cache'[p]]
      /\ \A p \in ModelPaths : cache'[p] \in {None, cache[p]}
  BY <1>1, <1>2
<1> QED BY <1>3, SummaryStep

LEMMA SummarySteps ==
    ASSUME FoldersInv, NEW c \in Clerks, Forget(c) \/ Settle(c) \/ Relocate(c) \/ DropSummaries(c) \/ Recheck(c)
    PROVE  FoldersInv'
<1>1. cache = [p \in ModelPaths |-> cache[p]] /\ IsClerk(clerk[c])
  BY DEF FoldersInv, ModelsKept, SummaryTypes, ClerksKnow
<1>2. CASE Forget(c)
  <2>1. clerk[c].pc = "forget" /\ Goes(c, "done") /\ \E paths : cache' = Dropped(paths)
    BY <1>2 DEF Forget, Doing
  <2>2. UNCHANGED <<models, owner, ids>> /\ Aside
    BY <1>2 DEF Forget
  <2> QED BY <2>1, <2>2, SummariesDropped
<1>3. CASE Settle(c)
  <2>1. clerk[c].pc = "settle" /\ cache' = cache
    BY <1>3 DEF Settle, Doing
  <2>2. PICK pc \in {"relocate", "drop"} : Goes(c, pc)
    BY <1>3 DEF Settle
  <2>3. UNCHANGED <<models, owner, ids>> /\ Aside
    BY <1>3 DEF Settle
  <2> QED BY <2>1, <2>2, <2>3, SummariesDropped
<1>4. CASE Relocate(c)
  <2>1. PICK from : from = Job(c).from
    OBVIOUS
  <2>2. PICK to : to = Job(c).to
    OBVIOUS
  <2>3. clerk[c].pc = "relocate"
    BY <1>4 DEF Relocate, Doing
  <2>4. from \in ModelPaths /\ to \in ModelPaths
    BY <1>1, <2>1, <2>2, <2>3, FoldersAssumption DEF IsClerk, Job, Kind, Guarding
  <2>5. PICK d : d = Dropped({from, to})
    OBVIOUS
  <2>6. d = [p \in ModelPaths |-> d[p]] /\ \A p \in ModelPaths : d[p] \in {None, cache[p]}
    BY <2>5, DroppedFacts
  <2>7. PICK s : s = IF cache[from] = None THEN None ELSE [cache[from] EXCEPT !.name = to]
    OBVIOUS
  <2>8. cache' = [d EXCEPT ![to] = s]
    BY <1>4, <2>1, <2>2, <2>5, <2>7 DEF Relocate
  <2>9. s = None \/ (IsSummary(s, to) /\ Told(s) \in Sums)
    <3>1. CASE cache[from] = None
      BY <2>7, <3>1
    <3>2. CASE cache[from] # None
      <4>1. IsSummary(cache[from], from) /\ Told(cache[from]) \in Sums
        BY <2>4, <3>2 DEF FoldersInv, ModelsKept, SummaryTypes, Sums
      <4>2. s = [name |-> to, id |-> cache[from].id, stamp |-> cache[from].stamp]
        BY <2>7, <3>2, <4>1 DEF IsSummary
      <4> QED BY <4>1, <4>2 DEF IsSummary, Told
    <3> QED BY <3>1, <3>2
  <2>10. cache' = [p \in ModelPaths |-> cache'[p]] /\ cache'[to] = s /\ \A p \in ModelPaths \ {to} : cache'[p] = d[p]
    BY <2>4, <2>6, <2>8
  <2>11. \A p \in ModelPaths :
                cache'[p] \in {None, cache[p]} \/ (IsSummary(cache'[p], p) /\ Told(cache'[p]) \in Sums)
    BY <2>6, <2>9, <2>10
  <2>12. Goes(c, "done") /\ UNCHANGED <<models, owner, ids>> /\ Aside
    BY <1>4 DEF Relocate
  <2> QED BY <2>3, <2>10, <2>11, <2>12, SummaryStep
<1>5. CASE DropSummaries(c)
  <2>1. clerk[c].pc = "drop" /\ Goes(c, "done") /\ \E paths : cache' = Dropped(paths)
    BY <1>5 DEF DropSummaries, Doing
  <2>2. UNCHANGED <<models, owner, ids>> /\ Aside
    BY <1>5 DEF DropSummaries
  <2> QED BY <2>1, <2>2, SummariesDropped
<1>6. CASE Recheck(c)
  <2>1. clerk[c].pc = "check" /\ Goes(c, "done") /\ (cache' = cache \/ \E paths : cache' = Dropped(paths))
    BY <1>6 DEF Recheck, Doing
  <2>2. UNCHANGED <<models, owner, ids>> /\ Aside
    BY <1>6 DEF Recheck
  <2> QED BY <2>1, <2>2, SummariesDropped
<1> QED BY <1>2, <1>3, <1>4, <1>5, <1>6

LEMMA BulkSteps ==
    ASSUME FoldersInv, (\E p \in ModelPaths : Summarize(p)) \/ Store
    PROVE  FoldersInv'
<1>1. ClerksKnow'
  BY ClerksWait DEF Summarize, Store, FoldersInv
<1>2. CASE \E p \in ModelPaths : Summarize(p)
  <2>1. PICK p \in ModelPaths : Summarize(p)
    BY <1>2
  <2>2. Told(bulk') \in Sums
    <3>1. models[p] \in All /\ "MOD_SUM" \in DOMAIN models[p].files
      BY <2>1 DEF Summarize, Complete, Has, There, All, Under
    <3>2. SumOf(models[p]) \in Sums
      BY <3>1 DEF Sums
    <3>3. Told(bulk') = SumOf(models[p])
      BY <2>1 DEF Summarize, Told, SumOf, Stamp
    <3> QED BY <3>2, <3>3
  <2>3. IsSummary(bulk', p)
    BY <2>1 DEF Summarize, IsSummary
  <2>4. UNCHANGED <<models, acts, ids, gone, cache>>
    BY <2>1 DEF Summarize
  <2>5. SummaryTypes'
    <3>1. IsSummary(bulk, p)'
      BY <2>3 DEF IsSummary
    <3>2. \A q \in ModelPaths : cache'[q] # None => IsSummary(cache[q], q)'
      BY <2>4 DEF FoldersInv, ModelsKept, SummaryTypes, IsSummary
    <3> QED BY <2>4, <3>1, <3>2 DEF FoldersInv, ModelsKept, SummaryTypes
  <2>6. \A s \in {cache'[q] : q \in ModelPaths} \cup {bulk'} : s = None \/ Told(s) \in Sums
    BY <2>2, <2>4 DEF Sums
  <2> QED BY <1>1, <2>4, <2>5, <2>6, SummariesChange DEF FoldersInv
<1>3. CASE Store
  <2>1. bulk # None /\ bulk' = None /\ cache' = [cache EXCEPT ![bulk.name] = bulk] /\ UNCHANGED <<models, acts, ids, gone>>
    BY <1>3 DEF Store
  <2>2. PICK s : s = bulk
    OBVIOUS
  <2>3. PICK p \in ModelPaths : IsSummary(s, p)
    BY <2>1, <2>2 DEF FoldersInv, ModelsKept, SummaryTypes
  <2>4. Told(s) \in Sums
    BY <2>1, <2>2 DEF Sums
  <2>5. s.name = p
    BY <2>3 DEF IsSummary
  <2>6. /\ cache' = [q \in ModelPaths |-> cache'[q]] /\ cache'[p] = s
        /\ \A q \in ModelPaths \ {p} : cache'[q] = cache[q]
    BY <2>1, <2>2, <2>5 DEF FoldersInv, ModelsKept, SummaryTypes
  <2>7. SummaryTypes'
    <3>1. \A q \in ModelPaths : cache'[q] # None => IsSummary(cache'[q], q)
      BY <2>3, <2>6 DEF FoldersInv, ModelsKept, SummaryTypes
    <3>2. \A q \in ModelPaths : cache'[q] # None => IsSummary(cache[q], q)'
      BY <3>1 DEF IsSummary
    <3> QED BY <2>1, <2>6, <3>2 DEF SummaryTypes
  <2>8. \A x \in {cache'[q] : q \in ModelPaths} \cup {bulk'} : x = None \/ Told(x) \in Sums
    BY <2>1, <2>4, <2>6 DEF Sums
  <2> QED BY <1>1, <2>1, <2>7, <2>8, SummariesChange DEF FoldersInv
<1> QED BY <1>2, <1>3

(* People edit files and make folders. *)
LEMMA ClerksSeePeople ==
    ASSUME FoldersInv, acts' = acts + 1, UNCHANGED <<owner, clerk>>, DOMAIN models \subseteq DOMAIN models',
           \A q \in DOMAIN models :
               /\ models'[q].id = models[q].id /\ models'[q].inner = models[q].inner
               /\ DOMAIN models'[q].files \subseteq DOMAIN models[q].files
               /\ \A n \in DOMAIN models'[q].files :
                   models'[q].files[n] \in {models[q].files[n], <<"edit", acts'>>},
           \A q \in DOMAIN models' \ DOMAIN models : DOMAIN models'[q].files \subseteq {"MOD_SUM"}
    PROVE  ClerksKnow'
<1>1. acts \in Nat /\ Shelf \in DOMAIN models
  BY DEF FoldersInv, ModelsKept, FolderTypes
<1>2. Seen \subseteq Seen' /\ <<"edit", acts'>> \notin Seen
  <2>1. acts' \notin 1 .. acts /\ acts' # 0
    BY <1>1
  <2>2. <<"edit", acts'>> \notin Seen
    BY <2>1 DEF Seen
  <2> QED BY <1>1, <2>2, SeenStays
<1>3. SUFFICES ASSUME NEW d \in Clerks, clerk[d].pc \in Guarding PROVE Sees(d)'
  BY DEF FoldersInv, ClerksKnow
<1>4. Sees(d) /\ Job(d)' = Job(d) /\ \A pc : Doing(d, pc)' = Doing(d, pc)
  BY <1>3 DEF FoldersInv, ClerksKnow, Job, Doing
<1>5. ASSUME Copying(d) PROVE Copying(d)'
  <2>1. There(Job(d).from) /\ (There(Job(d).from))'
    BY <1>4, <1>5 DEF Copying, There
  <2>2. \A x : PlaceOf(d, x)' = PlaceOf(d, x) /\ PlaceOf(d, x) \in DOMAIN models
    BY <1>1, <1>4, <2>1 DEF PlaceOf, There
  <2>3. \A x : ~Present(d, x) => ~Present(d, x)'
    <3>1. ASSUME NEW x, NEW p, p = PlaceOf(d, x), NEW n, n = x[2], ~Present(d, x) PROVE ~Present(d, x)'
      BY <2>2, <3>1 DEF Present, Has, There
    <3> QED BY <3>1
  <2>4. \A x : \A v \in Seen : VersionOf(d, x) # v => ~Present(d, x)' \/ VersionOf(d, x)' # v
    <3>1. ASSUME NEW x, NEW v \in Seen, NEW p, p = PlaceOf(d, x), NEW n, n = x[2], VersionOf(d, x) # v, Present(d, x)'
          PROVE  VersionOf(d, x)' # v
      <4>1. n \in DOMAIN models'[p].files /\ p \in DOMAIN models
        BY <2>2, <3>1 DEF Present, Has
      <4>2. VersionOf(d, x)' = models'[p].files[n] /\ VersionOf(d, x) = models[p].files[n]
        BY <2>2, <3>1 DEF VersionOf
      <4> QED BY <1>2, <3>1, <4>1, <4>2
    <3> QED BY <3>1
  <2>5. PICK r : r = clerk[d]
    OBVIOUS
  <2>6. clerk'[d] = r /\ \A x \in DOMAIN r.snap : r.snap[x] \in Seen
    BY <1>5, <2>5 DEF Copying
  <2>7. Doing(d, "copy") => \A x \in DOMAIN r.staged :
            \/ r.staged[x] = r.snap[x]
            \/ ~Present(d, r.plan.entries[x])'
            \/ (VersionOf(d, r.plan.entries[x]))' # r.snap[x]
    <3>1. SUFFICES ASSUME Doing(d, "copy"), NEW x \in DOMAIN r.staged, r.staged[x] # r.snap[x]
                   PROVE  ~Present(d, r.plan.entries[x])' \/ (VersionOf(d, r.plan.entries[x]))' # r.snap[x]
      OBVIOUS
    <3>2. ~Present(d, r.plan.entries[x]) \/ VersionOf(d, r.plan.entries[x]) # r.snap[x]
      BY <1>5, <2>5, <3>1 DEF Copying
    <3>3. x \in DOMAIN r.snap
      BY <1>5, <2>5, <3>1 DEF Copying
    <3> QED BY <2>3, <2>4, <2>6, <3>2, <3>3
  <2> QED BY <1>2, <1>4, <1>5, <2>1, <2>5, <2>6, <2>7 DEF Copying
<1>6. ASSUME Moving(d) PROVE Moving(d)'
  BY <1>4, <1>6 DEF Moving, There
<1>7. ASSUME Doing(d, "clean")
      PROVE  (There(Job(d).from))' /\ \A k \in Nat : (models[Job(d).from].id)' # <<"user", k>>
  BY <1>4, <1>7 DEF Sees, There
<1> QED BY <1>4, <1>5, <1>6, <1>7 DEF Sees, Doing

LEMMA EditFileStep ==
    ASSUME FoldersInv, EditFile
    PROVE  FoldersInv'
<1>1. acts' = acts + 1 /\ UNCHANGED <<owner, clerk, cache, bulk, ids>>
  BY DEF EditFile, Acts
<1>2. PICK p \in DOMAIN models, n \in FileNames :
        /\ Has(p, n)
        /\ \/ models' = [models EXCEPT ![p].files[n] = <<"edit", acts'>>] /\ UNCHANGED gone
           \/ models' = [models EXCEPT ![p].files = Without(@, n)] /\ gone' = gone \cup {<<models[p].id, n>>}
  BY DEF EditFile
<1>3. /\ models = [q \in DOMAIN models |-> models[q]] /\ IsFolder(models[p]) /\ acts \in Nat /\ ids \in Nat
      /\ n \in DOMAIN models[p].files
  BY <1>2 DEF FoldersInv, ModelsKept, FolderTypes, Has
<1>4. PICK new : new = <<"edit", acts'>>
  OBVIOUS
<1>5. PICK files : files = IF gone' = gone /\ models' = [models EXCEPT ![p].files[n] = new]
                           THEN [models[p].files EXCEPT ![n] = new] ELSE Without(models[p].files, n)
  OBVIOUS
<1>6. PICK f : f = [models[p] EXCEPT !.files = files]
  OBVIOUS
<1>7. models' = [models EXCEPT ![p] = f]
  BY <1>2, <1>3, <1>4, <1>5, <1>6 DEF IsFolder
<1>8. /\ f.id = models[p].id /\ f.files = files /\ f.inner = models[p].inner
      /\ f = [id |-> f.id, files |-> f.files, inner |-> f.inner, archive |-> f.archive]
  BY <1>3, <1>6 DEF IsFolder
<1>9. /\ DOMAIN files \subseteq DOMAIN models[p].files
      /\ \A m \in DOMAIN files : files[m] \in {models[p].files[m], new}
      /\ gone \subseteq gone'
      /\ \A m \in DOMAIN models[p].files \ DOMAIN files : <<models[p].id, m>> \in gone'
  BY <1>2, <1>4, <1>5 DEF Without
<1>10. Grows /\ Seen \subseteq Seen' /\ new \in Seen'
  <2>1. acts' \in 1 .. acts'
    BY <1>1, <1>3
  <2>2. new \in Seen'
    BY <1>4, <2>1 DEF Seen
  <2> QED BY <1>1, <1>3, <1>9, <2>2, SeenStays DEF Grows
<1>11. Named(f)'
  <2>1. Named(models[p])
    BY <1>3 DEF IsFolder
  <2>2. ASSUME NEW k \in Nat, f.id = <<"user", k>>
        PROVE  /\ k <= acts' /\ DOMAIN f.files \subseteq {"MOD_SUM"}
               /\ "MOD_SUM" \in DOMAIN f.files \/ <<f.id, "MOD_SUM">> \in gone'
    <3>1. /\ k <= acts /\ DOMAIN models[p].files \subseteq {"MOD_SUM"}
          /\ "MOD_SUM" \in DOMAIN models[p].files \/ <<f.id, "MOD_SUM">> \in gone
      BY <1>8, <2>1, <2>2 DEF Named
    <3>2. k <= acts'
      BY <1>1, <1>3, <3>1
    <3> QED BY <1>8, <1>9, <3>1, <3>2
  <2>3. \A k \in Nat : f.id = <<"copy", k>> => k < ids'
    BY <1>1, <1>8, <2>1 DEF Named
  <2> QED BY <2>2, <2>3 DEF Named
<1>12. IsFolder(f)'
  <2>1. \A m \in DOMAIN f.files : f.files[m] \in Seen'
    BY <1>3, <1>8, <1>9, <1>10 DEF IsFolder
  <2> QED BY <1>8, <1>11, <2>1 DEF IsFolder
<1>13. ModelsKept'
  <2>1. "MOD_SUM" \in DOMAIN f.files =>
               \/ f.files["MOD_SUM"] = models[p].files["MOD_SUM"]
               \/ acts' # acts /\ f.files["MOD_SUM"] = <<"edit", acts'>>
    BY <1>1, <1>3, <1>4, <1>8, <1>9
  <2>2. \A m \in DOMAIN models[p].files \ DOMAIN f.files : m \in Cleanable \/ <<f.id, m>> \in gone'
    BY <1>8, <1>9
  <2> QED BY <1>1, <1>7, <1>8, <1>9, <1>10, <1>12, <2>1, <2>2, FolderChanges DEF FoldersInv
<1>14. ClerksKnow'
  <2>1. DOMAIN models' = DOMAIN models /\ models'[p] = f /\ \A q \in DOMAIN models \ {p} : models'[q] = models[q]
    BY <1>3, <1>7
  <2>2. ASSUME NEW q \in DOMAIN models
        PROVE  /\ models'[q].id = models[q].id /\ models'[q].inner = models[q].inner
               /\ DOMAIN models'[q].files \subseteq DOMAIN models[q].files
               /\ \A m \in DOMAIN models'[q].files :
                   models'[q].files[m] \in {models[q].files[m], <<"edit", acts'>>}
    <3>1. CASE q = p
      BY <1>4, <1>8, <1>9, <2>1, <3>1
    <3>2. CASE q # p
      BY <2>1, <3>2
    <3> QED BY <3>1, <3>2
  <2> QED BY <1>1, <2>1, <2>2, ClerksSeePeople
<1> QED BY <1>13, <1>14 DEF FoldersInv

LEMMA MakeModelFolderStep ==
    ASSUME FoldersInv, MakeModelFolder
    PROVE  FoldersInv'
<1>1. acts' = acts + 1 /\ UNCHANGED <<owner, clerk, cache, bulk, ids, gone>>
  BY DEF MakeModelFolder, Acts
<1>2. PICK new : new = <<"edit", acts'>>
  OBVIOUS
<1>3. PICK p \in ModelPaths, f \in {Folder(None, <<>>), Folder(<<"user", acts'>>, [n \in {"MOD_SUM"} |-> new])} :
        ~There(p) /\ models' = With(models, p, f)
  BY <1>2 DEF MakeModelFolder
<1>4. models = [q \in DOMAIN models |-> models[q]] /\ acts \in Nat /\ ids \in Nat
  BY DEF FoldersInv, ModelsKept, FolderTypes
<1>5. Grows /\ new \in Seen'
  <2>1. acts' \in 1 .. acts'
    BY <1>1, <1>4
  <2>2. new \in Seen'
    BY <1>2, <2>1 DEF Seen
  <2> QED BY <1>1, <2>2 DEF Grows
<1>6. /\ f = [id |-> f.id, files |-> f.files, inner |-> f.inner, archive |-> f.archive] /\ f.inner = {}
      /\ \/ f.id = None /\ DOMAIN f.files = {}
         \/ f.id = <<"user", acts'>> /\ DOMAIN f.files = {"MOD_SUM"} /\ f.files["MOD_SUM"] = new
  BY <1>3 DEF Folder
<1>7. acts' \in Nat /\ acts # acts' /\ \A k \in Nat : None \notin {<<"user", k>>, <<"copy", k>>}
  <2>1. None \notin {"user", "copy"} \X Nat
    BY FoldersAssumption
  <2>2. \A k \in Nat : <<"user", k>> \in {"user", "copy"} \X Nat /\ <<"copy", k>> \in {"user", "copy"} \X Nat
    OBVIOUS
  <2> QED BY <1>1, <1>4, <2>1, <2>2
<1>8. Named(f)'
  BY <1>6, <1>7 DEF Named
<1>9. IsFolder(f)'
  BY <1>5, <1>6, <1>8 DEF IsFolder
<1>10. f.id = None \/ \A g \in All : g.id # f.id
  <2>1. \A g \in All : Named(g)
    BY AllFolders DEF IsFolder, FoldersInv, ModelsKept
  <2>2. ~(acts' <= acts)
    BY <1>1, <1>4
  <2>3. \A g : Named(g) => g.id # <<"user", acts'>>
    BY <1>7, <2>2 DEF Named
  <2> QED BY <1>6, <2>1, <2>3
<1>11. ModelsKept'
  BY <1>1, <1>2, <1>3, <1>5, <1>6, <1>7, <1>9, <1>10, FolderAppears DEF FoldersInv
<1>12. ClerksKnow'
  <2>1. DOMAIN models' = DOMAIN models \cup {p} /\ models'[p] = f /\ p \notin DOMAIN models
        /\ \A q \in DOMAIN models : models'[q] = models[q]
    BY <1>3 DEF With, There
  <2> QED BY <1>1, <1>6, <2>1, ClerksSeePeople
<1> QED BY <1>11, <1>12 DEF FoldersInv

LEMMA FoldersNextStep == FoldersInv /\ [FoldersNext]_folders => FoldersInv'
<1> SUFFICES ASSUME FoldersInv, [FoldersNext]_folders PROVE FoldersInv'
  OBVIOUS
<1>1. CASE UNCHANGED folders
  BY <1>1, ModelsStay, ClerksWait DEF folders, FoldersInv
<1>2. ASSUME NEW c \in Clerks, Guard(c) PROVE FoldersInv'
  BY <1>2, RejectedStep DEF Guard
<1>3. CASE \E c \in Clerks :
        \/ Begin(c) \/ Enter(c) \/ Guard(c) \/ Plan(c) \/ Copy(c) \/ VerifyCopy(c) \/ LookThere(c) \/ PublishCopy(c)
        \/ Rename(c) \/ Move(c) \/ Clean(c) \/ CleanOne(c) \/ Cleaned(c)
        \/ Forget(c) \/ Settle(c) \/ Relocate(c) \/ DropSummaries(c) \/ Recheck(c)
  BY <1>2, <1>3, BeginStep, EnterStep, PlanFolderStep, CopyStep, VerifyCopyStep, LookThereStep, PublishCopyStep,
     RenameStep, MoveStep, CleanStep, CleanOneStep, CleanedStep, SummarySteps
<1> QED BY <1>1, <1>3, BulkSteps, EditFileStep, MakeModelFolderStep DEF FoldersNext

LEMMA FoldersBegin == FoldersInit => FoldersInv
<1> SUFFICES ASSUME FoldersInit PROVE FoldersInv
  OBVIOUS
<1>1. /\ models = [p \in DOMAIN Initially |-> Folder(<<"at", p>>, [n \in Initially[p] |-> <<p, 0>>])]
      /\ acts = 0 /\ ids = 0 /\ bulk = None /\ cache = [p \in ModelPaths |-> None]
      /\ clerk = [c \in Clerks |-> Waiting]
  BY DEF FoldersInit
<1>2. DOMAIN models = DOMAIN Initially /\ Shelf \in DOMAIN Initially /\ DOMAIN Initially \subseteq ModelPaths \cup {Shelf}
  BY <1>1, FoldersAssumption
<1>3. ASSUME NEW p \in DOMAIN models
      PROVE  /\ models[p].id = <<"at", p>> /\ models[p].inner = {} /\ DOMAIN models[p].files = Initially[p]
             /\ \A n \in DOMAIN models[p].files : models[p].files[n] = <<p, 0>>
             /\ IsFolder(models[p])
  <2>1. PICK f : f = models[p]
    OBVIOUS
  <2>2. f = Folder(<<"at", p>>, [n \in Initially[p] |-> <<p, 0>>])
    BY <1>1, <1>2, <2>1
  <2>3. /\ f.id = <<"at", p>> /\ f.inner = {} /\ DOMAIN f.files = Initially[p]
        /\ \A n \in DOMAIN f.files : f.files[n] = <<p, 0>>
        /\ f = [id |-> f.id, files |-> f.files, inner |-> f.inner, archive |-> f.archive]
    BY <2>2 DEF Folder
  <2>4. <<p, 0>> \in Seen
    BY <1>2 DEF Seen
  <2>5. Named(f)
    BY <2>3 DEF Named
  <2> QED BY <2>1, <2>3, <2>4, <2>5 DEF IsFolder
<1>4. FolderTypes
  BY <1>1, <1>2, <1>3 DEF FolderTypes
<1>5. \A p \in ModelPaths : \A f \in Under(p) : p \in DOMAIN models /\ f = models[p]
  BY <1>3 DEF Under, There
<1>6. Placed
  <2>1. SUFFICES ASSUME NEW p \in DOMAIN Initially \ {Shelf}
                 PROVE  \E f \in All : /\ f.id = <<"at", p>>
                                       /\ \A n \in Initially[p] \ Cleanable : n \in DOMAIN f.files \/ <<f.id, n>> \in gone
    BY DEF Placed
  <2>2. p \in ModelPaths /\ p \in DOMAIN models
    BY <1>2
  <2>3. models[p] \in All
    BY <2>2 DEF All, Under, There
  <2> QED BY <1>3, <2>2, <2>3
<1>7. Apart
  BY <1>3, <1>5 DEF Apart
<1>8. SumsTell
  <2>1. ASSUME NEW x \in Sums PROVE \E p \in DOMAIN models : x = <<<<p, 0>>, <<"at", p>>>>
    <3>1. PICK f \in All : "MOD_SUM" \in DOMAIN f.files /\ x = SumOf(f)
      BY <1>1 DEF Sums
    <3>2. PICK p \in DOMAIN models : f = models[p]
      BY <1>5 DEF All
    <3> QED BY <1>3, <3>1, <3>2 DEF SumOf
  <2>2. \A p \in DOMAIN models : <<p, 0>> \in Seen
    BY <1>2 DEF Seen
  <2> QED BY <2>1, <2>2 DEF SumsTell
<1>9. SummaryTypes
  BY <1>1 DEF SummaryTypes
<1>10. ClerksKnow
  <2>1. PICK r : r = Waiting
    OBVIOUS
  <2>2. IsClerk(r) /\ r.pc \notin Guarding
    BY <2>1 DEF Waiting, Doer, IsClerk, Guarding, Kind
  <2> QED BY <1>1, <2>1, <2>2 DEF ClerksKnow
<1> QED BY <1>4, <1>6, <1>7, <1>8, <1>9, <1>10 DEF FoldersInv, ModelsKept

LEMMA FoldersInvEnough == FoldersInv => FoldersTrue
<1> SUFFICES ASSUME FoldersInv PROVE FoldersTrue
  OBVIOUS
<1>1. \A f \in All : Named(f)
  BY AllFolders DEF IsFolder, FoldersInv, ModelsKept
<1>2. NothingMislaid
  <2>1. \A k \in 1 .. acts : k \in Nat
    BY DEF FoldersInv, ModelsKept, FolderTypes
  <2>2. \A k \in 1 .. acts : \A f \in All : f.id = <<"user", k>> =>
            "MOD_SUM" \in DOMAIN f.files \/ <<f.id, "MOD_SUM">> \in gone
    BY <1>1, <2>1 DEF Named
  <2> QED BY <2>2 DEF NothingMislaid, Placed, Apart, FoldersInv, ModelsKept
<1>3. CopyOfOneMoment
  BY DEF CopyOfOneMoment, Doing, FoldersInv, ClerksKnow, IsClerk
<1>4. CleanupAccounted
  BY DEF CleanupAccounted, Job, FoldersInv, ClerksKnow, IsClerk
<1>5. CacheTrue
  <2>1. SUFFICES ASSUME NEW p \in ModelPaths, cache[p] # None
                 PROVE  /\ cache[p].name = p
                        /\ Complete(p) => (cache[p].stamp = Stamp(p) => cache[p].id = models[p].id)
    BY DEF CacheTrue
  <2>2. cache[p].name = p /\ Told(cache[p]) \in Sums
    BY <2>1 DEF FoldersInv, ModelsKept, SummaryTypes, IsSummary, Sums
  <2>3. ASSUME Complete(p), cache[p].stamp = Stamp(p) PROVE cache[p].id = models[p].id
    <3>1. models[p] \in All /\ "MOD_SUM" \in DOMAIN models[p].files
      BY <2>3 DEF Complete, Has, There, All, Under
    <3>2. SumOf(models[p]) \in Sums
      BY <3>1 DEF Sums
    <3>3. Told(cache[p])[1] = SumOf(models[p])[1]
      BY <2>3 DEF Told, SumOf, Stamp
    <3>4. Told(cache[p])[2] = SumOf(models[p])[2]
      BY <2>2, <3>2, <3>3 DEF FoldersInv, ModelsKept, SumsTell
    <3> QED BY <3>4 DEF Told, SumOf
  <2> QED BY <2>2, <2>3
<1> QED BY <1>2, <1>3, <1>4, <1>5 DEF FoldersTrue

\* However many clerks copy, rename and clean models while people edit them and summaries
\* are cached: no model is mislaid, a copy is of one moment, cleanups account for every name,
\* and a current summary is of the model at its path.
THEOREM FoldersAreTrue == FoldersInit /\ [][FoldersNext]_folders => []FoldersTrue
BY FoldersBegin, FoldersNextStep, FoldersInvEnough, PTL

-----------------------------------------------------------------------------
(* Imported grids.                                                         *)

ModelTables == SUBSET STRING
HiddenFolders == [whole : ModelTables, open : ModelTables, table : ModelTables, manifest : ModelTables]
Tasks == Seq(STRING) \ {<<>>}
InTasks(todo) == UNION {Range(task) : task \in todo}
\* The models of the batches up to n.
UpTo(p, n) == UNION {InTasks(Batches[p][i]) : i \in 1 .. n}
Written == {"table", "manifest", "look", "publish"}
ImporterTypes(r) ==
    /\ r = [pc |-> r.pc, batch |-> r.batch, todo |-> r.todo, begun |-> r.begun, failed |-> r.failed, rows |-> r.rows]
    /\ r.pc \in Written \cup {"check", "convert", "cleanup", "done", "failed", "killed"}
    /\ r.rows \in ModelTables /\ r.todo \in SUBSET Tasks
\* What an importer, r, has made of its hidden folder s.
Converting(p, r, s) ==
    /\ r.batch \in 1 .. Len(Batches[p]) /\ s \in HiddenFolders
    /\ ~r.failed => /\ r.rows \cup InTasks(r.todo) = UpTo(p, r.batch)
                    /\ s.whole = r.rows /\ s.open \subseteq {Head(task) : task \in r.todo}
Writing(p, r, s) ==
    /\ s \in HiddenFolders /\ r.rows = ModelsOf(p)
    /\ s.whole = r.rows /\ s.open = {}
    /\ r.pc # "table" => s.table = r.rows
    /\ r.pc \in {"look", "publish"} => s.manifest = r.rows
IsImporter(p, r, s) ==
    /\ ImporterTypes(r)
    /\ r.pc = "check" => r = Unstarted /\ s = NoFolder
    /\ r.pc = "convert" => Converting(p, r, s)
    /\ r.pc \in Written => Writing(p, r, s)
    /\ r.pc \in {"done", "failed"} => s = NoFolder
InPlace(f) == \E p \in Importers :
    /\ Importing(p, "done")
    /\ f = [whole |-> ModelsOf(p), open |-> {}, table |-> ModelsOf(p), manifest |-> ModelsOf(p)]
ImportsInv ==
    /\ imports = [p \in Importers |-> imports[p]] /\ staging = [p \in Importers |-> staging[p]]
    /\ \A p \in Importers : IsImporter(p, imports[p], staging[p])
    /\ IF output \in {NoFolder, Vacant} THEN first = NoFolder ELSE output = first
    /\ output \notin {NoFolder, Vacant, Foreign} => InPlace(output)

\* The models are in the tasks that are handed out.
LEMMA TasksHold ==
    ASSUME NEW p \in Importers
    PROVE  /\ Len(Batches[p]) \in Nat \ {0} /\ ModelsOf(p) = UpTo(p, Len(Batches[p]))
           /\ \A i \in 1 .. Len(Batches[p]) : Batches[p][i] \subseteq Tasks
           /\ ModelsOf(p) \in ModelTables
<1>1. PICK T : T = SUBSET Tasks
  OBVIOUS
<1>2. PICK b \in Seq(T) : b = Batches[p] /\ b # <<>>
  BY <1>1, ImportAssumption DEF Tasks
<1>3. Len(b) \in Nat \ {0} /\ DOMAIN b = 1 .. Len(b) /\ \A i \in 1 .. Len(b) : b[i] \subseteq Tasks
  BY <1>1, <1>2
<1>4. Range(b) = {b[i] : i \in 1 .. Len(b)}
  BY <1>3 DEF Range
<1>5. ModelsOf(p) = UpTo(p, Len(b))
  BY <1>2, <1>4 DEF ModelsOf, UpTo, InTasks
<1>6. \A task \in Tasks : Range(task) \subseteq STRING
  BY DEF Range, Tasks
<1>7. ModelsOf(p) \in ModelTables
  BY <1>2, <1>3, <1>5, <1>6 DEF UpTo, InTasks, ModelTables
<1> QED BY <1>2, <1>3, <1>5, <1>7

LEMMA UpToNext ==
    ASSUME NEW p \in Importers, NEW n \in Nat
    PROVE  UpTo(p, n + 1) = UpTo(p, n) \cup InTasks(Batches[p][n + 1])
<1>1. 1 .. n + 1 = (1 .. n) \cup {n + 1}
  OBVIOUS
<1> QED BY <1>1 DEF UpTo

LEMMA TaskFacts ==
    ASSUME NEW task \in Tasks
    PROVE  /\ Head(task) \in STRING /\ Tail(task) \in Seq(STRING)
           /\ Range(task) = {Head(task)} \cup Range(Tail(task))
           /\ IF Len(task) = 1 THEN Range(Tail(task)) = {} ELSE Tail(task) \in Tasks
<1>1. task \in Seq(STRING) /\ task # <<>>
  BY DEF Tasks
<1>2. Range(<<>>) = {}
  BY DEF Range
<1>3. /\ Head(task) \in STRING /\ Tail(task) \in Seq(STRING) /\ Range(task) = {Head(task)} \cup Range(Tail(task))
      /\ Len(task) = 1 <=> Tail(task) = <<>>
  BY <1>1, TailFacts
<1> QED BY <1>2, <1>3 DEF Tasks

\* One importer goes on, by itself.
LEMMA ImporterGoesOn ==
    ASSUME ImportsInv, NEW p \in Importers, NEW r, NEW s,
           imports' = [imports EXCEPT ![p] = r], staging' = [staging EXCEPT ![p] = s],
           IsImporter(p, r, s), UNCHANGED <<output, first>>, imports[p].pc # "done"
    PROVE  ImportsInv'
<1>1. /\ imports' = [q \in Importers |-> imports'[q]] /\ staging' = [q \in Importers |-> staging'[q]]
      /\ imports'[p] = r /\ staging'[p] = s
      /\ \A q \in Importers \ {p} : imports'[q] = imports[q] /\ staging'[q] = staging[q]
  BY DEF ImportsInv
<1>2. \A f : InPlace(f) => InPlace(f)'
  BY <1>1 DEF InPlace, Importing
<1>3. \A q \in Importers : IsImporter(q, imports'[q], staging'[q])
  BY <1>1 DEF ImportsInv
<1>4. \A q \in Importers : IsImporter(q, imports[q], staging[q])'
  BY <1>3 DEF IsImporter, ImporterTypes, Converting, Writing, UpTo, ModelsOf
<1> QED BY <1>1, <1>2, <1>4 DEF ImportsInv

LEMMA ImporterTurns ==
    ASSUME ImportsInv, NEW p \in Importers, NEW r, imports' = [imports EXCEPT ![p] = r],
           IsImporter(p, r, staging[p]), UNCHANGED <<output, staging, first>>, imports[p].pc # "done"
    PROVE  ImportsInv'
<1>1. PICK s : s = staging[p]
  OBVIOUS
<1>2. staging' = [staging EXCEPT ![p] = s]
  BY <1>1 DEF ImportsInv
<1> QED BY <1>1, <1>2, ImporterGoesOn

LEMMA RefuseStep ==
    ASSUME ImportsInv, NEW p \in Importers, Refuse(p)
    PROVE  ImportsInv'
<1>1. PICK r : r = [imports[p] EXCEPT !.pc = "failed"]
  OBVIOUS
<1>2. imports[p].pc = "check" /\ imports' = [imports EXCEPT ![p] = r] /\ IsImporter(p, imports[p], staging[p])
  BY <1>1 DEF Refuse, Importing, Proceeds, ImportsInv
<1>3. IsImporter(p, r, staging[p])
  BY <1>1, <1>2 DEF IsImporter, ImporterTypes, Written
<1> QED BY <1>2, <1>3, ImporterTurns DEF Refuse

LEMMA MakeStagingStep ==
    ASSUME ImportsInv, NEW p \in Importers, MakeStaging(p)
    PROVE  ImportsInv'
<1>1. PICK r : r = [imports[p] EXCEPT !.pc = "convert", !.todo = Batch(p)]
  OBVIOUS
<1>2. /\ imports[p].pc = "check" /\ imports' = [imports EXCEPT ![p] = r] /\ IsImporter(p, imports[p], staging[p])
      /\ staging' = [staging EXCEPT ![p] = Hidden]
  BY <1>1 DEF MakeStaging, Importing, ImportsInv
<1>3. imports[p] = Unstarted
  BY <1>2 DEF IsImporter
<1>4. r = [Unstarted EXCEPT !.pc = "convert", !.todo = Batches[p][1]]
  BY <1>1, <1>3 DEF Batch, Unstarted
<1>5. /\ r.pc = "convert" /\ r.batch = 1 /\ r.todo = Batches[p][1] /\ r.failed = FALSE /\ r.rows = {}
      /\ r = [pc |-> r.pc, batch |-> r.batch, todo |-> r.todo, begun |-> r.begun, failed |-> r.failed, rows |-> r.rows]
  BY <1>4 DEF Unstarted
<1>6. r.todo \subseteq Tasks /\ 1 \in 1 .. Len(Batches[p])
  BY <1>5, TasksHold
<1>7. InTasks(r.todo) = UpTo(p, 1)
  <2>1. 1 .. 1 = {1}
    OBVIOUS
  <2> QED BY <1>5, <2>1 DEF UpTo
<1>8. Converting(p, r, Hidden)
  BY <1>5, <1>6, <1>7 DEF Converting, Hidden, HiddenFolders, ModelTables
<1>9. IsImporter(p, r, Hidden)
  BY <1>5, <1>6, <1>8 DEF IsImporter, ImporterTypes, Written, ModelTables
<1>10. UNCHANGED <<output, first>>
  BY DEF MakeStaging
<1> QED BY <1>2, <1>9, <1>10, ImporterGoesOn

LEMMA OpenFileStep ==
    ASSUME ImportsInv, NEW p \in Importers, NEW task, OpenFile(p, task)
    PROVE  ImportsInv'
<1>1. PICK r : r = [imports[p] EXCEPT !.begun = @ \cup {Head(task)}]
  OBVIOUS
<1>2. PICK s : s = [staging[p] EXCEPT !.open = @ \cup {Head(task)}]
  OBVIOUS
<1>3. /\ imports[p].pc = "convert" /\ imports' = [imports EXCEPT ![p] = r] /\ IsImporter(p, imports[p], staging[p])
      /\ staging' = [staging EXCEPT ![p] = s] /\ task \in imports[p].todo
  BY <1>1, <1>2 DEF OpenFile, Importing, ImportsInv
<1>4. Converting(p, imports[p], staging[p]) /\ ImporterTypes(imports[p])
  BY <1>3 DEF IsImporter
<1>5. /\ r.pc = "convert" /\ r.batch = imports[p].batch /\ r.todo = imports[p].todo /\ r.failed = imports[p].failed
      /\ r.rows = imports[p].rows
      /\ r = [pc |-> r.pc, batch |-> r.batch, todo |-> r.todo, begun |-> r.begun, failed |-> r.failed, rows |-> r.rows]
  BY <1>1, <1>3, <1>4 DEF ImporterTypes
<1>6. Head(task) \in STRING
  BY <1>3, <1>4, TaskFacts DEF ImporterTypes
<1>7. s \in HiddenFolders /\ s.whole = staging[p].whole /\ s.open = staging[p].open \cup {Head(task)}
  BY <1>2, <1>4, <1>6 DEF Converting, HiddenFolders, ModelTables
<1>8. Converting(p, r, s)
  BY <1>3, <1>4, <1>5, <1>7 DEF Converting
<1>9. IsImporter(p, r, s)
  BY <1>4, <1>5, <1>8 DEF IsImporter, ImporterTypes, Written
<1> QED BY <1>3, <1>9, ImporterGoesOn DEF OpenFile

LEMMA CloseFileStep ==
    ASSUME ImportsInv, NEW p \in Importers, NEW task, CloseFile(p, task)
    PROVE  ImportsInv'
<1>1. PICK todo : todo = (imports[p].todo \ {task}) \cup (IF Len(task) = 1 THEN {} ELSE {Tail(task)})
  OBVIOUS
<1>2. PICK r : r = [imports[p] EXCEPT !.todo = todo, !.rows = @ \cup {Head(task)}]
  OBVIOUS
<1>3. PICK s : s = [staging[p] EXCEPT !.open = @ \ {Head(task)}, !.whole = @ \cup {Head(task)}]
  OBVIOUS
<1>4. /\ imports[p].pc = "convert" /\ imports' = [imports EXCEPT ![p] = r] /\ IsImporter(p, imports[p], staging[p])
      /\ task \in imports[p].todo
  BY <1>1, <1>2 DEF CloseFile, Importing, ImportsInv
<1>5. staging' = [staging EXCEPT ![p] = s]
  BY <1>3 DEF CloseFile, ImportsInv
<1>6. Converting(p, imports[p], staging[p]) /\ ImporterTypes(imports[p])
  BY <1>4 DEF IsImporter
<1>7. /\ r.pc = "convert" /\ r.batch = imports[p].batch /\ r.todo = todo /\ r.failed = imports[p].failed
      /\ r.rows = imports[p].rows \cup {Head(task)}
      /\ r = [pc |-> r.pc, batch |-> r.batch, todo |-> r.todo, begun |-> r.begun, failed |-> r.failed, rows |-> r.rows]
  BY <1>2, <1>4, <1>6 DEF ImporterTypes
<1>8. task \in Tasks
  BY <1>4, <1>6 DEF ImporterTypes
<1>9. /\ Head(task) \in STRING /\ Range(task) = {Head(task)} \cup Range(Tail(task))
      /\ IF Len(task) = 1 THEN Range(Tail(task)) = {} ELSE Tail(task) \in Tasks
  BY <1>8, TaskFacts
<1>10. s \in HiddenFolders /\ s.whole = staging[p].whole \cup {Head(task)} /\ s.open = staging[p].open \ {Head(task)}
  BY <1>3, <1>6, <1>9 DEF Converting, HiddenFolders, ModelTables
<1>11. r.rows \cup InTasks(todo) = imports[p].rows \cup InTasks(imports[p].todo)
  <2>1. imports[p].todo = (imports[p].todo \ {task}) \cup {task}
    BY <1>4
  <2>2. InTasks(imports[p].todo) = InTasks(imports[p].todo \ {task}) \cup Range(task)
    BY <2>1 DEF InTasks
  <2>3. InTasks(todo) = InTasks(imports[p].todo \ {task}) \cup Range(Tail(task))
    BY <1>1, <1>9 DEF InTasks
  <2> QED BY <1>7, <1>9, <2>2, <2>3
<1>12. staging[p].open \subseteq {Head(t) : t \in imports[p].todo} => s.open \subseteq {Head(t) : t \in todo}
  BY <1>1, <1>10
<1>13. Converting(p, r, s)
  BY <1>6, <1>7, <1>10, <1>11, <1>12 DEF Converting
<1>14. todo \subseteq Tasks /\ r.rows \in ModelTables
  BY <1>1, <1>6, <1>7, <1>9 DEF ImporterTypes, ModelTables
<1>15. IsImporter(p, r, s)
  BY <1>7, <1>13, <1>14 DEF IsImporter, ImporterTypes, Written
<1> QED BY <1>4, <1>5, <1>15, ImporterGoesOn DEF CloseFile

LEMMA TaskEndsStep ==
    ASSUME ImportsInv, NEW p \in Importers, NEW task, Fails(p, task) \/ Withdraw(p, task)
    PROVE  ImportsInv'
<1>1. PICK r : r = [imports[p] EXCEPT !.todo = @ \ {task}, !.failed = TRUE]
  OBVIOUS
<1>2. imports[p].pc = "convert" /\ IsImporter(p, imports[p], staging[p]) /\ imports = [q \in Importers |-> imports[q]]
  BY DEF Fails, Withdraw, Importing, ImportsInv
<1>3. Converting(p, imports[p], staging[p]) /\ ImporterTypes(imports[p])
  BY <1>2 DEF IsImporter
<1>4. imports' = [imports EXCEPT ![p] = r]
  <2>1. CASE Fails(p, task)
    BY <1>1, <1>2, <2>1 DEF Fails
  <2>2. CASE Withdraw(p, task)
    <3>1. imports[p].failed
      BY <2>2 DEF Withdraw
    <3>2. PICK old : old = imports[p]
      OBVIOUS
    <3>3. r = [old EXCEPT !.todo = @ \ {task}, !.failed = TRUE]
      BY <1>1, <3>2
    <3>4. PICK new : new = [old EXCEPT !.todo = @ \ {task}]
      OBVIOUS
    <3>5. imports' = [imports EXCEPT ![p] = new]
      BY <2>2, <3>2, <3>4 DEF Withdraw
    <3> QED BY <1>3, <3>1, <3>2, <3>3, <3>4, <3>5 DEF ImporterTypes
  <2> QED BY <2>1, <2>2
<1>5. /\ r.pc = "convert" /\ r.batch = imports[p].batch /\ r.todo = imports[p].todo \ {task} /\ r.failed
      /\ r.rows = imports[p].rows
      /\ r = [pc |-> r.pc, batch |-> r.batch, todo |-> r.todo, begun |-> r.begun, failed |-> r.failed, rows |-> r.rows]
  BY <1>1, <1>2, <1>3 DEF ImporterTypes
<1>6. Converting(p, r, staging[p])
  BY <1>3, <1>5 DEF Converting
<1>7. IsImporter(p, r, staging[p])
  BY <1>3, <1>5, <1>6 DEF IsImporter, ImporterTypes, Written
<1>8. UNCHANGED <<output, staging, first>>
  BY DEF Fails, Withdraw
<1> QED BY <1>2, <1>4, <1>7, <1>8, ImporterTurns

LEMMA EndBatchStep ==
    ASSUME ImportsInv, NEW p \in Importers, EndBatch(p)
    PROVE  ImportsInv'
<1>1. /\ imports[p].pc = "convert" /\ IsImporter(p, imports[p], staging[p]) /\ imports[p].todo = {}
      /\ UNCHANGED <<output, staging, first>>
  BY DEF EndBatch, Importing, ImportsInv
<1>2. Converting(p, imports[p], staging[p]) /\ ImporterTypes(imports[p])
  BY <1>1 DEF IsImporter
<1>3. InTasks({}) = {}
  BY DEF InTasks
<1>4. CASE imports[p].failed
  <2>1. PICK r : r = [imports[p] EXCEPT !.pc = "cleanup"]
    OBVIOUS
  <2>2. imports' = [imports EXCEPT ![p] = r]
    BY <1>4, <2>1 DEF EndBatch, AnyFailed, Proceeds
  <2>3. IsImporter(p, r, staging[p])
    BY <1>2, <2>1 DEF IsImporter, ImporterTypes, Written
  <2> QED BY <1>1, <2>2, <2>3, ImporterTurns
<1>5. CASE ~imports[p].failed /\ imports[p].batch < Len(Batches[p])
  <2>1. PICK r : r = [imports[p] EXCEPT !.batch = @ + 1, !.todo = Batches[p][imports[p].batch + 1]]
    OBVIOUS
  <2>2. imports' = [imports EXCEPT ![p] = r]
    BY <1>5, <2>1 DEF EndBatch, AnyFailed
  <2>3. /\ r.pc = "convert" /\ r.batch = imports[p].batch + 1 /\ r.todo = Batches[p][imports[p].batch + 1]
        /\ r.failed = imports[p].failed /\ r.rows = imports[p].rows
        /\ r = [pc |-> r.pc, batch |-> r.batch, todo |-> r.todo, begun |-> r.begun, failed |-> r.failed, rows |-> r.rows]
    BY <1>1, <1>2, <2>1 DEF ImporterTypes
  <2>4. r.batch \in 1 .. Len(Batches[p]) /\ imports[p].batch \in Nat
    BY <1>2, <1>5, <2>3, TasksHold DEF Converting
  <2>5. r.todo \subseteq Tasks
    BY <2>3, <2>4, TasksHold
  <2>6. r.rows \cup InTasks(r.todo) = UpTo(p, r.batch) /\ staging[p].whole = r.rows /\ staging[p].open = {}
    BY <1>1, <1>2, <1>3, <1>5, <2>3, <2>4, UpToNext DEF Converting
  <2>7. Converting(p, r, staging[p])
    BY <1>2, <2>4, <2>6 DEF Converting
  <2>8. IsImporter(p, r, staging[p])
    BY <1>2, <2>3, <2>5, <2>7 DEF IsImporter, ImporterTypes, Written
  <2> QED BY <1>1, <2>2, <2>8, ImporterTurns
<1>6. CASE ~imports[p].failed /\ ~(imports[p].batch < Len(Batches[p]))
  <2>1. PICK r : r = [imports[p] EXCEPT !.pc = "table"]
    OBVIOUS
  <2>2. imports' = [imports EXCEPT ![p] = r]
    BY <1>6, <2>1 DEF EndBatch, AnyFailed, Proceeds
  <2>3. imports[p].batch = Len(Batches[p])
    BY <1>2, <1>6, TasksHold DEF Converting
  <2>4. imports[p].rows = ModelsOf(p) /\ staging[p].whole = imports[p].rows /\ staging[p].open = {}
    BY <1>1, <1>2, <1>3, <1>6, <2>3, TasksHold DEF Converting
  <2>5. r.pc = "table" /\ r.rows = imports[p].rows /\ ImporterTypes(r)
    BY <1>2, <2>1 DEF ImporterTypes, Written
  <2>6. Writing(p, r, staging[p])
    BY <1>2, <2>4, <2>5 DEF Writing, Converting
  <2>7. IsImporter(p, r, staging[p])
    BY <2>5, <2>6 DEF IsImporter, Written
  <2> QED BY <1>1, <2>2, <2>7, ImporterTurns
<1> QED BY <1>4, <1>5, <1>6

LEMMA WritingSteps ==
    ASSUME ImportsInv, NEW p \in Importers, WriteTable(p) \/ WriteGridManifest(p) \/ WritingFails(p) \/ LookAgain(p)
    PROVE  ImportsInv'
<1>1. imports[p].pc \in Written /\ IsImporter(p, imports[p], staging[p]) /\ UNCHANGED <<output, first>>
  BY DEF WriteTable, WriteGridManifest, WritingFails, LookAgain, Importing, Written, ImportsInv
<1>2. Writing(p, imports[p], staging[p]) /\ ImporterTypes(imports[p]) /\ imports[p].rows \in ModelTables
  BY <1>1 DEF IsImporter, ImporterTypes
<1>3. CASE WriteTable(p)
  <2>1. PICK r : r = [imports[p] EXCEPT !.pc = "manifest"]
    OBVIOUS
  <2>2. PICK s : s = [staging[p] EXCEPT !.table = imports[p].rows]
    OBVIOUS
  <2>3. imports' = [imports EXCEPT ![p] = r] /\ staging' = [staging EXCEPT ![p] = s]
    BY <1>3, <2>1, <2>2 DEF WriteTable, Proceeds, ImportsInv
  <2>4. r.pc = "manifest" /\ r.rows = imports[p].rows /\ ImporterTypes(r)
    BY <1>2, <2>1 DEF ImporterTypes, Written
  <2>5. s \in HiddenFolders /\ s.whole = staging[p].whole /\ s.open = staging[p].open /\ s.table = r.rows
    BY <1>2, <2>2, <2>4 DEF Writing, HiddenFolders
  <2>6. IsImporter(p, r, s)
    BY <1>2, <2>4, <2>5 DEF IsImporter, Writing, Written
  <2> QED BY <1>1, <2>3, <2>6, ImporterGoesOn DEF Written
<1>4. CASE WriteGridManifest(p)
  <2>1. PICK r : r = [imports[p] EXCEPT !.pc = "look"]
    OBVIOUS
  <2>2. PICK s : s = [staging[p] EXCEPT !.manifest = imports[p].rows]
    OBVIOUS
  <2>3. /\ imports' = [imports EXCEPT ![p] = r] /\ staging' = [staging EXCEPT ![p] = s]
        /\ imports[p].pc = "manifest"
    BY <1>4, <2>1, <2>2 DEF WriteGridManifest, Proceeds, Importing, ImportsInv
  <2>4. r.pc = "look" /\ r.rows = imports[p].rows /\ ImporterTypes(r)
    BY <1>2, <2>1 DEF ImporterTypes, Written
  <2>5. /\ s \in HiddenFolders /\ s.whole = staging[p].whole /\ s.open = staging[p].open
        /\ s.table = staging[p].table /\ s.manifest = r.rows
    BY <1>2, <2>2, <2>4 DEF Writing, HiddenFolders
  <2>6. IsImporter(p, r, s)
    BY <1>2, <2>3, <2>4, <2>5 DEF IsImporter, Writing, Written
  <2> QED BY <1>1, <2>3, <2>6, ImporterGoesOn DEF Written
<1>5. CASE WritingFails(p)
  <2>1. PICK r : r = [imports[p] EXCEPT !.pc = "cleanup"]
    OBVIOUS
  <2>2. imports' = [imports EXCEPT ![p] = r] /\ UNCHANGED staging
    BY <1>5, <2>1 DEF WritingFails, Proceeds
  <2>3. IsImporter(p, r, staging[p])
    BY <1>2, <2>1 DEF IsImporter, ImporterTypes, Written
  <2> QED BY <1>1, <2>2, <2>3, ImporterTurns DEF Written
<1>6. CASE LookAgain(p)
  <2>1. PICK pc \in {"publish", "cleanup"} : imports' = [imports EXCEPT ![p].pc = pc]
    BY <1>6 DEF LookAgain, Proceeds
  <2>2. PICK r : r = [imports[p] EXCEPT !.pc = pc]
    OBVIOUS
  <2>3. imports' = [imports EXCEPT ![p] = r] /\ UNCHANGED staging /\ imports[p].pc = "look"
    BY <1>6, <2>1, <2>2 DEF LookAgain, Importing
  <2>4. r.pc = pc /\ r.rows = imports[p].rows /\ ImporterTypes(r)
    BY <1>2, <2>2 DEF ImporterTypes, Written
  <2>5. IsImporter(p, r, staging[p])
    BY <1>2, <2>1, <2>3, <2>4 DEF IsImporter, Writing, Written
  <2> QED BY <1>1, <2>3, <2>5, ImporterTurns DEF Written
<1> QED BY <1>3, <1>4, <1>5, <1>6

LEMMA CleanupStep ==
    ASSUME ImportsInv, NEW p \in Importers, Cleanup(p)
    PROVE  ImportsInv'
<1>1. PICK r : r = [imports[p] EXCEPT !.pc = "failed"]
  OBVIOUS
<1>2. /\ imports[p].pc = "cleanup" /\ imports' = [imports EXCEPT ![p] = r] /\ IsImporter(p, imports[p], staging[p])
      /\ staging' = [staging EXCEPT ![p] = NoFolder]
  BY <1>1 DEF Cleanup, Proceeds, Importing, ImportsInv
<1>3. IsImporter(p, r, NoFolder)
  BY <1>1, <1>2 DEF IsImporter, ImporterTypes, Written
<1> QED BY <1>2, <1>3, ImporterGoesOn DEF Cleanup

LEMMA KillImportStep ==
    ASSUME ImportsInv, NEW p \in Importers, KillImport(p)
    PROVE  ImportsInv'
<1>1. PICK r : r = [imports[p] EXCEPT !.pc = "killed"]
  OBVIOUS
<1>2. imports[p].pc # "done" /\ imports' = [imports EXCEPT ![p] = r] /\ IsImporter(p, imports[p], staging[p])
  BY <1>1 DEF KillImport, Proceeds, ImportsInv
<1>3. IsImporter(p, r, staging[p])
  BY <1>1, <1>2 DEF IsImporter, ImporterTypes, Written
<1> QED BY <1>2, <1>3, ImporterTurns DEF KillImport

LEMMA PublishGridStep ==
    ASSUME ImportsInv, NEW p \in Importers, PublishGrid(p)
    PROVE  ImportsInv'
<1>1. imports[p].pc = "publish" /\ IsImporter(p, imports[p], staging[p])
  BY DEF PublishGrid, Importing, ImportsInv
<1>2. Writing(p, imports[p], staging[p]) /\ ImporterTypes(imports[p])
  BY <1>1 DEF IsImporter, Written
<1>3. CASE Replaceable
  <2>1. PICK r : r = [imports[p] EXCEPT !.pc = "done"]
    OBVIOUS
  <2>2. PICK f : f = staging[p]
    OBVIOUS
  <2>3. /\ imports' = [imports EXCEPT ![p] = r] /\ staging' = [staging EXCEPT ![p] = NoFolder] /\ output' = f
        /\ first' = IF first = NoFolder THEN f ELSE first
    BY <1>3, <2>1, <2>2 DEF PublishGrid, Proceeds
  <2>4. r.pc = "done" /\ IsImporter(p, r, NoFolder)
    BY <1>2, <2>1 DEF IsImporter, ImporterTypes, Written
  <2>5. /\ imports' = [q \in Importers |-> imports'[q]] /\ staging' = [q \in Importers |-> staging'[q]]
        /\ imports'[p] = r /\ staging'[p] = NoFolder
        /\ \A q \in Importers \ {p} : imports'[q] = imports[q] /\ staging'[q] = staging[q]
    BY <2>3 DEF ImportsInv
  <2>6. \A q \in Importers : IsImporter(q, imports'[q], staging'[q])
    BY <2>4, <2>5 DEF ImportsInv
  <2>7. \A q \in Importers : IsImporter(q, imports[q], staging[q])'
    BY <2>6 DEF IsImporter, ImporterTypes, Converting, Writing, UpTo, ModelsOf
  <2>8. f = [whole |-> ModelsOf(p), open |-> {}, table |-> ModelsOf(p), manifest |-> ModelsOf(p)]
    BY <1>1, <1>2, <2>2 DEF Writing, HiddenFolders
  <2>9. InPlace(f)'
    BY <2>4, <2>5, <2>8 DEF InPlace, Importing
  <2>10. f \notin {NoFolder, Vacant}
    BY <1>2, <2>2, ImportAssumption DEF Writing, HiddenFolders, ModelTables
  <2>11. first' = output' /\ output' \notin {NoFolder, Vacant}
    BY <1>3, <2>3, <2>10 DEF Replaceable, ImportsInv
  <2>12. InPlace(output)'
    BY <2>3, <2>9 DEF InPlace, Importing
  <2> QED BY <2>5, <2>7, <2>11, <2>12 DEF ImportsInv
<1>4. CASE ~Replaceable
  <2>1. PICK r : r = [imports[p] EXCEPT !.pc = "cleanup"]
    OBVIOUS
  <2>2. imports' = [imports EXCEPT ![p] = r] /\ UNCHANGED <<output, staging, first>>
    BY <1>4, <2>1 DEF PublishGrid, Proceeds
  <2>3. IsImporter(p, r, staging[p])
    BY <1>2, <2>1 DEF IsImporter, ImporterTypes, Written
  <2> QED BY <1>1, <2>2, <2>3, ImporterTurns
<1> QED BY <1>3, <1>4

LEMMA MakeGridFolderStep ==
    ASSUME ImportsInv, MakeGridFolder
    PROVE  ImportsInv'
<1>1. /\ output' \in {Vacant, Foreign} /\ first = NoFolder /\ UNCHANGED <<staging, imports>>
      /\ first' = IF output' = Foreign /\ first = NoFolder THEN Foreign ELSE first
  BY DEF MakeGridFolder, ImportsInv
<1>2. \A q \in Importers : IsImporter(q, imports[q], staging[q])'
  BY <1>1 DEF ImportsInv, IsImporter, ImporterTypes, Converting, Writing, UpTo, ModelsOf
<1>3. IF output' \in {NoFolder, Vacant} THEN first' = NoFolder ELSE output' = first'
  BY <1>1, ImportAssumption
<1> QED BY <1>1, <1>2, <1>3 DEF ImportsInv

LEMMA ImportNextStep == ImportsInv /\ [ImportNext]_import => ImportsInv'
<1> SUFFICES ASSUME ImportsInv, [ImportNext]_import PROVE ImportsInv'
  OBVIOUS
<1>1. CASE UNCHANGED import
  <2>1. UNCHANGED <<output, staging, imports, first>>
    BY <1>1 DEF import
  <2>2. \A q \in Importers : IsImporter(q, imports[q], staging[q])'
    BY <2>1 DEF ImportsInv, IsImporter, ImporterTypes, Converting, Writing, UpTo, ModelsOf
  <2>3. InPlace(output) => InPlace(output)'
    BY <2>1 DEF InPlace, Importing
  <2> QED BY <2>1, <2>2, <2>3 DEF ImportsInv
<1>2. ASSUME NEW p \in Importers, Thread(p) PROVE ImportsInv'
  BY <1>2, OpenFileStep, CloseFileStep, TaskEndsStep DEF Thread
<1> QED BY <1>1, <1>2, RefuseStep, MakeStagingStep, EndBatchStep, WritingSteps, PublishGridStep, CleanupStep,
           KillImportStep, MakeGridFolderStep DEF ImportNext

LEMMA ImportsBegin == ImportInit => ImportsInv
<1> SUFFICES ASSUME ImportInit PROVE ImportsInv
  OBVIOUS
<1>1. PICK r : r = Unstarted
  OBVIOUS
<1>2. r.pc = "check" /\ ImporterTypes(r)
  BY <1>1 DEF Unstarted, ImporterTypes, Written, ModelTables
<1>3. \A p : IsImporter(p, r, NoFolder)
  BY <1>1, <1>2 DEF IsImporter, Written
<1>4. \A p \in Importers : IsImporter(p, imports[p], staging[p])
  BY <1>1, <1>3 DEF ImportInit
<1> QED BY <1>4 DEF ImportInit, ImportsInv

LEMMA ImportsEnough == ImportsInv => GridsWhole
<1> SUFFICES ASSUME ImportsInv PROVE GridsWhole
  OBVIOUS
<1>1. \A p \in Importers : imports[p].pc \in {"done", "failed"} => staging[p] = NoFolder
  BY DEF ImportsInv, IsImporter
<1> QED BY <1>1 DEF GridsWhole, ImportsInv, InPlace

-----------------------------------------------------------------------------
(* Downloaded grids.                                                       *)

Files == {FileAt(r) : r \in Rows}
Copies(s) == [version : Nat, upto : 1 .. FullLength(s), short : BOOLEAN]
StoreTypes ==
    /\ raw = [s \in Sources |-> raw[s]] /\ \A s \in Sources : raw[s] = Missing \/ raw[s] \in Copies(s)
    /\ npz = [f \in Files |-> npz[f]] /\ \A f \in Files : npz[f] \in {Missing, Partial} \cup Nat
    /\ release \in Nat

Having == {"fetching", "open", "unpack", "saving"}
AtArchive == {"download"} \cup Having
JobTypes(j) ==
    /\ j = [pc |-> j.pc, options |-> j.options, local |-> j.local, todo |-> j.todo, found |-> j.found,
            archive |-> j.archive, next |-> j.next, entries |-> j.entries, rows |-> j.rows, done |-> j.done,
            failed |-> j.failed, code |-> j.code]
    /\ j.pc \in AtArchive \cup {"end", "crawl", "archive", "manifest", "table"}
    /\ j.options.grids \subseteq Grids
    /\ j.pc = "crawl" => j.done = {} /\ j.rows = {} /\ j.failed = 0
EndedWell(j) == j.pc = "end" /\ j.code \in {0, 2} /\ ~j.options.dry
Live(j) == j.pc \notin {"end", "crawl"} \/ EndedWell(j)
\* Every archive that was found is to be done, in work, done or failed.
Books(j) ==
    /\ j.found \subseteq Sources /\ j.local \subseteq Sources
    /\ j.done \subseteq j.found /\ j.todo \subseteq j.found /\ j.done \cap j.todo = {} /\ j.failed \in Nat
    /\ j.rows \subseteq Rows /\ \A r \in j.rows : r[1] \in j.done
    /\ j.pc \in AtArchive => j.archive \in j.found \ (j.done \cup j.todo)
    /\ j.failed = 0 /\ ~j.options.dry =>
        j.found \subseteq j.todo \cup j.done \cup (IF j.pc \in AtArchive THEN {j.archive} ELSE {})
    /\ j.pc \in Having \cup {"manifest", "table"} => ~j.options.dry
    /\ j.pc \in {"manifest", "table"} => j.todo = {}
\* A spectrum can be read, and is of the archive when that was unpacked anew.
Proper(j, r) == Loadable(FileAt(r)) /\ (j.options.process => npz[FileAt(r)] = raw[r[1]].version)
Disk(j) ==
    /\ \A s \in j.local \cup j.done : raw[s] \in Copies(s)
    /\ \A s \in j.done : raw[s].upto = FullLength(s) => Spectral(s) \subseteq j.rows
    /\ \A r \in j.rows : Proper(j, r)
    /\ j.pc \in Having => raw[j.archive] \in Copies(j.archive)
EntryOf(j) == <<j.archive, MembersOf(j.archive)[j.next]>>
Unpacking(j) ==
    /\ j.next \in 1 .. raw[j.archive].upto
    /\ j.pc = "saving" => j.next # raw[j.archive].upto
    /\ j.entries \subseteq {j.archive} \X Range(MembersOf(j.archive))
    /\ \A r \in j.entries : Proper(j, r) \/ (j.pc = "saving" /\ FileAt(r) = FileAt(EntryOf(j)))
    /\ \A i \in 1 .. j.next - 1 :
        MembersOf(j.archive)[i] \in Spectra => <<j.archive, MembersOf(j.archive)[i]>> \in j.entries
Filed(j) ==
    /\ j.pc = "table" => recorded = j.rows
    /\ EndedWell(j) => recorded = j.rows /\ listed = j.rows /\ j.todo = {} /\ (j.code = 0 => j.failed = 0)
RunInv(j) ==
    /\ JobTypes(j) /\ Filed(j)
    /\ Live(j) => Books(j) /\ Disk(j)
    /\ j.pc \in {"unpack", "saving"} => Unpacking(j)
Spoils ==
    /\ \A f \in Files : npz[f] = Partial => f \in spoiled \/ (Now("saving") /\ f = FileAt(Entry))
    /\ listed \in {Missing, Partial} \/ (listed \subseteq Rows /\ \A r \in listed : npz[FileAt(r)] # Missing)
DownloadInv == StoreTypes /\ RunInv(job) /\ Spoils

LEMMA MemberFacts ==
    ASSUME NEW s \in Sources
    PROVE  /\ Len(MembersOf(s)) \in Nat /\ DOMAIN MembersOf(s) = 1 .. Len(MembersOf(s))
           /\ FullLength(s) = Len(MembersOf(s)) + 1 /\ FullLength(s) \in Nat /\ 1 \in 1 .. FullLength(s)
           /\ \A i \in 1 .. Len(MembersOf(s)) : MembersOf(s)[i] \in Range(MembersOf(s))
           /\ \A m \in Range(MembersOf(s)) : \E i \in 1 .. Len(MembersOf(s)) : m = MembersOf(s)[i]
<1>1. MembersOf(s) \in Seq(STRING)
  BY DownloadAssumption DEF MembersOf, Sources
<1>2. Len(MembersOf(s)) \in Nat /\ DOMAIN MembersOf(s) = 1 .. Len(MembersOf(s))
  BY <1>1
<1> QED BY <1>2 DEF FullLength, Range

LEMMA RowFacts ==
    /\ \A r \in Rows : r[1] \in Sources /\ r = <<r[1], r[2]>> /\ FileAt(r) \in Files
    /\ \A s \in Sources : \A m \in Range(MembersOf(s)) : <<s, m>> \in Rows
    /\ \A r : FileAt(r)[1] = r[1]
BY DEF Rows, Files, FileAt

\* What is kept of a run depends on the files.
LEMMA RunStays ==
    ASSUME NEW j, RunInv(j), UNCHANGED store
    PROVE  RunInv(j)'
<1>1. UNCHANGED <<raw, npz, recorded, listed>>
  BY DEF store, index
<1>2. \A r : Proper(j, r)' <=> Proper(j, r)
  BY <1>1 DEF Proper, Loadable
<1>3. Disk(j) => Disk(j)'
  BY <1>1, <1>2 DEF Disk
<1>4. Unpacking(j) => Unpacking(j)'
  BY <1>1, <1>2 DEF Unpacking
<1>5. Filed(j)'
  BY <1>1 DEF Filed, RunInv
<1> QED BY <1>3, <1>4, <1>5 DEF RunInv

LEMMA RunIs ==
    ASSUME NEW j, job' = j, RunInv(j)'
    PROVE  RunInv(job)'
<1>1. \A r : Proper(j, r)' <=> Proper(job, r)'
  BY DEF Proper
<1>2. Disk(j)' => Disk(job)'
  BY <1>1 DEF Disk
<1>3. Unpacking(j)' => Unpacking(job)'
  BY <1>1 DEF Unpacking
<1>4. Books(j) => Books(job)'
  BY DEF Books
<1>5. Filed(j)' => Filed(job)'
  BY DEF Filed, EndedWell
<1>6. JobTypes(j) => JobTypes(job)'
  BY DEF JobTypes
<1>7. Live(job)' => Live(j)
  BY DEF Live, EndedWell
<1> QED BY <1>2, <1>3, <1>4, <1>5, <1>6, <1>7 DEF RunInv

\* Only the run goes on.
LEMMA RunStep ==
    ASSUME DownloadInv, NEW j, job' = j, RunInv(j), UNCHANGED store, release' \in {release, release + 1},
           \/ spoiled' = spoiled /\ ~Now("saving")
           \/ spoiled' = spoiled \cup {FileAt(Entry)}
    PROVE  DownloadInv'
<1>1. RunInv(job)'
  BY RunStays, RunIs
<1>2. UNCHANGED <<raw, npz, listed>>
  BY DEF store, index
<1>3. StoreTypes'
  BY <1>2 DEF DownloadInv, StoreTypes
<1>4. Spoils'
  BY <1>2 DEF DownloadInv, Spoils
<1> QED BY <1>1, <1>3, <1>4 DEF DownloadInv

LEMMA StartRunStep ==
    ASSUME DownloadInv, Start
    PROVE  DownloadInv'
<1>1. PICK options \in Options : job' = NewRun(options)
  BY DEF Start
<1>2. PICK j : j = NewRun(options)
  OBVIOUS
<1>3. RunInv(j)
  BY <1>2 DEF NewRun, RunInv, JobTypes, Filed, EndedWell, Live, Options, AtArchive, Having
<1> QED BY <1>1, <1>2, <1>3, RunStep DEF Start, Now

LEMMA RestingIs ==
    ASSUME NEW code
    PROVE  RunInv(Resting(code))
<1>1. PICK j : j = Resting(code)
  OBVIOUS
<1>2. /\ j.pc = "end" /\ j.options.dry /\ j.options.grids = {}
      /\ j = [pc |-> j.pc, options |-> j.options, local |-> j.local, todo |-> j.todo, found |-> j.found,
              archive |-> j.archive, next |-> j.next, entries |-> j.entries, rows |-> j.rows, done |-> j.done,
              failed |-> j.failed, code |-> j.code]
  BY <1>1 DEF Resting, NewRun
<1>3. RunInv(j)
  BY <1>2 DEF RunInv, JobTypes, Filed, EndedWell, Live
<1> QED BY <1>1, <1>3

LEMMA CrawlStep ==
    ASSUME DownloadInv, Crawl
    PROVE  DownloadInv'
<1>1. JobTypes(job) /\ job.pc = "crawl" /\ job.done = {} /\ job.rows = {} /\ job.failed = 0
  BY DEF Crawl, Now, DownloadInv, RunInv, JobTypes
<1>2. PICK down : LET remote == UNION {Found(g, down) : g \in job.options.grids}
                      local == UNION {Local(g) : g \in {g \in job.options.grids : Found(g, down) = {}}}
                  IN job' = IF remote \cup local = {} THEN Resting(1)
                            ELSE [job EXCEPT !.pc = "archive", !.todo = remote \cup local,
                                             !.found = remote \cup local, !.local = local]
  BY DEF Crawl
<1>3. PICK remote : remote = UNION {Found(g, down) : g \in job.options.grids}
  OBVIOUS
<1>4. PICK local : local = UNION {Local(g) : g \in {g \in job.options.grids : Found(g, down) = {}}}
  OBVIOUS
<1>5. remote \cup local \subseteq Sources /\ \A s \in local : raw[s] \in Copies(s)
  <2>1. Selected \subseteq DOMAIN Archives
    BY DownloadAssumption DEF Selected
  <2>2. \A g \in job.options.grids : Found(g, down) \subseteq Sources /\ Local(g) \subseteq Sources
    <3>1. ASSUME NEW g \in job.options.grids PROVE Found(g, down) \subseteq Sources /\ Local(g) \subseteq Sources
      <4>1. g \in Grids
        BY <1>1 DEF JobTypes
      <4>2. \A X : {g} \X (X \cap Selected) \subseteq Sources
        BY <2>1, <4>1 DEF Sources
      <4>3. Found(g, down) \subseteq Sources
        <5>1. PICK X : X = UNION {Pages[p] : p \in Read(g, down)}
          OBVIOUS
        <5>2. Found(g, down) = {g} \X (X \cap Selected)
          BY <5>1 DEF Found
        <5> QED BY <4>2, <5>2
      <4>4. {g} \X Selected \subseteq Sources
        BY <2>1, <4>1 DEF Sources
      <4> QED BY <4>3, <4>4 DEF Local
    <3> QED BY <3>1
  <2>3. \A g : \A s \in Local(g) : raw[s] # Missing
    BY DEF Local
  <2> QED BY <1>3, <1>4, <2>2, <2>3 DEF DownloadInv, StoreTypes
<1>6. ~Now("saving") /\ UNCHANGED <<store, release, spoiled>>
  BY <1>1 DEF Crawl, Now, Beside
<1>7. CASE remote \cup local = {}
  <2>1. PICK j : j = Resting(1)
    OBVIOUS
  <2>2. job' = j /\ RunInv(j)
    BY <1>2, <1>3, <1>4, <1>7, <2>1, RestingIs
  <2> QED BY <1>6, <2>2, RunStep
<1>8. CASE remote \cup local # {}
  <2>1. PICK j : j = [job EXCEPT !.pc = "archive", !.todo = remote \cup local, !.found = remote \cup local, !.local = local]
    OBVIOUS
  <2>2. job' = j
    BY <1>2, <1>3, <1>4, <1>8, <2>1
  <2>3. /\ JobTypes(j) /\ j.pc = "archive" /\ j.todo = remote \cup local /\ j.found = j.todo /\ j.local = local
        /\ j.done = {} /\ j.rows = {} /\ j.failed = 0
    BY <1>1, <2>1 DEF JobTypes
  <2>4. Books(j)
    BY <1>5, <2>3 DEF Books, AtArchive, Having
  <2>5. Disk(j)
    BY <1>5, <2>3 DEF Disk, Having
  <2>6. RunInv(j)
    BY <2>3, <2>4, <2>5 DEF RunInv, Filed, EndedWell
  <2> QED BY <1>6, <2>2, <2>6, RunStep
<1> QED BY <1>7, <1>8

\* A run that goes on with what it has.
LEMMA JobGoesOn ==
    ASSUME RunInv(job), Live(job), NEW j, JobTypes(j), j.pc \notin {"end", "crawl"}, j.local = job.local, j.done = job.done, j.rows = job.rows,
           j.options = job.options, Books(j), Filed(j), j.pc \in Having => raw[j.archive] \in Copies(j.archive),
           j.pc \in {"unpack", "saving"} => Unpacking(j)
    PROVE  RunInv(j)
<1>1. \A r : Proper(job, r) => Proper(j, r)
  BY DEF Proper
<1>2. Disk(j)
  BY <1>1 DEF RunInv, Disk
<1> QED BY <1>2 DEF RunInv

LEMMA TakeStep ==
    ASSUME DownloadInv, NEW s, Take(s)
    PROVE  DownloadInv'
<1>1. PICK j : j = [job EXCEPT !.pc = "download", !.archive = s, !.todo = @ \ {s}]
  OBVIOUS
<1>2. job' = j /\ job.pc = "archive" /\ s \in job.todo /\ UNCHANGED <<store, release, spoiled>>
  BY <1>1 DEF Take, Now, Beside
<1>3. JobTypes(job) /\ Books(job) /\ RunInv(job) /\ Live(job)
  BY <1>2 DEF DownloadInv, RunInv, Live
<1>4. /\ JobTypes(j) /\ j.pc = "download" /\ j.archive = s /\ j.todo = job.todo \ {s} /\ j.local = job.local
      /\ j.found = job.found /\ j.done = job.done /\ j.rows = job.rows /\ j.options = job.options
      /\ j.failed = job.failed
  BY <1>1, <1>3 DEF JobTypes, AtArchive
<1>5. Books(j)
  BY <1>2, <1>3, <1>4 DEF Books, AtArchive, Having
<1>6. RunInv(j)
  BY <1>3, <1>4, <1>5, JobGoesOn DEF Filed, EndedWell, Having
<1> QED BY <1>2, <1>6, RunStep DEF Now

\* What the archive at work is.
LEMMA InHand ==
    ASSUME DownloadInv, job.pc \in AtArchive
    PROVE  /\ JobTypes(job) /\ Books(job) /\ Disk(job) /\ RunInv(job) /\ Live(job)
           /\ job.archive \in Sources /\ job.archive \in job.found \ (job.done \cup job.todo)
           /\ job.pc \in Having => raw[job.archive] \in Copies(job.archive) /\ ~job.options.dry
BY DEF DownloadInv, RunInv, Live, AtArchive, Having, Books, Disk

LEMMA DropIs ==
    ASSUME DownloadInv, job.pc \in AtArchive
    PROVE  RunInv(Drop(job))
<1>1. PICK j : j = Drop(job)
  OBVIOUS
<1>2. JobTypes(job) /\ Books(job) /\ RunInv(job) /\ Live(job)
  BY InHand
<1>3. /\ JobTypes(j) /\ j.pc = "archive" /\ j.todo = job.todo /\ j.local = job.local
      /\ j.found = job.found /\ j.done = job.done /\ j.rows = job.rows /\ j.options = job.options
      /\ j.failed = job.failed + 1
  BY <1>1, <1>2 DEF Drop, JobTypes
<1>4. Books(j)
  BY <1>2, <1>3 DEF Books, AtArchive, Having
<1>5. RunInv(j)
  BY <1>2, <1>3, <1>4, JobGoesOn DEF Filed, EndedWell, Having
<1> QED BY <1>1, <1>5

LEMMA HaveStep ==
    ASSUME DownloadInv, Have
    PROVE  DownloadInv'
<1>1. PICK j : j = [job EXCEPT !.pc = IF job.options.dry THEN "archive" ELSE "open"]
  OBVIOUS
<1>2. job' = j /\ job.pc = "download" /\ job.pc \in AtArchive /\ UNCHANGED <<store, release, spoiled>>
  BY <1>1 DEF Have, Now, Beside, AtArchive
<1>3. JobTypes(job) /\ Books(job) /\ Disk(job) /\ RunInv(job) /\ Live(job) /\ job.archive \in Sources
  BY <1>2, InHand
<1>4. /\ JobTypes(j) /\ j.pc = (IF job.options.dry THEN "archive" ELSE "open") /\ j.todo = job.todo /\ j.local = job.local
      /\ j.found = job.found /\ j.done = job.done /\ j.rows = job.rows /\ j.options = job.options
      /\ j.failed = job.failed /\ j.archive = job.archive
  BY <1>1, <1>3 DEF JobTypes, AtArchive, Having
<1>5. Books(j)
  BY <1>2, <1>3, <1>4 DEF Books, AtArchive, Having
<1>6. ~job.options.dry => raw[job.archive] \in Copies(job.archive)
  <2>1. ~job.options.dry => job.archive \in job.local \/ raw[job.archive] # Missing
    BY DEF Have, Skips
  <2> QED BY <1>3, <2>1 DEF Disk, DownloadInv, StoreTypes
<1>7. RunInv(j)
  BY <1>3, <1>4, <1>5, <1>6, JobGoesOn DEF Filed, EndedWell, Having
<1> QED BY <1>2, <1>7, RunStep DEF Now

LEMMA FetchRefusedStep ==
    ASSUME DownloadInv, FetchRefused
    PROVE  DownloadInv'
<1>1. PICK j : j = Drop(job)
  OBVIOUS
<1>2. job' = j /\ job.pc = "download" /\ UNCHANGED <<store, release, spoiled>>
  BY <1>1 DEF FetchRefused, Now, Beside
<1>3. RunInv(j)
  BY <1>1, <1>2, DropIs DEF AtArchive
<1> QED BY <1>2, <1>3, RunStep DEF Now

\* The file of the archive at work changes.
LEMMA RawChanges ==
    ASSUME DownloadInv, job.pc \in AtArchive, NEW a, a = job.archive, NEW copy \in Copies(a),
           raw' = [raw EXCEPT ![a] = copy], UNCHANGED <<npz, index, release, spoiled>>, job.pc # "saving",
           NEW j, job' = j, RunInv(j), j.local = job.local \/ ~Live(j), j.done = job.done \/ ~Live(j),
           j.pc \notin {"unpack", "saving"}
    PROVE  DownloadInv'
<1>1. a \in Sources /\ a \notin job.done
  BY InHand
<1>2. /\ raw' = [s \in Sources |-> raw'[s]] /\ raw'[a] = copy /\ \A s \in Sources \ {a} : raw'[s] = raw[s]
      /\ UNCHANGED <<npz, recorded, listed>>
  BY <1>1 DEF DownloadInv, StoreTypes, index
<1>3. StoreTypes'
  BY <1>1, <1>2 DEF DownloadInv, StoreTypes, Copies
<1>4. Spoils'
  BY <1>2 DEF DownloadInv, Spoils, Now
<1>5. Disk(j)' \/ ~Live(j)
  <2>1. SUFFICES ASSUME Live(j), Books(j), Disk(j), j.done = job.done PROVE Disk(j)'
    BY DEF RunInv
  <2>2. \A s \in j.local \cup j.done : raw'[s] \in Copies(s)
    BY <1>2, <2>1 DEF Disk, Books
  <2>3. \A s \in j.done : raw'[s] = raw[s]
    BY <1>1, <1>2, <2>1 DEF Books
  <2>4. \A r \in j.rows : Proper(j, r)'
    BY <1>1, <1>2, <2>1, <2>3 DEF Books, Disk, Proper, Loadable
  <2>5. j.pc \in Having => j.archive \in Sources /\ raw'[j.archive] \in Copies(j.archive)
    BY <1>2, <2>1 DEF Books, Disk, AtArchive
  <2> QED BY <2>1, <2>2, <2>3, <2>4, <2>5 DEF Disk, Copies
<1>6. Filed(j)'
  BY <1>2 DEF RunInv, Filed
<1>7. RunInv(j)'
  BY <1>5, <1>6 DEF RunInv
<1>8. RunInv(job)'
  BY <1>7, RunIs
<1> QED BY <1>3, <1>4, <1>8 DEF DownloadInv

LEMMA FetchStep ==
    ASSUME DownloadInv, Fetch
    PROVE  DownloadInv'
<1>1. PICK j : j = [job EXCEPT !.pc = "fetching"]
  OBVIOUS
<1>2. PICK a : a = job.archive
  OBVIOUS
<1>3. PICK copy : copy = [version |-> release, upto |-> 1, short |-> FALSE]
  OBVIOUS
<1>4. /\ job' = j /\ job.pc = "download" /\ job.pc \in AtArchive /\ UNCHANGED <<npz, index, release, spoiled>>
      /\ raw' = [raw EXCEPT ![a] = copy] /\ ~job.options.dry
  BY <1>1, <1>2, <1>3 DEF Fetch, Now, Beside, AtArchive
<1>5. JobTypes(job) /\ Books(job) /\ Disk(job) /\ a \in Sources /\ a \in job.found \ (job.done \cup job.todo)
  BY <1>2, <1>4, InHand
<1>6. copy \in Copies(a)
  BY <1>3, <1>5, MemberFacts DEF Copies, DownloadInv, StoreTypes
<1>7. /\ JobTypes(j) /\ j.pc = "fetching" /\ j.todo = job.todo /\ j.local = job.local
      /\ j.found = job.found /\ j.done = job.done /\ j.rows = job.rows /\ j.options = job.options
      /\ j.failed = job.failed /\ j.archive = a
  BY <1>1, <1>2, <1>5 DEF JobTypes, AtArchive, Having
<1>8. Books(j)
  BY <1>4, <1>5, <1>7 DEF Books, AtArchive, Having
<1>9. raw' = [s \in Sources |-> raw'[s]] /\ raw'[a] = copy /\ \A s \in Sources \ {a} : raw'[s] = raw[s]
  BY <1>4, <1>5 DEF DownloadInv, StoreTypes
<1>10. UNCHANGED <<npz, recorded, listed>>
  BY <1>4 DEF index
<1>11. Disk(j)'
  <2>1. \A s \in j.local \cup j.done : raw'[s] \in Copies(s)
    BY <1>5, <1>6, <1>7, <1>8, <1>9 DEF Disk, Books
  <2>2. \A s \in j.done : raw'[s] = raw[s]
    BY <1>5, <1>7, <1>8, <1>9 DEF Books
  <2>3. \A r \in j.rows : Proper(j, r)'
    BY <1>5, <1>7, <1>8, <1>10, <2>2 DEF Books, Disk, Proper, Loadable
  <2> QED BY <1>5, <1>6, <1>7, <1>9, <2>1, <2>2, <2>3 DEF Disk, Copies
<1>12. Filed(j)'
  BY <1>7 DEF Filed, EndedWell
<1>13. RunInv(j)'
  BY <1>7, <1>8, <1>11, <1>12 DEF RunInv
<1>14. RunInv(job)'
  BY <1>4, <1>13, RunIs
<1>15. StoreTypes'
  BY <1>4, <1>6, <1>9, <1>10 DEF DownloadInv, StoreTypes, Copies
<1>16. Spoils'
  BY <1>4, <1>10 DEF DownloadInv, Spoils, Now
<1> QED BY <1>14, <1>15, <1>16 DEF DownloadInv

\* What a connection or a kill leaves of the file.
LEMMA CutOffIs ==
    ASSUME DownloadInv, job.pc = "fetching", CutOff
    PROVE  \E copy \in Copies(job.archive) : raw' = [raw EXCEPT ![job.archive] = copy]
<1>1. PICK a : a = job.archive
  OBVIOUS
<1>2. a \in Sources /\ raw[a] \in Copies(a)
  BY <1>1, InHand DEF AtArchive, Having
<1>3. PICK n \in DOMAIN MembersOf(a), s \in BOOLEAN :
        raw' = [raw EXCEPT ![a] = [@ EXCEPT !.upto = n, !.short = s]]
  BY <1>1 DEF CutOff
<1>4. n \in 1 .. FullLength(a)
  BY <1>2, <1>3, MemberFacts
<1>5. PICK copy : copy = [raw[a] EXCEPT !.upto = n, !.short = s]
  OBVIOUS
<1>6. copy \in Copies(a) /\ raw' = [raw EXCEPT ![a] = copy]
  BY <1>2, <1>3, <1>4, <1>5 DEF Copies
<1> QED BY <1>1, <1>6

LEMMA OpenIs ==
    ASSUME DownloadInv, job.pc = "fetching", NEW j, j = [job EXCEPT !.pc = "open"]
    PROVE  RunInv(j) /\ j.local = job.local /\ j.done = job.done /\ j.pc = "open"
<1>1. JobTypes(job) /\ Books(job) /\ RunInv(job) /\ Live(job) /\ raw[job.archive] \in Copies(job.archive)
  BY InHand DEF AtArchive, Having
<1>2. /\ JobTypes(j) /\ j.pc = "open" /\ j.todo = job.todo /\ j.local = job.local
      /\ j.found = job.found /\ j.done = job.done /\ j.rows = job.rows /\ j.options = job.options
      /\ j.failed = job.failed /\ j.archive = job.archive
  BY <1>1 DEF JobTypes, AtArchive, Having
<1>3. Books(j)
  BY <1>1, <1>2 DEF Books, AtArchive, Having
<1> QED BY <1>1, <1>2, <1>3, JobGoesOn DEF Filed, EndedWell

LEMMA FetchedStep ==
    ASSUME DownloadInv, Fetched
    PROVE  DownloadInv'
<1>1. PICK j : j = [job EXCEPT !.pc = "open"]
  OBVIOUS
<1>2. PICK a : a = job.archive
  OBVIOUS
<1>3. job' = j /\ job.pc = "fetching" /\ job.pc \in AtArchive /\ UNCHANGED <<npz, index, release, spoiled>>
  BY <1>1 DEF Fetched, Now, Beside, AtArchive, Having
<1>4. a \in Sources /\ raw[a] \in Copies(a)
  BY <1>2, <1>3, InHand DEF Having
<1>5. PICK copy : copy = [raw[a] EXCEPT !.upto = FullLength(a)]
  OBVIOUS
<1>6. copy \in Copies(a) /\ raw' = [raw EXCEPT ![a] = copy]
  BY <1>2, <1>4, <1>5, MemberFacts DEF Fetched, Copies
<1>7. RunInv(j) /\ j.local = job.local /\ j.done = job.done /\ j.pc = "open"
  BY <1>1, <1>3, OpenIs
<1> QED BY <1>2, <1>3, <1>6, <1>7, RawChanges

LEMMA InterruptedStep ==
    ASSUME DownloadInv, Interrupted
    PROVE  DownloadInv'
<1>1. job.pc = "fetching" /\ job.pc \in AtArchive /\ UNCHANGED <<npz, index, release, spoiled>> /\ CutOff
  BY DEF Interrupted, Now, Beside, AtArchive, Having
<1>2. PICK a : a = job.archive
  OBVIOUS
<1>3. PICK copy \in Copies(a) : raw' = [raw EXCEPT ![a] = copy]
  BY <1>1, <1>2, CutOffIs
<1>4. CASE job' = Drop(job)
  <2>1. PICK j : j = Drop(job)
    OBVIOUS
  <2>2. RunInv(j)
    BY <1>1, <2>1, DropIs
  <2>3. j.local = job.local /\ j.done = job.done /\ j.pc = "archive"
    BY <1>1, <2>1, InHand DEF Drop, JobTypes
  <2> QED BY <1>1, <1>2, <1>3, <1>4, <2>1, <2>2, <2>3, RawChanges
<1>5. CASE job' = [job EXCEPT !.pc = "open"]
  <2>1. PICK j : j = [job EXCEPT !.pc = "open"]
    OBVIOUS
  <2>2. RunInv(j) /\ j.local = job.local /\ j.done = job.done /\ j.pc = "open"
    BY <1>1, <2>1, OpenIs
  <2> QED BY <1>1, <1>2, <1>3, <1>5, <2>1, <2>2, RawChanges
<1> QED BY <1>4, <1>5 DEF Interrupted

LEMMA HaltRunStep ==
    ASSUME DownloadInv, HaltRun
    PROVE  DownloadInv'
<1>1. PICK j : j = Resting(9)
  OBVIOUS
<1>2. job' = j /\ RunInv(j) /\ ~Live(j) /\ j.pc = "end"
  BY <1>1, RestingIs DEF HaltRun, Resting, NewRun, Live, EndedWell
<1>3. UNCHANGED <<npz, index, release>>
  BY DEF HaltRun
<1>4. CASE Now("fetching")
  <2>1. job.pc = "fetching" /\ CutOff /\ spoiled' = spoiled /\ job.pc \in AtArchive
    BY <1>4 DEF HaltRun, Now, AtArchive, Having
  <2>2. PICK a : a = job.archive
    OBVIOUS
  <2>3. PICK copy \in Copies(a) : raw' = [raw EXCEPT ![a] = copy]
    BY <2>1, <2>2, CutOffIs
  <2> QED BY <1>2, <1>3, <2>1, <2>2, <2>3, RawChanges
<1>5. CASE ~Now("fetching")
  <2>1. UNCHANGED store /\ (spoiled' = spoiled \cup {FileAt(Entry)} \/ (spoiled' = spoiled /\ ~Now("saving")))
    BY <1>5 DEF HaltRun, store, index
  <2> QED BY <1>2, <1>3, <2>1, RunStep
<1> QED BY <1>4, <1>5

LEMMA ReleaseStep ==
    ASSUME DownloadInv, Release
    PROVE  DownloadInv'
<1>1. UNCHANGED <<raw, npz, recorded, listed, job, spoiled>> /\ release' = release + 1
  BY DEF Release, store, index
<1>2. PICK j : j = job
  OBVIOUS
<1>3. RunInv(j)
  BY <1>2 DEF DownloadInv
<1>4. RunInv(job)'
  BY <1>1, <1>2, <1>3, RunStays, RunIs DEF store, index
<1>5. StoreTypes' /\ Spoils'
  BY <1>1 DEF DownloadInv, StoreTypes, Copies, Spoils, Now, Entry, Member
<1> QED BY <1>4, <1>5 DEF DownloadInv

\* The archive at work is unpacked: which member is next.
LEMMA AtMember ==
    ASSUME DownloadInv, job.pc \in {"unpack", "saving"}, ~Ended
    PROVE  /\ JobTypes(job) /\ Books(job) /\ RunInv(job) /\ Live(job) /\ Unpacking(job)
           /\ job.archive \in Sources /\ raw[job.archive] \in Copies(job.archive)
           /\ job.next \in 1 .. Len(MembersOf(job.archive)) /\ job.next + 1 \in 1 .. raw[job.archive].upto
           /\ Member \in Range(MembersOf(job.archive)) /\ Entry = EntryOf(job) /\ Entry \in Rows
           /\ FileAt(Entry) \in Files /\ Member = MembersOf(job.archive)[job.next]
<1>1. /\ JobTypes(job) /\ Books(job) /\ RunInv(job) /\ Live(job) /\ Unpacking(job)
      /\ job.archive \in Sources /\ raw[job.archive] \in Copies(job.archive)
  BY InHand DEF AtArchive, Having, DownloadInv, RunInv
<1>2. job.next \in 1 .. raw[job.archive].upto /\ raw[job.archive].upto \in 1 .. FullLength(job.archive)
  BY <1>1 DEF Unpacking, Copies
<1>3. job.next # raw[job.archive].upto
  BY DEF Ended, OnDisk
<1>4. /\ FullLength(job.archive) = Len(MembersOf(job.archive)) + 1 /\ Len(MembersOf(job.archive)) \in Nat
      /\ \A i \in 1 .. Len(MembersOf(job.archive)) : MembersOf(job.archive)[i] \in Range(MembersOf(job.archive))
  BY <1>1, MemberFacts
<1>5. job.next \in 1 .. Len(MembersOf(job.archive)) /\ job.next + 1 \in 1 .. raw[job.archive].upto
  BY <1>2, <1>3, <1>4
<1>6. /\ Member \in Range(MembersOf(job.archive)) /\ Entry = EntryOf(job) /\ Entry = <<job.archive, Member>>
      /\ Member = MembersOf(job.archive)[job.next]
  BY <1>4, <1>5 DEF Member, Entry, EntryOf
<1> QED BY <1>1, <1>5, <1>6, RowFacts

\* The run goes on to the next member, with its entry or without.
LEMMA NextMember ==
    ASSUME DownloadInv, job.pc \in {"unpack", "saving"}, ~Ended, NEW j, JobTypes(j), j.pc = "unpack",
           j.archive = job.archive, j.next = job.next + 1, j.entries \in {job.entries, job.entries \cup {Entry}},
           Member \in Spectra => j.entries = job.entries \cup {Entry},
           j.todo = job.todo, j.local = job.local, j.found = job.found, j.done = job.done, j.rows = job.rows,
           j.options = job.options, j.failed = job.failed
    PROVE  /\ Books(j) /\ Filed(j)
           /\ j.next \in 1 .. raw[j.archive].upto
           /\ j.entries \subseteq {j.archive} \X Range(MembersOf(j.archive))
           /\ \A i \in 1 .. j.next - 1 :
                MembersOf(j.archive)[i] \in Spectra => <<j.archive, MembersOf(j.archive)[i]>> \in j.entries
<1>1. /\ Books(job) /\ Unpacking(job) /\ job.next \in Nat /\ job.next + 1 \in 1 .. raw[job.archive].upto
      /\ Member \in Range(MembersOf(job.archive)) /\ Member = MembersOf(job.archive)[job.next]
      /\ Entry = <<job.archive, Member>>
  BY AtMember DEF Entry
<1>2. Books(j) /\ Filed(j)
  BY <1>1 DEF Books, AtArchive, Having, Filed, EndedWell
<1>3. j.entries \subseteq {j.archive} \X Range(MembersOf(j.archive))
  BY <1>1 DEF Unpacking
<1>4. \A i \in 1 .. j.next - 1 : i \in 1 .. job.next - 1 \/ i = job.next
  BY <1>1
<1>5. ASSUME NEW i \in 1 .. j.next - 1, MembersOf(j.archive)[i] \in Spectra
      PROVE  <<j.archive, MembersOf(j.archive)[i]>> \in j.entries
  <2>1. CASE i \in 1 .. job.next - 1
    BY <1>1, <1>5, <2>1 DEF Unpacking
  <2>2. CASE i = job.next
    BY <1>1, <1>5, <2>2
  <2> QED BY <1>4, <2>1, <2>2
<1> QED BY <1>1, <1>2, <1>3, <1>5

LEMMA OpenStep ==
    ASSUME DownloadInv, Open
    PROVE  DownloadInv'
<1>1. job.pc = "open" /\ job.pc \in AtArchive /\ UNCHANGED <<store, release, spoiled>> /\ ~Now("saving")
  BY DEF Open, Now, Beside, AtArchive, Having
<1>2. CASE Listable
  <2>1. PICK j : j = [job EXCEPT !.pc = "unpack", !.next = 1, !.entries = {}]
    OBVIOUS
  <2>2. job' = j
    BY <1>2, <2>1 DEF Open
  <2>3. /\ JobTypes(job) /\ Books(job) /\ RunInv(job) /\ Live(job) /\ job.archive \in Sources
        /\ raw[job.archive] \in Copies(job.archive)
    BY <1>1, InHand DEF Having
  <2>4. /\ JobTypes(j) /\ j.pc = "unpack" /\ j.todo = job.todo /\ j.local = job.local
        /\ j.found = job.found /\ j.done = job.done /\ j.rows = job.rows /\ j.options = job.options
        /\ j.failed = job.failed /\ j.archive = job.archive /\ j.next = 1 /\ j.entries = {}
    BY <2>1, <2>3 DEF JobTypes, AtArchive, Having
  <2>5. Books(j)
    BY <1>1, <2>3, <2>4 DEF Books, AtArchive, Having
  <2>6. raw[job.archive].upto \in Nat /\ 1 \in 1 .. raw[job.archive].upto /\ \A i \in 1 .. 1 - 1 : FALSE
    BY <2>3, MemberFacts DEF Copies
  <2>7. Unpacking(j)
    BY <2>4, <2>6 DEF Unpacking
  <2>8. RunInv(j)
    BY <2>3, <2>4, <2>5, <2>7, JobGoesOn DEF Filed, EndedWell
  <2> QED BY <1>1, <2>2, <2>8, RunStep
<1>3. CASE ~Listable
  <2>1. PICK j : j = Drop(job)
    OBVIOUS
  <2>2. job' = j /\ RunInv(j)
    BY <1>1, <1>3, <2>1, DropIs DEF Open
  <2> QED BY <1>1, <2>2, RunStep
<1> QED BY <1>2, <1>3

LEMMA ReuseStep ==
    ASSUME DownloadInv, Reuse
    PROVE  DownloadInv'
<1>1. job.pc = "unpack" /\ ~Ended /\ UNCHANGED <<store, release, spoiled>> /\ ~Now("saving")
  BY DEF Reuse, Now, Beside
<1>2. PICK j : j = Indexed(job)
  OBVIOUS
<1>3. /\ JobTypes(job) /\ RunInv(job) /\ Live(job) /\ Unpacking(job) /\ raw[job.archive] \in Copies(job.archive)
      /\ Entry \in Rows
  BY <1>1, AtMember
<1>4. /\ JobTypes(j) /\ j.pc = "unpack" /\ j.todo = job.todo /\ j.local = job.local
      /\ j.found = job.found /\ j.done = job.done /\ j.rows = job.rows /\ j.options = job.options
      /\ j.failed = job.failed /\ j.archive = job.archive /\ j.next = job.next + 1
      /\ j.entries = job.entries \cup {Entry}
  BY <1>1, <1>2, <1>3 DEF Indexed, JobTypes
<1>5. /\ Books(j) /\ Filed(j) /\ j.next \in 1 .. raw[j.archive].upto
      /\ j.entries \subseteq {j.archive} \X Range(MembersOf(j.archive))
      /\ \A i \in 1 .. j.next - 1 :
            MembersOf(j.archive)[i] \in Spectra => <<j.archive, MembersOf(j.archive)[i]>> \in j.entries
  BY <1>1, <1>4, NextMember
<1>6. Proper(job, Entry)
  BY DEF Reuse, Reuses, Reusable, Proper, Loadable
<1>7. \A r \in j.entries : Proper(j, r)
  BY <1>1, <1>3, <1>4, <1>6 DEF Unpacking, Proper
<1>8. Unpacking(j)
  BY <1>4, <1>5, <1>7 DEF Unpacking
<1>9. RunInv(j)
  BY <1>3, <1>4, <1>5, <1>8, JobGoesOn
<1> QED BY <1>1, <1>2, <1>9, RunStep DEF Reuse

\* A spectrum of the archive at work is written.
LEMMA SpectrumChanges ==
    ASSUME DownloadInv, job.pc \in {"unpack", "saving"}, ~Ended, NEW v \in {Partial} \cup Nat, NEW f, f = FileAt(Entry),
           npz' = [npz EXCEPT ![f] = v], UNCHANGED <<raw, index, release>>,
           NEW j, job' = j, JobTypes(j), Books(j), Filed(j), j.pc \in {"unpack", "saving"}, j.archive = job.archive,
           j.local = job.local, j.done = job.done, j.rows = job.rows, j.options = job.options, Unpacking(j)',
           v = Partial => j.pc = "saving" /\ spoiled' = spoiled /\ EntryOf(j) = Entry,
           v # Partial => spoiled' = spoiled \ {f}
    PROVE  DownloadInv'
<1>1. /\ RunInv(job) /\ Live(job) /\ Disk(job) /\ job.archive \in Sources /\ job.archive \notin job.done
      /\ raw[job.archive] \in Copies(job.archive) /\ f \in Files /\ f[1] = job.archive
  BY AtMember, InHand, RowFacts DEF AtArchive, Having, Entry
<1>2. /\ npz' = [g \in Files |-> npz'[g]] /\ npz'[f] = v /\ \A g \in Files \ {f} : npz'[g] = npz[g]
      /\ UNCHANGED <<raw, recorded, listed>>
  BY <1>1 DEF DownloadInv, StoreTypes, index
<1>3. StoreTypes'
  BY <1>2 DEF DownloadInv, StoreTypes, Copies
<1>4. Disk(j)'
  <2>1. \A r \in j.rows : FileAt(r) \in Files \ {f}
    BY <1>1, RowFacts DEF Books
  <2>2. \A r \in j.rows : Proper(j, r)'
    BY <1>1, <1>2, <2>1 DEF Disk, Proper, Loadable
  <2> QED BY <1>1, <1>2, <2>2 DEF Disk, Copies
<1>5. Filed(j)'
  BY <1>2 DEF Filed
<1>6. RunInv(j)'
  BY <1>4, <1>5 DEF RunInv
<1>7. RunInv(job)'
  BY <1>6, RunIs
<1>8. Entry' = EntryOf(j)
  BY DEF Entry, Member, EntryOf
<1>9. ASSUME NEW g \in Files, npz'[g] = Partial
      PROVE  g \in spoiled' \/ (Now("saving")' /\ g = FileAt(Entry)')
  <2>1. CASE v = Partial
    <3>1. Now("saving")' /\ FileAt(Entry)' = f
      BY <1>8, <2>1 DEF Now, FileAt
    <3>2. g # f => g \in spoiled
      BY <1>1, <1>2, <1>9 DEF DownloadInv, Spoils, Now
    <3> QED BY <2>1, <3>1, <3>2
  <2>2. CASE v # Partial
    <3>1. g # f /\ npz[g] = Partial
      BY <1>2, <1>9, <2>2
    <3> QED BY <2>2, <3>1 DEF DownloadInv, Spoils
  <2> QED BY <2>1, <2>2
<1>10. listed \in {Missing, Partial} \/ (listed \subseteq Rows /\ \A r \in listed : npz'[FileAt(r)] # Missing)
  <2>1. v # Missing
    BY DownloadAssumption
  <2> QED BY <1>2, <2>1, RowFacts DEF DownloadInv, Spoils
<1>11. Spoils'
  BY <1>2, <1>9, <1>10 DEF Spoils
<1> QED BY <1>3, <1>7, <1>11 DEF DownloadInv

LEMMA ParsesStep ==
    ASSUME DownloadInv, Parses
    PROVE  DownloadInv'
<1>1. job.pc = "unpack" /\ ~Ended /\ UNCHANGED <<raw, index, release, spoiled>> /\ ~Now("saving")
  BY DEF Parses, Now, Beside
<1>2. /\ JobTypes(job) /\ Books(job) /\ RunInv(job) /\ Live(job) /\ Unpacking(job) /\ raw[job.archive] \in Copies(job.archive)
      /\ FileAt(Entry) \in Files /\ Entry = EntryOf(job) /\ job.next + 1 \in 1 .. raw[job.archive].upto
  BY <1>1, AtMember
<1>3. CASE Member \in Spectra
  <2>1. PICK j : j = [job EXCEPT !.pc = "saving"]
    OBVIOUS
  <2>2. PICK f : f = FileAt(Entry)
    OBVIOUS
  <2>3. job' = j /\ npz' = [npz EXCEPT ![f] = Partial]
    BY <1>3, <2>1, <2>2 DEF Parses
  <2>4. /\ JobTypes(j) /\ j.pc = "saving" /\ j.todo = job.todo /\ j.local = job.local
        /\ j.found = job.found /\ j.done = job.done /\ j.rows = job.rows /\ j.options = job.options
        /\ j.failed = job.failed /\ j.archive = job.archive /\ j.next = job.next /\ j.entries = job.entries
    BY <1>1, <1>2, <2>1 DEF JobTypes, AtArchive, Having
  <2>5. Books(j) /\ Filed(j)
    BY <1>1, <1>2, <2>4 DEF Books, AtArchive, Having, Filed, EndedWell
  <2>6. EntryOf(j) = Entry
    BY <1>2, <2>4 DEF EntryOf
  <2>7. \A r \in j.entries : Proper(j, r)' \/ FileAt(r) = f
    <3>1. SUFFICES ASSUME NEW r \in j.entries, FileAt(r) # f PROVE Proper(j, r)'
      OBVIOUS
    <3>2. Proper(job, r) /\ FileAt(r) \in Files
      BY <1>1, <1>2, <2>4, <3>1, RowFacts, AtMember DEF Unpacking
    <3>3. npz'[FileAt(r)] = npz[FileAt(r)]
      BY <1>2, <2>3, <3>1, <3>2 DEF DownloadInv, StoreTypes
    <3> QED BY <1>1, <2>4, <3>2, <3>3 DEF Proper, Loadable
  <2>8. Unpacking(j)'
    <3>1. j.next # raw[j.archive].upto
      BY <1>1, <2>4 DEF Ended, OnDisk
    <3> QED BY <1>1, <1>2, <2>2, <2>4, <2>6, <2>7, <3>1 DEF Unpacking
  <2> QED BY <1>1, <2>2, <2>3, <2>4, <2>5, <2>6, <2>8, SpectrumChanges, DownloadAssumption
<1>4. CASE Member \notin Spectra /\ Member \in Broken
  <2>1. PICK j : j = Drop(job)
    OBVIOUS
  <2>2. job' = j /\ RunInv(j) /\ UNCHANGED store
    BY <1>1, <1>4, <2>1, DropIs DEF Parses, AtArchive, Having, store
  <2> QED BY <1>1, <2>2, RunStep
<1>5. CASE Member \notin Spectra /\ Member \notin Broken
  <2>1. PICK j : j = [job EXCEPT !.next = @ + 1]
    OBVIOUS
  <2>2. job' = j /\ UNCHANGED store
    BY <1>1, <1>5, <2>1 DEF Parses, store
  <2>3. /\ JobTypes(j) /\ j.pc = "unpack" /\ j.todo = job.todo /\ j.local = job.local
        /\ j.found = job.found /\ j.done = job.done /\ j.rows = job.rows /\ j.options = job.options
        /\ j.failed = job.failed /\ j.archive = job.archive /\ j.next = job.next + 1 /\ j.entries = job.entries
    BY <1>1, <1>2, <2>1 DEF JobTypes, AtArchive, Having
  <2>4. /\ Books(j) /\ Filed(j) /\ j.next \in 1 .. raw[j.archive].upto
        /\ j.entries \subseteq {j.archive} \X Range(MembersOf(j.archive))
        /\ \A i \in 1 .. j.next - 1 :
              MembersOf(j.archive)[i] \in Spectra => <<j.archive, MembersOf(j.archive)[i]>> \in j.entries
    BY <1>1, <1>5, <2>3, NextMember
  <2>5. \A r \in j.entries : Proper(j, r)
    BY <1>1, <1>2, <2>3 DEF Unpacking, Proper
  <2>6. Unpacking(j)
    BY <2>3, <2>4, <2>5 DEF Unpacking
  <2>7. RunInv(j)
    BY <1>2, <2>3, <2>4, <2>6, JobGoesOn
  <2> QED BY <1>1, <2>2, <2>7, RunStep
<1> QED BY <1>3, <1>4, <1>5

LEMMA SavedStep ==
    ASSUME DownloadInv, Saved
    PROVE  DownloadInv'
<1>1. job.pc = "saving" /\ UNCHANGED <<raw, index, release>>
  BY DEF Saved, Now, Beside
<1>2. ~Ended
  BY <1>1 DEF DownloadInv, RunInv, Unpacking, Ended, OnDisk
<1>3. /\ JobTypes(job) /\ Books(job) /\ RunInv(job) /\ Live(job) /\ Unpacking(job) /\ raw[job.archive] \in Copies(job.archive)
      /\ FileAt(Entry) \in Files /\ Entry = EntryOf(job) /\ Entry \in Rows
  BY <1>1, <1>2, AtMember
<1>4. PICK j : j = Indexed(job)
  OBVIOUS
<1>5. PICK f : f = FileAt(Entry)
  OBVIOUS
<1>6. PICK v : v = raw[job.archive].version
  OBVIOUS
<1>7. job' = j /\ npz' = [npz EXCEPT ![f] = v] /\ spoiled' = spoiled \ {f}
  BY <1>4, <1>5, <1>6 DEF Saved, OnDisk
<1>8. v \in Nat /\ v \notin {Missing, Partial}
  BY <1>3, <1>6, DownloadAssumption DEF Copies
<1>9. /\ JobTypes(j) /\ j.pc = "unpack" /\ j.todo = job.todo /\ j.local = job.local
      /\ j.found = job.found /\ j.done = job.done /\ j.rows = job.rows /\ j.options = job.options
      /\ j.failed = job.failed /\ j.archive = job.archive /\ j.next = job.next + 1
      /\ j.entries = job.entries \cup {Entry}
  BY <1>1, <1>3, <1>4 DEF Indexed, JobTypes, AtArchive, Having
<1>10. /\ Books(j) /\ Filed(j) /\ j.next \in 1 .. raw[j.archive].upto
       /\ j.entries \subseteq {j.archive} \X Range(MembersOf(j.archive))
       /\ \A i \in 1 .. j.next - 1 :
            MembersOf(j.archive)[i] \in Spectra => <<j.archive, MembersOf(j.archive)[i]>> \in j.entries
  BY <1>1, <1>2, <1>9, NextMember
<1>11. npz'[f] = v /\ \A g \in Files \ {f} : npz'[g] = npz[g]
  BY <1>3, <1>5, <1>7 DEF DownloadInv, StoreTypes
<1>12. \A r \in j.entries : Proper(j, r)'
  <2>1. SUFFICES ASSUME NEW r \in j.entries PROVE Proper(j, r)'
    OBVIOUS
  <2>2. r[1] = job.archive /\ FileAt(r) \in Files
    BY <1>1, <1>2, <1>9, <1>10, RowFacts, AtMember
  <2>3. CASE FileAt(r) = f
    BY <1>1, <1>6, <1>8, <1>11, <2>2, <2>3 DEF Proper, Loadable
  <2>4. CASE FileAt(r) # f
    <3>1. Proper(job, r)
      BY <1>3, <1>5, <1>9, <2>4 DEF Unpacking
    <3> QED BY <1>1, <1>9, <1>11, <2>2, <2>4, <3>1 DEF Proper, Loadable
  <2> QED BY <2>3, <2>4
<1>13. Unpacking(j)'
  BY <1>1, <1>9, <1>10, <1>12 DEF Unpacking
<1> QED BY <1>1, <1>2, <1>5, <1>7, <1>8, <1>9, <1>10, <1>13, SpectrumChanges

LEMMA SaveFailsStep ==
    ASSUME DownloadInv, SaveFails
    PROVE  DownloadInv'
<1>1. PICK j : j = Drop(job)
  OBVIOUS
<1>2. job' = j /\ job.pc = "saving" /\ UNCHANGED <<store, release>> /\ spoiled' = spoiled \cup {FileAt(Entry)}
  BY <1>1 DEF SaveFails, Now, Beside
<1>3. RunInv(j)
  BY <1>1, <1>2, DropIs DEF AtArchive, Having
<1> QED BY <1>2, <1>3, RunStep

LEMMA UnpackedStep ==
    ASSUME DownloadInv, Unpacked
    PROVE  DownloadInv'
<1>1. /\ job.pc = "unpack" /\ job.pc \in AtArchive /\ Ended /\ UNCHANGED <<store, release, spoiled>> /\ ~Now("saving")
  BY DEF Unpacked, Now, Beside, AtArchive, Having
<1>2. PICK a : a = job.archive
  OBVIOUS
<1>3. /\ JobTypes(job) /\ Books(job) /\ Disk(job) /\ Live(job) /\ a \in Sources /\ a \in job.found \ (job.done \cup job.todo)
      /\ raw[a] \in Copies(a) /\ Unpacking(job)
  BY <1>1, <1>2, InHand DEF Having, RunInv
<1>4. PICK j : j = [job EXCEPT !.pc = "archive", !.rows = @ \cup job.entries, !.done = @ \cup {job.archive}]
  OBVIOUS
<1>5. job' = j
  BY <1>4 DEF Unpacked
<1>6. /\ JobTypes(j) /\ j.pc = "archive" /\ j.todo = job.todo /\ j.local = job.local
      /\ j.found = job.found /\ j.done = job.done \cup {a} /\ j.rows = job.rows \cup job.entries /\ j.options = job.options
      /\ j.failed = job.failed
  BY <1>2, <1>3, <1>4 DEF JobTypes
<1>7. job.entries \subseteq Rows /\ \A r \in job.entries : r[1] = a /\ Proper(job, r)
  BY <1>1, <1>2, <1>3, RowFacts DEF Unpacking
<1>8. Books(j)
  BY <1>1, <1>2, <1>3, <1>6, <1>7 DEF Books, AtArchive, Having
<1>9. raw[a].upto = FullLength(a) => Spectral(a) \subseteq job.entries
  <2>1. SUFFICES ASSUME raw[a].upto = FullLength(a), NEW m \in Range(MembersOf(a)), m \in Spectra
                 PROVE  <<a, m>> \in job.entries
    BY DEF Spectral
  <2>2. job.next = Len(MembersOf(a)) + 1 /\ Len(MembersOf(a)) \in Nat
    BY <1>1, <1>2, <1>3, <2>1, MemberFacts DEF Ended, OnDisk
  <2>3. PICK i \in 1 .. Len(MembersOf(a)) : m = MembersOf(a)[i]
    BY <1>3, MemberFacts
  <2>4. i \in 1 .. job.next - 1
    BY <2>2
  <2> QED BY <1>2, <1>3, <2>1, <2>3, <2>4 DEF Unpacking
<1>10. Disk(j)
  <2>1. \A r \in j.rows : Proper(j, r)
    BY <1>3, <1>6, <1>7 DEF Disk, Proper
  <2>2. \A s \in j.done : raw[s].upto = FullLength(s) => Spectral(s) \subseteq j.rows
    BY <1>3, <1>6, <1>9 DEF Disk
  <2> QED BY <1>3, <1>6, <2>1, <2>2 DEF Disk, Having
<1>11. RunInv(j)
  BY <1>6, <1>8, <1>10 DEF RunInv, Filed, EndedWell
<1> QED BY <1>1, <1>5, <1>11, RunStep

\* The index is written: no archive and no spectrum changes.
LEMMA IndexChanges ==
    ASSUME DownloadInv, Live(job), job.pc # "saving", UNCHANGED <<raw, npz, release, spoiled>>,
           listed' \in {listed, Partial, job.rows},
           NEW j, job' = j, JobTypes(j), Books(j), j.pc \in {"manifest", "table", "end"},
           j.local = job.local, j.done = job.done, j.rows = job.rows, j.options = job.options, Filed(j)'
    PROVE  DownloadInv'
<1>1. RunInv(job) /\ Disk(job) /\ Books(job)
  BY DEF DownloadInv, RunInv
<1>2. \A r : Proper(job, r) => Proper(j, r)'
  BY DEF Proper, Loadable
<1>3. Disk(j)'
  BY <1>1, <1>2 DEF Disk, Having, Copies
<1>4. RunInv(j)'
  BY <1>3 DEF RunInv
<1>5. RunInv(job)'
  BY <1>4, RunIs
<1>6. StoreTypes'
  BY DEF DownloadInv, StoreTypes, Copies
<1>7. listed' \in {Missing, Partial} \/ (listed' \subseteq Rows /\ \A r \in listed' : npz[FileAt(r)] # Missing)
  <2>1. job.rows \subseteq Rows /\ \A r \in job.rows : npz[FileAt(r)] # Missing
    BY <1>1 DEF Books, Disk, Proper, Loadable
  <2> QED BY <2>1 DEF DownloadInv, Spoils
<1>8. Spoils'
  BY <1>7 DEF DownloadInv, Spoils, Now
<1> QED BY <1>5, <1>6, <1>8 DEF DownloadInv

LEMMA IndexSteps ==
    ASSUME DownloadInv, Index \/ Table \/ Finish \/ IndexFails
    PROVE  DownloadInv'
<1>1. job.pc \in {"archive", "manifest", "table"} /\ UNCHANGED <<raw, npz, release, spoiled>>
  BY DEF Index, Table, Finish, IndexFails, Ready, Now, Beside, store
<1>2. JobTypes(job) /\ Books(job) /\ RunInv(job) /\ Live(job) /\ Filed(job)
  BY <1>1 DEF DownloadInv, RunInv, Live
<1>3. PICK j : j = job'
  OBVIOUS
<1>4. \A pc : \A code : j = [job EXCEPT !.pc = pc, !.code = code] /\ pc \in {"manifest", "table", "end"} =>
        /\ JobTypes(j) /\ j.pc = pc /\ j.code = code /\ j.todo = job.todo /\ j.local = job.local
        /\ j.found = job.found /\ j.done = job.done /\ j.rows = job.rows /\ j.options = job.options
        /\ j.failed = job.failed
  BY <1>2 DEF JobTypes
<1>5. CASE Index
  <2>1. j = [job EXCEPT !.pc = "manifest", !.code = job.code]
    BY <1>2, <1>3, <1>5 DEF Index, JobTypes
  <2>2. job.todo = {} /\ ~job.options.dry /\ job.pc = "archive" /\ listed' = listed
    BY <1>5 DEF Index, Ready, Now
  <2>3. Books(j)
    BY <1>2, <1>4, <2>1, <2>2 DEF Books, AtArchive, Having
  <2>4. Filed(j)'
    BY <1>4, <2>1 DEF Filed, EndedWell
  <2> QED BY <1>1, <1>2, <1>3, <1>4, <2>1, <2>2, <2>3, <2>4, IndexChanges
<1>6. CASE Table
  <2>1. j = [job EXCEPT !.pc = "table", !.code = job.code]
    BY <1>2, <1>3, <1>6 DEF Table, JobTypes
  <2>2. job.pc = "manifest" /\ listed' = Partial /\ recorded' = job.rows
    BY <1>6 DEF Table, Now
  <2>3. Books(j)
    BY <1>2, <1>4, <2>1, <2>2 DEF Books, AtArchive, Having
  <2>4. Filed(j)'
    BY <1>4, <2>1, <2>2 DEF Filed, EndedWell
  <2> QED BY <1>1, <1>2, <1>3, <1>4, <2>1, <2>2, <2>3, <2>4, IndexChanges
<1>7. CASE Finish
  <2>1. j = [job EXCEPT !.pc = "end", !.code = Code(job)]
    BY <1>3, <1>7 DEF Finish, Ends
  <2>2. \/ job.pc = "table" /\ listed' = job.rows
        \/ job.pc = "archive" /\ job.options.dry /\ listed' = listed
    BY <1>7 DEF Finish, Ready, Now
  <2>3. recorded' = recorded
    BY <1>7 DEF Finish
  <2>4. Books(j)
    BY <1>2, <1>4, <2>1, <2>2 DEF Books, AtArchive, Having
  <2>5. Filed(j)'
    <3>1. Code(job) = 0 => job.failed = 0
      BY <1>2 DEF Code, Books
    <3>2. CASE job.pc = "table"
      <4>1. recorded' = job.rows /\ listed' = job.rows /\ job.todo = {}
        BY <1>2, <2>2, <2>3, <3>2 DEF Filed, Books
      <4>2. j.pc = "end" /\ j.code = Code(job) /\ j.rows = job.rows /\ j.todo = job.todo /\ j.failed = job.failed
        BY <1>4, <2>1
      <4> QED BY <3>1, <4>1, <4>2 DEF Filed, EndedWell
    <3>3. CASE job.options.dry
      BY <1>4, <2>1, <3>3 DEF Filed, EndedWell
    <3> QED BY <2>2, <3>2, <3>3
  <2> QED BY <1>1, <1>2, <1>3, <1>4, <2>1, <2>2, <2>4, <2>5, IndexChanges
<1>8. CASE IndexFails
  <2>1. j = [job EXCEPT !.pc = "end", !.code = 1]
    BY <1>3, <1>8 DEF IndexFails, Ends
  <2>2. listed' = listed
    BY <1>8 DEF IndexFails, store, index
  <2>3. job.pc \in {"manifest", "table"}
    BY <1>8 DEF IndexFails, Now
  <2>4. /\ JobTypes(j) /\ j.pc = "end" /\ j.code = 1 /\ j.todo = job.todo /\ j.local = job.local
        /\ j.found = job.found /\ j.done = job.done /\ j.rows = job.rows /\ j.options = job.options
        /\ j.failed = job.failed
    BY <1>4, <2>1
  <2>5. Books(j)
    BY <1>2, <2>3, <2>4 DEF Books, AtArchive, Having
  <2>6. Filed(j)'
    BY <2>4 DEF Filed, EndedWell
  <2> QED BY <1>1, <1>2, <1>3, <2>2, <2>4, <2>5, <2>6, IndexChanges
<1> QED BY <1>5, <1>6, <1>7, <1>8

LEMMA DownloadNextStep == DownloadInv /\ [DownloadNext]_download => DownloadInv'
<1> SUFFICES ASSUME DownloadInv, [DownloadNext]_download PROVE DownloadInv'
  OBVIOUS
<1>1. CASE UNCHANGED download
  <2>1. UNCHANGED <<raw, npz, recorded, listed, release, job, spoiled>>
    BY <1>1 DEF download
  <2>2. PICK j : j = job
    OBVIOUS
  <2>3. RunInv(j)
    BY <2>2 DEF DownloadInv
  <2>4. RunInv(job)'
    BY <2>1, <2>2, <2>3, RunStays, RunIs DEF store, index
  <2>5. StoreTypes' /\ Spoils'
    BY <2>1 DEF DownloadInv, StoreTypes, Copies, Spoils, Now, Entry, Member
  <2> QED BY <2>4, <2>5 DEF DownloadInv
<1>2. ASSUME NEW s \in Sources, Take(s) PROVE DownloadInv'
  BY <1>2, TakeStep
<1> QED BY <1>1, <1>2, StartRunStep, CrawlStep, HaveStep, FetchRefusedStep, FetchStep, FetchedStep, InterruptedStep,
           OpenStep, ReuseStep, ParsesStep, SavedStep, SaveFailsStep, UnpackedStep, IndexSteps, HaltRunStep,
           ReleaseStep DEF DownloadNext

LEMMA DownloadBegin == DownloadInit => DownloadInv
<1> SUFFICES ASSUME DownloadInit PROVE DownloadInv
  OBVIOUS
<1>1. RunInv(job)
  <2>1. PICK code : code = 1
    OBVIOUS
  <2> QED BY <2>1, RestingIs DEF DownloadInit
<1>2. StoreTypes
  BY DEF DownloadInit, StoreTypes, Files
<1>3. Spoils
  <2>1. \A f \in Files : npz[f] = Missing
    BY DEF DownloadInit, Files
  <2> QED BY <2>1, DownloadAssumption DEF DownloadInit, Spoils
<1> QED BY <1>1, <1>2, <1>3 DEF DownloadInv

LEMMA DownloadEnough == DownloadInv => IndexTrue /\ IndexStays
<1> SUFFICES ASSUME DownloadInv PROVE IndexTrue /\ IndexStays
  OBVIOUS
<1>1. IndexTrue
  <2> SUFFICES ASSUME Completed PROVE IndexTrue
    BY DEF IndexTrue
  <2>1. EndedWell(job) /\ Live(job) /\ job.pc = "end" /\ ~job.options.dry
    BY DEF Completed, EndedWell, Live, Now
  <2>2. Books(job) /\ Disk(job) /\ Filed(job)
    BY <2>1 DEF DownloadInv, RunInv
  <2>3. recorded = job.rows /\ listed = job.rows /\ job.todo = {} /\ (job.code = 0 => job.failed = 0)
    BY <2>1, <2>2 DEF Filed
  <2>4. \A r \in listed : Loadable(FileAt(r))
    BY <2>2, <2>3 DEF Disk, Proper
  <2>5. \A s \in job.done : raw[s].upto = FullLength(s) => Spectral(s) \subseteq listed
    BY <2>2, <2>3 DEF Disk
  <2>6. job.code = 0 => job.done = job.found
    BY <2>1, <2>2, <2>3 DEF Books, AtArchive, Having
  <2>7. ASSUME job.options.process, NEW s \in job.done, NEW r \in Spectral(s) \cap listed
        PROVE  npz[FileAt(r)] = raw[s].version
    <3>1. Proper(job, r) /\ r[1] = s
      BY <2>2, <2>3 DEF Disk, Spectral
    <3> QED BY <2>7, <3>1 DEF Proper
  <2> QED BY <2>3, <2>4, <2>5, <2>6, <2>7 DEF IndexTrue
<1>2. IndexStays
  <2> SUFFICES ASSUME listed \notin {Missing, Partial}, NEW r \in listed
               PROVE  Loadable(FileAt(r)) \/ FileAt(r) \in spoiled \/ (~Now("end") /\ npz[FileAt(r)] = Partial)
    BY DEF IndexStays
  <2>1. npz[FileAt(r)] # Missing /\ FileAt(r) \in Files
    BY RowFacts DEF DownloadInv, Spoils
  <2>2. npz[FileAt(r)] = Partial => FileAt(r) \in spoiled \/ Now("saving")
    BY <2>1 DEF DownloadInv, Spoils
  <2>3. Now("saving") => ~Now("end")
    BY DEF Now
  <2> QED BY <2>1, <2>2, <2>3 DEF Loadable
<1> QED BY <1>1, <1>2

\* A grid in its place is whole, with every table of its models, however many importers
\* run beside each other and wherever one is killed (import_grid.py publishes by one
\* rename); and the index that a finished download leaves lists only spectra that can be
\* read, all of those of the archives it went through, and stays true through later runs
\* (download_tlusty_spectra.py).
THEOREM GridsAreTrue == GridsSpec => []GridsTrue
<1>1. GridsInit => ImportsInv /\ DownloadInv
  BY ImportsBegin, DownloadBegin DEF GridsInit
<1>2. ImportsInv /\ DownloadInv /\ [GridsNext]_<<import, download>> => (ImportsInv /\ DownloadInv)'
  <2> SUFFICES ASSUME ImportsInv, DownloadInv, [GridsNext]_<<import, download>> PROVE (ImportsInv /\ DownloadInv)'
    OBVIOUS
  <2>1. [ImportNext]_import /\ [DownloadNext]_download
    BY DEF GridsNext
  <2> QED BY <2>1, ImportNextStep, DownloadNextStep
<1>3. ImportsInv /\ DownloadInv => GridsTrue
  BY ImportsEnough, DownloadEnough DEF GridsTrue
<1> QED BY <1>1, <1>2, <1>3, PTL DEF GridsSpec
=============================================================================
