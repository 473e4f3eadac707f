------------------------------- MODULE MCUploads -------------------------------
(* Two or three requests for one bundle; and, in states of their own, samples of what *)
(* people give: lines and named tables of photometry, rows of VizieR, files and vectors *)
(* of spectra, on which the operators that read them are compared.                     *)
EXTENDS Uploads, ObservedSpectra

Row(w, flag) == Line(<<Short(w), Short(0), Short(2), Short(0), Short(flag)>>, FALSE, <<>>)
MCTexts == { <<>>, <<Row(2, 1)>>, <<Row(3, 0)>>, <<Row(2, 1), Row(3, 0)>>,
             <<Line(<<Word>>, FALSE, <<>>)>> }
Point(w) == [wave |-> w, width |-> 2, flux |-> 2, error |-> 0, comment |-> <<Word>>]
MCAnswers == {Refused, <<Point(2), Point(3), Point(2)>>}

Interchangeable == Permutations(Requests)

VARIABLE sample
NoSample == [kind |-> "none"]
Asleep == [kind |-> "asleep"]  \* nothing happens here
vars == <<uploads, sample>>

Tokens == {Short(0), Short(1), Short(2), Short(-1), Long(1), Infinite, Word, FlagWord(FALSE)}
Heads == {Short(0), Short(2), Word}
Lines == {[tokens |-> t, joined |-> j, hash |-> c # <<>>, comment |-> c] :
    t \in [1 .. 2 -> Heads] \cup [1 .. 3 -> Heads]
        \cup {<<Short(2), Short(0), Short(2)>> \o s : s \in UNION {[1 .. n -> Tokens] : n \in 1 .. 3}},
    j \in BOOLEAN, c \in {<<>>, <<Word>>}}
LineSamples == [kind : {"line"}, line : Lines, legacy : BOOLEAN]

NameSet == {[role |-> "wave", rank |-> 1], [role |-> "wave", rank |-> 2], [role |-> "width", rank |-> 1],
            [role |-> "flux", rank |-> 1], [role |-> "error", rank |-> 1], [role |-> "enabled", rank |-> 1],
            [role |-> "other", rank |-> 1]}
Cells == <<Short(2), Short(3), Short(4), Short(1), Word>>
NamedSamples == [kind : {"named"}, names : [1 .. 5 -> NameSet], row : {Cells, Tail(Cells) \o <<Short(0)>>}]

SedRows == [wave : {0, Shortest, 3}, flux : {0, 2}, error : {-1, 2}, tenth : {1},
            says : {{}, {"gaia"}}, table : {"tmass", "none"}, bands : {{}, {"gaia", "tmass"}}]
Known == [f \in Range(Families) |-> IF f = "gaia" THEN 7 ELSE 8]
QuerySamples == [kind : {"query"}, service : {Refused} \cup {<<x>> : x \in SedRows},
                 catalogues : {<<Refused, <<y>>>> : y \in {y \in SedRows : y.table # "none"}}]

SomeNames == {[exact |-> "wave", rank |-> 1, holds |-> {"wave"}], [exact |-> "none", rank |-> 0, holds |-> {"wave"}],
              [exact |-> "flux", rank |-> 2, holds |-> {"flux"}], [exact |-> "error", rank |-> 1, holds |-> {"flux", "error"}],
              [exact |-> "none", rank |-> 0, holds |-> {"flux"}], [exact |-> "none", rank |-> 0, holds |-> {}]}
HeaderSamples == [kind : {"header"}, names : UNION {[1 .. n -> SomeNames] : n \in 1 .. 3}]
ShapeSamples == [kind : {"shape"}, rows : 1 .. 4, columns : 1 .. 4]

Vector == [wave : [1 .. 3 -> {NaN, 0, 1, 2}], flux : [1 .. 3 -> {NaN, -1, 2}], error : {<<11, 12, 13>>, Missing}]
VectorSamples == [kind : {"vectors"}, v : Vector, asked : {"auto", "normalized"}, detected : Detected,
                  bounds : {<<Missing, Missing>>, <<2, 1>>, <<2, -1>>}]

Init ==
    /\ UploadsInit
    /\ sample \in {NoSample} \cup LineSamples \cup NamedSamples \cup QuerySamples
                  \cup HeaderSamples \cup ShapeSamples \cup VectorSamples
Next == sample = NoSample /\ UploadsNext /\ UNCHANGED sample
Spec == Init /\ [][Next]_vars

-----------------------------------------------------------------------------
Is(kind) == sample.kind = kind
SamePoint(p, q) == p = q \/ (Nothing \notin {p, q} /\ Refused \notin {p, q} /\
    [p EXCEPT !.error = 0] = [q EXCEPT !.error = 0] /\ {p.error, q.error} = {NoError, 0})
\* The fourth of five columns is an error where it is a number from zero.
PlainError(t) == Len(t) <= 4 \/ Good(t[4])

\* What the table on disk says is what was given, whichever way it came: a canonical row is
\* its own canonical form; a table saved as it was read keeps its points, flags and
\* errors (but where the fourth of five columns is no error); a named column's values
\* keep their roles; and a row of VizieR is always accepted, as the point it is, unless
\* three decimals leave nothing of its wavelength.
LineKept ==
    LET row == RowOf(sample.line, sample.legacy)
    IN row # Refused =>
        /\ RowOf(row, FALSE) = row
        /\ PointOf(row) # Refused
        /\ ~sample.legacy /\ sample.line.hash /\ PlainError(sample.line.tokens)
            => SamePoint(PointOf(row), PointOf(sample.line))
NamedKept ==
    LET t == NamedTable(sample.names, <<sample.row>>)
        V(role, default) == Column(sample.names, sample.row, role, default)
        flag == V("enabled", Short(1))
    IN t \notin {Nothing, Refused} =>
        PointOf(t[1]) = IF ~On(flag) THEN Nothing ELSE
            [wave |-> V("wave", Empty).value, width |-> V("width", Empty).value,
             flux |-> V("flux", Empty).value, comment |-> t[1].comment,
             error |-> IF Finite(V("error", Empty)) THEN V("error", Empty).value ELSE 0]
QueryKept ==
    LET points == Query(sample.service, sample.catalogues, Known)
    IN \A p \in Range(points) :
        LET row == RowOf(VizierLine(p), FALSE)
        IN IF p.wave = Shortest THEN row = Refused ELSE PointOf(row) = p
PhotometryKept ==
    /\ Is("line") => LineKept
    /\ Is("named") => NamedKept
    /\ Is("query") => QueryKept

\* Every sample of a spectrum keeps its wavelength, flux and error together, through any
\* reading and filter, and is counted once: shown, in order and inside the bounds, or
\* skipped, or outside.  Columns are told apart, and a plain array is read along its
\* longer side.
HeaderApart ==
    /\ \A numeric \in {<<>>, <<2>>, <<1, 2, 3>>} :
        \A c \in {VoTableColumns(sample.names, numeric), FitsTableColumns(sample.names, numeric),
                  BareColumns(Len(sample.names))} \ {Unreadable} :
            c.wave # c.flux /\ c.error \notin {c.wave, c.flux}
    /\ TextColumns(sample.names) # Unreadable =>
        TextColumns(sample.names).wave # TextColumns(sample.names).flux
Together(v, s) ==
    \A k \in DOMAIN s.wave : \E i \in DOMAIN v.wave :
        v.wave[i] = s.wave[k] /\ v.flux[i] = s.flux[k] /\ (v.error # Missing => v.error[i] = s.error[k])
SpectraAligned ==
    /\ Is("header") => HeaderApart
    /\ Is("shape") => ArrayLayout(sample.rows, sample.columns).samples =
            (IF sample.rows > sample.columns THEN sample.rows ELSE sample.columns)
    /\ Is("vectors") =>
        LET b == Bounds(sample.bounds[1], sample.bounds[2])
        IN \A s \in Spectra(sample.v, sample.asked, sample.detected, b) \ {Unreadable} :
            /\ Together(sample.v, s.samples) /\ Ascending(s.samples.wave)
            /\ s.raw = Len(s.samples.wave) + s.skipped + s.outside
            /\ \A w \in Range(s.samples.wave) : w > 0 /\ Inside(w, b)
            /\ s.mode = "normalized" => \A f \in Range(s.samples.flux) : f >= 0

\* "so that appending an enabled row does not duplicate an already existing disabled row"
\* (upload_views.py:162): a table never holds a row twice, however often the same rows of
\* VizieR are appended to it.
Values(l) == RemoveAt(RowOf(l, FALSE).tokens, 5)
AppendAddsNew ==
    mishaps = {} /\ source # Nothing =>
        \A i, k \in DOMAIN source :
            Refused \notin {RowOf(source[i], FALSE), RowOf(source[k], FALSE)} /\ i # k
                => Values(source[i]) # Values(source[k])
=============================================================================
