------------------------------ MODULE Photometry ------------------------------
(***************************************************************************)
(* Tables of photometry: how a submitted, legacy or named table becomes    *)
(* the canonical table on disk, how that is read back, how rows of VizieR  *)
(* are found, written and appended (observed_spectrum.py, upload_views.py, *)
(* vizier_photometry.py).                                                  *)
(*                                                                         *)
(* A line is its tokens and the comment after the hash; blank and comment  *)
(* lines are left out.  A token is what parse_float_token and the flag     *)
(* words make of it, and how its number is written: short, as the table    *)
(* writes it (.15g), or long, as the rows from VizieR are (.3f, .8e).      *)
(***************************************************************************)
EXTENDS Integers, SequencesExt, Filters

CONSTANTS
    Nothing,  \* no point, no table
    Refused   \* ValueError

ASSUME OutcomeAssumption == Nothing # Refused

Number(v, form) == [kind |-> "finite", value |-> v, form |-> form]
Short(v) == Number(v, "short")
Infinite == [kind |-> "infinite", value |-> 0, form |-> "short"]
FlagWord(on) == [kind |-> "flag", value |-> IF on THEN 1 ELSE 0, form |-> "short"]
Word == [kind |-> "word", value |-> 0, form |-> "short"]

Numeric(t) == t.kind \in {"finite", "infinite"}
Finite(t) == t.kind = "finite"
\* _parse_enabled_token: a word, or exactly 1 or 0.
IsFlag(t) == t.kind = "flag" \/ (Finite(t) /\ t.value \in {0, 1} /\ t.form = "short")
On(t) == t.value = 1

\* joined: separated by commas or semicolons without a space; hash: has a comment.
Line(tokens, hash, comment) ==
    [tokens |-> tokens, joined |-> FALSE, hash |-> hash, comment |-> comment]

\* What a table may hold.
AnyToken == [kind : {"finite", "infinite", "flag", "word"}, value : Int, form : {"short", "long"}]
AnyLine == [tokens : Seq(AnyToken), joined : BOOLEAN, hash : BOOLEAN, comment : Seq(AnyToken)]
Tables == Seq(AnyLine)
AnyPoint == [wave : Int, width : Int, flux : Int, error : Int, comment : Seq(AnyToken)]
ASSUME TableAssumption == {Nothing, Refused} \cap Tables = {}

-----------------------------------------------------------------------------
(* normalize_photometry_table: one bad row refuses the table.              *)

Measured(wave, width, flux) ==
    /\ Finite(wave) /\ wave.value > 0
    /\ Finite(width) /\ width.value >= 0
    /\ Finite(flux)
From(s, i) == SubSeq(s, i, Len(s))

\* The meaning of the tokens by position: with three columns more than the legacy
\* schema, which has no width and no flag; a fourth token alone may be the flag.  A
\* variant takes a fourth token for the flag whenever it can be one.
LegacyRow(t) == [wave |-> t[1], width |-> Short(0), flux |-> t[2],
                 error |-> IF Len(t) >= 3 THEN t[3] ELSE Short(0),
                 enabled |-> TRUE, note |-> From(t, 4)]
FourthIsFlagEarly(t) == Len(t) >= 4 /\ IsFlag(t[4])
FourthIsFlag(t) == Len(t) = 4 /\ IsFlag(t[4])
ModernRow(t) ==
    LET fifth == Len(t) >= 5 /\ IsFlag(t[5])
    IN [wave |-> t[1], width |-> t[2], flux |-> t[3],
        error |-> IF Len(t) < 4 \/ FourthIsFlag(t) THEN Short(0) ELSE t[4],
        enabled |-> IF fifth THEN On(t[5]) ELSE IF FourthIsFlag(t) THEN On(t[4]) ELSE TRUE,
        note |-> IF fifth THEN From(t, 6) ELSE From(t, 5)]

\* shlex splits at blanks only.
Split(l) == IF l.joined THEN <<Word>> ELSE l.tokens
RowOf(l, legacy) ==
    LET t == Split(l)
        r == IF legacy THEN LegacyRow(t) ELSE ModernRow(t)
    IN IF Len(t) < (IF legacy THEN 2 ELSE 3) \/ ~Measured(r.wave, r.width, r.flux) THEN Refused
       ELSE Line(<<Short(r.wave.value), Short(r.width.value), Short(r.flux.value),
                   Short(IF Finite(r.error) /\ r.error.value >= 0 THEN r.error.value ELSE 0),
                   Short(IF r.enabled THEN 1 ELSE 0)>>,
                 (IF l.hash THEN l.comment ELSE r.note) # <<>>,
                 IF l.hash THEN l.comment ELSE r.note)
Normalized(table, legacy) ==
    LET rows == [i \in DOMAIN table |-> RowOf(table[i], legacy)]
    IN IF Refused \in Range(rows) THEN Refused ELSE rows

-----------------------------------------------------------------------------
(* _parse_photometry_content: bad rows are skipped.  The error of a fourth *)
(* token comes first; then the fifth can only be the flag.                 *)

NoError == -1
Good(t) == Finite(t) /\ t.value >= 0
FourthMeans(t) ==
    IF Len(t) < 4 THEN "none"
    ELSE IF Len(t) = 4 /\ IsFlag(t[4]) THEN "enabled"
    ELSE IF Numeric(t[4]) THEN (IF Good(t[4]) THEN "flux_err" ELSE "none")
    ELSE IF IsFlag(t[4]) THEN "enabled" ELSE "none"
\* The fifth token is the error if it is a number and the fourth was not.
FifthIsError(t) == Len(t) >= 5 /\ FourthMeans(t) # "flux_err" /\ Numeric(t[5])
Enabled(t) ==
    IF Len(t) >= 5 /\ IsFlag(t[5]) /\ ~FifthIsError(t) THEN On(t[5])
    ELSE FourthMeans(t) = "enabled" => On(t[4])
ErrorOf(t) ==
    IF FourthMeans(t) = "flux_err" THEN t[4].value
    ELSE IF FifthIsError(t) /\ Good(t[5]) THEN t[5].value ELSE NoError
PointOf(l) ==
    LET t == l.tokens
    IN IF Len(t) < 3 \/ ~Measured(t[1], t[2], t[3]) THEN Refused
       ELSE IF ~Enabled(t) THEN Nothing
       ELSE [wave |-> t[1].value, width |-> t[2].value, flux |-> t[3].value,
             error |-> ErrorOf(t), comment |-> l.comment]
\* The points of a table, or no table: nothing readable, or nothing enabled in the window.
PointsOf(table, window) ==
    LET read == [i \in DOMAIN table |-> PointOf(table[i])]
    IN SelectSeq(read, LAMBDA p : p \notin {Refused, Nothing} /\ p.wave \in window)
Parsed(table, window) ==
    IF PointsOf(table, window) = <<>> THEN Refused ELSE PointsOf(table, window)

-----------------------------------------------------------------------------
(* Tables with named columns.  A name is [role, rank]: which of the role's *)
(* aliases it is, units included; others have the role "other".            *)

Candidates(names, role) == {i \in DOMAIN names : names[i].role = role}
\* The best alias; of equal names the last one stays in the dictionary.
ColumnOf(names, role) ==
    CHOOSE i \in Candidates(names, role) : \A k \in Candidates(names, role) :
        names[i].rank < names[k].rank \/ (names[i].rank = names[k].rank /\ k <= i)
IsPhotometry(names) == \A role \in {"wave", "width", "flux"} : Candidates(names, role) # {}
Column(names, row, role, default) ==
    IF Candidates(names, role) = {} THEN default ELSE row[ColumnOf(names, role)]

\* _canonical_named_photometry: a row is put together in the order of the canonical
\* table; the flag must be one.  An empty error is none.
Empty == [kind |-> "empty", value |-> 0, form |-> "short"]
NamedRow(names, row) ==
    LET V(role, default) == Column(names, row, role, default)
        error == V("error", Empty)
        flag == V("enabled", Short(1))
        note == V("comment", Empty)
    IN IF ~Measured(V("wave", Empty), V("width", Empty), V("flux", Empty)) \/ ~IsFlag(flag)
       THEN Refused
       ELSE RowOf(Line(<<V("wave", Empty), V("width", Empty), V("flux", Empty),
                         IF error = Empty THEN Short(0) ELSE error,
                         Short(IF On(flag) THEN 1 ELSE 0)>>,
                       note # Empty, IF note = Empty THEN <<>> ELSE <<note>>), FALSE)

\* _photometry_from_text and _photometry_from_astropy_table: a header, perhaps in a
\* comment, with the columns of photometry, then rows as long as the header.
NamedTable(names, rows) ==
    IF ~IsPhotometry(names) THEN Nothing
    ELSE IF rows = <<>> \/ \E r \in Range(rows) : Len(r) # Len(names) THEN Refused
    ELSE LET named == [i \in DOMAIN rows |-> NamedRow(names, rows[i])]
         IN IF Refused \in Range(named) THEN Refused ELSE named

-----------------------------------------------------------------------------
(* VizieR.                                                                 *)

\* Which catalogue's bands a row of the SED service belongs to, by the words in its
\* filter or the table it comes from, in this order.
Families == <<"gaia", "ps1", "tmass", "wise">>
FamilyOf(row) ==
    SelectSeq(Families, LAMBDA f : (f \in row.says \/ row.table = f) /\ f \in row.bands)

\* A band's width is known; ten per cent of the wavelength otherwise.
WidthOf(row, known) == IF FamilyOf(row) # <<>> THEN known[Head(FamilyOf(row))] ELSE row.tenth
Usable(rows) == SelectSeq(rows, LAMBDA r : r.wave > 0 /\ r.flux > 0)
VizierPoint(row, width, error) ==
    [wave |-> row.wave, width |-> width, flux |-> row.flux, error |-> error, comment |-> <<Word>>]
\* _extract_points_from_sed_table, _extract_points_from_catalog_table: only positive and
\* finite measurements.  An error that is not one is none; the service's lose their sign.
\* A catalogue's column has a band.
SedPoints(rows, known) ==
    LET Point(row) == VizierPoint(row, WidthOf(row, known), IF row.error < 0 THEN -row.error ELSE row.error)
    IN [i \in DOMAIN Usable(rows) |-> Point(Usable(rows)[i])]
CatalogPoints(rows, known) ==
    LET Point(row) == VizierPoint(row, known[row.table], IF row.error > 0 THEN row.error ELSE 0)
    IN [i \in DOMAIN Usable(rows) |-> Point(Usable(rows)[i])]
\* The service, or else, catalogue by catalogue, what can be had; by wavelength.
ByWave(points) == SortSeq(points, LAMBDA p, q : p.wave < q.wave)
Query(service, catalogues, known) ==
    IF service # Refused THEN ByWave(SedPoints(service, known))
    ELSE ByWave(FoldLeft(
            LAMBDA a, c : a \o (IF c = Refused THEN <<>> ELSE CatalogPoints(c, known)),
            <<>>, catalogues))

\* format_photometry_table_rows; wavelengths with three decimals, which leaves nothing of
\* the shortest.
Long(v) == Number(v, "long")
Shortest == 1
Decimals(v) == Long(IF v = Shortest THEN 0 ELSE v)
VizierLine(p) == Line(<<Decimals(p.wave), Long(p.width), Long(p.flux), Long(p.error), Short(1)>>,
                      p.comment # <<>>, p.comment)

\* _merge_photometry_table_text: rows are told apart by their text, without the flag.
CloseToFlag(t) == Finite(t) /\ t.value \in {0, 1}
Key(l) ==
    LET flagged == ~l.joined /\ Len(l.tokens) >= 5 /\ CloseToFlag(l.tokens[5])
    IN [joined |-> l.joined, comment |-> l.comment,
        tokens |-> IF flagged THEN RemoveAt(l.tokens, 5) ELSE l.tokens]
Keys(table) == {Key(l) : l \in Range(table)}
NewKey(base, extra, i) ==
    Key(extra[i]) \notin Keys(base) /\ \A k \in 1 .. i - 1 : Key(extra[k]) # Key(extra[i])
Merged(base, extra) ==
    LET added == Only([i \in DOMAIN extra |-> i], {i \in DOMAIN extra : NewKey(base, extra, i)})
    IN base \o [n \in DOMAIN added |-> extra[added[n]]]
=============================================================================
