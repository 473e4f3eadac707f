---------------------------- MODULE GridCatalogue ----------------------------
(***************************************************************************)
(* Which models a grid search fits (grid_catalog.py): the rows of an index *)
(* that match the search, reach over every band of the observed            *)
(* photometry, and have a continuum to normalize them if one is needed.    *)
(*                                                                         *)
(* A row is [grid, name, products, arrays, bounds, points, matches, file,  *)
(* eligible].  name is the sequence of its parts between dots (the path of *)
(* a CMFGEN model), bounds the wavelengths <<low, high>> it covers or      *)
(* None, points their number or None; matches and file say whether the     *)
(* pattern of the search matches it and its file is there.  Candidates     *)
(* stand in the order of their rows; the code sorts them by name.          *)
(***************************************************************************)
EXTENDS Integers, SequencesExt

CONSTANTS
    None, Refusal,
    Numbers   \* the parts of names that are digits

-----------------------------------------------------------------------------
(* Wavelengths.                                                            *)

\* _tlusty_row_wavelength_bounds: swapped ones are put right; others mean nothing.
WavelengthBounds(row) ==
    IF row.bounds = None \/ row.bounds[1] = row.bounds[2] \/ row.bounds[1] <= 0 \/ row.bounds[2] <= 0
    THEN None
    ELSE <<Min({row.bounds[1], row.bounds[2]}), Max({row.bounds[1], row.bounds[2]})>>

\* Fractions <<p, q>> stand for 1 + z.
Leq(a, b) == a[1] * b[2] <= b[1] * a[2]
Larger(a, b) == IF Leq(a, b) THEN b ELSE a
Smaller(a, b) == IF Leq(a, b) THEN a ELSE b
One == <<1, 1>>

\* The bounds of the redshift if they make sense, else none at all.
Redshifts(z) ==
    IF z = None \/ z[1][1] <= 0 \/ z[2][1] <= 0 THEN <<One, One>>
    ELSE <<Smaller(z[1], z[2]), Larger(z[1], z[2])>>

\* _tlusty_row_covers_observed_photometry: a band [from, to] is covered between two
\* redshifts, and all bands at the redshifts that are left after each of them.
Narrowed(z, band, model) ==
    <<Larger(z[1], <<band.to, model[2]>>), Smaller(z[2], <<band.from, model[1]>>)>>
Covers(row, bands, z) ==
    LET model == WavelengthBounds(row)
    IN bands # None /\ bands # <<>> =>
        /\ model # None
        /\ LET left == FoldLeft(LAMBDA a, b : Narrowed(a, b, model), Redshifts(z), bands)
           IN Leq(left[1], left[2])

Overlap(a, b) ==
    IF None \in {a, b} THEN 0 ELSE Max({0, Min({a[2], b[2]}) - Max({a[1], b[1]})})

-----------------------------------------------------------------------------
(* Continua.                                                               *)

Numbered(name) == Last(name) \in Numbers
\* _tlusty_pair_key and _tlusty_family_key.  A variant leaves the grid out.
PairKeyAnyGrid(row) ==
    IF Len(row.name) >= 3 /\ Numbered(row.name)
    THEN <<None, SubSeq(row.name, 1, Len(row.name) - 2), Last(row.name)>>
    ELSE <<None, row.name, None>>
PairKey(row) ==
    IF Len(row.name) >= 3 /\ Numbered(row.name)
    THEN <<row.grid, SubSeq(row.name, 1, Len(row.name) - 2), Last(row.name)>>
    ELSE <<row.grid, row.name, None>>
FamilyKey(row) ==
    <<row.grid, IF Len(row.name) >= 2 /\ Numbered(row.name) THEN Front(row.name) ELSE row.name>>

\* The first of those with the best score, compared from the left.
Less(a, b) == \E i \in DOMAIN a : a[i] < b[i] /\ \A k \in 1 .. i - 1 : a[k] = b[k]
BestBy(rows, Score(_)) ==
    rows[CHOOSE i \in DOMAIN rows :
            \A k \in DOMAIN rows :
                /\ ~Less(Score(rows[i]), Score(rows[k]))
                /\ k < i => Less(Score(rows[k]), Score(rows[i]))]

Bit(condition) == IF condition THEN 1 ELSE 0
Bands == {"optical", "uv"}
\* _tlusty_row_products: those the index states, and those its name says.
Words == [optical |-> {"vis", "opt"}, uv |-> {"uv"}, continuum |-> {"hhe", "cont"}, sed |-> {"sed"}, flux |-> {"flux"}]
Products(row) == row.products \cup {p \in DOMAIN Words : Words[p] \cap Range(row.name) # {}}
\* _tlusty_select_continuum_row.
SelectContinuum(row, continua) ==
    LET Score(c) == <<Bit(Bands \cap Products(row) \cap Products(c) # {}),
                      Overlap(WavelengthBounds(row), WavelengthBounds(c))>>
    IN IF continua = <<>> THEN None ELSE BestBy(continua, Score)
\* _tlusty_select_paired_spectrum_continuum: another member of the family.
SelectPaired(row, family) ==
    LET others == SelectSeq(family, LAMBDA r : r.name # row.name)
        Between(name) == {name[i] : i \in 2 .. Len(name) - 1}
        Score(r) == <<Bit(None \notin {r.points, row.points} /\ 0 < r.points /\ r.points < row.points),
                      Bit({"uv", "vis"} \cap Between(row.name) \cap Between(r.name) # {}),
                      Overlap(WavelengthBounds(r), WavelengthBounds(row))>>
    IN IF others = <<>> THEN None ELSE BestBy(others, Score)

-----------------------------------------------------------------------------
(* _discover_tlusty_grid_models.                                           *)

Normalized == "normalized_flux_candidate"
OwnContinuum == "continuum_lambda_cgs"
\* What a fit in this mode looks for.
Wanted(mode) == Bands \cup (IF mode = "both" THEN {"sed", "flux"} ELSE {})
Accessible(rows) == SelectSeq(rows, LAMBDA r : r.matches /\ r.file)
IsContinuum(r) == "continuum" \in Products(r) \/ OwnContinuum \in r.arrays
IsSpectrum(r, mode) == "continuum" \notin Products(r) /\ Products(r) \cap Wanted(mode) # {}
SpectrumRows(rows, mode) == SelectSeq(Accessible(rows), LAMBDA r : IsSpectrum(r, mode))

\* A continuum of the same name and number, else of the same name; else a spectrum of the
\* family, unless it is known to have as many points.
NotFewer(paired, row) == None \notin {paired.points, row.points} /\ row.points <= paired.points
ContinuumRow(rows, row, mode) ==
    LET continua == SelectSeq(Accessible(rows), IsContinuum)
        same == SelectSeq(continua, LAMBDA c : PairKey(c) = PairKey(row))
        unnumbered == SelectSeq(continua, LAMBDA c :
            /\ Numbered(row.name) /\ Len(row.name) >= 3
            /\ PairKey(c) = [PairKey(row) EXCEPT ![3] = None])
        family == SelectSeq(SpectrumRows(rows, mode), LAMBDA r : FamilyKey(r) = FamilyKey(row))
        paired == SelectPaired(row, family)
    IN IF same # <<>> THEN SelectContinuum(row, same)
       ELSE IF unnumbered # <<>> THEN SelectContinuum(row, unnumbered)
       ELSE IF paired = None \/ NotFewer(paired, row) THEN None ELSE paired

Candidate(row, continuum) == [row |-> row, continuum |-> continuum]
TlustyCandidates(rows, mode, bands, z) ==
    LET reaching == SelectSeq(SpectrumRows(rows, mode), LAMBDA r : Covers(r, bands, z))
        Needs(r) == mode # "both" /\ Normalized \notin r.arrays
        usable == SelectSeq(reaching, LAMBDA r : Needs(r) => ContinuumRow(rows, r, mode) # None)
    IN [i \in DOMAIN usable |->
            Candidate(usable[i], IF Needs(usable[i]) THEN ContinuumRow(rows, usable[i], mode) ELSE None)]

-----------------------------------------------------------------------------
(* The other sources.                                                      *)

\* _discover_imported_grid_models: BOSZ, PHOENIX.  eligible: of this grid, without
\* negative fluxes; file: inside the root as well.
ImportedCandidates(source, rows, mode, bands, z) ==
    IF source = "phoenix" /\ mode # "both" THEN <<>>
    ELSE LET usable == SelectSeq(rows, LAMBDA r :
                /\ r.eligible /\ r.matches /\ r.file
                /\ mode = "both" \/ {Normalized, OwnContinuum} \cap r.arrays # {}
                /\ Covers(r, bands, z))
         IN [i \in DOMAIN usable |-> Candidate(usable[i], None)]

\* _discover_model_grid_from_cache: the CMFGEN models whose summaries are cached, each path
\* once, whatever was observed.
CachedCandidates(rows) ==
    LET First(i) == \A k \in 1 .. i - 1 : rows[k].name # rows[i].name
        usable == SelectSeq([i \in DOMAIN rows |-> i], LAMBDA i : First(i) /\ rows[i].matches /\ rows[i].file)
    IN [i \in DOMAIN usable |-> Candidate(rows[usable[i]], None)]

\* _discover_grid_fit_candidates.
NpzSources == {"tlusty", "bosz", "phoenix"}
Candidates(source, rows, mode, bands, z) ==
    CASE source \in {"bosz", "phoenix"} -> ImportedCandidates(source, rows, mode, bands, z)
      [] source = "tlusty" -> TlustyCandidates(rows, mode, bands, z)
      [] OTHER -> CachedCandidates(rows)

-----------------------------------------------------------------------------
(* The requests (grid_views.py).  An upload is [file, parsed, mode, points] *)
(* with points its bands, or None; a form [source, range, z].               *)

\* _normalize_fit_wavelength_range: what is given, in order, inside the window.
WavelengthRange(given, window) ==
    LET sides == <<IF given[1] = None THEN window[1] ELSE given[1],
                   IF given[2] = None THEN window[2] ELSE given[2]>>
        range == <<Max({window[1], Min(Range(sides))}), Min({window[2], Max(Range(sides))})>>
    IN IF \E side \in Range(given) : side # None /\ side <= 0 THEN Refusal
       ELSE IF given = <<None, None>> THEN None
       ELSE IF range[1] >= range[2] THEN Refusal ELSE range

\* The points a search takes from an upload: those whose centre is inside.
Observed(upload, range) ==
    IF upload.points = None THEN None
    ELSE SelectSeq(upload.points, LAMBDA b : range[1] <= b.centre /\ b.centre <= range[2])
Parses(upload, range) == upload.parsed /\ Observed(upload, range) # <<>>
Effective(form, window) ==
    LET range == WavelengthRange(form.range, window) IN IF range = None THEN window ELSE range

\* upload_fit_grid: a search that is running for the upload is answered instead; else what
\* the job is created with and its thread is given (GridSearch has the job).
FitRequest(upload, form, window, running, rows) ==
    LET range == Effective(form, window)
    IN IF range = Refusal \/ upload = None \/ ~upload.file \/ ~Parses(upload, range) THEN Refusal
       ELSE IF running # None THEN [existing |-> running]
       ELSE LET observed == Observed(upload, range)
                found == Candidates(form.source, rows, upload.mode, observed, form.z)
            IN IF found = <<>> THEN Refusal
               ELSE [source |-> form.source, mode |-> upload.mode, total |-> Len(found),
                     observed |-> observed, range |-> range, candidates |-> found]
\* upload_fit_grid_match_count, asked by a page with the mode it was shown for.  Only where
\* coverage matters is the upload read at all.
MatchCount(upload, form, window, mode, rows) ==
    LET range == Effective(form, window)
        Count(bands) == Len(Candidates(form.source, rows, mode, bands, form.z))
    IN IF upload = None THEN 0
       ELSE IF form.source \notin NpzSources THEN Count(None)
       ELSE IF ~upload.file \/ range = Refusal \/ ~Parses(upload, range) THEN 0
       ELSE Count(Observed(upload, range))
=============================================================================
