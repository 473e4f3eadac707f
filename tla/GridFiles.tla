------------------------------ MODULE GridFiles ------------------------------
(***************************************************************************)
(* The files of a grid: what the scripts make of one spectrum, the .npz    *)
(* file and the row of the index (import_bosz_spectra.py,                  *)
(* import_phoenix_spectra.py, download_tlusty_spectra.py), and the series  *)
(* a candidate is fitted with that is read from such a file                *)
(* (grid_fitting.py).                                                      *)
(*                                                                         *)
(* A file is a record of columns [wave, flux, norm, cont]: norm and cont   *)
(* the arrays normalized_flux_candidate and continuum_lambda_cgs, or None; *)
(* Unreadable if it cannot be loaded.  Numbers are integers, NaN stands    *)
(* for those that are not finite, and a flux relative to a continuum is a  *)
(* fraction <<p, q>>.  A row has the bounds, the number of points and the  *)
(* arrays that GridCatalogue reads.                                        *)
(***************************************************************************)
EXTENDS Integers, SequencesExt, FiniteSetsExt

CONSTANTS
    None, Refusal, NaN, Unreadable,
    Factor,       \* from the flux of PHOENIX to that of the grids
    LeastRatios,  \* points that a continuum in a second column needs
    Light,        \* wavelength times frequency
    Guesses,      \* first columns above .hz are frequencies, below .micron and .nm lengths of that unit
    Angstroms     \* in a .micron and in a .nm

-----------------------------------------------------------------------------
(* What the scripts make.                                                  *)

File(wave, flux, norm, cont) == [wave |-> wave, flux |-> flux, norm |-> norm, cont |-> cont]
Arrays(file) ==
    (IF file.norm = None THEN {} ELSE {"normalized_flux_candidate"})
    \cup (IF file.cont = None THEN {} ELSE {"continuum_lambda_cgs"})
Row(file, bounds, eligible) ==
    [bounds |-> bounds, points |-> Len(file.wave), arrays |-> Arrays(file), eligible |-> eligible]
Made(file, row) == [file |-> file, row |-> row]

\* BOSZ: negative fluxes are masked, and a normalized flux needs a continuum above zero; the
\* coverage is that of the normalized flux.  A variant takes that of the whole axis.
WholeAxis(wave, usable) == <<wave[1], wave[Len(wave)]>>
Coverage(wave, usable) == <<wave[Min(usable)], wave[Max(usable)]>>
Bosz(wave, flux, continuum) ==
    LET usable == {i \in DOMAIN wave : continuum[i] > 0 /\ flux[i] >= 0}
        file == File(wave, [i \in DOMAIN wave |-> IF flux[i] >= 0 THEN flux[i] ELSE NaN],
                     [i \in DOMAIN wave |-> IF i \in usable THEN flux[i] \div continuum[i] ELSE NaN],
                     continuum)
    IN IF Cardinality({i \in usable : flux[i] > 0}) < 2 THEN Refusal
       ELSE Made(file, Row(file, Coverage(wave, usable), TRUE))

\* PHOENIX: negative fluxes stay, but such a model is not fitted.  Known: the header is of
\* the one product that is understood.
Phoenix(wave, flux, known) ==
    LET file == File(wave, [i \in DOMAIN flux |-> flux[i] * Factor], None, None)
    IN IF ~known \/ Len(flux) < 2 \/ \A i \in DOMAIN flux : flux[i] <= 0 THEN Refusal
       ELSE Made(file, Row(file, <<wave[1], wave[Len(wave)]>>, \A i \in DOMAIN flux : flux[i] >= 0))

-----------------------------------------------------------------------------
(* TLUSTY: a member of an archive is a sequence of lines, and a line the   *)
(* sequence of its numbers, <<>> if something on it is none.               *)

\* The lines of the width that most lines have, the widest of them; less than two columns
\* are no line.
Lines(text, width) == SelectSeq(text, LAMBDA line : Len(line) = width)
Width(text) ==
    LET widths == {Len(line) : line \in Range(text)} \ {0, 1} IN
    IF widths = {} THEN 2
    ELSE CHOOSE w \in widths : \A v \in widths :
        \/ Len(Lines(text, v)) < Len(Lines(text, w))
        \/ Len(Lines(text, v)) = Len(Lines(text, w)) /\ v <= w

\* numpy's percentile, times 100: between two points it is interpolated.
Percentile(xs, q) ==
    LET s == SortSeq(xs, <)
        at == q * (Len(s) - 1)
        lower == at \div 100 + 1
        part == at % 100
    IN IF part = 0 THEN 100 * s[lower] ELSE (100 - part) * s[lower] + part * s[lower + 1]
\* _normalize_wavelength_axis guesses the unit from what most values are.
Unit(lines) ==
    LET most == Percentile([i \in DOMAIN lines |-> lines[i][1]], 90)
    IN IF most > 100 * Guesses.hz THEN "hz"
       ELSE IF most < 100 * Guesses.micron THEN "micron"
       ELSE IF most < 100 * Guesses.nm THEN "nm" ELSE "angstrom"
Wave(x, unit) ==
    CASE unit = "hz" -> Light \div x
      [] unit = "micron" -> x * Angstroms.micron
      [] unit = "nm" -> x * Angstroms.nm
      [] OTHER -> x
\* A flux per frequency becomes one per wavelength.
FluxOf(line, unit) ==
    IF unit = "hz" THEN (line[2] * Light) \div (Wave(line[1], unit) * Wave(line[1], unit)) ELSE line[2]
AxisOf(unit) == IF unit = "hz" THEN "frequency_hz" ELSE "wavelength_input"

\* One line of each wavelength, in their order: sorting is not stable, so any.
Sortings(lines, unit) ==
    LET waves == SetToSortSeq({Wave(line[1], unit) : line \in Range(lines)}, <)
        Of(w) == {line \in Range(lines) : Wave(line[1], unit) = w}
    IN {s \in [DOMAIN waves -> Range(lines)] : \A i \in DOMAIN waves : s[i] \in Of(waves[i])}

\* _try_build_normalized_flux: the first column of fluxes over the second, where that is
\* above zero, if most of the ratios are plausible.
Ratio(line) == line[2] \div line[3]
Ratios(lines) == [i \in DOMAIN lines |-> IF lines[i][3] > 0 THEN Ratio(lines[i]) ELSE NaN]
HasRatios(lines) ==
    /\ Len(lines[1]) >= 3
    /\ LET ratios == SelectSeq(Ratios(lines), LAMBDA r : r # NaN) IN
        /\ Len(ratios) >= LeastRatios
        /\ Percentile(ratios, 5) > -10 /\ Percentile(ratios, 95) <= 2000

TlustyRow(file, waves, unit) ==
    [points |-> Cardinality(waves), axis |-> file.axis, unit |-> unit, columns |-> file.columns]
    @@ Row(file, <<Min(waves), Max(waves)>>, TRUE)
\* _parse_spectrum_payload: all that may be made of a member, or a refusal.
Tlusty(text, products) ==
    LET rows == Lines(text, Width(text))
        lines == SelectSeq(rows, LAMBDA line : line[1] > 0)
        unit == Unit(lines)
        Make(s) ==
            LET flux == [i \in DOMAIN s |-> FluxOf(s[i], unit)]
                file == File([i \in DOMAIN s |-> Wave(s[i][1], unit)], flux,
                             IF HasRatios(s) THEN Ratios(s) ELSE None,
                             IF "continuum" \in products THEN flux ELSE None)
                kept == file @@ [axis |-> AxisOf(unit), columns |-> Len(s[1])]
            IN Made(kept, TlustyRow(kept, Range(kept.wave), unit))
    IN IF Len(rows) < 2 \/ Len(lines) < 2 \/ Cardinality({Wave(l[1], unit) : l \in Range(lines)}) < 2
       THEN {Refusal} ELSE {Make(s) : s \in Sortings(lines, unit)}
\* _existing_npz_spectrum_metadata: what a later run makes of the file alone, which does not
\* tell lengths in one unit from those in another.
Reused(file) ==
    LET waves == {w \in Range(file.wave) : w # NaN /\ w > 0}
    IN IF Cardinality(waves) < 2 THEN None
       ELSE TlustyRow(file, waves, IF file.axis = "frequency_hz" THEN "hz" ELSE "angstrom")

-----------------------------------------------------------------------------
(* What a fit reads.                                                       *)

\* Samples in the order of their wavelengths, one of each: sorting is not stable, so any.
Orders(samples) ==
    LET waves == SetToSortSeq({s.wave : s \in Range(samples)}, <)
        At(w) == {s.y : s \in {s \in Range(samples) : s.wave = w}}
    IN {[i \in DOMAIN waves |-> [wave |-> waves[i], y |-> y[waves[i]]]] :
            y \in {y \in [Range(waves) -> UNION {At(w) : w \in Range(waves)}] : \A w \in Range(waves) : y[w] \in At(w)}}
Zipped(waves, ys) == [i \in DOMAIN waves |-> [wave |-> waves[i], y |-> ys[i]]]
Valid(samples) == SelectSeq(samples, LAMBDA s : s.wave \notin {NaN, 0} /\ s.y # NaN)
\* Cleaned samples, all there may be, or a refusal.
Cleaned(waves, ys) ==
    LET kept == Valid(Zipped(waves, ys))
    IN IF Cardinality({s.wave : s \in Range(kept)}) < 2 THEN {Refusal} ELSE Orders(kept)

\* numpy's interp without extrapolation; a fraction.
Interpolated(series, w) ==
    LET below == {i \in DOMAIN series : w # NaN /\ series[i].wave <= w}
        above == {i \in DOMAIN series : w # NaN /\ series[i].wave >= w}
    IN IF below = {} \/ above = {} THEN NaN
       ELSE LET a == series[Max(below)]
                b == series[Min(above)]
            IN IF a.wave = b.wave THEN <<a.y, 1>>
               ELSE <<a.y * (b.wave - w) + b.y * (w - a.wave), b.wave - a.wave>>
Over(flux, continuum) ==
    IF NaN \in {flux, continuum} \/ continuum[1] = 0 THEN NaN
    ELSE <<flux * continuum[2], continuum[1]>>

Fitting(array, file) == array # None /\ Len(array) = Len(file.wave)
Whole(file) == file.flux # None /\ Len(file.flux) = Len(file.wave) /\ Len(file.wave) >= 2
Divided(file, continuum) == [i \in DOMAIN file.wave |-> Over(file.flux[i], continuum[i])]

\* A continuum file: its own continuum array, else its flux.
ContinuumSeries(c) ==
    IF c = Unreadable THEN {Refusal}
    ELSE LET ys == IF c.cont # None THEN c.cont ELSE c.flux
         IN IF ys = None \/ Len(ys) # Len(c.wave) \/ Len(c.wave) < 2 THEN {Refusal}
            ELSE Cleaned(c.wave, ys)
\* The file's normalized flux, else its own continuum, else that of the other file.
Normalized(file, continuum) ==
    IF Fitting(file.norm, file)
    THEN {[i \in DOMAIN file.wave |-> IF file.norm[i] = NaN THEN NaN ELSE <<file.norm[i], 1>>]}
    ELSE IF Fitting(file.cont, file)
    THEN {Divided(file, [i \in DOMAIN file.wave |-> IF file.cont[i] = NaN THEN NaN ELSE <<file.cont[i], 1>>])}
    ELSE IF continuum = None THEN {Refusal}
    ELSE {IF c = Refusal THEN Refusal
          ELSE Divided(file, [i \in DOMAIN file.wave |-> Interpolated(c, file.wave[i])]) :
            c \in ContinuumSeries(continuum)}
\* _build_tlusty_model_series.  Longer ones than the fit takes are thinned out evenly.
ModelSeries(mode, file, continuum) ==
    IF file = Unreadable \/ ~Whole(file) THEN {Refusal}
    ELSE UNION {IF ys = Refusal THEN {Refusal} ELSE Cleaned(file.wave, ys) :
            ys \in IF mode = "both"
                   THEN {[i \in DOMAIN file.wave |-> IF file.flux[i] = NaN THEN NaN ELSE <<file.flux[i], 1>>]}
                   ELSE Normalized(file, continuum)}
=============================================================================
