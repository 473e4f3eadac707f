---------------------------- MODULE ObservedSpectra ----------------------------
(***************************************************************************)
(* How an uploaded spectrum is read (observed_spectrum.py): which columns  *)
(* or rows of a file are wavelength, flux and error, and which samples     *)
(* remain.  The columns travel as separate vectors through every filter.   *)
(*                                                                         *)
(* A column name is [exact, rank, holds]: the role it names exactly, or    *)
(* none, its place among the role's names, and the roles whose names occur *)
(* in it.                                                                  *)
(***************************************************************************)
EXTENDS Integers, FiniteSets, SequencesExt, Functions

CONSTANTS
    Missing,      \* no such column or bound
    Unreadable,   \* ValueError
    NaN

ASSUME SpectraAssumption ==
    Cardinality({Missing, Unreadable, NaN}) = 3 /\ {Missing, Unreadable, NaN} \cap Int = {}

-----------------------------------------------------------------------------
(* Columns.                                                                *)

Named(names, role) == {i \in DOMAIN names : names[i].exact = role}
Holding(names, role) == {i \in DOMAIN names : role \in names[i].holds}
Earliest(S) == CHOOSE i \in S : \A k \in S : i <= k
\* _pick_column: the best exact name, else the first that contains one.
PickColumn(names, role) ==
    IF Named(names, role) # {}
    THEN CHOOSE i \in Named(names, role) :
            \A k \in Named(names, role) : names[i].rank <= names[k].rank
    ELSE IF Holding(names, role) # {} THEN Earliest(Holding(names, role)) ELSE Missing

Columns(wave, flux, error) == [wave |-> wave, flux |-> flux, error |-> error]
Distinct(names) ==
    LET wave == PickColumn(names, "wave") flux == PickColumn(names, "flux")
    IN wave # Missing /\ flux # Missing /\ wave # flux
Picked(names, error) == Columns(PickColumn(names, "wave"), PickColumn(names, "flux"), error)

\* _parse_uploaded_text: by the names of a header, else by position.
TextColumns(names) ==
    IF Distinct(names) THEN Picked(names, PickColumn(names, "error"))
    ELSE IF Len(names) >= 2 THEN Columns(1, 2, PickColumn(names, "error"))
    ELSE Unreadable
BareColumns(count) ==
    IF count >= 2 THEN Columns(1, 2, IF count >= 3 THEN 3 ELSE Missing) ELSE Unreadable

\* _extract_from_structured_table: names, else the first two numeric columns, else one
\* numeric column on the axis of the header.
Axis == 0
FitsTableColumns(names, numeric) ==
    IF Distinct(names) THEN Picked(names, Missing)
    ELSE IF Len(numeric) >= 2 THEN Columns(numeric[1], numeric[2], Missing)
    ELSE IF Len(numeric) = 1 THEN Columns(Axis, numeric[1], Missing)
    ELSE Unreadable
\* _extract_from_astropy_table: an error column that serves already is none.
ErrorApart(names, wave, flux) ==
    LET error == PickColumn(names, "error")
    IN IF error \in {wave, flux} THEN Missing ELSE error
VoTableColumns(names, numeric) ==
    LET Taken(c) == [c EXCEPT !.error = ErrorApart(names, c.wave, c.flux)]
    IN IF Distinct(names) THEN Taken(Picked(names, Missing))
       ELSE IF Len(numeric) >= 2 THEN Taken(Columns(numeric[1], numeric[2], Missing))
       ELSE Unreadable

\* _extract_wave_flux_from_fits_data for an array without names: where the samples are, and
\* how many: two rows if they are longer than the columns.
RowsAreVectors(rows, columns) == rows >= 2 /\ columns > rows
ArrayLayout(rows, columns) ==
    IF 1 \in {rows, columns} THEN [kind |-> "axis", samples |-> rows * columns]
    ELSE IF RowsAreVectors(rows, columns) THEN [kind |-> "rows", samples |-> columns]
    ELSE [kind |-> "columns", samples |-> rows]

-----------------------------------------------------------------------------
(* Samples.                                                                *)

\* A mask is applied to each of the vectors; a variant forgets the errors.
Kept(vector, mask) ==
    [i \in 1 .. Len(SelectSeq(mask, LAMBDA m : m)) |->
        vector[CHOOSE k \in DOMAIN mask :
                    mask[k] /\ Cardinality({h \in 1 .. k : mask[h]}) = i]]
KeptError(error, mask) == IF error = Missing THEN Missing ELSE Kept(error, mask)
Filter(v, mask) ==
    [wave |-> Kept(v.wave, mask), flux |-> Kept(v.flux, mask), error |-> KeptError(v.error, mask)]
Mask(v, Holds(_, _)) == [i \in DOMAIN v.wave |-> Holds(v.wave[i], v.flux[i])]

\* argsort, when the wavelengths descend anywhere: any order that sorts them.
Ascending(s) == \A i, k \in DOMAIN s : i < k => s[i] <= s[k]
Permuted(s, order) == [i \in DOMAIN s |-> s[order[i]]]
Orders(wave) ==
    IF Ascending(wave) THEN {[i \in DOMAIN wave |-> i]}
    ELSE {o \in Bijection(DOMAIN wave, DOMAIN wave) : Ascending(Permuted(wave, o))}
Sorted(v, order) ==
    [wave |-> Permuted(v.wave, order), flux |-> Permuted(v.flux, order),
     error |-> IF v.error = Missing THEN Missing ELSE Permuted(v.error, order)]

\* _normalize_wavelength_bounds: bounds that make no sense are none, swapped ones are put
\* right.
Sensible(bound) == IF bound # Missing /\ bound <= 0 THEN Missing ELSE bound
Bounds(low, high) ==
    LET l == Sensible(low) h == Sensible(high)
    IN IF Missing \notin {l, h} /\ l > h THEN [low |-> h, high |-> l] ELSE [low |-> l, high |-> h]
Inside(wave, b) == (b.low # Missing => wave >= b.low) /\ (b.high # Missing => wave <= b.high)

\* _detect_flux_mode looks at the distribution of at least sixteen values.
Detected == {"absolute", "normalized"}
Resolved(asked, detected) == IF asked = "auto" THEN detected ELSE asked

\* _finalize_uploaded_spectrum: finite samples at positive wavelengths, in order, without
\* the negative ones of a normalized spectrum, within the bounds; each filter must leave
\* two.
Valid(wave, flux) == wave # NaN /\ flux # NaN /\ wave > 0
Spectra(v, asked, detected, b) ==
    LET mode == Resolved(asked, detected)
        valid == Filter(v, Mask(v, Valid))
        Positive(wave, flux) == mode = "normalized" => flux >= 0
        In(wave, flux) == Inside(wave, b)
        Result(order) ==
            LET shown == Filter(Sorted(valid, order), Mask(Sorted(valid, order), Positive))
                final == Filter(shown, Mask(shown, In))
            IN IF Len(shown.wave) < 2 \/ Len(final.wave) < 2 THEN Unreadable
               ELSE [samples |-> final, mode |-> mode, raw |-> Len(v.wave),
                     skipped |-> Len(v.wave) - Len(shown.wave),
                     outside |-> Len(shown.wave) - Len(final.wave)]
    IN IF Len(v.wave) < 2 \/ Len(valid.wave) < 2 THEN {Unreadable}
       ELSE {Result(order) : order \in Orders(valid.wave)}
=============================================================================
