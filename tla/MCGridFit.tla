------------------------------ MODULE MCGridFit ------------------------------
(* A search by its parts, in states of their own: one fit of one model, the    *)
(* results of a search in any order, and samples of catalogues, of files and   *)
(* of the spectra files are made of, on which the candidates, the series they  *)
(* are fitted with and the rows of the indexes are compared with what is meant. *)
EXTENDS SpectrumFit, TLC

CONSTANTS NaN, Refusal, Unreadable
VARIABLES waiting, arrived, top, profiles, sample
confidence == <<waiting, arrived, top, profiles>>

Confidence == INSTANCE GridConfidence WITH Profiled <- {"teff_k"}, Fitted <- 2
Catalogue == INSTANCE GridCatalogue WITH Numbers <- {"7", "17"}
Files == INSTANCE GridFiles WITH
    Factor <- 2, LeastRatios <- 2, Light <- 12,
    Guesses <- [hz |-> 5, micron |-> 2, nm |-> 3], Angstroms <- [micron |-> 6, nm |-> 3]

-----------------------------------------------------------------------------
\* A fit: narrow, swapped, fixed and half given bounds; points in the middle of a model, at
\* its edge and beyond.
Given == [redshift : {<<0, 0>>, <<1, -1>>, <<8, 8>>, <<-1, 0>>, <<1, 2>>},
          broadening : {<<0, 0>>, <<-1, 2>>, <<1, 1>>}, ebv : {<<0, 1>>, <<1, 1>>},
          distance : {<<None, 0>>, <<1, 2>>, <<2, 2>>}]
Kinds == {[mode |-> m, free |-> f, photometry |-> p] :
            m \in {"both", "normalized"}, f \in BOOLEAN, p \in BOOLEAN}
Dot(x) == [x |-> x, half |-> 0]
Band(x) == [x |-> x, half |-> 3]
Layouts(photometry) ==
    IF photometry THEN {<<Dot(41), Band(44)>>, <<Band(1), Dot(20)>>, <<Band(-4), Dot(20)>>}
    ELSE {<<Dot(41), Dot(46)>>, <<Dot(0), Dot(4)>>}
Problem(kind, given, observed, uniform, still, dark) ==
    kind @@ [uniform |-> uniform, grid |-> <<0, 40>>, observed |-> observed, given |-> given,
             initial |-> [redshift |-> 0, broadening |-> 0, ebv |-> 0,
                          distance |-> IF kind.free THEN 1 ELSE None],
             ratio |-> 3, dark |-> dark, error |-> 1,
             best |-> [redshift |-> 1, broadening |-> IF still THEN 0 ELSE 1, ebv |-> 1]]
Problems ==
    UNION {{Problem(k, g, o, u, s, d) :
        g \in {g \in Given : k.mode = "normalized" => g.ebv = <<0, 1>> /\ g.distance = <<1, 2>>},
        o \in Layouts(k.photometry), u \in BOOLEAN, s \in BOOLEAN,
        d \in IF k.free THEN {{}, {1}} ELSE {{}}} :
            k \in {k \in Kinds : k.mode = "normalized" => ~k.free /\ ~k.photometry}}
SomeProblem ==
    Problem([mode |-> "normalized", free |-> FALSE, photometry |-> FALSE],
            [redshift |-> <<0, 0>>, broadening |-> <<0, 0>>, ebv |-> <<0, 1>>, distance |-> <<1, 2>>],
            <<Dot(41), Dot(46)>>, TRUE, TRUE, {})

\* Results: three of a search, chi2 and value as they like.
Results(known) == [chi2 : {0, 2, 3, 20}, points : {5}, effective : {None, 1}, known : {known},
                   values : [{"teff_k"} -> {1, 2, 3, None}]]
Searches == UNION {{{a, b, c} : a, b, c \in Results(k)} : k \in BOOLEAN}

\* Catalogues: up to three rows of one model, of others and of another grid.
Row(grid, name, products, arrays, covers, points) ==
    [grid |-> grid, name |-> name, products |-> products, arrays |-> arrays, bounds |-> covers,
     points |-> points, matches |-> TRUE, file |-> TRUE, eligible |-> TRUE]
UV == Row("bstar", <<"m", "uv", "7">>, {"uv"}, {}, <<10, 40>>, 9)
Rows == {UV, [UV EXCEPT !.bounds = <<40, 12>>], [UV EXCEPT !.bounds = None], [UV EXCEPT !.grid = "ostar"],
         [UV EXCEPT !.arrays = {Catalogue!Normalized}], [UV EXCEPT !.arrays = {Catalogue!OwnContinuum}],
         [UV EXCEPT !.name = <<"m", "uv", "17">>, !.points = 5], [UV EXCEPT !.file = FALSE],
         [UV EXCEPT !.name = <<"n", "uv", "17">>], [UV EXCEPT !.name = <<"m", "sed", "7">>, !.products = {}],
         Row("bstar", <<"m", "cont", "7">>, {"continuum"}, {}, <<10, 40>>, 5),
         Row("bstar", <<"m", "cont", "7">>, {"continuum", "uv"}, {}, <<20, 30>>, None),
         Row("ostar", <<"m", "cont", "7">>, {"continuum"}, {}, <<10, 40>>, 5),
         Row("bstar", <<"m">>, {"continuum"}, {}, <<10, 40>>, 5),
         Row("bstar", <<"n", "cont", "7">>, {"continuum"}, {}, <<10, 40>>, 5)}
Passband(from, to) == [from |-> from, to |-> to, centre |-> (from + to) \div 2]
SomeUploads == {[file |-> TRUE, parsed |-> TRUE, mode |-> m, points |-> p] : m \in {"both", "normalized"},
    p \in {None, <<Passband(12, 14), Passband(30, 36)>>, <<Passband(20, 24), Passband(44, 60)>>}}
Forms == [source : {"tlusty", "bosz"}, range : {<<None, None>>, <<30, 5>>},
          z : {None, <<<<1, 1>>, <<3, 2>>>>, <<<<2, 1>>, <<1, 2>>>>}]
    \cup [source : {"cmfgen"}, range : {<<30, 5>>}, z : {None}]
FitWindow == <<8, 90>>
CatalogueSamples ==
    [kind : {"catalogue"}, form : Forms,
     rows : UNION {[1 .. n -> Rows] : n \in 1 .. 2} \cup {<<UV>> \o s : s \in [1 .. 2 -> Rows]},
     upload : {u \in SomeUploads : u.points # None => u.mode = "both"}]

\* Files, with an array too few or with numbers that are none.
Columns(waves) ==
    [wave : waves, flux : {<<2, 3, 4>>, <<2, NaN, 4>>, None}, norm : {None, <<5, 6, 7>>, <<5, 6>>},
     cont : {None, <<1, 0, 2>>, <<1, 1>>}]
Continua == {None, Unreadable} \cup
    [wave : {<<1, 3, 2>>, <<2, 2, 6>>, <<2, 2, 2>>}, flux : {<<2, 4, 8>>}, norm : {None},
     cont : {None, <<1, 2, NaN>>}]
FileSamples ==
    [kind : {"file"}, mode : {"both", "normalized"}, continuum : Continua,
     file : {Unreadable} \cup Columns({<<3, 2, 4>>, <<3, 3, 4>>, <<NaN, 0, 2>>})]
\* Spectra to be imported: fluxes below zero and continua of zero, frequencies, lines too short.
Lines == {<<1, 4, 2>>, <<2, -4, 2>>, <<2, 6, 0>>, <<0, 4, 2>>, <<3, 4, 1>>, <<6, 4>>, <<4, 2>>, <<12>>}
ImportSamples ==
    [kind : {"bosz"}, flux : [1 .. 4 -> {-2, 0, 4}], continuum : [1 .. 4 -> {0, 2}]]
    \cup [kind : {"phoenix"}, flux : UNION {[1 .. n -> {-2, 0, 4}] : n \in 1 .. 3}, known : BOOLEAN]
    \cup [kind : {"tlusty"}, text : UNION {[1 .. n -> Lines] : n \in 1 .. 4},
          products : {{"uv"}, {"continuum"}}]
NoSample == [kind |-> "none"]

-----------------------------------------------------------------------------
Quiet == Confidence!ConfidenceInit({{}})
Asleep == FitInit({SomeProblem})
\* Nothing happens here.
NoFit == [kind |-> "asleep"]
Idle == Asleep /\ Quiet /\ sample = NoFit
Init ==
    \/ FitInit(Problems) /\ Quiet /\ sample = NoSample
    \/ Asleep /\ Confidence!ConfidenceInit(Searches) /\ sample = [kind |-> "results"]
    \/ Asleep /\ Quiet /\ sample \in CatalogueSamples \cup FileSamples \cup ImportSamples
Next ==
    \/ sample = NoSample /\ FitNext /\ UNCHANGED <<confidence, sample>>
    \/ sample.kind = "results" /\ Confidence!Arrive /\ UNCHANGED <<fit, sample>>
Spec == Init /\ [][Next]_<<fit, confidence, sample>>

-----------------------------------------------------------------------------
ConfidenceSound == Confidence!ConfidenceSound

\* Every candidate of a search can be fitted to what was uploaded: at one redshift of those
\* asked for it reaches over all bands in the range at once, its file is there, and a
\* normalized fit has a continuum of the same model of the same grid.  No model that can
\* be normalized by itself is left out, and the page announced as many as there are.  Of
\* the models of the user every one is fitted, once.
Reaches(row, bands, z) ==
    LET w == Catalogue!WavelengthBounds(row)
        ends == Catalogue!Redshifts(z)
        some == Range(ends) \cup UNION {{<<b.to, w[2]>>, <<b.from, w[1]>>} : b \in Range(bands)}
    IN w # None /\ \E s \in some :
        /\ Catalogue!Leq(ends[1], s) /\ Catalogue!Leq(s, ends[2])
        /\ \A b \in Range(bands) : w[1] * s[1] <= b.from * s[2] /\ b.to * s[2] <= w[2] * s[1]
Normalizable(row, continuum) ==
    \/ {Catalogue!Normalized, Catalogue!OwnContinuum} \cap row.arrays # {}
    \/ continuum # None /\ continuum.file /\ continuum.grid = row.grid
            /\ continuum.name[1] = row.name[1]
CandidatesFit ==
    sample.kind = "catalogue" =>
        LET u == sample.upload
            answer == Catalogue!FitRequest(u, sample.form, FitWindow, None, sample.rows)
            bands == answer.observed
            Reached(r) == bands = None \/ Reaches(r, bands, sample.form.z)
            found == Range(answer.candidates)
        IN answer # Refusal =>
            /\ answer.total = Catalogue!MatchCount(u, sample.form, FitWindow, u.mode, sample.rows)
            /\ \A c \in found : c.row.file
            /\ IF sample.form.source = "cmfgen"
               THEN \A r \in Range(sample.rows) :
                    (\A q \in Range(sample.rows) : q.name = r.name => q.file) =>
                        Cardinality({i \in DOMAIN answer.candidates : answer.candidates[i].row.name = r.name}) = 1
               ELSE /\ \A c \in found : Reached(c.row) /\ (u.mode # "both" => Normalizable(c.row, c.continuum))
                    /\ \A r \in Range(sample.rows) :
                        r.file /\ "uv" \in Catalogue!Products(r) /\ "continuum" \notin Catalogue!Products(r)
                            /\ Reached(r) /\ (u.mode # "both" => Normalizable(r, None))
                        => \E c \in found : c.row = r

\* The series of a model is its file's: in ascending order, every wavelength once, each
\* with its own flux, relative to the continuum at that wavelength where it has one there;
\* what cannot be a number is left out, and of the file's own arrays nothing else.
Relative(file, k, continuum) ==
    IF sample.mode = "both" THEN {<<file.flux[k], 1>>}
    ELSE IF Files!Fitting(file.norm, file) THEN {<<file.norm[k], 1>>}
    ELSE IF Files!Fitting(file.cont, file) THEN {<<file.flux[k], file.cont[k]>>}
    ELSE LET ys == IF continuum.cont # None THEN continuum.cont ELSE continuum.flux
         IN {<<file.flux[k], ys[j]>> : j \in {j \in DOMAIN continuum.wave :
                    continuum.wave[j] = file.wave[k] /\ ys[j] # NaN}}
Numeric(pairs) == {p \in pairs : NaN \notin Range(p) /\ p[2] # 0}
SeriesMatched ==
    sample.kind = "file" =>
        \A s \in Files!ModelSeries(sample.mode, sample.file, sample.continuum) \ {Refusal} :
            LET file == sample.file
                Rates(w) == UNION {Relative(file, k, sample.continuum) : k \in {k \in DOMAIN file.wave : file.wave[k] = w}}
            IN /\ \A i, k \in DOMAIN s : i < k => s[i].wave < s[k].wave
               /\ \A i \in DOMAIN s : Rates(s[i].wave) # {} => s[i].y \in Numeric(Rates(s[i].wave))
               /\ \A w \in Range(file.wave) \ {0, NaN} :
                    Numeric(Rates(w)) # {} => \E i \in DOMAIN s : s[i].wave = w

\* An imported spectrum is what its row says: every fit that takes the row finds a series
\* that reaches to the bounds, without fluxes below zero.  A row made of a file alone, by
\* a later run of the downloader, says what the row said that was made with the file, but
\* for a unit of lengths that was not the Angstrom.
Reaching(made, mode) ==
    made # Refusal /\ made.row.eligible =>
        \A s \in Files!ModelSeries(mode, made.file, None) :
            /\ s # Refusal
            /\ s[1].wave <= made.row.bounds[1] /\ made.row.bounds[2] <= Last(s).wave
            /\ \A i \in DOMAIN s : s[i].y[1] >= 0
RowsTrue ==
    /\ sample.kind = "bosz" => \A mode \in {"both", "normalized"} :
            Reaching(Files!Bosz([i \in 1 .. 4 |-> 2 * i], sample.flux, sample.continuum), mode)
    /\ sample.kind = "phoenix" =>
            Reaching(Files!Phoenix([i \in DOMAIN sample.flux |-> 2 * i], sample.flux, sample.known), "both")
    /\ sample.kind = "tlusty" =>
            \A made \in Files!Tlusty(sample.text, sample.products) \ {Refusal} :
                Files!Reused(made.file) = [made.row EXCEPT !.unit = IF @ = "hz" THEN @ ELSE "angstrom"]
FilesTrue == SeriesMatched /\ RowsTrue
=============================================================================
