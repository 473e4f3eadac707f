---------------------------- MODULE MCObservations ----------------------------
(* The data of observations: the bundles of the uploads (MCUploads), and the fits, *)
(* catalogues and files of a search (MCGridFit), in states of their own.            *)
EXTENDS MCUploads

CONSTANTS None, Refusal, LeastPoints
VARIABLES problem, canceled, stage, bounds, window, seed, best, sampler, final, outcome,
          waiting, arrived, top, profiles, fitted

Fits == INSTANCE MCGridFit WITH sample <- fitted
fits == <<problem, canceled, stage, bounds, window, seed, best, sampler, final, outcome,
          waiting, arrived, top, profiles, fitted>>

ObservationsInit ==
    \/ Init /\ Fits!Idle
    \/ UploadsInit /\ sample = Asleep /\ Fits!Init
ObservationsNext ==
    \/ fitted = Fits!NoFit /\ Next /\ UNCHANGED fits
    \/ sample = Asleep /\ Fits!Next /\ UNCHANGED vars
ObservationsSpec == ObservationsInit /\ [][ObservationsNext]_<<vars, fits>>

\* What is kept of an observation is what was given: photometry and spectra.
ObservationsKept == PhotometryKept /\ SpectraAligned
\* What a fit reports is what its parameters give on the whole spectrum, and the intervals
\* of a search are those of the models close to the best one: see SpectrumFit and
\* GridConfidence.
FitsTrue == Fits!FitReported /\ Fits!ConfidenceSound
\* A search fits every model of the catalogue that can be compared, and no other: see
\* MCGridFit.
CandidatesFit == Fits!CandidatesFit
\* The row of an index says what its file holds, and a series pairs each flux with its own
\* wavelength: see MCGridFit.
FilesTrue == Fits!FilesTrue
=============================================================================
