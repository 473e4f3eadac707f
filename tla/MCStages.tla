------------------------------- MODULE MCStages -------------------------------
(* Sequences for TLC: the chain from LTE to spectra in two parts, a fresh start *)
(* with a startup test, an automatic run, and clean-up.  In states of their own,*)
(* the temporary control file of one native run, with two keys: one may be      *)
(* overridden while the other is the user's; and the archives that runs leave:  *)
(* an old and a newer journal, two inputs, and one file of each other kind.     *)
EXTENDS RunSequence, TemporaryControls, Archives

MCRequests ==
    {<<"prepare-lte", "lte", "hydro">>,
     <<"lte", "hydro", "promote-hydro", "main", "flux">>,
     <<"test", "main", "cleanup">>,
     <<"main", "flux">>}

VARIABLE part  \* which of them moves
Parts ==
    /\ part # "control" => file = NoFile
    /\ part # "sequence" => ~prepared
StagesInit ==
    /\ part \in {"sequence", "control", "archives"}
    /\ Init /\ ControlInit /\ Parts /\ ArchivesInit
StagesNext ==
    /\ UNCHANGED part
    /\ \/ part = "sequence" /\ Next /\ UNCHANGED <<controlVars, archives>>
       \/ part = "control" /\ ControlNext /\ UNCHANGED <<vars, archives>>
       \/ part = "archives" /\ ArchivesNext /\ UNCHANGED <<vars, controlVars>>
StagesSpec == StagesInit /\ [][StagesNext]_<<vars, controlVars, archives, part>>

\* What a sequence leaves belongs together, it started on what was planned, and the limits
\* of the user hold: see RunSequence.
SequenceTrue == SequenceCoherent /\ StartsAsPlanned /\ LimitsHonoured
=============================================================================
