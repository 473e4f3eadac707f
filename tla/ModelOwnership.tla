--------------------------- MODULE ModelOwnership ---------------------------
(***************************************************************************)
(* What the locks of a model directory promise, without files, inodes or   *)
(* probes: at most one client changes the model, at most one owns a run,   *)
(* and while a run is owned nobody but its owner starts to change anything.*)
(***************************************************************************)
CONSTANTS Clients, None

VARIABLES writer,  \* client whose mutation, or whose native child, is under way
          owner    \* client that reserved a complete run

Init == writer = None /\ owner = None

StartWriting(c) ==
    /\ writer = None
    /\ owner \in {None, c}
    /\ writer' = c
    /\ UNCHANGED owner

StopWriting == writer' = None /\ UNCHANGED owner

Reserve(c) ==
    /\ writer = None /\ owner = None
    /\ owner' = c
    /\ UNCHANGED writer

\* A run ends, or its owner is killed; its native child may go on writing.
EndRun ==
    /\ owner' = None
    /\ writer' \in {writer, None}

Next ==
    \/ \E c \in Clients : StartWriting(c) \/ Reserve(c)
    \/ StopWriting
    \/ EndRun

Spec == Init /\ [][Next]_<<writer, owner>>
=============================================================================
