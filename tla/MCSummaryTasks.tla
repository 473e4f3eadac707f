--------------------------- MODULE MCSummaryTasks ---------------------------
(* BothFolders: one selection of two folders, so that a job can stop, fail or
   be cancelled between them. OneFolder: the smallest selection, for the run
   about the slot of the store. *)
EXTENDS SummaryTasks

CONSTANTS m1, m2
BothFolders == {<<m1, m2>>}
OneFolder == {<<m1>>}
=============================================================================
