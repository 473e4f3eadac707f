---------------------------- MODULE JobLifecycle ----------------------------
(***************************************************************************)
(* What the cache task store promises ("one atomic job slot", README.md):  *)
(* one job runs at a time, a running job is never forgotten, a finished    *)
(* one never runs again, and the store forgets the oldest results first.   *)
(***************************************************************************)
EXTENDS Sequences, Naturals

CONSTANTS Jobs, Nobody

VARIABLES
    running,  \* the job in the slot, or Nobody
    finished  \* finished jobs whose results are still kept, oldest first

lifecycle == <<running, finished>>

Empty == running = Nobody /\ finished = <<>>

\* The oldest k results expire or give way to newer ones.
Kept(k) == SubSeq(finished, k + 1, Len(finished))

Create == \E j \in Jobs, k \in 0 .. Len(finished) :
    /\ running = Nobody
    /\ running' = j
    /\ finished' = Kept(k)
Finish == running # Nobody /\ finished' = Append(finished, running) /\ running' = Nobody
Forget == \E k \in 1 .. Len(finished) : finished' = Kept(k) /\ UNCHANGED running
Restart == running' = Nobody /\ finished' = <<>>

Lifecycle == Empty /\ [][Create \/ Finish \/ Forget \/ Restart]_lifecycle
=============================================================================
