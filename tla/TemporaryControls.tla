-------------------------- MODULE TemporaryControls --------------------------
(***************************************************************************)
(* Temporary overrides of a control file during a native run               *)
(* (runner_controls.TemporaryControl and its use in runner.run_plan).      *)
(*                                                                         *)
(* The runner overrides some values of IN_ITS, VADAT or CMF_FLUX_PARAM,    *)
(* possibly several times, and takes them back at the end, value by value. *)
(* Users edit the same file with other programs at any time.  The runner   *)
(* reads the file, computes the new text and replaces the file: these are  *)
(* separate steps, and an edit that falls between them is lost.  A file is *)
(* the function of its values; Twice stands for a key given twice.         *)
(***************************************************************************)
EXTENDS Naturals, FiniteSets

CONSTANTS
    Keys,        \* keys of the file
    MaxApplied,  \* bound on overrides
    MaxEdits     \* bound on edits by users

ASSUME ControlAssumption == MaxApplied \in Nat /\ MaxEdits \in Nat

Unset == "none"                          \* a key that is not in the file
NoFile == [k \in Keys |-> "no file"]       \* the file does not exist
Values == {Unset, "own", "user", "twice"} \cup {"set", "set again"}
Files == [Keys -> Values] \cup {NoFile}

VARIABLES
    file,       \* the control file
    step,       \* idle, applying (read), writing (computed), applied (replaced),
                \* restoring (read), done
    original, effective, owned, external,  \* the fields of TemporaryControl
    read,       \* what the operation at hand read
    text,       \* what it is about to write
    asked,      \* the values it sets
    conflicts,  \* keys reported, or the whole file
    applied,    \* overrides so far
    edits,      \* edits so far
    edited,     \* marks: the last value the user gave a key
    overridden, \* marks: keys where an override took such a value for the runner's
    raced,      \* marks: an edit fell between reading and writing
    cut         \* marks: an interruption left an operation half done

fields == <<original, effective, owned, external>>
local == <<read, text, asked>>
marks == <<edited, overridden, raced, cut>>
controlVars == <<file, step, fields, local, conflicts, applied, edits, marks>>

ControlTypes ==
    /\ {file, original, effective, read, text} \subseteq Files
    /\ step \in {"idle", "applying", "writing", "applied", "restoring", "undoing", "done"}
    /\ owned \subseteq Keys /\ overridden \subseteq Keys /\ external \in BOOLEAN
    /\ edited \in UNION {[S -> {Unset, "user", "twice"}] : S \in SUBSET Keys}
    /\ asked \in UNION {[S -> {Unset, "own", "set", "set again"}] : S \in SUBSET Keys}
    /\ conflicts \subseteq Keys \cup {"file"}
    /\ applied \in 0..MaxApplied /\ edits \in 0..MaxEdits
    /\ raced \in BOOLEAN /\ cut \in BOOLEAN

\* The file as the run finds it; CMF_FLUX_PARAM may not exist yet.
ControlInit ==
    /\ file \in [Keys -> {"own", Unset}] \cup {NoFile}
    /\ original = file /\ effective = file /\ owned = {} /\ external = FALSE
    /\ step = "idle" /\ read = NoFile /\ text = NoFile /\ asked = <<>> /\ conflicts = {}
    /\ applied = 0 /\ edits = 0 /\ edited = <<>> /\ overridden = {} /\ raced = FALSE /\ cut = FALSE

Empty == [k \in Keys |-> Unset]
Text(f) == IF f = NoFile THEN Empty ELSE f
\* _value: None for a key that is missing, or there twice.
Value(f, k) == IF Text(f)[k] = "twice" THEN Unset ELSE Text(f)[k]
Disputed(f, k) == Text(f)[k] = "twice" \/ Value(f, k) # Value(effective, k)
\* _patch: the other rows stay as they are.
Patched(f, v) == [k \in Keys |-> IF k \in DOMAIN v THEN v[k] ELSE Text(f)[k]]

-----------------------------------------------------------------------------
\* Users: change, add, duplicate or delete a value, or delete the file.
Edit ==
    /\ edits < MaxEdits /\ edits' = edits + 1 /\ step # "done" /\ file # NoFile
    /\ \/ \E k \in Keys, v \in {Unset, "user", "twice"} :
            /\ file[k] # v /\ file' = [file EXCEPT ![k] = v]
            /\ edited' = [j \in DOMAIN edited \cup {k} |-> IF j = k THEN v ELSE edited[j]]
            /\ overridden' = overridden \ {k}
       \/ file' = NoFile /\ edited' = Empty /\ overridden' = {}
    /\ raced' = (raced \/ step \in {"writing", "undoing"})
    /\ UNCHANGED <<step, fields, local, conflicts, applied, cut>>

-----------------------------------------------------------------------------
(* apply                                                                    *)

\* A flux pass takes back what the passes before it set and it does not set itself, a stop
\* sets one value, an initialization follows a probe.
BeginApply ==
    /\ step = "idle" /\ applied < MaxApplied /\ step' = "applying"
    /\ \E S \in (SUBSET Keys) \ {{}}, v \in {"set", "set again"}, back \in {owned, {}} :
        asked' = [k \in S \cup back |-> IF k \in S THEN v ELSE Text(original)[k]]
    /\ applied' = applied + 1
    /\ UNCHANGED <<file, fields, read, text, conflicts, edits, marks>>

\* Refused when one of its values, or a value set earlier, is not what the runner left.
\* A variant looks at the new values only.
KeysCheckedNew == DOMAIN asked
KeysChecked == owned \cup DOMAIN asked
ReadFile ==
    /\ step = "applying" /\ read' = file
    /\ LET bad == {k \in KeysChecked : Disputed(file, k)}
           removed == file = NoFile /\ effective # NoFile
       IN IF removed \/ bad # {}
          THEN step' = "idle" /\ applied' = MaxApplied /\ UNCHANGED text
          ELSE /\ step' = "writing" /\ text' = Patched(file, asked)
               /\ UNCHANGED applied
    /\ UNCHANGED <<file, fields, asked, conflicts, edits, marks>>

\* The file is replaced in one step; the edits read with it are carried along.  They count
\* as left by the runner from then on: an override that sets such a key for the first time
\* finds nothing disputed.
Taken == {k \in DOMAIN asked \ owned : Text(effective)[k] # Text(original)[k]}
WriteFile ==
    /\ step = "writing" /\ step' = "applied"
    /\ file' = text
    /\ external' = (external \/ read # effective)
    /\ overridden' = overridden \cup Taken
    /\ UNCHANGED <<original, effective, owned, local, conflicts, applied, edits, edited, raced, cut>>

\* Only then does the object know of it.
Owned == owned \cup DOMAIN asked
Remember ==
    /\ step = "applied" /\ step' = "idle"
    /\ effective' = text /\ owned' = Owned
    /\ UNCHANGED <<file, original, external, local, conflicts, applied, edits, marks>>

\* Writing may fail before the file is replaced; a cancellation may come at any point,
\* also when the file has been replaced and the object does not know it.
CutShort ==
    /\ step \in {"applying", "writing", "applied"} /\ step' = "idle"
    /\ applied' = MaxApplied /\ cut' = (cut \/ step = "applied")
    /\ UNCHANGED <<file, fields, local, conflicts, edits, edited, overridden, raced>>

-----------------------------------------------------------------------------
(* restore, in the finally clause                                           *)

Finish(reported) == step' = "done" /\ conflicts' = reported /\ UNCHANGED <<read, text>>

Whole == file = effective /\ ~external
BeginRestore ==
    /\ step = "idle" /\ applied > 0
    /\ LET bad == {k \in owned : Disputed(file, k)}
           back == [k \in owned \ bad |-> Value(original, k)]
       IN IF owned = {} THEN Finish({})
          ELSE IF file = NoFile THEN Finish({"file"})
          ELSE /\ step' = "undoing" /\ read' = file /\ conflicts' = IF Whole THEN {} ELSE bad
               /\ text' = IF Whole THEN original ELSE Patched(file, back)
    /\ UNCHANGED <<file, fields, asked, applied, edits, marks>>

\* Deletes the file if there was none.
GiveBack ==
    /\ step = "undoing" /\ step' = "done"
    /\ file' = text
    /\ UNCHANGED <<fields, local, conflicts, applied, edits, marks>>

RestoreFails ==
    /\ step = "undoing" /\ step' = "done" /\ cut' = TRUE
    /\ UNCHANGED <<file, fields, local, conflicts, applied, edits, edited, overridden, raced>>

ControlNext == \/ Edit \/ BeginApply \/ ReadFile \/ WriteFile \/ Remember \/ CutShort
        \/ BeginRestore \/ GiveBack \/ RestoreFails
ControlSpec == ControlInit /\ [][ControlNext]_controlVars

-----------------------------------------------------------------------------
(* Properties                                                               *)

(* A value the user changed during the run is what he made it when the run is over, also
   where the runner had overridden it before: "preserving external edits".  Not covered:
   an edit between reading and replacing the file, an interruption between replacing it and
   remembering that, and a value the user gave a key before one override, which carried it
   along, that a later override was the first to set: the user loses it unnoticed. *)
EditsKept ==
    /\ ControlTypes
    /\ step = "done" /\ ~raced /\ ~cut =>
        file = NoFile \/ \A k \in DOMAIN edited \ overridden : file[k] = edited[k]

(* Every override is gone at the end, also after edits, failures and an edit that raced
   with the runner, and a file that nobody else has changed is what it was: one the run
   has created disappears. *)
OverridesGone ==
    step = "done" /\ ~cut =>
        /\ \A k \in Keys : Text(file)[k] \notin {"set", "set again"}
        /\ edited = <<>> => file = original

(* All of it, for the run that checks both. *)
ControlsReturned == EditsKept /\ OverridesGone

-----------------------------------------------------------------------------
(* The inductive invariant                                                  *)

\* What the runner has left in the file, and the keys it has set there; between WriteFile
\* and Remember the object does not know it yet.
Left == IF step = "applied" THEN text ELSE effective
Held == IF step = "applied" THEN owned \cup DOMAIN asked ELSE owned
Set == {"set", "set again"}

\* Held keys have a value of the runner or the original one; the others are as they were
\* unless an override has carried edits along.
LeftTrue ==
    /\ original \in [Keys -> {"own", Unset}] \cup {NoFile}
    /\ ~cut =>
        /\ \A k \in Held : Text(Left)[k] \in Set \cup {Text(original)[k]}
        /\ ~external => \A k \in Keys \ Held : Text(Left)[k] = Text(original)[k]
        /\ IF Held = {} THEN Left = original ELSE Left # NoFile

\* An override in progress sets values of its own and gives others back.
AskedTrue ==
    /\ applied = 0 => step = "idle" /\ Held = {} /\ ~external
    /\ step \in {"applying", "writing", "applied"} =>
        /\ DOMAIN asked # {}
        /\ \A k \in DOMAIN asked : asked[k] \in Set \cup {Text(original)[k]}
    /\ step = "writing" =>
        /\ text = Patched(read, asked) /\ (read = NoFile => effective = NoFile)
        /\ \A k \in KeysChecked : ~Disputed(read, k)
        /\ ~raced => file = read
        /\ ~cut => \A k \in Keys : Text(read)[k] \in Set => k \in owned

\* Who wrote the present value of a key: a value of the runner is known to be his; a value
\* the user gave is there, or was the one to be restored anyway.
FileTrue ==
    /\ edited = <<>> => ~raced
    /\ ~cut /\ step \notin {"undoing", "done"} =>
        /\ \A k \in Keys : Text(file)[k] \in Set => k \in Held /\ Text(file)[k] = Text(Left)[k]
        /\ edited = <<>> => file = Left /\ ~external
        /\ Left = NoFile => file = NoFile /\ edited = <<>>
        /\ ~raced /\ file # NoFile => \A k \in DOMAIN edited \ overridden :
            \/ file[k] = edited[k]
            \/ /\ k \in Held /\ Text(file)[k] = Text(Left)[k]
               /\ edited[k] = Unset /\ Text(original)[k] = Unset
    /\ ~cut /\ step = "undoing" =>
        /\ \A k \in Keys : Text(text)[k] \notin Set
        /\ edited = <<>> => text = original
        /\ ~raced => text = NoFile \/ \A k \in DOMAIN edited \ overridden : text[k] = edited[k]

ControlInv == LeftTrue /\ AskedTrue /\ FileTrue /\ ControlsReturned
=============================================================================
