------------------------------ MODULE SourcePatch ------------------------------
(***************************************************************************)
(* The updater of the native sources (cmfgen_patch.py): it brings a tree   *)
(* to the patch set of its checkout, whole or not at all, beside editors   *)
(* and other updaters, and may be killed between any two writes.           *)
(*                                                                         *)
(* The content of a file is the revision whose patch set gives it, 0 for   *)
(* upstream, or an edit.  Revisions[r] names the files the patch set of    *)
(* revision r changes and the revision that wrote that text (a text may    *)
(* stay the same from one set to the next).  Version is the source file    *)
(* with the revision stamp, which every set changes.  Hashes are           *)
(* contents, and a patch applied to upstream gives its target.             *)
(***************************************************************************)
EXTENDS Naturals, Sequences, FiniteSets, TLC, Functions, Filters

CONSTANTS
    Order,       \* the source files by name, a sequence
    Version,     \* the one with the revision stamp
    Added,       \* those that upstream does not have
    Revisions,   \* patch sets: a sequence of functions of files to revisions
    Updaters,    \* processes
    MaxEdits,    \* bound on edits by users
    MaxCrashes   \* bound on killed updaters

Paths == Range(Order)
Absent == <<"absent", 0>>
Edits == {<<"edit", n>> : n \in 1..MaxEdits}
Text(r) == <<"set", r>>
Upstream(p) == IF p \in Added THEN Absent ELSE Text(0)
Sets == DOMAIN Revisions
Changed(r) == IF r = 0 THEN {} ELSE DOMAIN Revisions[r]
Target(r, p) == IF p \in Changed(r) THEN Text(Revisions[r][p]) ELSE Upstream(p)
Contents == {Absent} \cup {Text(r) : r \in 0..Len(Revisions)} \cup Edits

ASSUME PatchAssumption ==
    /\ Order \in Seq(Paths) /\ Len(Revisions) \in Nat /\ Sets = 1 .. Len(Revisions)
    /\ IsInjective(Order) /\ "free" \notin Updaters /\ Version \in Paths \ Added /\ Added \subseteq Paths
    /\ MaxEdits \in Nat /\ MaxCrashes \in Nat
    /\ \A r \in Sets : /\ Changed(r) \subseteq Paths /\ Version \in Changed(r) /\ Revisions[r][Version] = r
                       /\ \A p \in Changed(r) : Revisions[r][p] \in 1..r

\* A file more.
Put(f, p, content) == [q \in DOMAIN f \cup {p} |-> IF q = p THEN content ELSE f[q]]

VARIABLES
    tree,       \* the source files
    installed,  \* installed.json: revision, or 0 without the file
    kept,       \* revisions whose patch is retained
    lock,       \* flock on the state directory
    up,         \* the updaters
    edits,      \* edits so far
    crashes,    \* killed updaters so far
    edited,     \* history: last edit of each file
    raced,      \* history: files edited between a check and the write after it
    unfinished  \* history: sets that were installed in part, or without a record

disk == <<tree, installed, kept>>
history == <<edited, raced, unfinished>>
vars == <<disk, lock, up, edits, crashes, history>>

\* desired: its patch set; old: sets of its repository's history; previous: the state it
\* read; plan: what it found of each file; new: what it will write; done: files written.
Fields == {"pc", "desired", "old", "previous", "plan", "new", "todo", "done", "before",
           "tree0", "edits0"}
Fresh(r, h) == [pc |-> "start", desired |-> r, old |-> h, previous |-> 0, plan |-> <<>>,
                new |-> <<>>, todo |-> <<>>, done |-> <<>>, before |-> <<>>,
                tree0 |-> <<>>, edits0 |-> 0]
Working(u) == up[u].pc \notin {"start", "refused", "done", "failed", "broken", "killed"}

Goto(u, pc) == up' = [up EXCEPT ![u].pc = pc]
End(u, pc) == /\ up' = [up EXCEPT ![u] = [Fresh(@.desired, @.old) EXCEPT !.pc = pc]]
              /\ lock' = "free"
Succeed(u) == End(u, "done") /\ unfinished' = unfinished \ {up[u].desired}

\* A pristine tree, or one that another copy of the updater has patched; an old install
\* may not be recorded.
Init ==
    /\ \E r \in 0..Len(Revisions) :
        /\ tree = [p \in Paths |-> Target(r, p)]
        /\ installed \in {0, r} /\ kept = (IF installed = 0 THEN {} ELSE {r})
    /\ lock = "free"
    /\ \E d \in [Updaters -> Sets] : \E h \in BOOLEAN :
        up = [u \in Updaters |-> Fresh(d[u], IF h THEN 1..d[u] ELSE {})]
    /\ edits = 0 /\ crashes = 0 /\ edited = <<>> /\ raced = {}
    /\ unfinished = {tree[Version][2]} \ {0, installed}

-----------------------------------------------------------------------------
\* An editor replaces, adds or changes a source file.
Edit(p) ==
    /\ edits < MaxEdits /\ edits' = edits + 1
    /\ tree' = [tree EXCEPT ![p] = <<"edit", edits + 1>>]
    /\ edited' = Put(edited, p, <<"edit", edits + 1>>)
    /\ raced' = raced \cup {q \in {p} : \E u \in Updaters :
                    up[u].pc \in {"write", "restore"} /\ up[u].todo[1] = p}
    /\ UNCHANGED <<installed, kept, lock, up, crashes, unfinished>>

-----------------------------------------------------------------------------
(* update: plan_update under patch_lock                                     *)

Free == lock = "free"
Lock(u) ==
    /\ up[u].pc = "start"
    /\ IF Free THEN lock' = u /\ Goto(u, "read") ELSE UNCHANGED lock /\ Goto(u, "refused")
    /\ UNCHANGED <<disk, edits, crashes, history>>

\* The files of the patch set and of the one before.
Names(r, before) == Changed(r) \cup Changed(before)
\* Stamps of the source and of the state guard against downgrades.  A stamp that
\* somebody edited does not count.  The state needs its patch.
Downgrade(u) == \/ installed > up[u].desired
                \/ tree[Version][1] = "set" /\ tree[Version][2] > up[u].desired
ReadState(u) ==
    /\ up[u].pc = "read"
    /\ IF Downgrade(u) \/ (installed # 0 /\ installed \notin kept)
       THEN End(u, "refused")
       ELSE /\ up' = [up EXCEPT ![u].pc = "plan", ![u].previous = installed,
                                ![u].todo = Only(Order, Names(up[u].desired, installed)),
                                ![u].tree0 = tree, ![u].edits0 = edits]
            /\ UNCHANGED lock
    /\ UNCHANGED <<disk, edits, crashes, history>>

\* A file is recognised when it is upstream's, the target, or a patch set's of the state
\* or of the history; anything else stops the update.
Known(u) == up[u].old \cup ({up[u].previous} \ {0})
Recognised(u, p) == \/ tree[p] \in {Upstream(p), Target(up[u].desired, p)}
                    \/ \E r \in Known(u) : p \in Changed(r) /\ tree[p] = Target(r, p)
PlanFile(u) ==
    /\ up[u].pc = "plan" /\ up[u].todo # <<>>
    /\ LET p == up[u].todo[1]
           t == Target(up[u].desired, p)
       IN IF ~Recognised(u, p) THEN End(u, "refused")
          ELSE /\ up' = [up EXCEPT
                    ![u].todo = Tail(@), ![u].plan = Put(@, p, tree[p]),
                    ![u].new = IF tree[p] = t THEN @ ELSE Put(@, p, t)]
               /\ UNCHANGED lock
    /\ UNCHANGED <<disk, edits, crashes, history>>

\* Nothing to do, and this is known.
Current(u) ==
    /\ up[u].pc = "plan" /\ up[u].todo = <<>>
    /\ up[u].new = <<>> /\ up[u].previous = up[u].desired
    /\ Succeed(u)
    /\ UNCHANGED <<disk, edits, crashes, edited, raced>>

-----------------------------------------------------------------------------
(* install                                                                  *)

AsPlanned(u) == \A p \in DOMAIN up[u].plan : tree[p] = up[u].plan[p]
ToWrite(u) == Only(Order, DOMAIN up[u].new)
\* The files as they are are copied to the backup.
BeginInstall(u) ==
    /\ up[u].pc = "plan" /\ up[u].todo = <<>>
    /\ up[u].new # <<>> \/ up[u].previous # up[u].desired
    /\ IF AsPlanned(u)
       THEN Goto(u, "backup") /\ UNCHANGED lock
       ELSE End(u, "refused")
    /\ UNCHANGED <<disk, edits, crashes, history>>
Backup(u) ==
    /\ up[u].pc = "backup"
    /\ up' = [up EXCEPT ![u].pc = "check", ![u].todo = ToWrite(u),
                        ![u].before = [p \in DOMAIN up[u].new |-> tree[p]]]
    /\ UNCHANGED <<disk, lock, edits, crashes, history>>

Fail(u) == up' = [up EXCEPT ![u].pc = "undo state"]

CheckFile(u, p) == tree[p] = up[u].plan[p]
Check(u) ==
    /\ up[u].pc = "check" /\ up[u].todo # <<>>
    /\ IF CheckFile(u, up[u].todo[1]) THEN Goto(u, "write") ELSE Fail(u)
    /\ UNCHANGED <<disk, lock, edits, crashes, history>>
\* Written, or not; a failure may come after the replacement.  The file is on the list of
\* written ones before; a variant puts it there afterwards.
ListedAfter(u, p, ok) == IF ok THEN <<p>> \o up[u].done ELSE up[u].done
Listed(u, p, ok) == <<p>> \o up[u].done
Write(u) ==
    /\ up[u].pc = "write"
    /\ LET p == up[u].todo[1] IN \E replaced, ok \in BOOLEAN :
        /\ ok => replaced
        /\ tree' = IF replaced THEN [tree EXCEPT ![p] = up[u].new[p]] ELSE tree
        /\ up' = [up EXCEPT ![u].pc = IF ok THEN "check" ELSE "undo state",
                            ![u].todo = Tail(@), ![u].done = Listed(u, p, ok)]
    /\ UNCHANGED <<installed, kept, lock, edits, crashes, history>>

AllWritten(u) == \A p \in DOMAIN up[u].plan :
    tree[p] = IF p \in DOMAIN up[u].new THEN up[u].new[p] ELSE up[u].plan[p]
Verify(u) ==
    /\ up[u].pc = "check" /\ up[u].todo = <<>>
    /\ IF AllWritten(u) THEN Goto(u, "keep") ELSE Fail(u)
    /\ UNCHANGED <<disk, lock, edits, crashes, history>>

\* The patch is retained before the state names it; a variant does it afterwards.
PublishFirst(u) ==
    IF up[u].pc = "keep" THEN installed' = up[u].desired /\ UNCHANGED kept
    ELSE kept' = kept \cup {up[u].desired} /\ UNCHANGED installed
Publish(u) ==
    IF up[u].pc = "keep" THEN kept' = kept \cup {up[u].desired} /\ UNCHANGED installed
    ELSE installed' = up[u].desired /\ UNCHANGED kept
Record(u) ==
    /\ up[u].pc \in {"keep", "publish"}
    /\ \/ /\ Publish(u)
          /\ IF up[u].pc = "publish" THEN Succeed(u)
             ELSE Goto(u, "publish") /\ UNCHANGED <<lock, unfinished>>
       \/ Publish(u) /\ Fail(u) /\ UNCHANGED <<lock, unfinished>>
       \/ Fail(u) /\ UNCHANGED <<installed, kept, lock, unfinished>>
    /\ UNCHANGED <<tree, edits, crashes, edited, raced>>

-----------------------------------------------------------------------------
(* The rollback                                                             *)

UndoState(u) ==
    /\ up[u].pc = "undo state"
    /\ installed' = up[u].previous
    /\ up' = [up EXCEPT ![u].pc = "undo", ![u].todo = up[u].done]
    /\ UNCHANGED <<tree, kept, lock, edits, crashes, history>>

\* Files that somebody else has changed stay as they are.
Owned(u, p) == tree[p] = up[u].new[p]
Undo(u) ==
    /\ up[u].pc = "undo" /\ up[u].todo # <<>>
    /\ LET p == up[u].todo[1]
       IN IF tree[p] # up[u].plan[p] /\ Owned(u, p) THEN Goto(u, "restore")
          ELSE up' = [up EXCEPT ![u].todo = Tail(@)]
    /\ UNCHANGED <<disk, lock, edits, crashes, history>>
Restore(u) ==
    /\ up[u].pc = "restore"
    /\ tree' = [tree EXCEPT ![up[u].todo[1]] = up[u].before[up[u].todo[1]]]
    /\ up' = [up EXCEPT ![u].pc = "undo", ![u].todo = Tail(@)]
    /\ UNCHANGED <<installed, kept, lock, edits, crashes, history>>
\* An error stops the rollback.
UndoFails(u) ==
    /\ up[u].pc \in {"undo state", "undo", "restore"}
    /\ End(u, "broken") /\ unfinished' = unfinished \cup {up[u].desired}
    /\ UNCHANGED <<disk, edits, crashes, edited, raced>>
RolledBack(u) ==
    /\ up[u].pc = "undo" /\ up[u].todo = <<>>
    /\ End(u, "failed")
    /\ UNCHANGED <<disk, edits, crashes, history>>

\* The lock goes with the process.
Crash(u) ==
    /\ crashes < MaxCrashes /\ crashes' = crashes + 1 /\ Working(u)
    /\ End(u, "killed") /\ unfinished' = unfinished \cup {up[u].desired}
    /\ UNCHANGED <<disk, edits, edited, raced>>
\* The user runs the updater again.
Again(u) ==
    /\ up[u].pc \in {"killed", "broken"}
    /\ up' = [up EXCEPT ![u] = Fresh(up[u].desired, up[u].old)]
    /\ UNCHANGED <<disk, lock, edits, crashes, history>>

Update(u) == \/ Lock(u) \/ ReadState(u) \/ PlanFile(u) \/ Current(u) \/ BeginInstall(u)
             \/ Backup(u) \/ Check(u) \/ Write(u) \/ Verify(u) \/ Record(u)
             \/ UndoState(u) \/ Undo(u) \/ Restore(u) \/ UndoFails(u) \/ RolledBack(u)
Next == \/ \E p \in Paths : Edit(p)
        \/ \E u \in Updaters : Update(u) \/ Crash(u) \/ Again(u)
Spec == Init /\ [][Next]_vars

-----------------------------------------------------------------------------
(* Properties                                                               *)

TypeOK ==
    /\ tree \in [Paths -> Contents] /\ installed \in 0..Len(Revisions)
    /\ kept \subseteq Sets /\ lock \in Updaters \cup {"free"}
    /\ \A u \in Updaters :
        /\ DOMAIN up[u] = Fields /\ (Working(u) <=> lock = u)
        /\ DOMAIN up[u].new \subseteq DOMAIN up[u].plan
        /\ Range(up[u].done) \subseteq DOMAIN up[u].new /\ IsInjective(up[u].done)
        /\ Range(up[u].todo) \subseteq Paths
    /\ edits \in 0..MaxEdits /\ crashes \in 0..MaxCrashes
    /\ edited \in UNION {[S -> Edits] : S \in SUBSET Paths}
    /\ raced \subseteq Paths /\ unfinished \subseteq Sets

(* An edit of a source file is never overwritten, neither by an update nor by its
   rollback.  Not covered: one that falls between the last look at a file and its
   replacement. *)
SourceEditsKept == \A p \in DOMAIN edited \ raced : tree[p] = edited[p]

(* An update that fails leaves the source and the state as it found them, except for
   files edited meanwhile. *)
FailureRestoresSource ==
    [][\A u \in Updaters : up[u].pc = "undo" /\ up'[u].pc = "failed" =>
        /\ installed = up[u].previous
        /\ edits = up[u].edits0 => tree = up[u].tree0]_vars

(* A tree whose state names a patch set is wholly that set, edits and updates at work
   excepted: no old fix survives beside the new ones, also when the install was killed and
   repeated.  Not covered: a set installed without a record, or in part, and then followed
   by another set. *)
RegisteredIsWhole ==
    lock = "free" /\ installed # 0 /\ unfinished = {} =>
        \A p \in Paths \ DOMAIN edited : tree[p] = Target(installed, p)

(* The state can always be read: the patch it names is retained.  A new run of the
   updater after a kill or a failed rollback depends on it. *)
StateReadable == TypeOK /\ (installed # 0 => installed \in kept)

(* All of it. *)
SourcesTrue == StateReadable /\ RegisteredIsWhole /\ SourceEditsKept
=============================================================================
