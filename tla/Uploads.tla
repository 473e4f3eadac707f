-------------------------------- MODULE Uploads --------------------------------
(***************************************************************************)
(* The bundle of one uploaded table of photometry (upload_service.py,      *)
(* upload_views.py, observed_spectrum.py): its source and its manifest     *)
(* under the upload root, and requests that create, save, append to and    *)
(* delete it.  Requests run in threads of their own and take no lock; a    *)
(* call on a file is a step, and any may fail or be the last one before    *)
(* the server is killed.                                                   *)
(***************************************************************************)
EXTENDS Photometry, FiniteSets

CONSTANTS
    Requests,
    Texts,      \* what is submitted: tables of raw lines
    Answers,    \* what a query of VizieR brings: points, or Refused
    Window,     \* the configured wavelengths
    MaxFaults   \* bound on failing calls and kills

ASSUME UploadsAssumption ==
    MaxFaults \in Nat /\ Texts \subseteq Tables /\ Answers \subseteq {Refused} \cup Seq(AnyPoint)

VARIABLES
    source,    \* source.phot, Nothing without it
    manifest,  \* meta.json: the number of points it states, Nothing without it
    folder,    \* the directory of the bundle exists
    request,
    faults,
    told,      \* history: the table of the last request that was done
    mishaps    \* history: what went wrong since, and whether requests ever overlapped

bundle == <<source, manifest, folder>>
uploads == <<bundle, request, faults, told, mishaps>>

\* text: the table it is to write, or that the page sends (Nothing without it) for the rows
\* to join; before: the content it restores.
Idle == [at |-> "idle", kind |-> "none", text |-> <<>>, rows |-> <<>>, before |-> <<>>,
         added |-> FALSE, points |-> 0]
Running(r) == request[r].at \notin {"idle", "done", "refused", "failed", "killed"}
At(r, point) == request[r].at = point
Go(r, point) == request' = [request EXCEPT ![r].at = point]
Quiet == \A r \in Requests : ~Running(r)

UploadsInit ==
    /\ source = Nothing /\ manifest = Nothing /\ folder = FALSE
    /\ request = [r \in Requests |-> Idle]
    /\ faults = 0 /\ told = Nothing /\ mishaps = {}

Keep == UNCHANGED <<bundle, faults, told, mishaps>>
Fault == faults < MaxFaults /\ faults' = faults + 1
Creating(r) == request[r].kind \in {"upload", "form"}

\* A call whose error is passed over, or no longer undone, leaves its mark until a later
\* request is done; requests that overlapped are not told apart any more.
Marked(what) == mishaps' = mishaps \cup {what}
Cleared == IF "mixed" \in mishaps THEN mishaps ELSE {}

-----------------------------------------------------------------------------
\* What parse_uploaded_spectrum says of the source; an empty table is not asked about.
Count(table) == IF table = <<>> THEN 0 ELSE Len(PointsOf(table, Window))
Readable(table) == table # Nothing /\ Parsed(table, Window) # Refused

\* A new request: what it is for, and the text it brings.  Only one upload has this token;
\* the form for a new table sends it normalized.
Begins(r, kind, text, rows) ==
    /\ At(r, "idle")
    /\ request' = [request EXCEPT ![r] =
            [Idle EXCEPT !.at = IF kind \in {"upload", "form"} THEN "folder" ELSE "look",
                         !.kind = kind, !.text = text, !.rows = rows]]
    /\ mishaps' = IF Quiet THEN mishaps ELSE mishaps \cup {"mixed"}
    /\ UNCHANGED <<bundle, faults, told>>
Uploaded == \E r \in Requests : Creating(r)
Upload(r) == ~Uploaded /\ \E text \in Texts :
    \/ Begins(r, "upload", text, <<>>)
    \/ Normalized(text, FALSE) # Refused /\ Begins(r, "form", Normalized(text, FALSE), <<>>)
Save(r) == \E text \in Texts : Begins(r, "save", text, <<>>)
Delete(r) == Begins(r, "delete", <<>>, <<>>)

\* An append whose query fails or finds nothing changes nothing; the rows of another join
\* the table of the page, if it sends one.
AppendRows(r) == \E text \in Texts \cup {Nothing}, answer \in Answers :
    IF answer = Refused \/ answer = <<>> THEN At(r, "idle") /\ Go(r, "refused") /\ Keep
    ELSE Begins(r, "append", text, [i \in DOMAIN answer |-> VizierLine(answer[i])])

-----------------------------------------------------------------------------
(* create_upload_bundle: nothing is listed without a manifest.             *)

MakeFolder(r) ==
    /\ At(r, "folder") /\ ~folder /\ folder' = TRUE
    /\ Go(r, "write")
    /\ UNCHANGED <<source, manifest, faults, told, mishaps>>

\* list_upload_manifests: the bundle must be listed and its source be there.
Look(r) ==
    /\ At(r, "look")
    /\ IF manifest = Nothing \/ (source = Nothing /\ request[r].kind # "delete") THEN Go(r, "refused")
       ELSE Go(r, CASE request[r].kind = "delete" -> "unlink"
                    [] request[r].kind = "append" -> "table"
                    [] OTHER -> "before")
    /\ Keep

\* A source that is gone, or cannot be read, reads as empty.
ReadText == IF source = Nothing THEN <<>> ELSE source
Reads(text) ==
    \/ text = ReadText /\ UNCHANGED <<faults, mishaps>>
    \/ text = <<>> /\ Fault /\ Marked("unread")
\* The table an append adds to, and then, as for a save, the content to restore.
ReadTable(r) ==
    /\ At(r, "table")
    /\ \E base \in {ReadText, <<>>, request[r].text} :
        /\ IF request[r].text = Nothing THEN Reads(base)
           ELSE base = request[r].text /\ UNCHANGED <<faults, mishaps>>
        /\ LET merged == Merged(base, request[r].rows)
           IN request' = [request EXCEPT
                ![r].at = "before", ![r].text = merged, ![r].added = Len(merged) > Len(base)]
    /\ UNCHANGED <<bundle, told>>
ReadBefore(r) ==
    /\ At(r, "before")
    /\ \E before \in {ReadText, <<>>} :
        /\ Reads(before)
        /\ request' = [request EXCEPT ![r].at = "write", ![r].before = before]
    /\ UNCHANGED <<bundle, told>>
\* An append that adds nothing to the text as it was ends here; the texts may still differ
\* in their blanks.
NothingNew(r) ==
    /\ At(r, "write") /\ request[r].kind = "append"
    /\ ~request[r].added /\ request[r].text = request[r].before
    /\ Go(r, "refused") /\ Keep

\* A table from an editor is normalized first; an uploaded file is kept as it is.
Canonical(r) == IF Creating(r) THEN request[r].text ELSE Normalized(request[r].text, FALSE)
\* After an exception a new bundle is removed; else the former content is written back,
\* whether or not it has been replaced.
AfterError(r) == IF Creating(r) THEN "unlink" ELSE "restore"
\* The file is opened before it is written: a kill may leave it empty.
Truncate(r) ==
    /\ At(r, "write")
    /\ IF Canonical(r) = Refused \/ ~folder
       THEN Go(r, AfterError(r)) /\ UNCHANGED source
       ELSE Go(r, "fill") /\ source' = <<>>
    /\ UNCHANGED <<manifest, folder, faults, told, mishaps>>
Fill(r) ==
    /\ At(r, "fill")
    /\ source' = IF source = Nothing THEN Nothing ELSE Canonical(r)
    /\ Go(r, "parse")
    /\ UNCHANGED <<manifest, folder, faults, told, mishaps>>

\* An emptied table is accepted by save, and by the form for a new one; appending and
\* uploading a file must leave points.
Unparsed(r) == request[r].kind \in {"save", "form"} /\ Canonical(r) = <<>>
Accepts(r) == Unparsed(r) \/ Readable(source)
ParseSource(r) ==
    /\ At(r, "parse")
    /\ IF Accepts(r)
       THEN request' = [request EXCEPT
                ![r].at = "record", ![r].points = IF Unparsed(r) THEN 0 ELSE Count(source)]
       ELSE Go(r, AfterError(r))
    /\ Keep

\* write_upload_manifest makes the folder if need be and replaces the manifest at once.
WriteManifest(r) ==
    /\ At(r, "record")
    /\ manifest' = request[r].points /\ folder' = TRUE
    /\ told' = Canonical(r) /\ mishaps' = Cleared
    /\ Go(r, "done")
    /\ UNCHANGED <<source, faults>>

\* The former content is written as any text: the file is opened, and so emptied, before
\* it is filled.  Only an existing folder can hold it.  A variant restores nothing.
Forgotten(r) == source
Former(r) == IF source = Nothing THEN Nothing ELSE request[r].before
Reopen(r) ==
    /\ At(r, "restore")
    /\ IF folder THEN Go(r, "refill") /\ source' = <<>> ELSE Go(r, "failed") /\ UNCHANGED source
    /\ UNCHANGED <<manifest, folder, faults, told, mishaps>>
Refill(r) ==
    /\ At(r, "refill")
    /\ source' = Former(r)
    /\ Go(r, "failed")
    /\ UNCHANGED <<manifest, folder, faults, told, mishaps>>

-----------------------------------------------------------------------------
(* remove_upload_bundle, of a deletion or of a new bundle that failed:     *)
(* rmtree takes the files in any order, then the folder, if nothing is     *)
(* left or has come back.  It ignores errors: a deletion is reported       *)
(* whatever stays.                                                         *)

Unlink(r) ==
    /\ At(r, "unlink")
    /\ \/ source # Nothing /\ source' = Nothing /\ UNCHANGED <<manifest, folder, request, faults>>
       \/ manifest # Nothing /\ manifest' = Nothing /\ UNCHANGED <<source, folder, request, faults>>
       \/ source = Nothing /\ manifest = Nothing /\ Go(r, "rmdir") /\ UNCHANGED <<bundle, faults>>
       \/ (source # Nothing \/ manifest # Nothing) /\ Fault /\ Go(r, "rmdir") /\ UNCHANGED bundle
    /\ UNCHANGED <<told, mishaps>>
RemoveFolder(r) ==
    /\ At(r, "rmdir")
    /\ \/ folder' = (source # Nothing \/ manifest # Nothing) /\ UNCHANGED faults
       \/ folder /\ folder' = TRUE /\ Fault
    /\ IF Creating(r)
       THEN Go(r, "failed") /\ UNCHANGED told /\ IF folder' THEN Marked("litter") ELSE UNCHANGED mishaps
       ELSE Go(r, "done") /\ told' = Nothing /\ IF folder' THEN Marked("unremoved") ELSE mishaps' = Cleared
    /\ UNCHANGED <<source, manifest>>

-----------------------------------------------------------------------------
(* Faults.                                                                 *)

\* What fails until the source has been parsed is undone; what fails while that is undone
\* is passed over, and leaves the source as it has become.  The manifest is written after
\* that: its failure removes a new bundle, and leaves any other with the new source and
\* the old manifest.  A manifest that cannot be read, or a folder that cannot be made,
\* ends the request.
CallFails(r) ==
    /\ Fault
    /\ \/ At(r, "look") /\ Go(r, "refused") /\ UNCHANGED mishaps
       \/ At(r, "folder") /\ Go(r, "failed") /\ UNCHANGED mishaps
       \/ request[r].at \in {"write", "fill", "parse"} /\ Go(r, AfterError(r)) /\ UNCHANGED mishaps
       \/ request[r].at \in {"restore", "refill"} /\ Go(r, "failed") /\ Marked("unrestored")
       \/ At(r, "record") /\ Creating(r) /\ Go(r, "unlink") /\ UNCHANGED mishaps
       \/ At(r, "record") /\ ~Creating(r) /\ Go(r, "failed") /\ Marked("unrecorded")
    /\ UNCHANGED <<bundle, told>>
Kill(r) ==
    /\ Fault /\ Running(r) /\ Go(r, "killed") /\ Marked("killed")
    /\ UNCHANGED <<bundle, told>>

Process(r) ==
    \/ MakeFolder(r) \/ Look(r) \/ ReadTable(r) \/ ReadBefore(r) \/ NothingNew(r) \/ Truncate(r) \/ Fill(r)
    \/ ParseSource(r) \/ WriteManifest(r) \/ Reopen(r) \/ Refill(r)
UploadsNext == \E r \in Requests :
    \/ Upload(r) \/ Save(r) \/ AppendRows(r) \/ Delete(r)
    \/ Process(r) \/ Unlink(r) \/ RemoveFolder(r)
    \/ CallFails(r) \/ Kill(r)

-----------------------------------------------------------------------------
\* Unless requests have overlapped, the server was killed, or a deletion could not remove
\* everything since the last request that was done: nothing is listed of a table that was
\* never accepted or is deleted; else the manifest counts what was accepted last, beside a
\* source.  That source is a table that was accepted, too, unless the former content could
\* not be read or written back; it is the very table the manifest counts, also after
\* requests that failed at any step and were undone, unless the manifest of a later one
\* could not be written.  A removal that succeeds leaves nothing.  A request that is done
\* repairs all this, whatever failed before it.
Accepted(table) == table # <<>> => Readable(table)
BundleTrue ==
    Quiet /\ mishaps \cap {"mixed", "killed", "unremoved"} = {} =>
        IF told = Nothing THEN manifest = Nothing /\ (mishaps = {} => source = Nothing /\ ~folder)
        ELSE /\ manifest = Count(told) /\ Accepted(told) /\ source # Nothing /\ folder
             /\ mishaps \subseteq {"unrecorded"} => Accepted(source)
             /\ mishaps = {} => source = told
=============================================================================
