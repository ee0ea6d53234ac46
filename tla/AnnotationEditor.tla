-------------------------- MODULE AnnotationEditor --------------------------
(***************************************************************************)
(* The bounding box editor: browser tabs work on one dataset through one       *)
(* server, which runs their requests one at a time: the handlers of its one     *)
(* event loop await nothing while they are in the model.  A tab names an image *)
(* by its position in the list it was last sent, and a save carries the        *)
(* revision of the label the tab loaded.  Other processes (the collector, a    *)
(* second editor) do not take the model's lock: they append captures and       *)
(* rewrite labels between any two file operations of a request.  The server    *)
(* may be killed there too, and a file operation may fail.                     *)
(*                                                                         *)
(* A row of samples.jsonl is the set of the images it refers to.  A file is    *)
(* what stands under its name and under its .deleting name; a label's revision *)
(* is its content: a set of lines.                                             *)
(***************************************************************************)
EXTENDS Integers, Sequences, FiniteSets, SequencesExt

CONSTANTS Tabs,       \* browser tabs
          Rows,       \* the rows of samples.jsonl at the start
          Captures,   \* bound: the rows the collector appends, in order
          Labels,     \* contents of label files others write: sets of lines
          Malformed,  \* lines that are no annotation of coordinates in [0, 1]
          Flat,       \* lines that are, but with a box too small or a visibility of 3
          Paths,      \* paths that are opened: the images under them
          MaxChanges, \* bound: edits in the tabs and labels others rewrite
          MaxMishaps  \* bound: file operations that fail and kills of the server

Images == UNION ({Rows[r] : r \in DOMAIN Rows} \cup {Captures[r] : r \in DOMAIN Captures})
Order  == CHOOSE s \in SetToSeqs(Images) : TRUE   \* the natural order of the names
Parts  == <<"image", "label">>

Missing == {"no such file"}
Pixels  == {"pixels"}

ASSUME EditorAssumption ==
    /\ {MaxChanges, MaxMishaps} \subseteq Nat
    /\ {Rows, Captures} \subseteq Seq(SUBSET Images) /\ IsFiniteSet(Images)
    /\ Malformed \cap Flat = {} /\ "no such file" \notin UNION Labels

VARIABLES file,      \* of an image and a part: its content and its staged content
          samples,   \* samples.jsonl
          server,    \* whether it runs, and its entries
          request,   \* the request under way
          tab,       \* what a tab holds
          captured,  \* rows the collector has appended
          spent,     \* changes and mishaps so far
          late,      \* ghost: captures appended while a deletion was under way
          broken,    \* ghost: images a failed restore, or a kill, left staged
          raced      \* ghost: tabs whose image another process relabelled, while a request
                     \* of the tab read or replaced its label, and that have not been
                     \* shown since what their revision says

vars == <<file, samples, server, request, tab, captured, spent, late, broken, raced>>

\* n file operations fail, or the server is killed.
Mishap(n) == spent.mishaps + n <= MaxMishaps /\ spent' = [spent EXCEPT !.mishaps = @ + n]
Change == spent.changes < MaxChanges /\ spent' = [spent EXCEPT !.changes = @ + 1]

Idle == [op |-> "none"]
NoImage == [index |-> 0, revision |-> Missing, shown |-> Missing, draft |-> Missing]
Here(c) == [here |-> c, staged |-> Missing]
Written(f, c) == [f EXCEPT !.here = c]
Exists(i, part) == file[i][part].here # Missing

\* The elements of a sequence that are in keep, in their order.
Kept(s, keep) ==
    FoldLeft(LAMBDA kept, x : IF x \in keep THEN Append(kept, x) ELSE kept, <<>>, s)

\* _discover_images: what stands under an image's name, in natural order.
Discovered(path) == Kept(Order, {i \in path : Exists(i, "image")})

\* load_annotations: a line that is no annotation is left out, with a warning.
Readable(c) == IF c = Missing THEN {} ELSE c \ Malformed

\* What the collector writes is an annotation in every line.
Collected == {c \in Labels : c \cap (Malformed \cup Flat) = {}}

\* What a tab turns its annotations into: those of another label, or none.
Drafts == {Readable(c) : c \in Labels} \cup {{}}

\* parse_annotations: one annotation it refuses makes it refuse the draft.
Valid(draft) == draft \cap Flat = {}

Init ==
    /\ \E c \in Collected :
         file = [i \in Images |-> IF \E r \in DOMAIN Rows : i \in Rows[r]
                                 THEN [image |-> Here(Pixels), label |-> Here(c)]
                                 ELSE [image |-> Here(Missing), label |-> Here(Missing)]]
    /\ samples = Rows
    /\ server = [up |-> TRUE, entries |-> Discovered(Images)]
    /\ request = Idle
    /\ tab = [t \in Tabs |-> NoImage]
    /\ captured = 0 /\ spent = [changes |-> 0, mishaps |-> 0] /\ late = {} /\ broken = {}
    /\ raced = {}

-----------------------------------------------------------------------------
(* Tabs.                                                                    *)

Free == server.up /\ request = Idle
Dirty(t) == tab[t].draft # tab[t].shown

\* setDataset: a new list, and no image.  Which list is not kept: the model lets
\* a tab ask for any position, as one with an old list may.
Listed(t) == tab' = [tab EXCEPT ![t] = NoImage] /\ raced' = raced \ {t}

\* GET /api/state.
Snapshot(t) ==
    /\ Free /\ ~Dirty(t) /\ Listed(t)
    /\ UNCHANGED <<file, samples, server, request, captured, spent, late, broken>>

\* open_path: the dataset root, a directory or one image; the dataset of every tab
\* is replaced.  A path without images is refused.  The images are listed before the
\* lock is taken, in one step with the replacement: no other request runs in between
\* (web.py:73-78), and what other processes write there they may as well write after.
OpenPath(t) ==
    /\ Free /\ ~Dirty(t)
    /\ \E path \in Paths :
         IF Discovered(path) = <<>> THEN UNCHANGED <<server, tab, raced>>
         ELSE server' = [server EXCEPT !.entries = Discovered(path)] /\ Listed(t)
    /\ UNCHANGED <<file, samples, request, captured, spent, late, broken>>

\* An edit in the browser; auto_visibility changes the draft in the same way.
Edit(t) ==
    /\ tab[t].index # 0
    /\ Change
    /\ \E c \in Drafts \ {tab[t].shown} : tab' = [tab EXCEPT ![t].draft = c]
    /\ UNCHANGED <<file, samples, server, request, captured, late, broken, raced>>

\* A request reaches the server: to load an image of the list, to save the
\* draft, to delete the image shown.
Send(t) ==
    /\ Free
    /\ \/ \E k \in 1 .. Cardinality(Images) :
             ~Dirty(t) /\ request' = [op |-> "load", tab |-> t, index |-> k]
       \/ Dirty(t) /\ request' = [op |-> "save", tab |-> t, index |-> tab[t].index,
                                  revision |-> tab[t].revision, draft |-> tab[t].draft]
       \/ tab[t].index # 0 /\ request' = [op |-> "delete", tab |-> t, index |-> tab[t].index]
    /\ UNCHANGED <<file, samples, server, tab, captured, spent, late, broken, raced>>

-----------------------------------------------------------------------------
(* The server: load and save.                                               *)

Doing(op) == server.up /\ request.op = op
Asker == request.tab
InRange == request.index \in DOMAIN server.entries
Entry == server.entries[request.index]

\* _entry: an index past the end is an error.
OutOfRange ==
    /\ server.up /\ request.op \in {"load", "save", "delete"} /\ ~InRange
    /\ request' = Idle
    /\ UNCHANGED <<file, samples, server, tab, captured, spent, late, broken, raced>>

\* image_snapshot: the annotations are read, then the revision.
LoadAnnotations ==
    /\ Doing("load") /\ InRange
    /\ request' = [op |-> "revision", tab |-> Asker, index |-> request.index,
                   image |-> Entry, shown |-> Readable(file[Entry]["label"].here)]
    /\ UNCHANGED <<file, samples, server, tab, captured, spent, late, broken, raced>>

FileRevision ==
    /\ Doing("revision")
    /\ tab' = [tab EXCEPT ![Asker] =
                  [index |-> request.index, revision |-> file[request.image]["label"].here,
                   shown |-> request.shown, draft |-> request.shown]]
    /\ raced' = IF request.shown = Readable(file[request.image]["label"].here)
                THEN raced \ {Asker} ELSE raced
    /\ request' = Idle
    /\ UNCHANGED <<file, samples, server, captured, spent, late, broken>>

\* Mutant: only a label that is gone is a conflict.
ConflictIfGone == ~Exists(Entry, "label") /\ request.revision # Missing

\* The label is not the one the tab loaded.
Conflict == file[Entry]["label"].here # request.revision

\* save: a conflict or an invalid draft is refused.
SaveChecks ==
    /\ Doing("save") /\ InRange
    /\ \/ (Conflict \/ ~Valid(request.draft)) /\ request' = Idle
       \/ /\ ~Conflict /\ Valid(request.draft)
          /\ request' = [op |-> "replace", tab |-> Asker, index |-> request.index,
                         image |-> Entry, draft |-> request.draft]
    /\ UNCHANGED <<file, samples, server, tab, captured, spent, late, broken, raced>>

\* save_annotations replaces the file as a whole, or fails.  The reply takes the
\* place of the tab's draft, and of what was edited since the request.
SaveReplaces ==
    /\ Doing("replace")
    /\ \/ Mishap(1) /\ request' = Idle /\ UNCHANGED file
       \/ /\ file' = [file EXCEPT ![request.image]["label"].here = request.draft]
          /\ UNCHANGED spent
          /\ request' = [op |-> "revision", tab |-> Asker, index |-> request.index,
                         image |-> request.image, shown |-> request.draft]
    /\ UNCHANGED <<samples, server, tab, captured, late, broken, raced>>

-----------------------------------------------------------------------------
(* The server: delete.                                                      *)

Refers(rows, i) == {r \in DOMAIN rows : i \in rows[r]}

\* Mutant: the row of the image goes with all its views.
rows_without_image(i) == Kept(samples, SUBSET (Images \ {i}))

\* samples_without_image: the view is taken out of its row, a row without views
\* goes; there has to be exactly one.
samples_without_image(i) ==
    Kept([r \in DOMAIN samples |-> samples[r] \ {i}], (SUBSET Images) \ {{}})

DeleteReads ==
    /\ Doing("delete") /\ InRange
    /\ request' = IF Cardinality(Refers(samples, Entry)) # 1 THEN Idle
                  ELSE [op |-> "stage", index |-> request.index, tab |-> Asker, image |-> Entry,
                        rows |-> samples_without_image(Entry), rest |-> Parts, staged |-> {}]
    /\ UNCHANGED <<file, samples, server, tab, captured, spent, late, broken, raced>>

\* Mutant: the file is removed at once.
Removed(f)  == [here |-> Missing, staged |-> Missing]

Staged(f)   == [here |-> Missing, staged |-> f.here]
Restored(f) == [here |-> f.staged, staged |-> Missing]

\* _restore_staged: every staged file goes back to its name, if it can.
RestoreStaged(i, staged, failed) ==
    \E back \in SUBSET staged :
        /\ Mishap(failed + Cardinality(staged \ back))
        /\ file' = [file EXCEPT ![i] =
                      [p \in DOMAIN @ |-> IF p \in back THEN Restored(@[p]) ELSE @[p]]]
        /\ broken' = IF back = staged THEN broken ELSE broken \cup {i}
        /\ request' = Idle

\* Image and label are renamed one after the other; a file that is not there is
\* skipped, a .deleting file of before or a failure brings the others back.
StageFile ==
    /\ Doing("stage") /\ request.rest # <<>>
    /\ LET i == request.image
           p == Head(request.rest)
           next == [request EXCEPT !.rest = Tail(@)]
       IN  \/ /\ ~Exists(i, p)
              /\ request' = next /\ UNCHANGED <<file, broken, spent>>
           \/ /\ Exists(i, p) /\ file[i][p].staged = Missing
              /\ file' = [file EXCEPT ![i][p] = Staged(@)]
              /\ request' = [next EXCEPT !.staged = @ \cup {p}] /\ UNCHANGED <<broken, spent>>
           \/ /\ Exists(i, p)
              /\ RestoreStaged(i, request.staged, IF file[i][p].staged = Missing THEN 1 ELSE 0)
    /\ UNCHANGED <<samples, server, tab, captured, late, raced>>

\* save_samples replaces the file as a whole, or fails.
SaveSamples ==
    /\ Doing("stage") /\ request.rest = <<>>
    /\ \/ /\ samples' = request.rows
          /\ request' = [request EXCEPT !.op = "unlink"]
          /\ UNCHANGED <<file, broken, spent>>
       \/ RestoreStaged(request.image, request.staged, 1) /\ UNCHANGED samples
    /\ UNCHANGED <<server, tab, captured, late, raced>>

\* The staged files are removed; one that cannot be is only a warning.
Unlink ==
    /\ Doing("unlink") /\ request.staged # {}
    /\ \E p \in request.staged :
         /\ request' = [request EXCEPT !.staged = @ \ {p}]
         /\ \/ file' = [file EXCEPT ![request.image][p].staged = Missing] /\ UNCHANGED spent
            \/ Mishap(1) /\ UNCHANGED file
    /\ UNCHANGED <<samples, server, tab, captured, late, broken, raced>>

\* The entry leaves the list, and the tab is sent the new one.
DeleteReplies ==
    /\ Doing("unlink") /\ request.staged = {}
    /\ server' = [server EXCEPT !.entries = RemoveAt(@, request.index)]
    /\ Listed(Asker)
    /\ request' = Idle
    /\ UNCHANGED <<file, samples, captured, spent, late, broken>>

-----------------------------------------------------------------------------
(* Everyone else.                                                           *)

\* The collector appends a capture: its images and labels, then its row.
Capture ==
    /\ captured < Len(Captures) /\ captured' = captured + 1
    /\ LET row == Captures[captured + 1]
       IN  /\ \E c \in Collected :
                file' = [i \in Images |-> IF i \notin row THEN file[i]
                                 ELSE [image |-> Written(file[i]["image"], Pixels),
                                       label |-> Written(file[i]["label"], c)]]
           /\ samples' = Append(samples, row)
           /\ late' = IF request.op = "stage" THEN late \cup row ELSE late
    /\ UNCHANGED <<server, request, tab, spent, broken, raced>>

\* Another process rewrites the label of an image it finds.
Relabel ==
    /\ \E i \in Images, c \in Labels :
         /\ Exists(i, "image") /\ file[i]["label"].here \notin {c, Missing}
         /\ file' = [file EXCEPT ![i]["label"].here = c]
         /\ raced' = IF request.op \in {"revision", "replace"} /\ request.image = i
                     THEN raced \cup {Asker} ELSE raced
    /\ Change
    /\ UNCHANGED <<samples, server, request, tab, captured, late, broken>>

Crash ==
    /\ server.up /\ server' = [server EXCEPT !.up = FALSE]
    /\ Mishap(1)
    /\ request' = Idle
    /\ broken' = broken \cup (IF request.op \in {"stage", "unlink"} THEN {request.image} ELSE {})
    /\ UNCHANGED <<file, samples, tab, captured, late, raced>>

\* main opens the dataset again.
Restart ==
    /\ ~server.up /\ Discovered(Images) # <<>>
    /\ server' = [up |-> TRUE, entries |-> Discovered(Images)]
    /\ UNCHANGED <<file, samples, request, tab, captured, spent, late, broken, raced>>

Next ==
    \/ \E t \in Tabs : Snapshot(t) \/ OpenPath(t) \/ Edit(t) \/ Send(t)
    \/ OutOfRange \/ LoadAnnotations \/ FileRevision \/ SaveChecks \/ SaveReplaces
    \/ DeleteReads \/ StageFile \/ SaveSamples \/ Unlink \/ DeleteReplies
    \/ Capture \/ Relabel \/ Crash \/ Restart

Spec == Init /\ [][Next]_vars

-----------------------------------------------------------------------------
\* Nothing a row refers to is lost: whatever fails, and wherever the server is
\* killed, the image and its label stand under their names or under their
\* .deleting names as long as samples.jsonl refers to them (editor.py:319-346).
NothingLost ==
    \A r \in DOMAIN samples : \A i \in samples[r], p \in {"image", "label"} :
        file[i][p].here # Missing \/ file[i][p].staged # Missing

\* "Delete an image/label and update samples.jsonl as one operation"
\* (editor.py:304).  Between requests an image is there with its label and its
\* row, or none of the three is; an image of a failed restore or of a kill is
\* excepted, and so is a capture the collector appended during a deletion, whose
\* row the deletion may have overwritten.
AllOrNothing ==
    request = Idle => \A i \in Images \ broken :
        \/ /\ Exists(i, "image") /\ Exists(i, "label")
           /\ file[i]["image"].staged = Missing /\ file[i]["label"].staged = Missing
           /\ i \in late \/ Cardinality(Refers(samples, i)) = 1
        \/ /\ ~Exists(i, "image") /\ ~Exists(i, "label")
           /\ Refers(samples, i) = {}

\* README.md:76-78 of the tool: a label that another tab or a collecting process
\* has changed since the tab read it is not overwritten: what a save replaces is
\* what the tab was shown, and what it could not be shown.  Excepted is a label
\* another process rewrites between the comparison of the revisions and the
\* replacement (editor.py:267-274), or between the two reads that give a tab its
\* annotations and its revision (editor.py:233-236, 274-275): nothing locks it out,
\* and there the README's words do not hold.  What a save writes can be read back whole.
NoUnseenOverwrite ==
    [][request.op = "replace" /\ request' # request /\ file' # file =>
         /\ \/ Readable(file[request.image]["label"].here) = tab[request.tab].shown
            \/ request.tab \in raced
         /\ file'[request.image]["label"].here \cap (Malformed \cup Flat) = {}]_vars
=============================================================================
