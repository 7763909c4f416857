------------------------------ MODULE QtUpload ------------------------------
(***************************************************************************)
(* The Qt application at work: the window (qt/mainwindow.cpp) with its     *)
(* progress dialog, the FileUploader that turns a selection into commands, *)
(* the CommandQueue that executes them on a thread of its own, and the     *)
(* MtpObjectsModel both threads use (qt/fileuploader.cpp,                  *)
(* qt/commandqueue.cpp, qt/mtpobjectsmodel.cpp).                           *)
(*                                                                         *)
(* External: the device, a tree of objects; the local disk, whose paths    *)
(* are sequences of names; Qt, which delivers the signals of one thread to *)
(* another in order.  A transaction is a step that may fail, and may do so *)
(* too when it was cancelled in time.                                      *)
(***************************************************************************)
EXTENDS Integers, SequencesExt, FiniteSets, Formats

CONSTANTS Worlds,     \* what the device may hold at the start
          Jobs,       \* what the user may ask for: jobs, one for each selected directory
          Cover,      \* the name under which the cover of an album is stored
          Names,      \* the names the user gives to objects and folders
          Longer,     \* pairs of names, the second of which begins with the first
          MaxTurns,   \* bound: actions of the user
          MaxFaults   \* bound: failing transactions and unreadable files

Root == 0
Unknown == "?"        \* a row whose ObjectInfo was not asked for yet
Missing == ""         \* a row whose ObjectInfo could not be had

ASSUME BoundsAssumption == MaxTurns \in Nat /\ MaxFaults \in Nat

NameSet == STRING \ {Unknown, Missing}
ASSUME NamesAssumption == Names \cup {Cover} \subseteq NameSet

\* A device has a tree of objects, and no two files of one name in a folder.
ASSUME WorldsAssumption ==
    \A w \in Worlds :
        /\ w \in Seq([name : NameSet, parent : Nat, dir : BOOLEAN])
        /\ \A i \in DOMAIN w : w[i].parent < i
        /\ \A i, j \in DOMAIN w :
               (w[i].parent = w[j].parent /\ w[i].name = w[j].name /\ ~w[i].dir /\ ~w[j].dir) => i = j

\* The commands FileUploader makes of each kind of job; a directory is made once.
\* Several directories are selected for an import or as albums.
Commands(kind) == CASE kind = "import" -> {"import"} [] kind = "download" -> {"get"}
                    [] OTHER -> {"send", "mkdir"}
JobItems == UNION {Range(js) : js \in Jobs}
JobCmds == UNION {Range(j.cmds) : j \in JobItems}
Paths == Seq(NameSet) \ {<<>>}

ASSUME JobsAssumption ==
    /\ \A js \in Jobs :
          /\ js \in Seq(JobItems) /\ js # <<>>
          /\ \A n \in DOMAIN js : js[n].kind = js[1].kind
          /\ js[1].kind \in {"upload", "download"} => Len(js) = 1
    /\ \A j \in JobItems :
          /\ j.kind \in {"upload", "album", "import", "download"}
          /\ j.kind = "album" => j.name \in NameSet
          /\ j.cmds \in Seq(JobCmds)
          /\ \A k \in DOMAIN j.cmds : j.cmds[k].op \in Commands(j.kind)
          /\ \A k, l \in DOMAIN j.cmds :
                (j.cmds[k].op = "mkdir" /\ j.cmds[l].op = "mkdir" /\ j.cmds[k].path = j.cmds[l].path)
                    => k = l
    /\ \A c \in JobCmds : c.path \in Paths

VARIABLES obj,        \* [id]: the objects of the device
          top,        \* the last object id the device gave away
          gui,        \* "idle", "dialog", "ask", "next", "stuck" or "crashed"
          job,        \* the job of the dialog
          turns,
          attached,   \* is the list view looking at the model?
          history,    \* _history: the folders entered
          answer,     \* _uploadAnswer: what was answered for all
          model,      \* _parentObjectId and _rows
          queue,      \* commands on their way to the worker
          work,       \* the command being executed
          dirs,       \* _directories: local folder |-> object id
          covers,     \* _covers: local folder |-> its best image and the score of that
          albums,     \* _albums: local folder |-> album
          aborted,    \* CommandQueue::_aborted
          cancelled,  \* the current transaction was told to stop
          done,       \* finished() is on its way to the dialog
          listed,     \* tracks the library has entered into an album
          art,        \* [album]: the file its cover on the device is from
          sent,       \* [path]: the object of a file of this job, a history
          refused,    \* files of this job the user did not want overwritten
          pressed,    \* was abort pressed in this job?
          events,     \* "import", "abort", "rename": did this ever happen?  "buggy" is the
                      \* session's _getObjectModificationTimeBuggy
          faults
device == <<obj, top>>
window == <<gui, job, turns, attached, history, answer>>
maps == <<dirs, covers, albums>>
worker == <<queue, work, maps>>
library == <<listed, art>>
flags == <<aborted, cancelled, done>>
past == <<sent, refused, pressed, events>>
vars == <<device, window, model, worker, flags, library, past, faults>>

Idle == [at |-> "idle"]

TypeOK ==
    /\ \A i \in DOMAIN obj : i \in 1 .. top /\ obj[i].parent \in 0 .. i - 1
    /\ gui \in {"idle", "dialog", "ask", "next", "stuck", "crashed"} /\ turns \in 0 .. MaxTurns
    /\ Range(history) \subseteq 1 .. top /\ answer \in {"none", "yes", "no"}
    /\ model.parent \in 0 .. top /\ \A k \in DOMAIN model.rows : model.rows[k].id \in 1 .. top
    /\ work.at \in {"idle", "enter", "find", "ask", "delete", "open", "announce", "pause", "data",
                    "relist", "lookup", "make", "prepare", "create", "add", "get", "mtime", "finish", "covers",
                    "cover"}
    /\ Range(dirs) \subseteq 0 .. top /\ faults \in 0 .. MaxFaults
    /\ \A b \in {attached, aborted, cancelled, done, pressed} : b \in BOOLEAN
-----------------------------------------------------------------------------
(* The device and its transactions *)

Children(p) == {i \in DOMAIN obj : obj[i].parent = p}

\* DeleteObject takes what is in a folder with it.
Deleted(i) == LET under[j \in 0 .. top] == j = i \/ (j \in DOMAIN obj /\ under[obj[j].parent])
              IN  Restrict(obj, {j \in DOMAIN obj \ {i} : ~under[j]})

\* f with y for x.
Put(f, x, y) == [z \in DOMAIN f \cup {x} |-> IF z = x THEN y ELSE f[z]]

Created(p, name, isDir) == Put(obj, top + 1, [name |-> name, parent |-> p, dir |-> isDir])

\* The outcome of a transaction.
Succeeds == cancelled' = FALSE /\ UNCHANGED faults
Fails == \/ cancelled /\ cancelled' = FALSE /\ UNCHANGED faults
         \/ ~cancelled /\ faults < MaxFaults /\ faults' = faults + 1 /\ UNCHANGED cancelled
-----------------------------------------------------------------------------
(* MtpObjectsModel *)

\* Rows for objects, in the order in which the device names them.
RowsOf(S) == LET ids == SetToSeq(S)
             IN  [k \in DOMAIN ids |-> [id |-> ids[k], name |-> Unknown]]
Listing(p) == RowsOf(Children(p))

\* setParent: the folder changes even if its listing cannot be had.
SetParent(p) == \/ Succeeds /\ model' = [parent |-> p, rows |-> Listing(p)]
                \/ Fails /\ model' = [parent |-> p, rows |-> <<>>]

\* Row::GetInfo, which remembers a failure as well.
InfoOf(i) == IF i \in DOMAIN obj THEN obj[i].name ELSE Missing

\* findObject: the rows get their names one after the other up to the first
\* match; row bad fails (0: none does).
Named(bad) == [k \in DOMAIN model.rows |->
                  IF model.rows[k].name # Unknown THEN model.rows[k].name
                  ELSE IF k = bad THEN Missing ELSE InfoOf(model.rows[k].id)]
Hits(name, bad) == {k \in DOMAIN model.rows : Named(bad)[k] = name}
Found(name, bad) == IF Hits(name, bad) = {} THEN 0
                    ELSE CHOOSE k \in Hits(name, bad) : \A l \in Hits(name, bad) : k <= l
RowsLookedUp(name, bad) ==
    [k \in DOMAIN model.rows |-> IF Found(name, bad) = 0 \/ k <= Found(name, bad)
                                 THEN [model.rows[k] EXCEPT !.name = Named(bad)[k]] ELSE model.rows[k]]
LookUp(name, bad) ==
    /\ IF bad = 0 THEN Succeeds
       ELSE bad \in DOMAIN model.rows /\ model.rows[bad].name = Unknown /\ Fails
    /\ model' = [model EXCEPT !.rows = RowsLookedUp(name, bad)]

\* Rows of the folder on show grow with what is put into it.
RowAdded(p, i) == IF p = model.parent
                  THEN [model EXCEPT !.rows = Append(@, [id |-> i, name |-> Unknown])] ELSE model

Init == /\ obj \in Worlds /\ top = Len(obj)
        /\ gui = "idle" /\ job = [kind |-> "none", cmds |-> <<>>, rest |-> <<>>, base |-> 0] /\ turns = 0 /\ attached = TRUE
        /\ history = <<>> /\ answer = "none"
        /\ model = [parent |-> Root, rows |-> Listing(Root)]
        /\ queue = <<>> /\ work = Idle /\ dirs = <<>>
        /\ aborted = FALSE /\ cancelled = FALSE /\ done = FALSE /\ listed = {}
        /\ covers = <<>> /\ albums = <<>> /\ art = <<>>
        /\ sent = <<>> /\ refused = {} /\ pressed = FALSE /\ events = {} /\ faults = 0
-----------------------------------------------------------------------------
(* The window *)

Shown == IF history = <<>> THEN Root ELSE Last(history)

Turn == gui = "idle" /\ turns < MaxTurns /\ turns' = turns + 1

\* activate: only a folder is entered, and what it is the device has to say.
Enter(k) == /\ Turn /\ k \in DOMAIN model.rows /\ model.rows[k].name # Missing
            /\ LET i == model.rows[k].id
               IN  i \in DOMAIN obj /\ obj[i].dir /\ SetParent(i) /\ history' = Append(history, i)
            /\ UNCHANGED <<device, gui, job, attached, answer, worker, aborted, done, library, past>>

Back == /\ Turn /\ history # <<>>
        /\ history' = Front(history)
        /\ SetParent(IF Len(history) = 1 THEN Root ELSE history[Len(history) - 1])
        /\ UNCHANGED <<device, gui, job, attached, answer, worker, aborted, done, library, past>>

\* A selected row, for a menu entry about it.
Selected(k) == Turn /\ k \in DOMAIN model.rows

\* deleteObjects: whether the request fails or not, a refresh at the end.
DeleteSelected(k) ==
    /\ Selected(k)
    /\ \/ Succeeds /\ obj' = Deleted(model.rows[k].id)
       \/ Fails /\ UNCHANGED obj
    /\ model' = [model EXCEPT !.rows = RowsOf({i \in DOMAIN obj' : obj'[i].parent = model.parent})]
    /\ UNCHANGED <<top, gui, job, attached, history, answer, worker, aborted, done, library, past>>

\* MtpObjectsModel::rename: the row is asked for again, also after a failure.
Renamed(k, name) ==
    /\ \/ /\ Succeeds
          /\ obj' = [i \in DOMAIN obj |-> IF i = model.rows[k].id THEN [obj[i] EXCEPT !.name = name]
                                          ELSE obj[i]]
       \/ Fails /\ UNCHANGED obj
    /\ model' = [model EXCEPT !.rows[k].name = Unknown]

RenameSelected(k, name) ==
    /\ Selected(k) /\ Renamed(k, name)
    /\ events' = events \cup {"rename"}
    /\ UNCHANGED <<top, gui, job, attached, history, answer, worker, aborted, done, library, sent,
                   refused, pressed>>

\* A folder of a name that is there already is not made again; a failure is
\* shown to the user.
CreateFolder(name) ==
    /\ Turn
    /\ LET rows == RowsLookedUp(name, 0)
       IN  \/ /\ Found(name, 0) # 0 /\ Succeeds
              /\ model' = [model EXCEPT !.rows = rows] /\ UNCHANGED device
           \/ /\ Found(name, 0) = 0 /\ Succeeds
              /\ obj' = Created(model.parent, name, TRUE) /\ top' = top + 1
              /\ model' = [model EXCEPT !.rows = Append(rows, [id |-> top + 1, name |-> Unknown])]
           \/ /\ Found(name, 0) = 0 /\ Fails
              /\ model' = [model EXCEPT !.rows = rows] /\ UNCHANGED device
    /\ UNCHANGED <<gui, job, attached, history, answer, worker, aborted, done, library, past>>

\* FileUploader: commands for all files, FinishQueue behind them.  What else is
\* selected comes when that is done.
Begin(js, home) ==
    /\ job' = [kind |-> Head(js).kind, cmds |-> Head(js).cmds, rest |-> Tail(js), base |-> top]
    /\ gui' = "dialog"
    /\ queue' = Append(Head(js).cmds, [op |-> "finish", id |-> home])
    /\ sent' = <<>> /\ refused' = {} /\ pressed' = FALSE

\* Mutant: the view stays on the model.
UploadAttached(js, home) == Begin(js, home) /\ answer' = "none" /\ UNCHANGED attached

\* uploadFiles takes the view off the model.
Upload(js, home) == Begin(js, home) /\ attached' = FALSE /\ answer' = "none"

\* uploadAlbum, on the thread of the window: its folder is looked up or made and
\* entered, and the cover stored there.  If there is a cover already, the window
\* asks itself whether to overwrite it over a BlockingQueuedConnection.
UploadAlbum(js) ==
    LET j == Head(js)
        k == Found(j.name, 0)
        folder == IF k = 0 THEN top + 1 ELSE model.rows[k].id
        made == IF k = 0 THEN Created(model.parent, j.name, TRUE) ELSE obj
        asked == \E i \in DOMAIN made : made[i].parent = folder /\ made[i].name = Cover
        id == IF k = 0 THEN top + 2 ELSE top + 1
    IN  /\ history' = Append(history, folder)
        /\ IF j.cover /\ ~asked
           THEN /\ obj' = Put(made, id, [name |-> Cover, parent |-> folder, dir |-> FALSE])
                /\ top' = id
           ELSE obj' = made /\ top' = id - 1
        /\ model' = [parent |-> folder,
                     rows |-> RowsOf({i \in DOMAIN obj' : obj'[i].parent = folder})]
        /\ IF asked
           THEN gui' = "stuck" /\ UNCHANGED <<job, queue, attached, answer, sent, refused, pressed>>
           ELSE Upload(js, folder)
        /\ UNCHANGED <<work, maps, flags, library, events, faults>>

\* importMusic and downloadFiles leave the view there; an import finishes in the
\* root folder.
ImportMusic(js) ==
    /\ Begin(js, Root)
    /\ events' = events \cup {"import"}
    /\ UNCHANGED <<device, attached, history, answer, model, work, maps, flags, library, faults>>

StartUpload(js) ==
    /\ Turn /\ Head(js).kind = "upload" /\ Head(js).cmds # <<>>
    /\ Upload(js, model.parent)
    /\ UNCHANGED <<device, history, model, work, maps, flags, library, events, faults>>

StartAlbum(js) == Turn /\ Head(js).kind = "album" /\ UploadAlbum(js)

StartImport(js) == Turn /\ Head(js).kind = "import" /\ ImportMusic(js)

StartDownload(js) ==
    /\ Turn /\ Head(js).kind = "download"
    /\ Begin(js, model.parent)
    /\ UNCHANGED <<device, attached, history, answer, model, work, maps, flags, library, events,
                   faults>>

\* The next directory of the selection, with a dialog of its own; an abort was
\* only about the one before.
NextSelected ==
    /\ gui = "next"
    /\ IF Head(job.rest).kind = "album" THEN UploadAlbum(job.rest) ELSE ImportMusic(job.rest)
    /\ UNCHANGED turns

\* The dialog has gone; uploadFiles refreshes, uploadAlbum goes back.
DialogCloses ==
    /\ gui = "dialog" /\ done
    /\ done' = FALSE /\ gui' = IF job.rest = <<>> THEN "idle" ELSE "next"
    /\ attached' = TRUE
    /\ history' = IF job.kind = "album" THEN Front(history) ELSE history
    /\ CASE job.kind = "upload" -> SetParent(model.parent)
         [] job.kind = "album" -> SetParent(IF Len(history) = 1 THEN Root
                                            ELSE history[Len(history) - 1])
         [] OTHER -> UNCHANGED <<model, cancelled, faults>>
    /\ UNCHANGED <<device, job, turns, answer, worker, aborted, library, past>>

\* confirmOverwrite, while the worker waits.
Answer(yes, forAll) ==
    /\ gui = "ask"
    /\ gui' = "dialog"
    /\ answer' = IF forAll THEN (IF yes THEN "yes" ELSE "no") ELSE answer
    /\ IF yes THEN work' = [work EXCEPT !.at = "delete"] /\ UNCHANGED refused
       ELSE work' = Idle /\ refused' = refused \cup {work.cmd.path}
    /\ UNCHANGED <<device, job, turns, attached, history, model, queue, maps, flags, library, sent,
                   pressed, events, faults>>

\* A view on the model asks for the ObjectInfo of rows it paints, while the
\* worker is between two transactions.
Repaint(k) ==
    /\ attached /\ gui = "dialog" /\ work.at \in {"idle", "pause"}
    /\ k \in DOMAIN model.rows /\ model.rows[k].name = Unknown
    /\ model' = [model EXCEPT !.rows[k].name = InfoOf(model.rows[k].id)]
    /\ work' = IF work.at = "pause" THEN [work EXCEPT !.between = TRUE] ELSE work
    /\ UNCHANGED <<device, window, queue, maps, flags, library, past, faults>>

InTransaction == work.at \in {"enter", "find", "delete", "announce", "data", "relist", "lookup", "make",
                              "prepare", "create", "add", "get", "mtime", "finish", "cover"}

\* CommandQueue::abort, called on the thread of the window.  When there is no
\* transaction to abort, AbortCurrentTransaction throws and nobody catches it.
\* The button works once.
AbortPressed ==
    /\ gui = "dialog" /\ ~pressed
    /\ pressed' = TRUE /\ aborted' = TRUE /\ events' = events \cup {"abort"}
    /\ IF InTransaction THEN cancelled' = TRUE /\ UNCHANGED gui
       ELSE gui' = "crashed" /\ UNCHANGED cancelled
    /\ UNCHANGED <<device, job, turns, attached, history, answer, model, worker, done, library, sent,
                   refused, faults>>
-----------------------------------------------------------------------------
(* CommandQueue *)

Alive == gui \in {"dialog", "ask"}
path == work.cmd.path
GoOn(place) == work' = [work EXCEPT !.at = place]

\* uploadFile and createDirectory: the folder of the first one is that on show.
Mapped(p) == IF dirs = <<>> THEN Put(dirs, Front(p), model.parent) ELSE dirs

\* importFile only remembers the best image of a folder, and passes over what is
\* neither an image nor music with tags.
IsImage(cmd) == cmd.op = "import" /\ IsImageFormat(ObjectFormatFromFilename(cmd.file))
IsSong(cmd) == cmd.op = "import" /\ IsAudioFormat(ObjectFormatFromFilename(cmd.file)) /\ cmd.tagged

Scored(cmd) ==
    LET folder == Front(cmd.path)
        score == GetCoverScore(cmd.file.words)
    IN  IF folder \in DOMAIN covers /\ score <= covers[folder].score THEN covers
        ELSE Put(covers, folder, [path |-> cmd.path, score |-> score])

\* What a command begins with; nothing happens to a file after an abort, nor to
\* one whose folder was not made.
FirstStep(cmd) ==
    IF cmd.op = "finish" THEN "finish"
    ELSE IF aborted THEN "idle"
    ELSE IF cmd.op = "import" THEN IF IsSong(cmd) THEN "prepare" ELSE "idle"
    ELSE IF cmd.op = "get" THEN "get"
    ELSE IF Front(cmd.path) \notin DOMAIN Mapped(cmd.path) THEN "idle"
    ELSE IF cmd.op = "mkdir" THEN "lookup"
    ELSE IF model.parent # Mapped(cmd.path)[Front(cmd.path)] THEN "enter" ELSE "find"

TakeCommand ==
    /\ Alive /\ work = Idle /\ queue # <<>>
    /\ LET cmd == Head(queue)
       IN  /\ work' = IF FirstStep(cmd) = "idle" THEN Idle
                      ELSE [at |-> FirstStep(cmd), cmd |-> cmd, id |-> 0, between |-> FALSE,
                            reset |-> FALSE]
           /\ dirs' = IF cmd.op \in {"send", "mkdir"} /\ ~aborted THEN Mapped(cmd.path) ELSE dirs
           /\ covers' = IF IsImage(cmd) /\ ~aborted THEN Scored(cmd) ELSE covers
    /\ queue' = Tail(queue) /\ UNCHANGED albums
    /\ UNCHANGED <<device, window, model, flags, library, past, faults>>

\* Mutant: the rows stay those of the folder before.
EnterNothing == /\ Alive /\ work.at = "enter" /\ GoOn("find")
                /\ UNCHANGED <<device, window, model, queue, maps, flags, library, past, faults>>

\* uploadFile: setParent, so that the rows are those of the folder of the file.
EnterFolder ==
    /\ Alive /\ work.at = "enter"
    /\ SetParent(dirs[Front(path)])
    /\ GoOn("find")
    /\ UNCHANGED <<device, window, queue, maps, aborted, done, library, past>>

FindFile ==
    /\ Alive /\ work.at = "find"
    /\ \E bad \in 0 .. Len(model.rows) :
          LET k == Found(Last(path), bad)
          IN  /\ LookUp(Last(path), bad)
              /\ IF k = 0 THEN GoOn("open") /\ UNCHANGED <<gui, refused>>
                 ELSE IF answer = "no"
                 THEN work' = Idle /\ refused' = refused \cup {path} /\ UNCHANGED gui
                 ELSE /\ work' = [work EXCEPT !.id = model.rows[k].id,
                                             !.at = IF answer = "yes" THEN "delete" ELSE "ask"]
                      /\ gui' = IF answer = "yes" THEN gui ELSE "ask"
                      /\ UNCHANGED refused
    /\ UNCHANGED <<device, job, turns, attached, history, answer, queue, maps, aborted, done, library,
                   sent, pressed, events>>

\* The old object goes before the new file is looked at.
DeleteOld ==
    /\ Alive /\ work.at = "delete"
    /\ \/ /\ Succeeds /\ obj' = Deleted(work.id)
          /\ work' = [work EXCEPT !.at = "open", !.reset = TRUE]
       \/ Fails /\ work' = Idle /\ UNCHANGED obj
    /\ UNCHANGED <<top, window, model, queue, maps, aborted, done, library, past>>

OpenFile ==
    /\ Alive /\ work.at = "open"
    /\ \/ GoOn("announce") /\ UNCHANGED faults
       \/ faults < MaxFaults /\ faults' = faults + 1 /\ work' = Idle
    /\ UNCHANGED <<device, window, model, queue, maps, flags, library, past>>

\* SendObjectInfo.
Announce ==
    /\ Alive /\ work.at = "announce"
    /\ \/ /\ Succeeds
          /\ obj' = Created(dirs[Front(path)], Last(path), FALSE) /\ top' = top + 1
          /\ work' = [work EXCEPT !.at = "pause", !.id = top + 1]
       \/ Fails /\ work' = Idle /\ UNCHANGED device
    /\ UNCHANGED <<window, model, queue, maps, aborted, done, library, past>>

\* SendObject.  The device may refuse it if another request came in between.
BeginData == /\ Alive /\ work.at = "pause"
             /\ GoOn("data")
             /\ UNCHANGED <<device, window, model, queue, maps, flags, library, past, faults>>

Refuses == work.between /\ cancelled' = FALSE /\ UNCHANGED faults

SendData ==
    /\ Alive /\ work.at = "data" /\ work.cmd.op = "send"
    /\ \/ /\ Succeeds
          /\ sent' = Put(sent, path, work.id)
          /\ model' = RowAdded(dirs[Front(path)], work.id)
          /\ IF work.reset THEN GoOn("relist") ELSE work' = Idle
          /\ UNCHANGED obj
       \/ /\ Fails \/ Refuses
          /\ obj' \in {obj, Deleted(work.id)}  \* the device may keep what it has got
          /\ work' = Idle /\ UNCHANGED <<sent, model>>
    /\ UNCHANGED <<top, window, queue, maps, aborted, done, library, refused, pressed, events>>

Relist ==
    /\ Alive /\ work.at = "relist"
    /\ SetParent(model.parent)
    /\ work' = Idle
    /\ UNCHANGED <<device, window, queue, maps, aborted, done, library, past>>

\* createDirectory: looked up by name in the folder on show, whatever its parent.
LookUpFolder ==
    /\ Alive /\ work.at = "lookup"
    /\ \E bad \in 0 .. Len(model.rows) :
          LET k == Found(Last(path), bad)
          IN  /\ LookUp(Last(path), bad)
              /\ IF k = 0 THEN GoOn("make") /\ UNCHANGED dirs
                 ELSE work' = Idle /\ dirs' = Put(dirs, path, model.rows[k].id)
    /\ UNCHANGED <<device, window, queue, covers, albums, aborted, done, library, past>>

MakeFolder ==
    /\ Alive /\ work.at = "make"
    /\ \/ /\ Succeeds
          /\ obj' = Created(dirs[Front(path)], Last(path), TRUE) /\ top' = top + 1
          /\ dirs' = Put(dirs, path, top + 1)
          /\ model' = RowAdded(dirs[Front(path)], top + 1)
       \/ Fails /\ UNCHANGED <<device, maps, model>>
    /\ work' = Idle
    /\ UNCHANGED <<window, queue, covers, albums, aborted, done, library, past>>

\* importFile: artist and album are looked up or made, the folder is taken down as
\* that of the album, and a picture in the file becomes its cover; then the track,
\* unless the album has it.
Registered == IF Front(path) \in DOMAIN albums THEN albums ELSE Put(albums, Front(path), work.cmd.album)
Pictured == IF work.cmd.picture THEN Put(art, work.cmd.album, path) ELSE art

Prepare ==
    /\ Alive /\ work.at = "prepare"
    /\ \/ /\ Succeeds
          /\ albums' = Registered /\ art' = Pictured
          /\ IF path \in listed THEN work' = Idle /\ sent' = Put(sent, path, 0)
             ELSE GoOn("create") /\ UNCHANGED sent
       \/ /\ Fails /\ work' = Idle
          /\ albums' \in {albums, Registered} /\ UNCHANGED <<art, sent>>
    /\ UNCHANGED <<device, window, model, queue, dirs, covers, aborted, done, listed, refused, pressed,
                   events>>

CreateTrack ==
    /\ Alive /\ work.at = "create"
    /\ \/ Succeeds /\ GoOn("pause")
       \/ Fails /\ work' = Idle
    /\ UNCHANGED <<device, window, model, queue, maps, aborted, done, library, past>>

\* sendFile reports a failure and importFile does not look.
SendTrack ==
    /\ Alive /\ work.at = "data" /\ work.cmd.op = "import"
    /\ \/ Succeeds /\ sent' = Put(sent, path, 0)
       \/ (Fails \/ Refuses) /\ UNCHANGED sent
    /\ GoOn("add")
    /\ UNCHANGED <<device, window, model, queue, maps, aborted, done, library, refused, pressed, events>>

AddTrack ==
    /\ Alive /\ work.at = "add"
    /\ \/ Succeeds /\ listed' = listed \cup {path}
       \/ Fails /\ UNCHANGED listed
    /\ work' = Idle
    /\ UNCHANGED <<art, device, window, model, queue, maps, aborted, done, past>>

\* downloadFile: the content, then the time of the object.
Download ==
    /\ Alive /\ work.at = "get"
    /\ \/ Succeeds /\ GoOn("mtime")
       \/ Fails /\ work' = Idle
    /\ UNCHANGED <<device, window, model, queue, maps, aborted, done, library, past>>

SetTime ==
    /\ Alive /\ work.at = "mtime"
    /\ \/ Succeeds /\ sent' = Put(sent, path, 0)
       \/ "buggy" \in events /\ Fails /\ UNCHANGED sent
    /\ work' = Idle
    /\ UNCHANGED <<device, window, model, queue, maps, aborted, done, library, refused, pressed, events>>

\* GetObjectModificationTime: a device whose DateModified could once not be read, or
\* is no date, is asked for ObjectInfo instead, now and from then on.
TimeNotThere ==
    /\ Alive /\ work.at = "mtime" /\ "buggy" \notin events
    /\ Succeeds \/ Fails
    /\ events' = events \cup {"buggy"}
    /\ UNCHANGED <<device, window, model, worker, aborted, done, library, sent, refused, pressed>>

\* finish: back to the folder of the start.  A failure is only logged.
Finish ==
    /\ Alive /\ work.at = "finish"
    /\ SetParent(work.cmd.id)
    /\ GoOn("covers")
    /\ UNCHANGED <<device, window, queue, maps, aborted, done, library, past>>

\* QString::startsWith, of a file and a folder.
StartsWith(p, d) ==
    \/ IsPrefix(d, p)
    \/ Len(p) >= Len(d) /\ IsPrefix(Front(d), p) /\ <<Last(d), p[Len(d)]>> \in Longer

\* The first cover, in the order of the folders, whose path starts with that of the
\* album.
CoversFor(d) ==
    LET fit == {e \in DOMAIN covers : StartsWith(covers[e].path, d)}
    IN  CASE Front(d) \in fit -> {Front(d)}
          [] Front(d) \notin fit /\ d \in fit -> {d}
          [] OTHER -> fit

\* The loop over _albums; an abort ends it.
ChooseCover(d) ==
    /\ Alive /\ work.at = "covers" /\ ~aborted /\ d \in DOMAIN albums
    /\ albums' = Restrict(albums, DOMAIN albums \ {d})
    /\ \/ CoversFor(d) = {} /\ UNCHANGED work
       \/ \E e \in CoversFor(d) :
             work' = [work EXCEPT !.at = "cover",
                          !.cmd = [op |-> "finish", id |-> @.id, path |-> covers[e].path, album |-> albums[d]]]
    /\ UNCHANGED <<device, window, model, queue, dirs, covers, flags, library, past, faults>>

\* A failure to read the file or to send it is only logged.
SetCover ==
    /\ Alive /\ work.at = "cover"
    /\ \/ Succeeds /\ art' = Put(art, work.cmd.album, path)
       \/ Fails /\ UNCHANGED art
    /\ GoOn("covers")
    /\ UNCHANGED <<device, window, model, queue, maps, aborted, done, listed, past>>

FinishEnds == Alive /\ work.at = "covers" /\ (aborted \/ albums = <<>>)
FinishStays == UNCHANGED <<device, window, queue, model, cancelled, library, past, faults>>

\* Mutant: the queue stays aborted.
FinishedAborted == /\ FinishEnds /\ FinishStays /\ UNCHANGED aborted
                   /\ dirs' = <<>> /\ covers' = <<>> /\ albums' = <<>> /\ done' = TRUE /\ work' = Idle

\* Mutant: the dialog is not told.
FinishedSilent == /\ FinishEnds /\ FinishStays /\ UNCHANGED done
                  /\ dirs' = <<>> /\ covers' = <<>> /\ albums' = <<>> /\ aborted' = FALSE /\ work' = Idle

\* Ready for the next job.
Finished ==
    /\ FinishEnds /\ FinishStays
    /\ dirs' = <<>> /\ covers' = <<>> /\ albums' = <<>>
    /\ aborted' = FALSE /\ done' = TRUE
    /\ work' = Idle

Worker == \/ TakeCommand \/ EnterFolder \/ FindFile \/ DeleteOld \/ OpenFile \/ Announce \/ BeginData
          \/ SendData \/ Relist \/ LookUpFolder \/ MakeFolder \/ Prepare \/ CreateTrack \/ SendTrack
          \/ AddTrack \/ Download \/ TimeNotThere \/ SetTime
          \/ Finish \/ SetCover \/ Finished \/ \E d \in DOMAIN albums : ChooseCover(d)

Replies == DialogCloses \/ NextSelected \/ \E yes, forAll \in BOOLEAN : Answer(yes, forAll)

\* A dialog waits for its signal.
Rest == /\ \/ gui \in {"stuck", "crashed"} \/ (gui = "idle" /\ turns = MaxTurns)
           \/ gui = "dialog" /\ ~done /\ work = Idle /\ queue = <<>>
        /\ UNCHANGED vars

Next == \/ Worker \/ Replies
        \/ \E k \in DOMAIN model.rows : Enter(k) \/ DeleteSelected(k) \/ Repaint(k)
        \/ \E name \in Names : \/ CreateFolder(name)
                               \/ \E k \in DOMAIN model.rows : RenameSelected(k, name)
        \/ Back
        \/ \E js \in Jobs : \/ StartUpload(js) \/ StartAlbum(js)
                            \/ StartImport(js) \/ StartDownload(js)
        \/ AbortPressed
        \/ Rest

Spec == Init /\ [][Next]_vars /\ WF_vars(Worker) /\ WF_vars(Replies)
-----------------------------------------------------------------------------
(* Properties *)

\* What goes for a new file is in the folder the new file is for, and has its
\* name, although the rows it is found in are a cache that two threads fill.
ReplacedInPlace ==
    work.at \in {"ask", "delete"} /\ work.id \in DOMAIN obj =>
        obj[work.id].name = Last(path) /\ obj[work.id].parent = dirs[Front(path)]

\* Every folder of an upload has its name, and one that the upload made is in the
\* folder it was made for, although createDirectory looks for it in the folder on
\* show.  There it may find an older one of that name, or one the same upload made for
\* another path: of "A" and "A/A", or of "A/B" and "A/C/B", the content ends up in
\* one folder, but that folder is where one of the paths says.
FoldersInPlace ==
    \A d \in DOMAIN dirs :
        (Len(d) > 0 /\ Front(d) \in DOMAIN dirs /\ dirs[d] \in DOMAIN obj) =>
            /\ obj[dirs[d]].name = Last(d)
            /\ dirs[d] > job.base =>
                  \E e \in DOMAIN dirs :
                      /\ Len(e) > 0 /\ Front(e) \in DOMAIN dirs
                      /\ dirs[e] = dirs[d] /\ obj[dirs[d]].parent = dirs[Front(e)]

\* No folder has the name of a file that is sent: the names of objects do not say
\* what they are, and whoever looks for one takes what he finds.
DirNames(w) == {w[i].name : i \in {k \in DOMAIN w : w[k].dir}}
NewNames == {Last(c.path) : c \in {d \in JobCmds : d.op = "mkdir"}} \cup
            {j.name : j \in {i \in JobItems : i.kind = "album"}} \cup Names
FolderNames == NewNames \cup UNION {DirNames(w) : w \in Worlds}
FileNames == {Cover} \cup {Last(c.path) : c \in {d \in JobCmds : d.op = "send"}}
KindsApart == FolderNames \cap FileNames = {}

\* No folder gets two files of one name, as long as nothing fails or is aborted and
\* the user renames none.
FilesUnique ==
    \A i, j \in DOMAIN obj :
        (i # j /\ obj[i].parent = obj[j].parent /\ obj[i].name = obj[j].name) =>
            obj[i].dir \/ obj[j].dir \/ faults > 0 \/ {"abort", "rename"} \cap events # {}

\* What is to be imported, by what the files are and not what they are taken for.
Imported(kind) == {c \in Range(job.cmds) : c.op = "import" /\ c.file.is = kind}
Tracks == {c \in Imported("music") : c.tagged /\ c.file.mime # "audio/mp4"}
Images == Imported("image")

\* The folders an upload gets at: that of the first file, and those made in it and below.
Base == Front(job.cmds[1].path)
MadeFolders == {c.path : c \in {d \in Range(job.cmds) : d.op = "mkdir"}}
Folders ==
    {Base} \cup {d \in MadeFolders : /\ IsPrefix(Base, d)
                                    /\ \A n \in Len(Base) + 1 .. Len(d) : SubSeq(d, 1, n) \in MadeFolders}

\* A job that nobody aborted and in which nothing failed has sent every file:
\* an abort never reaches into the next job.  Left out are the files the user
\* refused to overwrite, files that were selected elsewhere than the first, with
\* all that is in a folder selected there, music without tags or that libmagic takes
\* for a video (audio/mp4), and tracks the device refused because the view on the
\* model spoke to it in between; these are entered into their album all the same.
NothingForgotten ==
    (done /\ ~pressed /\ faults = 0) =>
        \A c \in {d \in Range(job.cmds) : d.op \in {"send", "get"}} \cup Tracks :
            \/ c.path \in DOMAIN sent \cup refused
            \/ c.op = "send" /\ Front(c.path) \notin Folders
            \/ c.op = "import" /\ attached /\ c.path \in listed

\* The cover of an imported album is the best image in its folder, whatever picture
\* its tracks bring along.  Left out are albums in several folders, folders of
\* several albums, and an image beside the folder whose name begins as that of the
\* folder does: finish in commandqueue.cpp compares strings, and folder "M" without
\* images takes those of "MM" too.
CoversRight ==
    (done /\ ~pressed /\ faults = 0) =>
        \A c \in Tracks :
            LET folder == Front(c.path)
                own == {i \in Images : Front(i.path) = folder}
                alone == /\ \A t \in Tracks : t.album = c.album <=> Front(t.path) = folder
                         /\ \A i \in Images : Front(i.path) = Front(folder) => ~StartsWith(i.path, folder)
            IN  own # {} /\ alone =>
                    /\ c.album \in DOMAIN art
                    /\ \E i \in own : /\ art[c.album] = i.path
                                      /\ \A other \in own : GetCoverScore(other.file.words) <= GetCoverScore(i.file.words)

\* upload in fileuploader.cpp lists a folder before what is in it.
ListedInOrder ==
    \A j \in JobItems : \A k, l \in DOMAIN j.cmds :
        (/\ j.cmds[l].op = "mkdir" /\ Front(j.cmds[k].path) = j.cmds[l].path
         /\ j.cmds[l].path # Front(j.cmds[1].path)) => l < k

\* A file to import is what its content says it is or, where libmagic does not know
\* that, its name.
Says(file, types, extensions) ==
    /\ file.ext # "m3u"
    /\ file.mime \in types \/ (ByMime(file.mime) = Undefined /\ file.ext \in extensions)
MusicTypes == {"audio/mpeg", "audio/x-ms-wma", "audio/ogg", "audio/x-flac", "audio/x-m4a", "audio/audio/x-wav"}
ImageTypes == {"image/jpeg", "image/gif", "image/x-ms-bmp", "image/png"}
FilesToldApart ==
    \A c \in {d \in JobCmds : d.op = "import"} :
        /\ c.file.is = "music" <=> Says(c.file, MusicTypes \cup {"audio/mp4"},
                                        {"mp3", "wma", "ogg", "flac", "aac", "wav", "m4a"})
        /\ c.file.is = "image" <=> Says(c.file, ImageTypes, {"jpeg", "jpg", "gif", "bmp", "png"})

\* A job that runs to its end has done all it was for.
JobsComplete == NothingForgotten /\ CoversRight

\* In an upload no other request comes between SendObjectInfo and SendObject.
Uninterrupted == (work.at = "data" /\ work.cmd.op = "send") => ~work.between

\* The folder on show is the one the history names, whatever was done in between,
\* unless music was imported, which leaves the root folder on show.
LocationKept == (gui = "idle" /\ model.parent # Shown) => "import" \in events /\ model.parent = Root

\* Every job ends, and the window is back or begins the next one, unless the
\* application crashes.
JobEnds == (gui = "dialog") ~> (gui \in {"idle", "next", "crashed"})

\* Whatever a job makes or deletes, it does so in the folder the path says, once, and
\* leaves the folder on show as it was (mtpobjectsmodel.cpp, commandqueue.cpp).
FilesInPlace == TypeOK /\ ReplacedInPlace /\ FoldersInPlace /\ FilesUnique /\ LocationKept
=============================================================================
