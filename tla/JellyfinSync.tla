----------------------------- MODULE JellyfinSync -----------------------------
(***************************************************************************)
(* tools/jellyfin-sync: runs that select tracks on a Jellyfin server, stage *)
(* them as files, hand the files to aft-mtp-cli in batches, remember what  *)
(* is on which device in a state file, and rebuild the device's playlists  *)
(* from the object ids remembered (sync.py, device.py, state.py).          *)
(*                                                                         *)
(* The devices behave as ZuneStore says (ZuneCli shows that aft-mtp-cli    *)
(* makes them do so): one visible change per command.  A process may die   *)
(* before or after the change, a run may be interrupted at any point, the  *)
(* state file may be lost, and different devices may be plugged in.        *)
(***************************************************************************)
EXTENDS Naturals, Sequences, FiniteSets

CONSTANTS
    Tracks, Order,    \* Jellyfin ids, and the order collect() meets them in
    Playlists,        \* Jellyfin playlists that are selected
    Member,           \* Member[p]: the tracks of playlist p
    Others,           \* tracks selected by favourites, artists or albums
    Paths,            \* the files tracks are staged as
    Scenes,           \* what may be the case: how the tracks are named, the --limit of
                      \* the runs, whether they may be forced, whether the user deletes
    Key,              \* Key[t]: the tags prepare() writes
    RawKey,           \* RawKey[t]: the tags the downloaded file came with
    Mentions,         \* Mentions[p]: paths whose output line contains p's name
    ErrorLike,        \* paths whose output line reads like an error
    Hanging,          \* paths whose import never comes back
    Devices, ObjectIds, FreshIds(_), NoId, Absent,
    BatchSize,        \* device.batch_size
    SwapMidRun,       \* may devices be exchanged while a run is going on?
    MaxFaults         \* bound: failures, interruptions and losses altogether

Keys == {Key[t] : t \in Tracks} \cup {RawKey[t] : t \in Tracks}
MaybeId == ObjectIds \cup {NoId}
None == "none"

ASSUME OrderAssumption ==
    /\ Order \in Seq(Tracks) /\ {Order[n] : n \in 1 .. Len(Order)} = Tracks
    /\ \A m, n \in 1 .. Len(Order) : Order[m] = Order[n] => m = n
ASSUME SelectionAssumption == Member \in [Playlists -> SUBSET Tracks] /\ Others \subseteq Tracks
ASSUME OutputAssumption ==
    /\ Mentions \in [Paths -> SUBSET Paths] /\ \A p \in Paths : p \in Mentions[p]
    /\ ErrorLike \subseteq Paths /\ Hanging \subseteq Paths
ASSUME IdAssumption ==
    /\ NoId \notin ObjectIds /\ Absent \notin ObjectIds /\ NoId # Absent
    /\ \A S \in SUBSET ObjectIds : FreshIds(S) \subseteq ObjectIds \ S
ASSUME DeviceAssumption == None \notin Devices \cup Playlists
ASSUME BoundAssumption == BatchSize \in Nat \ {0} /\ MaxFaults \in Nat

ASSUME SceneAssumption ==
    Scenes \subseteq [path: [Tracks -> Paths], limit: Nat, forced: BOOLEAN, deletes: BOOLEAN]

VARIABLES
    scene,     \* what is the case
    plugged,   \* the device aft-mtp-cli finds
    shown,     \* shown[d]: the tracks device d shows, see ZuneStore
    playlist,  \* playlist[d]: the playlists of device d
    deleted,   \* history: what the user deleted on each device
    disk,      \* disk[d][t]: the state file; Absent, NoId or an object id
    phase,     \* where the run is, "off" between runs
    mem,       \* State.devices in memory
    dev,       \* State._device, the serial the run has read
    sel,       \* what collect() found: tracks, and by playlist
    todo,      \* tracks still to be prepared, by their position in Order
    prepared,  \* tracks prepared, in order
    staged,    \* staged[p]: whose audio and which tags the file holds
    paths,     \* paths of the batches not begun yet
    batch,     \* paths of the batch being imported
    queue,     \* paths left to the running process
    lines,     \* import lines the process has printed
    oids,      \* Zune.object_ids
    done,      \* paths uploaded or skipped
    lists,     \* playlists still to be rebuilt, the current one included
    current,   \* the playlist being rebuilt
    adds,      \* tracks whose ids are left to add to it, by their position in Order
    faults     \* faults that have happened

\* The file a track is staged as.
Path == scene.path

\* The device that is plugged in, for the operators of the store.
Device == INSTANCE ZuneStore
            WITH library <- shown[plugged], playlist <- playlist[plugged], misread <- {}

deviceVars == <<scene, plugged, shown, playlist, deleted>>
importVars == <<paths, batch, queue, lines, oids, done>>
vars == <<scene, plugged, shown, playlist, deleted, disk, phase, mem, dev, sel, todo, prepared, staged,
          paths, batch, queue, lines, oids, done, lists, current, adds, faults>>

NoSel == [tracks |-> {}, lists |-> [p \in Playlists |-> {}]]
NoneRecorded == [d \in Devices |-> [t \in Tracks |-> Absent]]
NoFile == [track |-> Absent, key |-> Absent]
Min2(a, b) == IF a < b THEN a ELSE b

\* Lists in the order of collect() are sets of positions in Order, their head is
\* the least; First(S, k) is the list's slice [:k].
Positions == 1 .. Len(Order)
IsHead(n, S) == n \in S /\ \A m \in S : n <= m
First(S, k) == {n \in S : Cardinality({m \in S : m < n}) < k}

Fault == faults < MaxFaults /\ faults' = faults + 1

-----------------------------------------------------------------------------
(* A run: Syncer.run and its early returns                                 *)

\* The player the run works with, and the records kept under its serial.
Serial == plugged

Begin ==
    /\ phase = "off"
    /\ phase' = "collect"
    /\ mem' = disk
    /\ dev' = Serial
    /\ UNCHANGED <<deviceVars, disk, sel, todo, prepared, staged, importVars, lists,
                   current, adds, faults>>

ClearLocals ==
    /\ dev' = None /\ sel' = NoSel /\ todo' = {} /\ prepared' = <<>>
    /\ staged' = [p \in Paths |-> NoFile]
    /\ paths' = <<>> /\ batch' = <<>> /\ queue' = <<>> /\ lines' = <<>>
    /\ oids' = [p \in Paths |-> NoId] /\ done' = {} /\ lists' = {} /\ current' = None /\ adds' = {}
    /\ mem' = NoneRecorded

End ==
    /\ phase' = "off"
    /\ ClearLocals

\* collect: a playlist Jellyfin cannot serve is left out of this run.
Selection(available) ==
    [tracks |-> Others \cup UNION {Member[p] : p \in available},
     lists |-> [p \in Playlists |-> IF p \in available THEN Member[p] ELSE {}]]

\* Mutant: tracks the device has are not passed over.
PendingAll(s, force) == {n \in Positions : Order[n] \in s.tracks}

Pending(s, force) ==
    {n \in Positions : Order[n] \in s.tracks /\ (force \/ mem[dev][Order[n]] = Absent)}

\* The playlists sync_playlists rebuilds: those with a track whose id is known.
IdKnown(t) == mem[dev][t] \notin {Absent, NoId}
\* Mutant: only the playlists of tracks uploaded in this run are rebuilt.
RebuildableIfNew(s) == {p \in Playlists : \E t \in s.lists[p] : Path[t] \in done}

Rebuildable(s) == {p \in Playlists : \E t \in s.lists[p] : IdKnown(t)}

Collect ==
    /\ phase = "collect"
    /\ \E available \in SUBSET Playlists, force \in BOOLEAN :
        LET s == Selection(available)
            taken == First(Pending(s, force), scene.limit)
        IN  /\ force => scene.forced
            /\ available # Playlists => faults < MaxFaults
            /\ faults' = IF available = Playlists THEN faults ELSE faults + 1
            /\ sel' = s
            /\ todo' = taken
            /\ \/ s.tracks # {} /\ taken # {} /\ phase' = "prepare" /\ UNCHANGED lists
               \/ s.tracks # {} /\ taken = {} /\ phase' = "lists" /\ lists' = Rebuildable(s)
               \/ s.tracks = {} /\ phase' = "lists" /\ lists' = {}
    /\ UNCHANGED <<deviceVars, disk, mem, dev, prepared, staged, importVars, current, adds>>

\* prepare: the download is staged, then tagged.  An exception skips the track;
\* it may come before the staged file is overwritten, or after.
Prepare ==
    /\ phase = "prepare"
    /\ \E n \in Positions :
        LET t == Order[n]
            p == Path[t]
        IN  /\ IsHead(n, todo)
            /\ todo' = todo \ {n}
            /\ \/ /\ prepared' = Append(prepared, t)
                  /\ staged' = [staged EXCEPT ![p] = [track |-> t, key |-> Key[t]]]
                  /\ UNCHANGED faults
               \/ /\ Fault
                  /\ UNCHANGED prepared
                  /\ \/ UNCHANGED staged
                     \/ staged' = [staged EXCEPT ![p] = [track |-> t, key |-> RawKey[t]]]
    /\ UNCHANGED <<deviceVars, disk, phase, mem, dev, sel, importVars, lists, current, adds>>

NothingPrepared ==
    /\ phase = "prepare" /\ todo = {} /\ prepared = <<>>
    /\ End
    /\ UNCHANGED <<deviceVars, disk, faults>>

\* The values of by_path: of the tracks staged as one file, the last.
ByPath ==
    {t \in Tracks : \E n \in 1 .. Len(prepared) :
        /\ prepared[n] = t
        /\ \A m \in n + 1 .. Len(prepared) : Path[prepared[m]] # Path[t]}

Upload ==
    /\ phase = "prepare" /\ todo = {} /\ prepared # <<>>
    /\ phase' = "batches"
    /\ paths' = [n \in 1 .. Len(prepared) |-> Path[prepared[n]]]
    /\ oids' = [p \in Paths |-> NoId]
    /\ UNCHANGED <<deviceVars, disk, mem, dev, sel, todo, prepared, staged, batch, queue,
                   lines, done, lists, current, adds, faults>>

-----------------------------------------------------------------------------
(* Zune.import_tracks                                                      *)

\* The device shows the file, or turns out to have it: Session::ZuneImport.
Imports(p, id) ==
    LET k == staged[p].key
        entry == [key |-> k, id |-> id]
    IN  \/ /\ entry \in shown[plugged]
           /\ UNCHANGED shown
        \/ /\ \A e \in shown[plugged] : e.key # k
           /\ id \in FreshIds({e.id : e \in shown[plugged]})
           /\ shown' = [shown EXCEPT ![plugged] = @ \cup {entry}]

BeginBatch ==
    LET n == Min2(BatchSize, Len(paths)) IN
    /\ phase = "batches" /\ paths # <<>>
    /\ phase' = "import"
    /\ batch' = SubSeq(paths, 1, n) /\ queue' = batch'
    /\ paths' = SubSeq(paths, n + 1, Len(paths))
    /\ lines' = <<>>
    /\ UNCHANGED <<deviceVars, disk, mem, dev, sel, todo, prepared, staged, oids, done,
                   lists, current, adds, faults>>

ImportNext ==
    /\ phase = "import" /\ queue # <<>> /\ Head(queue) \notin Hanging
    /\ \E id \in ObjectIds :
        /\ Imports(Head(queue), id)
        /\ lines' = Append(lines, [path |-> Head(queue), id |-> id])
    /\ queue' = Tail(queue)
    /\ UNCHANGED <<scene, plugged, playlist, deleted, disk, phase, mem, dev, sel, todo, prepared, staged,
                   paths, batch, oids, done, lists, current, adds, faults>>

\* What the process had begun when it died may have reached the device.
Reached ==
    \/ UNCHANGED shown
    \/ \E id \in ObjectIds : Imports(Head(queue), id)

\* A non-zero exit code: the batch is retried file by file.
BatchFails ==
    /\ phase = "import" /\ queue # <<>>
    /\ Fault /\ Reached
    /\ phase' = "retry" /\ queue' = batch /\ lines' = <<>>
    /\ UNCHANGED <<scene, plugged, playlist, deleted, disk, mem, dev, sel, todo, prepared, staged, paths,
                   batch, oids, done, lists, current, adds>>

\* TimeoutExpired: the whole batch counts as failed.
BatchTimesOut ==
    /\ phase = "import" /\ queue # <<>>
    /\ \/ Fault
       \/ Head(queue) \in Hanging /\ UNCHANGED faults
    /\ Reached
    /\ phase' = "batches" /\ queue' = <<>> /\ lines' = <<>> /\ batch' = <<>>
    /\ UNCHANGED <<scene, plugged, playlist, deleted, disk, mem, dev, sel, todo, prepared, staged, paths,
                   oids, done, lists, current, adds>>

\* _object_id: the first line that contains the name of the file.
IdIn(ls, p) ==
    LET about == {n \in 1 .. Len(ls) : ls[n].path \in Mentions[p]}
    IN  IF about = {} THEN NoId
        ELSE ls[CHOOSE n \in about : \A m \in about : n <= m].id

\* _reports_error: a line that contains the name and reads like an error.
ReportsError(ls, p) ==
    \E n \in 1 .. Len(ls) : ls[n].path \in Mentions[p] /\ ls[n].path \in ErrorLike

BatchEnds ==
    LET inBatch == {batch[n] : n \in 1 .. Len(batch)} IN
    /\ phase = "import" /\ queue = <<>>
    /\ oids' = [p \in Paths |-> IF p \in inBatch /\ IdIn(lines, p) # NoId
                                THEN IdIn(lines, p) ELSE oids[p]]
    /\ done' = done \cup {p \in inBatch : ~ReportsError(lines, p)}
    /\ phase' = "batches" /\ lines' = <<>> /\ batch' = <<>>
    /\ UNCHANGED <<deviceVars, disk, mem, dev, sel, todo, prepared, staged, paths, queue,
                   lists, current, adds, faults>>

\* _import_one, for each file of the failed batch.
RetryNext ==
    /\ phase = "retry" /\ queue # <<>>
    /\ \/ /\ Head(queue) \notin Hanging
          /\ \E id \in ObjectIds :
                /\ Imports(Head(queue), id)
                /\ oids' = [oids EXCEPT ![Head(queue)] = id]
          /\ done' = done \cup {Head(queue)}
          /\ UNCHANGED faults
       \/ /\ Fault \/ (Head(queue) \in Hanging /\ UNCHANGED faults)
          /\ Reached
          /\ UNCHANGED <<oids, done>>
    /\ queue' = Tail(queue)
    /\ UNCHANGED <<scene, plugged, playlist, deleted, disk, phase, mem, dev, sel, todo, prepared, staged,
                   paths, batch, lines, lists, current, adds>>

RetryEnds ==
    /\ phase = "retry" /\ queue = <<>>
    /\ phase' = "batches" /\ batch' = <<>>
    /\ UNCHANGED <<deviceVars, disk, mem, dev, sel, todo, prepared, staged, paths, queue,
                   lines, oids, done, lists, current, adds, faults>>

-----------------------------------------------------------------------------
(* Recording the result                                                    *)

\* State.record: an id that is not known now is kept from before.
Recorded(t) ==
    IF oids[Path[t]] # NoId THEN oids[Path[t]]
    ELSE IF mem[dev][t] # Absent THEN mem[dev][t] ELSE NoId

\* Mutant: whatever was prepared counts as uploaded.
RecordPrepared ==
    LET ts == {prepared[n] : n \in 1 .. Len(prepared)} IN
    /\ phase = "batches" /\ paths = <<>>
    /\ mem' = [mem EXCEPT ![dev] =
                    [t \in Tracks |-> IF t \in ts THEN Recorded(t) ELSE @[t]]]
    /\ phase' = "save"
    /\ UNCHANGED <<deviceVars, disk, dev, sel, todo, prepared, staged, importVars, lists,
                   current, adds, faults>>

\* Mutant: the device's record starts afresh with each run.
RecordAfresh ==
    LET ts == {t \in ByPath : Path[t] \in done} IN
    /\ phase = "batches" /\ paths = <<>>
    /\ mem' = [mem EXCEPT ![dev] =
                    [t \in Tracks |-> IF t \in ts THEN Recorded(t) ELSE Absent]]
    /\ phase' = "save"
    /\ UNCHANGED <<deviceVars, disk, dev, sel, todo, prepared, staged, importVars, lists,
                   current, adds, faults>>

Record ==
    LET ts == {t \in ByPath : Path[t] \in done} IN
    /\ phase = "batches" /\ paths = <<>>
    /\ mem' = [mem EXCEPT ![dev] =
                    [t \in Tracks |-> IF t \in ts THEN Recorded(t) ELSE @[t]]]
    /\ phase' = "save"
    /\ UNCHANGED <<deviceVars, disk, dev, sel, todo, prepared, staged, importVars, lists,
                   current, adds, faults>>

\* State.save writes a temporary file and renames it: all or nothing.
Save ==
    /\ phase = "save"
    /\ disk' = mem
    /\ lists' = Rebuildable(sel)
    /\ phase' = "lists"
    /\ UNCHANGED <<deviceVars, mem, dev, sel, todo, prepared, staged, importVars, current,
                   adds, faults>>

-----------------------------------------------------------------------------
(* sync_playlists and Zune.build_playlists                                 *)

IdsOf(p) == {n \in Positions : Order[n] \in sel.lists[p] /\ IdKnown(Order[n])}

\* The first command empties the playlist.
ClearPlaylist(p) ==
    /\ phase = "lists" /\ current = None /\ p \in lists
    /\ current' = p /\ adds' = IdsOf(p)
    /\ playlist' = [playlist EXCEPT ![plugged][p] = <<>>]
    /\ UNCHANGED <<scene, plugged, shown, deleted, disk, phase, mem, dev, sel, todo, prepared, staged, paths,
                   batch, queue, lines, oids, done, lists, faults>>

\* The process dies before that.
PlaylistUntouched(p) ==
    /\ phase = "lists" /\ current = None /\ p \in lists
    /\ Fault
    /\ lists' = lists \ {p}
    /\ UNCHANGED <<deviceVars, disk, phase, mem, dev, sel, todo, prepared, staged,
                   importVars, current, adds>>

Contains(seq, x) == \E n \in 1 .. Len(seq) : seq[n] = x

AddNext ==
    /\ phase = "lists" /\ current # None
    /\ \E n \in Positions :
        LET id == mem[dev][Order[n]]
        IN  /\ IsHead(n, adds)
            /\ playlist' = IF Contains(playlist[plugged][current], id) THEN playlist
                            ELSE [playlist EXCEPT ![plugged][current] = Append(@, id)]
            /\ adds' = adds \ {n}
    /\ UNCHANGED <<scene, plugged, shown, deleted, disk, phase, mem, dev, sel, todo, prepared, staged, paths,
                   batch, queue, lines, oids, done, lists, current, faults>>

\* The device may refuse the id of an object it does not have.
Refused == \E n \in Positions :
    IsHead(n, adds) /\ \A e \in shown[plugged] : e.id # mem[dev][Order[n]]

\* The process ends, or dies with the playlist half built.
PlaylistEnds ==
    /\ phase = "lists" /\ current # None
    /\ \/ (adds = {} \/ Refused) /\ UNCHANGED faults
       \/ adds # {} /\ Fault
    /\ current' = None /\ lists' = lists \ {current} /\ adds' = {}
    /\ UNCHANGED <<deviceVars, disk, phase, mem, dev, sel, todo, prepared, staged, paths,
                   batch, queue, lines, oids, done>>

\* Staged files are removed and the run is over.
Finish ==
    /\ phase = "lists" /\ lists = {}
    /\ End
    /\ UNCHANGED <<deviceVars, disk, faults>>

-----------------------------------------------------------------------------
(* Interruptions and the world outside                                     *)

\* Ctrl-C, a crash, or an error no handler expects; a process that was running
\* dies too, and what it had begun may have reached the device.
Interrupt ==
    /\ phase # "off"
    /\ Fault
    /\ \/ phase \in {"import", "retry"} /\ queue # <<>> /\ Reached
       \/ UNCHANGED shown
    /\ End
    /\ UNCHANGED <<scene, plugged, playlist, deleted, disk>>

\* The state file is deleted, unreadable or of the older version.
LoseState ==
    /\ phase = "off" /\ Fault
    /\ disk' = NoneRecorded
    /\ UNCHANGED <<deviceVars, phase, mem, dev, sel, todo, prepared, staged, importVars,
                   lists, current, adds>>

Plug(d) ==
    /\ d # plugged
    /\ phase = "off" \/ SwapMidRun
    /\ Fault
    /\ plugged' = d
    /\ UNCHANGED <<scene, shown, playlist, deleted, disk, phase, mem, dev, sel, todo, prepared, staged,
                   importVars, lists, current, adds>>

UserDeletes(e) ==
    /\ scene.deletes /\ phase = "off" /\ e \in shown[plugged]
    /\ Fault
    /\ shown' = [shown EXCEPT ![plugged] = @ \ {e}]
    /\ playlist' = [playlist EXCEPT ![plugged] =
                        [p \in Playlists |-> Device!Without(@[p], e.id)]]
    /\ deleted' = [deleted EXCEPT ![plugged] = @ \cup {e}]
    /\ UNCHANGED <<scene, plugged, disk, phase, mem, dev, sel, todo, prepared, staged, importVars,
                   lists, current, adds>>

-----------------------------------------------------------------------------
Init ==
    /\ scene \in Scenes
    /\ plugged \in Devices
    /\ shown = [d \in Devices |-> {}]
    /\ playlist = [d \in Devices |-> [p \in Playlists |-> <<>>]]
    /\ deleted = [d \in Devices |-> {}]
    /\ disk = NoneRecorded
    /\ phase = "off" /\ mem = NoneRecorded /\ dev = None /\ sel = NoSel
    /\ todo = {} /\ prepared = <<>> /\ staged = [p \in Paths |-> NoFile]
    /\ paths = <<>> /\ batch = <<>> /\ queue = <<>> /\ lines = <<>>
    /\ oids = [p \in Paths |-> NoId] /\ done = {} /\ lists = {} /\ current = None /\ adds = {}
    /\ faults = 0

RunStep ==
    \/ Begin \/ Collect \/ Prepare \/ NothingPrepared \/ Upload
    \/ BeginBatch \/ ImportNext \/ BatchFails \/ BatchTimesOut \/ BatchEnds
    \/ RetryNext \/ RetryEnds \/ Record \/ Save
    \/ (\E p \in Playlists : ClearPlaylist(p) \/ PlaylistUntouched(p)) \/ AddNext \/ PlaylistEnds \/ Finish

Outside ==
    \/ Interrupt \/ LoseState
    \/ \E d \in Devices : Plug(d)
    \/ \E e \in [key: Keys, id: ObjectIds] : UserDeletes(e)

Next == RunStep \/ Outside

Spec == Init /\ [][Next]_vars

\* The user keeps running the tool, and a run keeps going: everything it waits
\* for answers or times out.  Nothing is assumed of the faults but their bound.
FairSpec == Spec /\ WF_vars(RunStep)

-----------------------------------------------------------------------------
(* Correctness                                                             *)

Entries == [key: Keys, id: ObjectIds]
Files == [track: Tracks \cup {Absent}, key: Keys \cup {Absent}]
States == [Devices -> [Tracks -> MaybeId \cup {Absent}]]

\* Every variable has the type its declaration comment gives it.
TypeOK ==
    /\ scene \in Scenes
    /\ plugged \in Devices
    /\ shown \in [Devices -> SUBSET Entries]
    /\ playlist \in [Devices -> [Playlists -> Seq(ObjectIds)]]
    /\ deleted \in [Devices -> SUBSET Entries]
    /\ disk \in States /\ mem \in States
    /\ phase \in {"off", "collect", "prepare", "batches", "import", "retry", "save", "lists"}
    /\ dev \in Devices \cup {None}
    /\ sel \in [tracks: SUBSET Tracks, lists: [Playlists -> SUBSET Tracks]]
    /\ todo \subseteq Positions /\ prepared \in Seq(Tracks)
    /\ staged \in [Paths -> Files]
    /\ paths \in Seq(Paths) /\ batch \in Seq(Paths)
    /\ queue \in Seq(Paths)
    /\ lines \in Seq([path: Paths, id: ObjectIds])
    /\ oids \in [Paths -> MaybeId] /\ done \subseteq Paths
    /\ lists \subseteq Playlists /\ current \in Playlists \cup {None}
    /\ adds \subseteq Positions
    /\ faults \in 0 .. MaxFaults

\* The tags a file handed to the device can have: those of its track, and what a later
\* track of the same file name made of it, finished or not.
StagedKeys(p) ==
    LET here == {t \in Tracks : Path[t] = p}
    IN  {Key[t] : t \in here} \cup {RawKey[t] : t \in {u \in here : here # {u}}}

\* Device d was given file p as object id, and has it yet unless the user deleted it.
Has(d, p, id) ==
    \E k \in StagedKeys(p) : [key |-> k, id |-> id] \in shown[d] \cup deleted[d]

\* What the output line of another file can make of the id read for p.
Given(d, p) == {id \in ObjectIds : \E q \in Mentions[p] : Has(d, q, id)}

\* The state file tells the truth about each device: a track recorded for it was put
\* there, and is there unless the user deleted it; the id recorded, if any, is that of
\* its file, or of one whose output line contains the name of its file.
StateTruthful ==
    \A d \in Devices, t \in Tracks :
        disk[d][t] # Absent =>
            /\ \E id \in ObjectIds : Has(d, Path[t], id)
            /\ disk[d][t] \in {NoId} \cup Given(d, Path[t])

\* A playlist the tool built holds the files of its members and nothing else, although
\* it is built from ids remembered by earlier runs: with the exceptions above, and those
\* ids that a device gave again after the user deleted what had them.
PlaylistsOwn ==
    \A d \in Devices, p \in Playlists : \A n \in 1 .. Len(playlist[d][p]) :
        \E t \in Member[p] : playlist[d][p][n] \in Given(d, Path[t])

\* The state file only forgets by being lost, and never trades a known object
\* id for none, whatever is re-synced or fails.
IdsKept ==
    [][disk' # NoneRecorded =>
        \A d \in Devices, t \in Tracks :
            /\ disk[d][t] # Absent => disk'[d][t] # Absent
            /\ disk[d][t] \in ObjectIds => disk'[d][t] \in ObjectIds]_vars

Selected == Others \cup UNION {Member[p] : p \in Playlists}

\* What a run that collects everything takes, and how it divides it into batches.
Taken ==
    First({n \in Positions : Order[n] \in Selected /\ disk[plugged][Order[n]] = Absent},
          scene.limit)
BatchNumber(n) == Cardinality({m \in Taken : m < n}) \div BatchSize
BatchOf(n) == {Path[Order[m]] : m \in {i \in Taken : BatchNumber(i) = BatchNumber(n)}}

\* A batch with a file that hangs times out and is not retried (device.py:125-127); and a
\* title can make a success read like a failure, its own or another's (device.py:224-229).
Stuck(n) == BatchOf(n) \cap (Hanging \cup (ErrorLike \cap Mentions[Path[Order[n]]])) # {}

\* Once faults stop, runs that are not forced, interrupted or failed before or not, bring
\* everything they take onto the device and on record, and so the next, up to --limit, until
\* all they still take is in a batch with a file that hangs, or reads like a failure.
Converges == <>[](scene.forced \/ \A n \in Taken : Stuck(n))

\* And again and again each playlist whose members are on record, and whose ids the device
\* still has, is complete on the device.
PlaylistsRebuilt ==
    []<>(scene.forced \/ \A p \in Playlists :
            LET ids == {disk[plugged][t] : t \in Member[p]}
            IN  ids \subseteq {e.id : e \in shown[plugged]} =>
                    {playlist[plugged][p][n] : n \in 1 .. Len(playlist[plugged][p])} = ids)

\* What the tool keeps on record is true of the devices, and so are the playlists
\* it made of its records (sync.py, state.py).
RecordsTrue == TypeOK /\ StateTruthful /\ PlaylistsOwn
=============================================================================
