-------------------------- MODULE JellyfinSyncProofs --------------------------
(* What jellyfin-sync keeps on record is true of the devices, for any tracks,   *)
(* playlists, devices, batches and faults: an inductive invariant of the run    *)
(* between the upload of a file and the line of the state file about it.        *)
EXTENDS JellyfinSync, WellFoundedInduction, SequenceTheorems, TLAPS

(* The part that every run keeps, whatever the output says                 *)

\* Files that hold what the run means to hand over as them.
Ready == {p \in Paths : staged[p].key \in StagedKeys(p)}

\* Only such files are handed to the device, and no track is prepared twice.
FilesReady ==
    /\ \A n \in 1 .. Len(prepared) : Path[prepared[n]] \in Ready
    /\ paths \in Seq(Ready) /\ batch \in Seq(Ready) /\ queue \in Seq(Ready)

PreparedOnce == \A n \in 1 .. Len(prepared), m \in todo : prepared[n] # Order[m]

\* What the earlier parts of a run have not made yet.
NothingAhead ==
    /\ phase \in {"off", "collect"} => prepared = <<>>
    /\ phase \in {"off", "collect", "prepare"} =>
        /\ paths = <<>> /\ batch = <<>> /\ queue = <<>>
        /\ lines = <<>> /\ oids = [p \in Paths |-> NoId] /\ done = {}
    /\ phase # "lists" => current = None

\* A run has read the serial of a device, and keeps what was on record of any.
RecordKept ==
    phase # "off" =>
        /\ dev \in Devices
        /\ \A d \in Devices, t \in Tracks :
            /\ disk[d][t] # Absent => mem[d][t] # Absent
            /\ disk[d][t] \in ObjectIds => mem[d][t] \in ObjectIds

\* What a playlist is given: ids on record, of its own members.
AddsOwn ==
    /\ \A p \in Playlists : sel.lists[p] \subseteq Member[p]
    /\ current = None => adds = {}
    /\ \A n \in adds : Order[n] \in Member[current] /\ mem[dev][Order[n]] \in ObjectIds

\* A device hands out an id once.
IdsUnique == \A d \in Devices : \A e, f \in shown[d] : e.id = f.id => e = f

KeepingInv ==
    /\ TypeOK /\ FilesReady /\ PreparedOnce /\ NothingAhead /\ RecordKept /\ AddsOwn /\ IdsUnique

-----------------------------------------------------------------------------
(* The part that makes the records true                                    *)

\* A run begins and ends with the same device.
DevicePlugged == phase # "off" => dev = plugged

\* The ids the device gave for a file, those that may be read for it, and those that
\* may be read for the members of a playlist.
Held == [d \in Devices |-> [p \in Paths |-> {id \in ObjectIds : Has(d, p, id)}]]
Lent == [d \in Devices |-> [p \in Paths |-> UNION {Held[d][q] : q \in Mentions[p]}]]
Owned == [d \in Devices |-> [l \in Playlists |-> UNION {Lent[d][Path[t]] : t \in Member[l]}]]

\* What was read from the output is so: each line, each id found, each file done.
OutputTrue ==
    /\ \A n \in 1 .. Len(lines) : lines[n].id \in Held[plugged][lines[n].path]
    /\ \A p \in Paths : oids[p] # NoId => oids[p] \in Lent[plugged][p]
    /\ \A p \in done : Held[plugged][p] # {}

\* A file of the batch has its line, or is still to come.
BatchAccounted ==
    phase = "import" =>
        \A p \in Paths : (\E n \in 1 .. Len(batch) : batch[n] = p) =>
            \/ \E n \in 1 .. Len(lines) : lines[n].path = p
            \/ \E n \in 1 .. Len(queue) : queue[n] = p

\* What StateTruthful says of the file, said of a record.
RecordTrue(record) ==
    \A d \in Devices, t \in Tracks : record[d][t] # Absent =>
        Held[d][Path[t]] # {} /\ record[d][t] \in {NoId} \cup Lent[d][Path[t]]

PlaylistsTrue == \A d \in Devices, l \in Playlists : playlist[d][l] \in Seq(Owned[d][l])

RecordsSound == RecordTrue(disk) /\ RecordTrue(mem) /\ PlaylistsTrue

TruthInv == DevicePlugged /\ OutputTrue /\ BatchAccounted /\ RecordsSound

-----------------------------------------------------------------------------
(* Files, positions and entries                                            *)

\* Tracks are staged as files and have tags.
LEMMA Named ==
    ASSUME TypeOK, NEW t \in Tracks
    PROVE  Path[t] \in Paths /\ Key[t] \in Keys /\ RawKey[t] \in Keys
  <1>1. scene.path \in [Tracks -> Paths]
    BY SceneAssumption DEF TypeOK
  <1> QED
    BY <1>1 DEF Path, Keys

LEMMA StagedKeysAreKeys ==
    ASSUME NEW p \in Paths
    PROVE  StagedKeys(p) \subseteq Keys
  BY DEF StagedKeys, Keys

\* The tracks of a run have their positions.
LEMMA Placed ==
    /\ Positions \subseteq Nat
    /\ \A n \in Positions : Order[n] \in Tracks
  BY OrderAssumption DEF Positions

\* The first of a set of positions of a sequence.
LEMMA LeastPosition ==
    ASSUME NEW S \in SUBSET Nat, S # {}
    PROVE  (CHOOSE n \in S : \A m \in S : n <= m) \in S
  <1>1. PICK n \in S : \A m \in S : <<m, n>> \notin OpToRel(<, Nat)
    BY NatLessThanWellFounded, WFMin
  <1>2. \A m \in S : ~(m < n)
    BY <1>1 DEF OpToRel
  <1>3. \A m \in S : n <= m
    BY <1>2
  <1> QED
    BY <1>3

\* The files ready to be sent stay ready while none is staged.
LEMMA ReadyStays ==
    ASSUME FilesReady, UNCHANGED <<scene, staged, prepared>>,
           paths' \in Seq(Ready), batch' \in Seq(Ready), queue' \in Seq(Ready)
    PROVE  FilesReady'
  <1>1. Ready' = Ready /\ Path' = Path
    BY DEF Ready, StagedKeys, Path
  <1> QED
    BY <1>1 DEF FilesReady

\* What a device shows after an import: no less than before, the file among it,
\* and still each id once.
Grown ==
    /\ shown' \in [Devices -> SUBSET Entries]
    /\ \A d \in Devices : shown[d] \subseteq shown'[d]
    /\ \A d \in Devices : \A e, f \in shown'[d] : e.id = f.id => e = f

LEMMA ImportGrows ==
    ASSUME KeepingInv, NEW p \in Ready, NEW id \in ObjectIds, Imports(p, id)
    PROVE  Grown /\ [key |-> staged[p].key, id |-> id] \in shown'[plugged]
  <1> DEFINE entry == [key |-> staged[p].key, id |-> id]
  <1>1. entry \in Entries /\ plugged \in Devices /\ shown \in [Devices -> SUBSET Entries]
    <2>1. staged[p].key \in Keys
      BY StagedKeysAreKeys DEF Ready
    <2> QED
      BY <2>1 DEF Entries, KeepingInv, TypeOK
  <1>2. CASE entry \in shown[plugged] /\ UNCHANGED shown
    BY <1>1, <1>2 DEF Grown, KeepingInv, IdsUnique
  <1>3. CASE /\ \A e \in shown[plugged] : e.key # staged[p].key
             /\ id \in FreshIds({e.id : e \in shown[plugged]})
             /\ shown' = [shown EXCEPT ![plugged] = @ \cup {entry}]
    <2>1. {e.id : e \in shown[plugged]} \subseteq ObjectIds
      BY <1>1 DEF Entries
    <2>2. \A e \in shown[plugged] : e.id # id
      BY <1>3, <2>1, IdAssumption
    <2>3. /\ shown'[plugged] = shown[plugged] \cup {entry}
          /\ \A d \in Devices : d # plugged => shown'[d] = shown[d]
          /\ shown' \in [Devices -> SUBSET Entries]
      BY <1>1, <1>3
    <2>4. \A d \in Devices : \A e, f \in shown'[d] : e.id = f.id => e = f
      <3>1. SUFFICES ASSUME NEW d \in Devices, NEW e \in shown'[d], NEW f \in shown'[d], e.id = f.id
                     PROVE  e = f
        OBVIOUS
      <3>2. \A g, h \in shown[d] : g.id = h.id => g = h
        BY DEF KeepingInv, IdsUnique
      <3>3. entry.id = id
        OBVIOUS
      <3> QED
        BY <2>2, <2>3, <3>1, <3>2, <3>3
    <2> QED
      BY <1>1, <2>3, <2>4 DEF Grown
  <1> QED
    BY <1>2, <1>3 DEF Imports

LEMMA NothingImportedGrows ==
    ASSUME KeepingInv, UNCHANGED shown
    PROVE  Grown
  BY DEF Grown, KeepingInv, TypeOK, IdsUnique

\* The next file of the queue is ready.
LEMMA HeadReady ==
    ASSUME KeepingInv, queue # <<>>
    PROVE  Head(queue) \in Ready /\ Head(queue) \in Paths /\ Tail(queue) \in Seq(Ready)
  BY DEF KeepingInv, FilesReady, Ready

LEMMA ReachedGrows ==
    ASSUME KeepingInv, queue # <<>>, Reached
    PROVE  Grown
  BY HeadReady, ImportGrows, NothingImportedGrows DEF Reached

LEMMA FaultCounted ==
    ASSUME TypeOK, Fault
    PROVE  faults' \in 0 .. MaxFaults
  BY BoundAssumption DEF TypeOK, Fault

-----------------------------------------------------------------------------
(* Each step keeps KeepingInv                                              *)

LEMMA InitKeeps == Init => KeepingInv
  <1> SUFFICES ASSUME Init PROVE KeepingInv
    OBVIOUS
  <1>1. TypeOK
    BY DeviceAssumption, IdAssumption, BoundAssumption
    DEF Init, TypeOK, NoneRecorded, NoSel, NoFile, Entries, Files, States, MaybeId
  <1>2. FilesReady /\ PreparedOnce /\ NothingAhead /\ RecordKept
    BY DEF Init, FilesReady, PreparedOnce, NothingAhead, RecordKept
  <1>3. AddsOwn /\ IdsUnique
    BY DEF Init, AddsOwn, IdsUnique, NoSel
  <1> QED
    BY <1>1, <1>2, <1>3 DEF KeepingInv

LEMMA StutterKeeps == KeepingInv /\ UNCHANGED vars => KeepingInv'
  <1> SUFFICES ASSUME KeepingInv, UNCHANGED vars PROVE KeepingInv'
    OBVIOUS
  <1>1. TypeOK'
    BY DEF KeepingInv, TypeOK, vars
  <1>2. FilesReady'
    BY ReadyStays DEF KeepingInv, FilesReady, vars
  <1>3. PreparedOnce' /\ NothingAhead' /\ RecordKept' /\ AddsOwn' /\ IdsUnique'
    BY DEF KeepingInv, PreparedOnce, NothingAhead, RecordKept, AddsOwn, IdsUnique, vars
  <1> QED
    BY <1>1, <1>2, <1>3 DEF KeepingInv

LEMMA BeginKeeps == ASSUME KeepingInv, Begin PROVE KeepingInv'
  <1>1. TypeOK'
    BY DEF KeepingInv, TypeOK, Begin, Serial, deviceVars, importVars
  <1>2. FilesReady'
    BY ReadyStays DEF KeepingInv, FilesReady, Begin, deviceVars, importVars
  <1>3. NothingAhead' /\ RecordKept'
    BY DEF KeepingInv, TypeOK, NothingAhead, RecordKept, Begin, Serial, deviceVars, importVars
  <1>4. PreparedOnce' /\ AddsOwn' /\ IdsUnique'
    BY DEF KeepingInv, PreparedOnce, NothingAhead, AddsOwn, IdsUnique, Begin, deviceVars, importVars
  <1> QED
    BY <1>1, <1>2, <1>3, <1>4 DEF KeepingInv

\* However a run ends, it forgets all but the state file.
LEMMA EndKeeps ==
    ASSUME KeepingInv, End, UNCHANGED <<scene, plugged, playlist, deleted, disk>>, Grown,
           faults' \in 0 .. MaxFaults
    PROVE  KeepingInv'
  <1>1. TypeOK'
    BY DeviceAssumption, IdAssumption
    DEF KeepingInv, TypeOK, End, ClearLocals, NoneRecorded, NoSel, NoFile, Files, States,
        MaybeId, Grown
  <1>2. FilesReady' /\ PreparedOnce' /\ NothingAhead' /\ RecordKept'
    BY DEF End, ClearLocals, FilesReady, PreparedOnce, NothingAhead, RecordKept
  <1>3. AddsOwn' /\ IdsUnique'
    BY DEF End, ClearLocals, AddsOwn, IdsUnique, Grown, NoSel
  <1> QED
    BY <1>1, <1>2, <1>3 DEF KeepingInv

LEMMA EndsKeep ==
    ASSUME KeepingInv, NothingPrepared \/ Finish \/ Interrupt
    PROVE  KeepingInv' /\ End /\ UNCHANGED <<scene, plugged, playlist, deleted, disk>> /\ Grown
  <1>1. CASE NothingPrepared \/ Finish
    <2>1. End /\ UNCHANGED <<scene, plugged, shown, playlist, deleted, disk, faults>>
      BY <1>1 DEF NothingPrepared, Finish, deviceVars
    <2> QED
      BY <2>1, EndKeeps, NothingImportedGrows DEF KeepingInv, TypeOK
  <1>2. CASE Interrupt
    <2>1. Grown
      BY <1>2, ReachedGrows, NothingImportedGrows DEF Interrupt
    <2>2. faults' \in 0 .. MaxFaults
      BY <1>2, FaultCounted DEF KeepingInv, Interrupt
    <2> QED
      BY <1>2, <2>1, <2>2, EndKeeps DEF Interrupt
  <1> QED
    BY <1>1, <1>2

\* What is selected, and which of the playlists can be rebuilt.
LEMMA SelectionType ==
    ASSUME NEW available \in SUBSET Playlists
    PROVE  /\ Selection(available) \in [tracks: SUBSET Tracks, lists: [Playlists -> SUBSET Tracks]]
           /\ \A p \in Playlists : Selection(available).lists[p] \subseteq Member[p]
  <1>1. \A p \in Playlists : Member[p] \subseteq Tracks
    BY SelectionAssumption
  <1> QED
    BY <1>1, SelectionAssumption DEF Selection

LEMMA CollectKeeps == ASSUME KeepingInv, Collect PROVE KeepingInv'
  <1>1. PICK available \in SUBSET Playlists, force \in BOOLEAN :
            /\ sel' = Selection(available)
            /\ available # Playlists => faults < MaxFaults
            /\ faults' = IF available = Playlists THEN faults ELSE faults + 1
            /\ todo' = First(Pending(Selection(available), force), scene.limit)
            /\ \/ phase' = "prepare" /\ UNCHANGED lists
               \/ phase' = "lists" /\ lists' = Rebuildable(Selection(available))
               \/ phase' = "lists" /\ lists' = {}
    BY Zenon DEF Collect
  <1>2. /\ phase = "collect"
        /\ UNCHANGED <<scene, plugged, shown, playlist, deleted, disk, mem, dev, prepared, staged, paths,
                       batch, queue, lines, oids, done, current, adds>>
    BY DEF Collect, deviceVars, importVars
  <1>3. TypeOK'
    <2>1. todo' \subseteq Positions /\ lists' \subseteq Playlists
      BY <1>1 DEF First, Pending, Rebuildable, KeepingInv, TypeOK
    <2>2. faults' \in 0 .. MaxFaults
      BY <1>1, BoundAssumption DEF KeepingInv, TypeOK
    <2>3. sel' \in [tracks: SUBSET Tracks, lists: [Playlists -> SUBSET Tracks]]
      BY <1>1, SelectionType
    <2> QED
      BY <1>1, <1>2, <2>1, <2>2, <2>3 DEF KeepingInv, TypeOK
  <1>4. FilesReady'
    BY <1>2, ReadyStays DEF KeepingInv, FilesReady
  <1>5. NothingAhead' /\ RecordKept'
    BY <1>1, <1>2 DEF KeepingInv, NothingAhead, RecordKept
  <1>7. PreparedOnce'
    <2>1. prepared' = <<>>
      BY <1>2 DEF KeepingInv, NothingAhead
    <2> QED
      BY <2>1 DEF PreparedOnce
  <1>6. AddsOwn' /\ IdsUnique'
    <2>1. adds' = {} /\ current' = None
      BY <1>2 DEF KeepingInv, NothingAhead, AddsOwn
    <2> QED
      BY <1>1, <1>2, <2>1, SelectionType DEF KeepingInv, AddsOwn, IdsUnique
  <1> QED
    BY <1>3, <1>4, <1>5, <1>6, <1>7 DEF KeepingInv

\* A file made for a track, and its tags while another track shares it.
LEMMA OwnKeys ==
    ASSUME TypeOK, NEW t \in Tracks
    PROVE  /\ Key[t] \in StagedKeys(Path[t])
           /\ \A u \in Tracks : u # t /\ Path[u] = Path[t] => RawKey[t] \in StagedKeys(Path[t])
  BY DEF StagedKeys

\* Preparing a track leaves the files of the tracks prepared before ready, although it
\* may overwrite one.
LEMMA PrepareReady ==
    ASSUME KeepingInv, NEW n \in todo, NEW i \in 1 .. Len(prepared),
           \/ UNCHANGED staged
           \/ \E k \in {Key[Order[n]], RawKey[Order[n]]} :
                staged' = [staged EXCEPT ![Path[Order[n]]] = [track |-> Order[n], key |-> k]]
    PROVE  staged'[Path[prepared[i]]].key \in StagedKeys(Path[prepared[i]])
  <1> DEFINE p == Path[prepared[i]]
             q == Path[Order[n]]
  <1>1. /\ prepared[i] \in Tracks /\ Order[n] \in Tracks /\ prepared[i] # Order[n]
        /\ p \in Paths /\ q \in Paths
    <2>1. prepared \in Seq(Tracks) /\ n \in Positions /\ prepared[i] # Order[n]
      BY DEF KeepingInv, TypeOK, PreparedOnce
    <2> QED
      BY <2>1, ElementOfSeq, Placed, Named DEF KeepingInv
  <1>2. staged[p].key \in StagedKeys(p)
    BY DEF KeepingInv, FilesReady, Ready
  <1>3. p = q => Key[Order[n]] \in StagedKeys(p) /\ RawKey[Order[n]] \in StagedKeys(p)
    BY <1>1, OwnKeys DEF KeepingInv
  <1>4. CASE UNCHANGED staged
    BY <1>2, <1>4
  <1>5. ASSUME NEW k \in {Key[Order[n]], RawKey[Order[n]]},
               staged' = [staged EXCEPT ![q] = [track |-> Order[n], key |-> k]]
        PROVE  staged'[p].key \in StagedKeys(p)
    <2>1. staged'[q].key = k /\ (p # q => staged'[p] = staged[p])
      BY <1>1, <1>5 DEF KeepingInv, TypeOK
    <2> QED
      BY <1>2, <1>3, <2>1
  <1> QED
    BY <1>4, <1>5

LEMMA PrepareKeeps == ASSUME KeepingInv, Prepare PROVE KeepingInv'
  <1>1. PICK n \in Positions :
            /\ n \in todo /\ todo' = todo \ {n}
            /\ \/ /\ prepared' = Append(prepared, Order[n])
                  /\ staged' = [staged EXCEPT ![Path[Order[n]]] =
                                    [track |-> Order[n], key |-> Key[Order[n]]]]
                  /\ UNCHANGED faults
               \/ /\ Fault
                  /\ UNCHANGED prepared
                  /\ \/ UNCHANGED staged
                     \/ staged' = [staged EXCEPT ![Path[Order[n]]] =
                                    [track |-> Order[n], key |-> RawKey[Order[n]]]]
    BY DEF Prepare, IsHead
  <1>2. /\ phase = "prepare"
        /\ UNCHANGED <<scene, plugged, shown, playlist, deleted, disk, phase, mem, dev, sel, paths,
                       batch, queue, lines, oids, done, lists, current, adds>>
    BY DEF Prepare, deviceVars, importVars
  <1>3. Order[n] \in Tracks /\ Path[Order[n]] \in Paths /\ Path' = Path
    BY <1>2, Placed, Named DEF KeepingInv, Path
  <1>4. \/ UNCHANGED staged
        \/ \E k \in {Key[Order[n]], RawKey[Order[n]]} :
             staged' = [staged EXCEPT ![Path[Order[n]]] = [track |-> Order[n], key |-> k]]
    BY <1>1
  <1>5. staged' \in [Paths -> Files]
    <2>1. \A k \in {Key[Order[n]], RawKey[Order[n]]} : [track |-> Order[n], key |-> k] \in Files
      BY <1>3, Named DEF KeepingInv, Files
    <2>2. staged \in [Paths -> Files]
      BY DEF KeepingInv, TypeOK
    <2> QED
      BY <1>4, <2>1, <2>2
  <1>6. \A i \in 1 .. Len(prepared) : staged'[Path[prepared[i]]].key \in StagedKeys(Path[prepared[i]])
    BY <1>1, <1>4, PrepareReady
  <1>7. faults' \in 0 .. MaxFaults
    BY <1>1, FaultCounted DEF KeepingInv, TypeOK
  <1>8. prepared \in Seq(Tracks) /\ Len(prepared) \in Nat /\ todo \subseteq Positions
    BY DEF KeepingInv, TypeOK
  <1>9. \A i \in 1 .. Len(prepared) : Path[prepared[i]] \in Paths
    BY <1>8, Named, ElementOfSeq DEF KeepingInv
  <1>10. \A m \in todo' : m \in todo /\ Order[m] # Order[n]
    BY <1>1, <1>8, OrderAssumption DEF Positions
  <1>11. /\ prepared' \in Seq(Tracks)
         /\ \A i \in 1 .. Len(prepared') :
              /\ Path[prepared'[i]] \in Paths
              /\ staged'[Path[prepared'[i]]].key \in StagedKeys(Path[prepared'[i]])
              /\ \A m \in todo' : prepared'[i] # Order[m]
    <2>1. CASE prepared' = prepared
      BY <1>6, <1>8, <1>9, <1>10, <2>1 DEF KeepingInv, PreparedOnce
    <2>2. CASE /\ prepared' = Append(prepared, Order[n])
               /\ staged' = [staged EXCEPT ![Path[Order[n]]] =
                                 [track |-> Order[n], key |-> Key[Order[n]]]]
      <3>1. /\ Len(prepared') = Len(prepared) + 1
            /\ \A i \in 1 .. Len(prepared) : prepared'[i] = prepared[i]
            /\ prepared'[Len(prepared) + 1] = Order[n]
            /\ prepared' \in Seq(Tracks)
        BY <1>3, <1>8, <2>2, AppendProperties
      <3>2. \A i \in 1 .. Len(prepared') : i \in 1 .. Len(prepared) \/ i = Len(prepared) + 1
        BY <1>8, <3>1
      <3>3. staged'[Path[Order[n]]].key \in StagedKeys(Path[Order[n]])
        <4>1. staged'[Path[Order[n]]].key = Key[Order[n]]
          BY <1>3, <2>2 DEF KeepingInv, TypeOK
        <4> QED
          BY <1>3, <4>1, OwnKeys DEF KeepingInv
      <3>4. \A i \in 1 .. Len(prepared) : \A m \in todo : prepared[i] # Order[m]
        BY DEF KeepingInv, PreparedOnce
      <3> QED
        BY <1>3, <1>6, <1>9, <1>10, <3>1, <3>2, <3>3, <3>4
    <2> QED
      BY <1>1, <2>1, <2>2
  <1>12. TypeOK'
    BY <1>2, <1>5, <1>7, <1>10, <1>11, <1>8 DEF KeepingInv, TypeOK
  <1>13. FilesReady' /\ PreparedOnce'
    <2>1. paths' = <<>> /\ batch' = <<>> /\ queue' = <<>>
      BY <1>2 DEF KeepingInv, NothingAhead
    <2>2. \A p \in Paths : StagedKeys(p)' = StagedKeys(p)
      BY <1>2 DEF StagedKeys, Path
    <2>3. \A p \in Paths : staged'[p].key \in StagedKeys(p) => p \in Ready'
      BY <2>2 DEF Ready
    <2> QED
      BY <1>3, <1>11, <2>1, <2>3 DEF FilesReady, PreparedOnce
  <1>14. NothingAhead' /\ RecordKept' /\ AddsOwn' /\ IdsUnique'
    BY <1>2 DEF KeepingInv, NothingAhead, RecordKept, AddsOwn, IdsUnique
  <1> QED
    BY <1>12, <1>13, <1>14 DEF KeepingInv

LEMMA UploadKeeps == ASSUME KeepingInv, Upload PROVE KeepingInv'
  <1>1. /\ phase = "prepare" /\ phase' = "batches"
        /\ paths' = [n \in 1 .. Len(prepared) |-> Path[prepared[n]]]
        /\ oids' = [p \in Paths |-> NoId]
        /\ UNCHANGED <<scene, plugged, shown, playlist, deleted, disk, mem, dev, sel, todo, prepared,
                       staged, batch, queue, lines, done, lists, current, adds, faults>>
    BY DEF Upload, deviceVars
  <1>2. paths' \in Seq(Ready) /\ paths' \in Seq(Paths)
    <2>1. Len(prepared) \in Nat /\ \A n \in 1 .. Len(prepared) : Path[prepared[n]] \in Ready
      BY DEF KeepingInv, TypeOK, FilesReady
    <2> QED
      BY <1>1, <2>1 DEF Ready
  <1>3. TypeOK'
    BY <1>1, <1>2 DEF KeepingInv, TypeOK, MaybeId
  <1>4. FilesReady'
    BY <1>1, <1>2, ReadyStays DEF KeepingInv, FilesReady
  <1>5. PreparedOnce' /\ NothingAhead' /\ RecordKept' /\ AddsOwn' /\ IdsUnique'
    BY <1>1 DEF KeepingInv, PreparedOnce, NothingAhead, RecordKept, AddsOwn, IdsUnique
  <1> QED
    BY <1>3, <1>4, <1>5 DEF KeepingInv

\* A batch is the beginning of what is left.
LEMMA Slices ==
    ASSUME NEW S, NEW s \in Seq(S), NEW n \in 0 .. Len(s)
    PROVE  /\ SubSeq(s, 1, n) \in Seq(S) /\ SubSeq(s, n + 1, Len(s)) \in Seq(S)
  <1>1. /\ \A i \in 1 .. n : s[i] \in S
        /\ \A i \in n + 1 .. Len(s) : s[i] \in S
    OBVIOUS
  <1> QED
    BY <1>1, SubSeqProperties

LEMMA BeginBatchKeeps == ASSUME KeepingInv, BeginBatch PROVE KeepingInv'
  <1> DEFINE n == Min2(BatchSize, Len(paths))
  <1>1. n \in 0 .. Len(paths)
    BY BoundAssumption DEF KeepingInv, TypeOK, Min2
  <1>2. /\ phase = "batches" /\ phase' = "import"
        /\ batch' = SubSeq(paths, 1, n) /\ queue' = batch'
        /\ paths' = SubSeq(paths, n + 1, Len(paths))
        /\ lines' = <<>>
        /\ UNCHANGED <<scene, plugged, shown, playlist, deleted, disk, mem, dev, sel, todo, prepared,
                       staged, oids, done, lists, current, adds, faults>>
    BY DEF BeginBatch, deviceVars
  <1> HIDE DEF n
  <1>3. paths' \in Seq(Ready) /\ batch' \in Seq(Ready) /\ queue' \in Seq(Ready)
    BY <1>1, <1>2, Slices DEF KeepingInv, FilesReady
  <1>4. paths' \in Seq(Paths) /\ batch' \in Seq(Paths) /\ queue' \in Seq(Paths)
    BY <1>1, <1>2, Slices DEF KeepingInv, TypeOK
  <1>5. TypeOK'
    BY <1>2, <1>4 DEF KeepingInv, TypeOK
  <1>6. FilesReady'
    BY <1>2, <1>3, ReadyStays DEF KeepingInv
  <1>7. PreparedOnce' /\ NothingAhead' /\ RecordKept' /\ AddsOwn' /\ IdsUnique'
    BY <1>2 DEF KeepingInv, PreparedOnce, NothingAhead, RecordKept, AddsOwn, IdsUnique
  <1> QED
    BY <1>5, <1>6, <1>7 DEF KeepingInv

\* The steps of an import: the device grows, the run notes what it reads of it.
LEMMA ImportStepKeeps ==
    ASSUME KeepingInv, Grown, phase \in {"import", "retry"},
           phase' \in {"import", "retry", "batches"},
           UNCHANGED <<scene, plugged, playlist, deleted, disk, mem, dev, sel, todo, prepared, staged,
                       paths, lists, current, adds>>,
           batch' \in {batch, <<>>}, queue' \in {queue, batch, <<>>} \/ (queue # <<>> /\ queue' = Tail(queue)),
           lines' \in Seq([path: Paths, id: ObjectIds]),
           oids' \in [Paths -> MaybeId], done' \subseteq Paths, faults' \in 0 .. MaxFaults
    PROVE  KeepingInv'
  <1>7. \A S : <<>> \in Seq(S)
    OBVIOUS
  <1>8. /\ batch \in Seq(Ready) /\ queue \in Seq(Ready) /\ paths \in Seq(Ready)
        /\ batch \in Seq(Paths) /\ queue \in Seq(Paths)
    BY DEF KeepingInv, FilesReady, TypeOK
  <1>1. batch' \in Seq(Ready) /\ batch' \in Seq(Paths)
    BY <1>7, <1>8
  <1>9. queue # <<>> => Tail(queue) \in Seq(Ready) /\ Tail(queue) \in Seq(Paths)
    BY <1>8
  <1>2. queue' \in Seq(Ready) /\ queue' \in Seq(Paths)
    BY <1>7, <1>8, <1>9
  <1>3. TypeOK'
    BY <1>1, <1>2 DEF KeepingInv, TypeOK, Grown
  <1>4. FilesReady'
    BY <1>1, <1>2, <1>8, ReadyStays DEF KeepingInv
  <1>5. PreparedOnce' /\ NothingAhead' /\ RecordKept'
    BY DEF KeepingInv, PreparedOnce, NothingAhead, RecordKept
  <1>6. AddsOwn' /\ IdsUnique'
    BY DEF KeepingInv, AddsOwn, IdsUnique, Grown
  <1> QED
    BY <1>3, <1>4, <1>5, <1>6 DEF KeepingInv

LEMMA ImportNextKeeps == ASSUME KeepingInv, ImportNext PROVE KeepingInv'
  <1>1. PICK id \in ObjectIds :
            /\ Imports(Head(queue), id)
            /\ lines' = Append(lines, [path |-> Head(queue), id |-> id])
    BY DEF ImportNext
  <1>2. queue # <<>> /\ queue' = Tail(queue) /\ phase = "import"
    BY DEF ImportNext
  <1>3. Grown
    BY <1>1, <1>2, HeadReady, ImportGrows
  <1>4. lines' \in Seq([path: Paths, id: ObjectIds])
    <2>1. [path |-> Head(queue), id |-> id] \in [path: Paths, id: ObjectIds]
      BY <1>2, HeadReady
    <2> QED
      BY <1>1, <2>1 DEF KeepingInv, TypeOK
  <1> QED
    BY <1>2, <1>3, <1>4, ImportStepKeeps DEF ImportNext, KeepingInv, TypeOK

LEMMA BatchFailsKeeps == ASSUME KeepingInv, BatchFails \/ BatchTimesOut PROVE KeepingInv'
  <1>1. Grown
    BY ReachedGrows DEF BatchFails, BatchTimesOut
  <1>2. faults' \in 0 .. MaxFaults
    BY FaultCounted DEF BatchFails, BatchTimesOut, KeepingInv, TypeOK
  <1>3. CASE BatchFails
    BY <1>1, <1>2, <1>3, ImportStepKeeps DEF BatchFails, KeepingInv, TypeOK
  <1>4. CASE BatchTimesOut
    BY <1>1, <1>2, <1>4, ImportStepKeeps DEF BatchTimesOut, KeepingInv, TypeOK
  <1> QED
    BY <1>3, <1>4

\* The id that is read for a file is one that a line reports.
LEMMA IdRead ==
    ASSUME TypeOK, NEW p \in Paths, IdIn(lines, p) # NoId
    PROVE  \E n \in 1 .. Len(lines) :
               lines[n].path \in Mentions[p] /\ IdIn(lines, p) = lines[n].id
  <1> DEFINE about == {n \in 1 .. Len(lines) : lines[n].path \in Mentions[p]}
             first == CHOOSE n \in about : \A m \in about : n <= m
  <1>1. about \subseteq Nat /\ about # {}
    BY DEF TypeOK, IdIn
  <1>2. first \in about
    BY <1>1, LeastPosition
  <1>3. IdIn(lines, p) = lines[first].id
    BY <1>1 DEF IdIn
  <1> QED
    BY <1>2, <1>3

LEMMA BatchEndsKeeps == ASSUME KeepingInv, BatchEnds PROVE KeepingInv'
  <1>1. \A p \in Paths : IdIn(lines, p) \in MaybeId
    <2>1. TypeOK /\ lines \in Seq([path: Paths, id: ObjectIds])
      BY DEF KeepingInv, TypeOK
    <2>2. \A n \in 1 .. Len(lines) : lines[n].id \in ObjectIds
      <3>1. \A n \in 1 .. Len(lines) : lines[n] \in [path: Paths, id: ObjectIds]
        BY <2>1, ElementOfSeq
      <3> QED
        BY <3>1
    <2> QED
      BY <2>1, <2>2, IdRead DEF MaybeId
  <1>2. oids' \in [Paths -> MaybeId]
    BY <1>1 DEF BatchEnds, KeepingInv, TypeOK
  <1>3. done' \subseteq Paths
    BY DEF BatchEnds, KeepingInv, TypeOK
  <1>4. Grown
    BY NothingImportedGrows DEF BatchEnds, deviceVars
  <1>5. /\ phase = "import" /\ phase' = "batches" /\ lines' = <<>> /\ batch' = <<>>
        /\ UNCHANGED <<scene, plugged, playlist, deleted, disk, mem, dev, sel, todo, prepared, staged,
                       paths, queue, lists, current, adds, faults>>
    BY DEF BatchEnds, deviceVars
  <1>6. queue' = queue /\ lines' \in Seq([path: Paths, id: ObjectIds]) /\ faults' \in 0 .. MaxFaults
    BY <1>5 DEF KeepingInv, TypeOK
  <1> QED
    BY <1>2, <1>3, <1>4, <1>5, <1>6, ImportStepKeeps

LEMMA RetryNextKeeps == ASSUME KeepingInv, RetryNext PROVE KeepingInv'
  <1>1. /\ phase = "retry" /\ queue # <<>> /\ queue' = Tail(queue)
        /\ UNCHANGED <<scene, plugged, playlist, deleted, disk, phase, mem, dev, sel, todo, prepared,
                       staged, paths, batch, lines, lists, current, adds>>
    BY DEF RetryNext
  <1>2. Head(queue) \in Ready /\ Head(queue) \in Paths
    BY <1>1, HeadReady
  <1>3. CASE /\ \E id \in ObjectIds :
                    /\ Imports(Head(queue), id)
                    /\ oids' = [oids EXCEPT ![Head(queue)] = id]
             /\ done' = done \cup {Head(queue)}
             /\ UNCHANGED faults
    <2>1. Grown
      BY <1>2, <1>3, ImportGrows
    <2>2. oids' \in [Paths -> MaybeId] /\ done' \subseteq Paths
      BY <1>2, <1>3 DEF KeepingInv, TypeOK, MaybeId
    <2> QED
      BY <1>1, <1>3, <2>1, <2>2, ImportStepKeeps DEF KeepingInv, TypeOK
  <1>4. CASE /\ Fault \/ UNCHANGED faults
             /\ Reached
             /\ UNCHANGED <<oids, done>>
    <2>1. Grown
      BY <1>1, <1>4, ReachedGrows
    <2>2. faults' \in 0 .. MaxFaults
      BY <1>4, FaultCounted DEF KeepingInv, TypeOK
    <2> QED
      BY <1>1, <1>4, <2>1, <2>2, ImportStepKeeps DEF KeepingInv, TypeOK
  <1> QED
    BY <1>3, <1>4 DEF RetryNext

LEMMA RetryEndsKeeps == ASSUME KeepingInv, RetryEnds PROVE KeepingInv'
  <1>1. Grown
    BY NothingImportedGrows DEF RetryEnds, deviceVars
  <1>2. /\ phase = "retry" /\ phase' = "batches" /\ batch' = <<>>
        /\ UNCHANGED <<scene, plugged, playlist, deleted, disk, mem, dev, sel, todo, prepared, staged,
                       paths, queue, lines, oids, done, lists, current, adds, faults>>
    BY DEF RetryEnds, deviceVars
  <1>3. /\ lines' \in Seq([path: Paths, id: ObjectIds]) /\ faults' \in 0 .. MaxFaults
        /\ oids' \in [Paths -> MaybeId] /\ done' \subseteq Paths
    BY <1>2 DEF KeepingInv, TypeOK
  <1> QED
    BY <1>1, <1>2, <1>3, ImportStepKeeps

LEMMA RecordedType ==
    ASSUME KeepingInv, phase # "off", NEW t \in Tracks
    PROVE  /\ Recorded(t) \in MaybeId
           /\ mem[dev][t] \in ObjectIds => Recorded(t) \in ObjectIds
  <1>1. oids[Path[t]] \in MaybeId /\ dev \in Devices
    BY Named DEF KeepingInv, TypeOK, RecordKept
  <1>2. mem[dev][t] \in MaybeId \cup {Absent}
    BY <1>1 DEF KeepingInv, TypeOK, States
  <1> QED
    BY <1>1, <1>2, IdAssumption DEF Recorded, MaybeId

LEMMA RecordKeeps == ASSUME KeepingInv, Record PROVE KeepingInv'
  <1> DEFINE ts == {t \in ByPath : Path[t] \in done}
  <1>1. /\ phase = "batches" /\ phase' = "save"
        /\ mem' = [mem EXCEPT ![dev] = [t \in Tracks |-> IF t \in ts THEN Recorded(t) ELSE mem[dev][t]]]
        /\ UNCHANGED <<scene, plugged, shown, playlist, deleted, disk, dev, sel, todo, prepared, staged,
                       paths, batch, queue, lines, oids, done, lists, current, adds, faults>>
    BY DEF Record, deviceVars, importVars
  <1> HIDE DEF ts
  <1>2. dev \in Devices
    BY <1>1 DEF KeepingInv, RecordKept
  <1>3. \A t \in Tracks : Recorded(t) \in MaybeId /\ (mem[dev][t] \in ObjectIds => Recorded(t) \in ObjectIds)
    BY <1>1, RecordedType
  <1>4. mem' \in States
    BY <1>1, <1>2, <1>3 DEF KeepingInv, TypeOK, States
  <1>5. /\ \A d \in Devices : d # dev => mem'[d] = mem[d]
        /\ \A t \in Tracks : mem'[dev][t] = IF t \in ts THEN Recorded(t) ELSE mem[dev][t]
    BY <1>1, <1>2 DEF KeepingInv, TypeOK, States
  <1>6. TypeOK'
    BY <1>1, <1>4 DEF KeepingInv, TypeOK
  <1>7. FilesReady'
    BY <1>1, ReadyStays DEF KeepingInv, FilesReady
  <1>8. PreparedOnce' /\ NothingAhead' /\ AddsOwn' /\ IdsUnique'
    BY <1>1 DEF KeepingInv, PreparedOnce, NothingAhead, AddsOwn, IdsUnique
  <1>9. RecordKept'
    <2>1. \A t \in Tracks : Recorded(t) # Absent
      BY <1>3, IdAssumption DEF MaybeId
    <2>2. \A d \in Devices, t \in Tracks :
            /\ mem[d][t] # Absent => mem'[d][t] # Absent
            /\ mem[d][t] \in ObjectIds => mem'[d][t] \in ObjectIds
      BY <1>3, <1>5, <2>1
    <2>3. \A d \in Devices, t \in Tracks :
            /\ disk[d][t] # Absent => mem[d][t] # Absent
            /\ disk[d][t] \in ObjectIds => mem[d][t] \in ObjectIds
      BY <1>1 DEF KeepingInv, RecordKept
    <2> QED
      BY <1>1, <1>2, <2>2, <2>3 DEF RecordKept
  <1> QED
    BY <1>6, <1>7, <1>8, <1>9 DEF KeepingInv

LEMMA SaveKeeps == ASSUME KeepingInv, Save PROVE KeepingInv'
  <1>1. /\ phase = "save" /\ phase' = "lists" /\ disk' = mem /\ lists' = Rebuildable(sel)
        /\ UNCHANGED <<scene, plugged, shown, playlist, deleted, mem, dev, sel, todo, prepared, staged,
                       paths, batch, queue, lines, oids, done, current, adds, faults>>
    BY DEF Save, deviceVars, importVars
  <1>2. TypeOK'
    BY <1>1 DEF KeepingInv, TypeOK, Rebuildable
  <1>3. FilesReady'
    BY <1>1, ReadyStays DEF KeepingInv, FilesReady
  <1>4. PreparedOnce' /\ NothingAhead' /\ RecordKept' /\ AddsOwn' /\ IdsUnique'
    BY <1>1 DEF KeepingInv, PreparedOnce, NothingAhead, RecordKept, AddsOwn, IdsUnique
  <1> QED
    BY <1>2, <1>3, <1>4 DEF KeepingInv

\* The steps that build playlists.
LEMMA ListStepKeeps ==
    ASSUME KeepingInv, phase = "lists",
           UNCHANGED <<scene, plugged, shown, deleted, disk, phase, mem, dev, sel, todo, prepared, staged,
                       paths, batch, queue, lines, oids, done>>,
           playlist' \in [Devices -> [Playlists -> Seq(ObjectIds)]],
           lists' \subseteq Playlists, current' \in Playlists \cup {None}, adds' \subseteq Positions,
           faults' \in 0 .. MaxFaults,
           current' = None => adds' = {},
           \A n \in adds' : Order[n] \in Member[current'] /\ mem[dev][Order[n]] \in ObjectIds
    PROVE  KeepingInv'
  <1>1. TypeOK'
    BY DEF KeepingInv, TypeOK
  <1>2. FilesReady'
    BY ReadyStays DEF KeepingInv, FilesReady
  <1>3. PreparedOnce' /\ NothingAhead' /\ RecordKept' /\ AddsOwn' /\ IdsUnique'
    BY DEF KeepingInv, PreparedOnce, NothingAhead, RecordKept, AddsOwn, IdsUnique
  <1> QED
    BY <1>1, <1>2, <1>3 DEF KeepingInv

\* The ids a playlist is built from are on record.
LEMMA IdsOfOwn ==
    ASSUME KeepingInv, phase = "lists", NEW p \in Playlists
    PROVE  /\ IdsOf(p) \subseteq Positions
           /\ \A n \in IdsOf(p) : Order[n] \in Member[p] /\ mem[dev][Order[n]] \in ObjectIds
  <1>1. dev \in Devices
    BY DEF KeepingInv, RecordKept
  <1>2. \A n \in Positions : mem[dev][Order[n]] \in MaybeId \cup {Absent}
    BY <1>1, Placed DEF KeepingInv, TypeOK, States
  <1>3. sel.lists[p] \subseteq Member[p]
    BY DEF KeepingInv, AddsOwn
  <1> QED
    BY <1>2, <1>3 DEF IdsOf, IdKnown, MaybeId

LEMMA ClearPlaylistKeeps ==
    ASSUME KeepingInv, NEW p \in Playlists, ClearPlaylist(p)
    PROVE  KeepingInv'
  <1>1. /\ phase = "lists" /\ current' = p /\ adds' = IdsOf(p)
        /\ playlist' = [playlist EXCEPT ![plugged][p] = <<>>]
        /\ UNCHANGED <<scene, plugged, shown, deleted, disk, phase, mem, dev, sel, todo, prepared, staged,
                       paths, batch, queue, lines, oids, done, lists, faults>>
    BY DEF ClearPlaylist
  <1>2. playlist' \in [Devices -> [Playlists -> Seq(ObjectIds)]]
    BY <1>1 DEF KeepingInv, TypeOK
  <1>3. current' # None
    BY <1>1, DeviceAssumption
  <1> QED
    BY <1>1, <1>2, <1>3, IdsOfOwn, ListStepKeeps DEF KeepingInv, TypeOK

LEMMA PlaylistUntouchedKeeps ==
    ASSUME KeepingInv, NEW p \in Playlists, PlaylistUntouched(p)
    PROVE  KeepingInv'
  <1>1. /\ phase = "lists" /\ lists' = lists \ {p} /\ Fault
        /\ UNCHANGED <<scene, plugged, shown, playlist, deleted, disk, phase, mem, dev, sel, todo,
                       prepared, staged, paths, batch, queue, lines, oids, done, current, adds>>
    BY DEF PlaylistUntouched, deviceVars, importVars
  <1>2. faults' \in 0 .. MaxFaults
    BY <1>1, FaultCounted DEF KeepingInv
  <1> QED
    BY <1>1, <1>2, ListStepKeeps DEF KeepingInv, TypeOK, AddsOwn

\* What the next command of a playlist does.
LEMMA Adding ==
    ASSUME KeepingInv, AddNext
    PROVE  \E n \in adds :
              /\ current \in Playlists /\ dev \in Devices
              /\ Order[n] \in Tracks /\ Order[n] \in Member[current]
              /\ mem[dev][Order[n]] \in ObjectIds
              /\ playlist' = IF Contains(playlist[plugged][current], mem[dev][Order[n]]) THEN playlist
                             ELSE [playlist EXCEPT ![plugged][current] = Append(@, mem[dev][Order[n]])]
              /\ adds' = adds \ {n}
  <1>1. PICK n \in Positions :
              /\ IsHead(n, adds)
              /\ playlist' = IF Contains(playlist[plugged][current], mem[dev][Order[n]]) THEN playlist
                             ELSE [playlist EXCEPT ![plugged][current] = Append(@, mem[dev][Order[n]])]
              /\ adds' = adds \ {n}
    BY DEF AddNext
  <1>2. n \in adds
    BY <1>1 DEF IsHead
  <1>3. current \in Playlists /\ dev \in Devices
    BY DEF AddNext, KeepingInv, TypeOK, RecordKept
  <1>4. Order[n] \in Tracks /\ Order[n] \in Member[current] /\ mem[dev][Order[n]] \in ObjectIds
    BY <1>2, Placed DEF KeepingInv, AddsOwn
  <1> QED
    BY <1>1, <1>2, <1>3, <1>4

\* An id at the end of a playlist.
LEMMA Appended ==
    ASSUME TypeOK, NEW p \in Playlists, NEW id \in ObjectIds,
           playlist' = [playlist EXCEPT ![plugged][p] = Append(@, id)]
    PROVE  /\ playlist' \in [Devices -> [Playlists -> Seq(ObjectIds)]]
           /\ playlist'[plugged][p] = Append(playlist[plugged][p], id)
           /\ \A q \in Playlists : q # p => playlist'[plugged][q] = playlist[plugged][q]
           /\ \A d \in Devices : d # plugged => playlist'[d] = playlist[d]
  <1>1. plugged \in Devices /\ playlist \in [Devices -> [Playlists -> Seq(ObjectIds)]]
    BY DEF TypeOK
  <1>2. Append(playlist[plugged][p], id) \in Seq(ObjectIds)
    BY <1>1
  <1> QED
    BY <1>1, <1>2

LEMMA AddNextKeeps == ASSUME KeepingInv, AddNext PROVE KeepingInv'
  <1>1. PICK n \in adds :
              /\ current \in Playlists
              /\ mem[dev][Order[n]] \in ObjectIds
              /\ playlist' = IF Contains(playlist[plugged][current], mem[dev][Order[n]]) THEN playlist
                             ELSE [playlist EXCEPT ![plugged][current] = Append(@, mem[dev][Order[n]])]
              /\ adds' = adds \ {n}
    BY Adding
  <1>2. playlist' \in [Devices -> [Playlists -> Seq(ObjectIds)]]
    BY <1>1, Appended DEF KeepingInv, TypeOK
  <1>3. /\ phase = "lists" /\ current # None
        /\ UNCHANGED <<scene, plugged, shown, deleted, disk, phase, mem, dev, sel, todo, prepared, staged,
                       paths, batch, queue, lines, oids, done, lists, current, faults>>
    BY DEF AddNext
  <1> QED
    BY <1>1, <1>2, <1>3, ListStepKeeps DEF KeepingInv, TypeOK, AddsOwn

LEMMA PlaylistEndsKeeps == ASSUME KeepingInv, PlaylistEnds PROVE KeepingInv'
  <1>1. /\ phase = "lists" /\ current' = None /\ lists' = lists \ {current} /\ adds' = {}
        /\ Fault \/ UNCHANGED faults
        /\ UNCHANGED <<scene, plugged, shown, playlist, deleted, disk, phase, mem, dev, sel, todo,
                       prepared, staged, paths, batch, queue, lines, oids, done>>
    BY DEF PlaylistEnds, deviceVars
  <1>2. faults' \in 0 .. MaxFaults
    BY <1>1, FaultCounted DEF KeepingInv, TypeOK
  <1> QED
    BY <1>1, <1>2, ListStepKeeps DEF KeepingInv, TypeOK

LEMMA LoseStateKeeps == ASSUME KeepingInv, LoseState PROVE KeepingInv'
  <1>1. /\ phase = "off" /\ disk' = NoneRecorded /\ Fault
        /\ UNCHANGED <<scene, plugged, shown, playlist, deleted, phase, mem, dev, sel, todo, prepared,
                       staged, paths, batch, queue, lines, oids, done, lists, current, adds>>
    BY DEF LoseState, deviceVars, importVars
  <1>2. TypeOK'
    <2>1. disk' \in States
      BY <1>1 DEF NoneRecorded, States
    <2> QED
      BY <1>1, <2>1, FaultCounted DEF KeepingInv, TypeOK
  <1>3. FilesReady'
    BY <1>1, ReadyStays DEF KeepingInv, FilesReady
  <1>4. PreparedOnce' /\ NothingAhead' /\ RecordKept' /\ AddsOwn' /\ IdsUnique'
    BY <1>1 DEF KeepingInv, PreparedOnce, NothingAhead, RecordKept, AddsOwn, IdsUnique
  <1> QED
    BY <1>2, <1>3, <1>4 DEF KeepingInv

LEMMA PlugKeeps == ASSUME KeepingInv, NEW d \in Devices, Plug(d) PROVE KeepingInv'
  <1>1. /\ plugged' = d /\ Fault
        /\ UNCHANGED <<scene, shown, playlist, deleted, disk, phase, mem, dev, sel, todo, prepared,
                       staged, paths, batch, queue, lines, oids, done, lists, current, adds>>
    BY DEF Plug, importVars
  <1>2. faults' \in 0 .. MaxFaults
    BY <1>1, FaultCounted DEF KeepingInv
  <1>3. TypeOK'
    BY <1>1, <1>2 DEF KeepingInv, TypeOK
  <1>4. FilesReady'
    BY <1>1, ReadyStays DEF KeepingInv, FilesReady
  <1>5. PreparedOnce' /\ NothingAhead' /\ RecordKept' /\ AddsOwn' /\ IdsUnique'
    BY <1>1 DEF KeepingInv, PreparedOnce, NothingAhead, RecordKept, AddsOwn, IdsUnique
  <1> QED
    BY <1>3, <1>4, <1>5 DEF KeepingInv

\* A list without one of its ids is a list of ids.
LEMMA WithoutType ==
    ASSUME NEW S, NEW s \in Seq(S), NEW x
    PROVE  Device!Without(s, x) \in Seq(S)
  <1>1. CASE \E n \in 1 .. Len(s) : s[n] = x
    <2> DEFINE n == CHOOSE m \in 1 .. Len(s) : s[m] = x
    <2>1. n \in 1 .. Len(s)
      BY <1>1
    <2> HIDE DEF n
    <2>2. SubSeq(s, 1, n - 1) \in Seq(S) /\ SubSeq(s, n + 1, Len(s)) \in Seq(S)
      <3>1. /\ \A i \in 1 .. n - 1 : s[i] \in S
            /\ \A i \in n + 1 .. Len(s) : s[i] \in S
        BY <2>1
      <3> QED
        BY <2>1, <3>1, SubSeqProperties
    <2>3. SubSeq(s, 1, n - 1) \o SubSeq(s, n + 1, Len(s)) \in Seq(S)
      BY <2>2
    <2> QED
      BY <1>1, <2>3 DEF Device!Without, n
  <1>2. CASE ~ \E n \in 1 .. Len(s) : s[n] = x
    BY <1>2 DEF Device!Without
  <1> QED
    BY <1>1, <1>2

LEMMA UserDeletesKeeps == ASSUME KeepingInv, NEW e, UserDeletes(e) PROVE KeepingInv'
  <1>1. /\ phase = "off" /\ e \in shown[plugged] /\ Fault
        /\ shown' = [shown EXCEPT ![plugged] = @ \ {e}]
        /\ playlist' = [playlist EXCEPT ![plugged] =
                            [p \in Playlists |-> Device!Without(playlist[plugged][p], e.id)]]
        /\ deleted' = [deleted EXCEPT ![plugged] = @ \cup {e}]
        /\ UNCHANGED <<scene, plugged, disk, phase, mem, dev, sel, todo, prepared, staged, paths,
                       batch, queue, lines, oids, done, lists, current, adds>>
    BY DEF UserDeletes, importVars
  <1>2. plugged \in Devices /\ shown \in [Devices -> SUBSET Entries]
    BY DEF KeepingInv, TypeOK
  <1>3. /\ shown' \in [Devices -> SUBSET Entries]
        /\ deleted' \in [Devices -> SUBSET Entries]
        /\ \A d \in Devices : shown'[d] \subseteq shown[d]
    BY <1>1, <1>2 DEF KeepingInv, TypeOK
  <1>4. playlist' \in [Devices -> [Playlists -> Seq(ObjectIds)]]
    <2>1. \A p \in Playlists : Device!Without(playlist[plugged][p], e.id) \in Seq(ObjectIds)
      BY <1>2, WithoutType DEF KeepingInv, TypeOK
    <2> QED
      BY <1>1, <1>2, <2>1 DEF KeepingInv, TypeOK
  <1>5. faults' \in 0 .. MaxFaults
    BY <1>1, FaultCounted DEF KeepingInv
  <1>6. TypeOK'
    BY <1>1, <1>3, <1>4, <1>5 DEF KeepingInv, TypeOK
  <1>7. FilesReady'
    BY <1>1, ReadyStays DEF KeepingInv, FilesReady
  <1>8. PreparedOnce' /\ NothingAhead' /\ RecordKept' /\ AddsOwn' /\ IdsUnique'
    BY <1>1, <1>3 DEF KeepingInv, PreparedOnce, NothingAhead, RecordKept, AddsOwn, IdsUnique
  <1> QED
    BY <1>6, <1>7, <1>8 DEF KeepingInv

LEMMA NextKeeps == ASSUME KeepingInv, Next PROVE KeepingInv'
  <1>1. CASE RunStep
    BY <1>1, BeginKeeps, CollectKeeps, PrepareKeeps, EndsKeep, UploadKeeps, BeginBatchKeeps,
       ImportNextKeeps, BatchFailsKeeps, BatchEndsKeeps, RetryNextKeeps, RetryEndsKeeps,
       RecordKeeps, SaveKeeps, ClearPlaylistKeeps, PlaylistUntouchedKeeps, AddNextKeeps,
       PlaylistEndsKeeps DEF RunStep
  <1>2. CASE Outside
    BY <1>2, EndsKeep, LoseStateKeeps, PlugKeeps, UserDeletesKeeps DEF Outside
  <1> QED
    BY <1>1, <1>2 DEF Next

-----------------------------------------------------------------------------
(* Each step keeps TruthInv                                                *)

\* The ids a device gave are remembered: no step takes one back.
Remembered ==
    /\ UNCHANGED scene
    /\ \A d \in Devices, p \in Paths : Held[d][p] \subseteq Held'[d][p]

LEMMA MoreIsRemembered ==
    ASSUME UNCHANGED scene,
           \A d \in Devices : shown[d] \cup deleted[d] \subseteq shown'[d] \cup deleted'[d]
    PROVE  Remembered
  <1> SUFFICES ASSUME NEW d \in Devices, NEW p \in Paths, NEW id \in Held[d][p]
               PROVE  id \in Held'[d][p]
    BY DEF Remembered
  <1>1. id \in ObjectIds /\ \E k \in StagedKeys(p) : [key |-> k, id |-> id] \in shown[d] \cup deleted[d]
    BY DEF Held, Has
  <1>2. \E k \in StagedKeys(p) : [key |-> k, id |-> id] \in shown'[d] \cup deleted'[d]
    BY <1>1
  <1>3. StagedKeys(p)' = StagedKeys(p)
    BY DEF StagedKeys, Path
  <1> QED
    BY <1>1, <1>2, <1>3 DEF Held, Has

LEMMA GrownIsRemembered ==
    ASSUME Grown, UNCHANGED <<scene, deleted>>
    PROVE  Remembered
  BY MoreIsRemembered DEF Grown

LEMMA QuietIsRemembered ==
    ASSUME UNCHANGED <<scene, shown, deleted>>
    PROVE  Remembered
  BY MoreIsRemembered

\* What may be read for a file, and what for the members of a playlist, only grows.
LEMMA LentStays ==
    ASSUME TypeOK, Remembered
    PROVE  /\ \A d \in Devices, p \in Paths : Lent[d][p] \subseteq Lent'[d][p]
           /\ \A d \in Devices, l \in Playlists : Owned[d][l] \subseteq Owned'[d][l]
  <1>1. \A d \in Devices, p \in Paths : Lent[d][p] \subseteq Lent'[d][p]
    <2> SUFFICES ASSUME NEW d \in Devices, NEW p \in Paths PROVE Lent[d][p] \subseteq Lent'[d][p]
      OBVIOUS
    <2>1. \A q \in Mentions[p] : Held[d][q] \subseteq Held'[d][q]
      BY OutputAssumption DEF Remembered
    <2> QED
      BY <2>1 DEF Lent
  <1>2. \A d \in Devices, l \in Playlists : Owned[d][l] \subseteq Owned'[d][l]
    <2> SUFFICES ASSUME NEW d \in Devices, NEW l \in Playlists PROVE Owned[d][l] \subseteq Owned'[d][l]
      OBVIOUS
    <2>1. Path' = Path
      BY DEF Remembered, Path
    <2>2. \A t \in Member[l] : Lent[d][Path[t]] \subseteq Lent'[d][Path'[t]]
      BY <1>1, <2>1, Named, SelectionAssumption
    <2> QED
      BY <2>2 DEF Owned
  <1> QED
    BY <1>1, <1>2

LEMMA LentIsGiven ==
    ASSUME NEW d \in Devices, NEW p \in Paths
    PROVE  Lent[d][p] = Given(d, p)
  <1>1. \A q \in Mentions[p] : q \in Paths
    BY OutputAssumption
  <1>2. \A q \in Mentions[p] : Held[d][q] = {id \in ObjectIds : Has(d, q, id)}
    BY <1>1 DEF Held
  <1>3. Lent[d][p] = UNION {Held[d][q] : q \in Mentions[p]}
    BY DEF Lent
  <1>4. \A id : id \in Lent[d][p] <=> \E q \in Mentions[p] : id \in Held[d][q]
    BY <1>3
  <1>5. \A id : id \in Given(d, p) <=> id \in ObjectIds /\ \E q \in Mentions[p] : Has(d, q, id)
    BY DEF Given
  <1>6. \A id : id \in Lent[d][p] <=> id \in Given(d, p)
    BY <1>2, <1>4, <1>5
  <1> QED
    BY <1>6

\* An import makes the device give an id for the file.
LEMMA ImportIsHeld ==
    ASSUME KeepingInv, NEW p \in Ready, NEW id \in ObjectIds, Imports(p, id), UNCHANGED scene
    PROVE  id \in Held'[plugged][p]
  <1>1. [key |-> staged[p].key, id |-> id] \in shown'[plugged]
    BY ImportGrows
  <1>2. staged[p].key \in StagedKeys(p)' /\ p \in Paths /\ plugged \in Devices
    BY DEF Ready, StagedKeys, Path, KeepingInv, TypeOK
  <1> QED
    BY <1>1, <1>2 DEF Held, Has

\* What was read from the output stays so.
LEMMA OutputStays ==
    ASSUME TypeOK, Remembered, OutputTrue, UNCHANGED plugged
    PROVE  /\ \A n \in 1 .. Len(lines) : lines[n].id \in Held'[plugged'][lines[n].path]
           /\ \A p \in Paths : oids[p] # NoId => oids[p] \in Lent'[plugged'][p]
           /\ \A p \in done : Held'[plugged'][p] # {}
  <1>1. plugged \in Devices /\ done \subseteq Paths
    BY DEF TypeOK
  <1>2. \A n \in 1 .. Len(lines) : lines[n].path \in Paths
    <2>1. lines \in Seq([path: Paths, id: ObjectIds])
      BY DEF TypeOK
    <2>2. \A n \in 1 .. Len(lines) : lines[n] \in [path: Paths, id: ObjectIds]
      BY <2>1, ElementOfSeq
    <2> QED
      BY <2>2
  <1>3. \A p \in Paths : Held[plugged][p] \subseteq Held'[plugged][p]
    BY <1>1 DEF Remembered
  <1>4. \A p \in Paths : Lent[plugged][p] \subseteq Lent'[plugged][p]
    BY <1>1, LentStays
  <1> QED
    BY <1>1, <1>2, <1>3, <1>4 DEF OutputTrue

\* Before the files are sent nothing was read from an output.
LEMMA NothingRead ==
    ASSUME lines' = <<>>, oids' = [p \in Paths |-> NoId], done' = {}
    PROVE  OutputTrue'
  BY DEF OutputTrue

\* What is true of a record stays true of it, wherever it is kept.
LEMMA RecordStays ==
    ASSUME TypeOK, Remembered, NEW record, RecordTrue(record)
    PROVE  \A d \in Devices, t \in Tracks : record[d][t] # Absent =>
               Held'[d][Path'[t]] # {} /\ record[d][t] \in {NoId} \cup Lent'[d][Path'[t]]
  <1>1. Path' = Path
    BY DEF Remembered, Path
  <1>2. \A d \in Devices, p \in Paths :
            Held[d][p] \subseteq Held'[d][p] /\ Lent[d][p] \subseteq Lent'[d][p]
    BY LentStays DEF Remembered
  <1>3. \A t \in Tracks : Path[t] \in Paths
    BY Named
  <1> QED
    BY <1>1, <1>2, <1>3 DEF RecordTrue

LEMMA ListsStay ==
    ASSUME TypeOK, Remembered, PlaylistsTrue
    PROVE  \A d \in Devices, l \in Playlists : playlist[d][l] \in Seq(Owned'[d][l])
  <1> SUFFICES ASSUME NEW d \in Devices, NEW l \in Playlists
               PROVE  playlist[d][l] \in Seq(Owned'[d][l])
    OBVIOUS
  <1>1. playlist[d][l] \in Seq(Owned[d][l]) /\ Owned[d][l] \subseteq Owned'[d][l]
    BY LentStays DEF PlaylistsTrue
  <1> HIDE DEF Owned
  <1> QED
    BY <1>1

\* A step may bring what is true to another place: what is kept in memory or in the
\* file afterwards was in one of them, or nothing is.
LEMMA SoundStays ==
    ASSUME TypeOK, Remembered, RecordsSound,
           disk' \in {disk, mem, NoneRecorded}, mem' \in {disk, mem, NoneRecorded},
           UNCHANGED playlist
    PROVE  RecordsSound'
  <1>1. \A d \in Devices, t \in Tracks : NoneRecorded[d][t] = Absent
    BY DEF NoneRecorded
  <1>2. ASSUME NEW r \in {disk, mem, NoneRecorded}
        PROVE  \A d \in Devices, t \in Tracks : r[d][t] # Absent =>
                   Held'[d][Path'[t]] # {} /\ r[d][t] \in {NoId} \cup Lent'[d][Path'[t]]
    <2>1. CASE r = disk
      BY <2>1, RecordStays DEF RecordsSound
    <2>2. CASE r = mem
      BY <2>2, RecordStays DEF RecordsSound
    <2>3. CASE r = NoneRecorded
      BY <1>1, <2>3
    <2> QED
      BY <2>1, <2>2, <2>3
  <1>3. RecordTrue(disk)' /\ RecordTrue(mem)'
    BY <1>2 DEF RecordTrue
  <1>4. PlaylistsTrue'
    BY ListsStay DEF RecordsSound, PlaylistsTrue
  <1> QED
    BY <1>3, <1>4 DEF RecordsSound

LEMMA InitTrue == Init => TruthInv
  <1> SUFFICES ASSUME Init PROVE TruthInv
    OBVIOUS
  <1>1. DevicePlugged /\ BatchAccounted /\ OutputTrue
    BY DEF Init, DevicePlugged, BatchAccounted, OutputTrue
  <1>2. RecordTrue(disk) /\ RecordTrue(mem)
    BY DEF Init, RecordTrue, NoneRecorded
  <1>3. PlaylistsTrue
    <2>1. \A d \in Devices, l \in Playlists : playlist[d][l] = <<>>
      BY DEF Init
    <2>2. \A S : <<>> \in Seq(S)
      OBVIOUS
    <2> QED
      BY <2>1, <2>2 DEF PlaylistsTrue
  <1> QED
    BY <1>1, <1>2, <1>3 DEF TruthInv, RecordsSound

\* A step that leaves what was read and what is kept as it is.
LEMMA QuietTrue ==
    ASSUME KeepingInv, TruthInv, Remembered, BatchAccounted',
           UNCHANGED <<plugged, playlist, disk, mem, dev, lines, oids, done>>,
           phase' # "off" => phase # "off"
    PROVE  TruthInv'
  <1>1. OutputTrue'
    BY OutputStays DEF OutputTrue, KeepingInv, TruthInv
  <1>2. RecordsSound'
    BY SoundStays DEF KeepingInv, TruthInv
  <1> QED
    BY <1>1, <1>2 DEF TruthInv, DevicePlugged

LEMMA StutterTrue == ASSUME KeepingInv, TruthInv, UNCHANGED vars PROVE TruthInv'
  <1>1. BatchAccounted' /\ Remembered
    BY QuietIsRemembered DEF TruthInv, BatchAccounted, vars
  <1> QED
    BY <1>1, QuietTrue DEF vars

\* The steps that only prepare, or only count.
LEMMA QuietStepTrue ==
    ASSUME KeepingInv, TruthInv,
           \/ Collect \/ Prepare \/ RetryEnds \/ PlaylistEnds
           \/ \E p \in Playlists : PlaylistUntouched(p)
    PROVE  TruthInv'
  <1>1. /\ UNCHANGED <<scene, plugged, shown, playlist, deleted, disk, mem, dev, lines, oids, done>>
        /\ phase # "off" /\ phase' # "import"
    BY Zenon DEF Collect, Prepare, RetryEnds, PlaylistEnds, PlaylistUntouched, deviceVars, importVars
  <1> QED
    BY <1>1, QuietIsRemembered, QuietTrue DEF BatchAccounted

LEMMA BeginTrue == ASSUME KeepingInv, TruthInv, Begin PROVE TruthInv'
  <1>1. /\ phase' = "collect" /\ mem' = disk /\ dev' = plugged
        /\ UNCHANGED <<scene, plugged, shown, playlist, deleted, disk, lines, oids, done>>
    BY DEF Begin, Serial, deviceVars, importVars
  <1>2. OutputTrue'
    BY <1>1, QuietIsRemembered, OutputStays DEF OutputTrue, KeepingInv, TruthInv
  <1>3. RecordsSound'
    BY <1>1, QuietIsRemembered, SoundStays DEF KeepingInv, TruthInv
  <1> QED
    BY <1>1, <1>2, <1>3 DEF TruthInv, DevicePlugged, BatchAccounted

LEMMA EndsTrue ==
    ASSUME KeepingInv, TruthInv, NothingPrepared \/ Finish \/ Interrupt
    PROVE  TruthInv'
  <1>1. End /\ UNCHANGED <<scene, plugged, playlist, deleted, disk>> /\ Grown
    BY EndsKeep
  <1>2. /\ phase' = "off" /\ mem' = NoneRecorded
        /\ lines' = <<>> /\ oids' = [p \in Paths |-> NoId] /\ done' = {}
    BY <1>1 DEF End, ClearLocals
  <1>3. RecordsSound'
    BY <1>1, <1>2, GrownIsRemembered, SoundStays DEF KeepingInv, TruthInv
  <1> QED
    BY <1>2, <1>3, NothingRead DEF TruthInv, DevicePlugged, BatchAccounted

LEMMA UploadTrue == ASSUME KeepingInv, TruthInv, Upload PROVE TruthInv'
  <1>1. /\ phase = "prepare" /\ phase' = "batches" /\ oids' = [p \in Paths |-> NoId]
        /\ UNCHANGED <<scene, plugged, shown, playlist, deleted, disk, mem, dev, lines, done>>
    BY DEF Upload, deviceVars
  <1>2. OutputTrue'
    BY <1>1, NothingRead DEF KeepingInv, NothingAhead
  <1>3. RecordsSound'
    BY <1>1, QuietIsRemembered, SoundStays DEF KeepingInv, TruthInv
  <1> QED
    BY <1>1, <1>2, <1>3 DEF TruthInv, DevicePlugged, BatchAccounted

LEMMA BeginBatchTrue == ASSUME KeepingInv, TruthInv, BeginBatch PROVE TruthInv'
  <1>1. /\ phase = "batches" /\ phase' = "import" /\ queue' = batch' /\ lines' = <<>>
        /\ UNCHANGED <<scene, plugged, shown, playlist, deleted, disk, mem, dev, oids, done>>
    BY DEF BeginBatch, deviceVars
  <1>2. OutputTrue'
    BY <1>1, QuietIsRemembered, OutputStays DEF OutputTrue, KeepingInv, TruthInv
  <1>3. RecordsSound'
    BY <1>1, QuietIsRemembered, SoundStays DEF KeepingInv, TruthInv
  <1>4. BatchAccounted'
    BY <1>1 DEF BatchAccounted
  <1> QED
    BY <1>1, <1>2, <1>3, <1>4 DEF TruthInv, DevicePlugged

\* The next file of a queue is the first of it, the others come after.
LEMMA HeadOrTail ==
    ASSUME NEW S, NEW s \in Seq(S), s # <<>>, NEW p, \E n \in 1 .. Len(s) : s[n] = p
    PROVE  p = Head(s) \/ \E n \in 1 .. Len(Tail(s)) : Tail(s)[n] = p
  <1>1. PICK n \in 1 .. Len(s) : s[n] = p
    OBVIOUS
  <1>2. Len(s) \in Nat /\ Len(Tail(s)) = Len(s) - 1
    BY HeadTailProperties
  <1>3. CASE n = 1
    BY <1>1, <1>3
  <1>4. CASE n # 1
    <2>1. n - 1 \in 1 .. Len(Tail(s)) /\ Tail(s)[n - 1] = p
      BY <1>1, <1>2, <1>4
    <2> QED
      BY <2>1
  <1> QED
    BY <1>3, <1>4

LEMMA ImportNextTrue == ASSUME KeepingInv, TruthInv, ImportNext PROVE TruthInv'
  <1> DEFINE p == Head(queue)
  <1>1. PICK id \in ObjectIds : Imports(p, id) /\ lines' = Append(lines, [path |-> p, id |-> id])
    BY DEF ImportNext
  <1>2. /\ phase = "import" /\ queue # <<>> /\ queue' = Tail(queue)
        /\ UNCHANGED <<scene, plugged, playlist, deleted, disk, phase, mem, dev, batch, oids, done>>
    BY DEF ImportNext
  <1> HIDE DEF p
  <1>3. p \in Ready /\ p \in Paths
    BY <1>2, HeadReady DEF p
  <1>4. Remembered /\ id \in Held'[plugged][p]
    BY <1>1, <1>2, <1>3, ImportGrows, GrownIsRemembered, ImportIsHeld
  <1>5. lines \in Seq([path: Paths, id: ObjectIds]) /\ queue \in Seq(Paths)
    BY DEF KeepingInv, TypeOK
  <1>6. /\ Len(lines') = Len(lines) + 1 /\ Len(lines) \in Nat
        /\ \A n \in 1 .. Len(lines) : lines'[n] = lines[n]
        /\ lines'[Len(lines) + 1] = [path |-> p, id |-> id]
    BY <1>1, <1>3, <1>5, AppendProperties
  <1>7. OutputTrue'
    <2>1. /\ \A n \in 1 .. Len(lines) : lines[n].id \in Held'[plugged'][lines[n].path]
          /\ \A q \in Paths : oids[q] # NoId => oids[q] \in Lent'[plugged'][q]
          /\ \A q \in done : Held'[plugged'][q] # {}
      BY <1>2, <1>4, OutputStays DEF KeepingInv, TruthInv
    <2>2. \A n \in 1 .. Len(lines') : n \in 1 .. Len(lines) \/ n = Len(lines) + 1
      BY <1>6
    <2>3. \A n \in 1 .. Len(lines') : lines'[n].id \in Held'[plugged'][lines'[n].path]
      BY <1>2, <1>4, <1>6, <2>1, <2>2
    <2> QED
      BY <1>2, <2>1, <2>3 DEF OutputTrue
  <1>8. BatchAccounted'
    <2> SUFFICES ASSUME NEW f \in Paths, \E n \in 1 .. Len(batch) : batch[n] = f
                 PROVE  \/ \E n \in 1 .. Len(lines') : lines'[n].path = f
                        \/ \E n \in 1 .. Len(queue') : queue'[n] = f
      BY <1>2 DEF BatchAccounted
    <2>1. CASE \E n \in 1 .. Len(lines) : lines[n].path = f
      BY <1>6, <2>1
    <2>2. CASE \E n \in 1 .. Len(queue) : queue[n] = f
      <3>1. CASE f = p
        <4>1. Len(lines') \in 1 .. Len(lines') /\ lines'[Len(lines')].path = f
          BY <1>6, <3>1
        <4> QED
          BY <4>1
      <3>2. CASE f # p
        <4>1. f = Head(queue) \/ \E n \in 1 .. Len(Tail(queue)) : Tail(queue)[n] = f
          BY <1>2, <1>5, <2>2, HeadOrTail
        <4> QED
          BY <1>2, <3>2, <4>1 DEF p
      <3> QED
        BY <3>1, <3>2
    <2>3. (\E n \in 1 .. Len(lines) : lines[n].path = f) \/ (\E n \in 1 .. Len(queue) : queue[n] = f)
      BY <1>2 DEF TruthInv, BatchAccounted
    <2> QED
      BY <2>1, <2>2, <2>3
  <1>9. RecordsSound'
    BY <1>2, <1>4, SoundStays DEF KeepingInv, TruthInv
  <1> QED
    BY <1>2, <1>7, <1>8, <1>9 DEF TruthInv, DevicePlugged

LEMMA BatchFailsTrue ==
    ASSUME KeepingInv, TruthInv, BatchFails \/ BatchTimesOut
    PROVE  TruthInv'
  <1>1. /\ phase = "import" /\ queue # <<>> /\ Reached /\ phase' \in {"retry", "batches"}
        /\ lines' = <<>>
        /\ UNCHANGED <<scene, plugged, playlist, deleted, disk, mem, dev, oids, done>>
    BY DEF BatchFails, BatchTimesOut
  <1>2. Remembered
    BY <1>1, ReachedGrows, GrownIsRemembered
  <1>3. OutputTrue'
    BY <1>1, <1>2, OutputStays DEF OutputTrue, KeepingInv, TruthInv
  <1>4. RecordsSound'
    BY <1>1, <1>2, SoundStays DEF KeepingInv, TruthInv
  <1> QED
    BY <1>1, <1>3, <1>4 DEF TruthInv, DevicePlugged, BatchAccounted

\* What is read for a file is about one whose line contains its name, and a file of the
\* batch has a line of its own.
LEMMA BatchEndsTrue == ASSUME KeepingInv, TruthInv, BatchEnds PROVE TruthInv'
  <1> DEFINE inBatch == {batch[n] : n \in 1 .. Len(batch)}
  <1>1. /\ phase = "import" /\ phase' = "batches" /\ queue = <<>> /\ lines' = <<>>
        /\ oids' = [p \in Paths |-> IF p \in inBatch /\ IdIn(lines, p) # NoId
                                    THEN IdIn(lines, p) ELSE oids[p]]
        /\ done' = done \cup {p \in inBatch : ~ReportsError(lines, p)}
        /\ UNCHANGED <<scene, plugged, shown, playlist, deleted, disk, mem, dev>>
    BY DEF BatchEnds, deviceVars
  <1>2. batch \in Seq(Paths) /\ TypeOK /\ Remembered /\ plugged \in Devices
    BY <1>1, QuietIsRemembered DEF KeepingInv, TypeOK
  <1>3. /\ \A n \in 1 .. Len(lines) : lines[n].id \in Held'[plugged'][lines[n].path]
        /\ \A p \in Paths : oids[p] # NoId => oids[p] \in Lent'[plugged'][p]
        /\ \A p \in done : Held'[plugged'][p] # {}
    BY <1>1, <1>2, OutputStays DEF TruthInv
  <1>4. \A p \in Paths : IdIn(lines, p) # NoId => IdIn(lines, p) \in Lent'[plugged'][p]
    <2> SUFFICES ASSUME NEW p \in Paths, IdIn(lines, p) # NoId
                 PROVE  IdIn(lines, p) \in Lent'[plugged'][p]
      OBVIOUS
    <2>1. PICK n \in 1 .. Len(lines) :
              lines[n].path \in Mentions[p] /\ IdIn(lines, p) = lines[n].id
      BY <1>2, IdRead
    <2>2. lines[n].id \in Held'[plugged'][lines[n].path] /\ plugged' \in Devices
      BY <1>1, <1>2, <1>3
    <2> QED
      BY <2>1, <2>2 DEF Lent
  <1>5. \A p \in inBatch : p \in Paths /\ Held'[plugged'][p] # {}
    <2>1. \A p \in inBatch : p \in Paths
      BY <1>2, ElementOfSeq
    <2>2. ~ \E n \in 1 .. Len(queue) : TRUE
      BY <1>1
    <2>3. \A p \in inBatch : \E n \in 1 .. Len(lines) : lines[n].path = p
      BY <1>1, <2>1, <2>2 DEF TruthInv, BatchAccounted
    <2> QED
      BY <1>3, <2>1, <2>3
  <1> HIDE DEF inBatch
  <1>6. OutputTrue'
    <2>1. \A p \in Paths : oids'[p] # NoId => oids'[p] \in Lent'[plugged'][p]
      BY <1>1, <1>3, <1>4
    <2>2. \A p \in done' : Held'[plugged'][p] # {}
      BY <1>1, <1>3, <1>5
    <2> QED
      BY <1>1, <2>1, <2>2 DEF OutputTrue
  <1>7. RecordsSound'
    BY <1>1, <1>2, SoundStays DEF TruthInv
  <1> QED
    BY <1>1, <1>6, <1>7 DEF TruthInv, DevicePlugged, BatchAccounted

LEMMA RetryNextTrue == ASSUME KeepingInv, TruthInv, RetryNext PROVE TruthInv'
  <1> DEFINE p == Head(queue)
  <1>1. /\ phase = "retry" /\ queue # <<>>
        /\ UNCHANGED <<scene, plugged, playlist, deleted, disk, phase, mem, dev, lines>>
        /\ \/ /\ \E id \in ObjectIds : Imports(p, id) /\ oids' = [oids EXCEPT ![p] = id]
              /\ done' = done \cup {p}
           \/ Reached /\ UNCHANGED <<oids, done>>
    BY DEF RetryNext
  <1> HIDE DEF p
  <1>2. p \in Ready /\ p \in Paths /\ plugged \in Devices
    BY <1>1, HeadReady DEF p, KeepingInv, TypeOK
  <1>3. BatchAccounted'
    BY <1>1 DEF BatchAccounted
  <1>4. CASE /\ \E id \in ObjectIds : Imports(p, id) /\ oids' = [oids EXCEPT ![p] = id]
             /\ done' = done \cup {p}
    <2>1. PICK id \in ObjectIds : Imports(p, id) /\ oids' = [oids EXCEPT ![p] = id]
      BY <1>4
    <2>2. Remembered /\ id \in Held'[plugged][p]
      BY <1>1, <1>2, <2>1, ImportGrows, GrownIsRemembered, ImportIsHeld
    <2>3. /\ oids'[p] = id
          /\ \A q \in Paths : q # p => oids'[q] = oids[q]
      BY <1>2, <2>1 DEF KeepingInv, TypeOK
    <2>4. /\ \A n \in 1 .. Len(lines) : lines[n].id \in Held'[plugged'][lines[n].path]
          /\ \A q \in Paths : oids[q] # NoId => oids[q] \in Lent'[plugged'][q]
          /\ \A q \in done : Held'[plugged'][q] # {}
      BY <1>1, <2>2, OutputStays DEF KeepingInv, TruthInv
    <2>5. Held'[plugged][p] \subseteq Lent'[plugged][p]
      BY <1>2, OutputAssumption DEF Lent
    <2>6. OutputTrue'
      BY <1>1, <1>2, <1>4, <2>2, <2>3, <2>4, <2>5 DEF OutputTrue
    <2>7. RecordsSound'
      BY <1>1, <2>2, SoundStays DEF KeepingInv, TruthInv
    <2> QED
      BY <1>1, <1>3, <2>6, <2>7 DEF TruthInv, DevicePlugged
  <1>5. CASE Reached /\ UNCHANGED <<oids, done>>
    <2>1. Remembered
      BY <1>1, <1>5, ReachedGrows, GrownIsRemembered
    <2> QED
      BY <1>1, <1>3, <1>5, <2>1, QuietTrue
  <1> QED
    BY <1>1, <1>4, <1>5

\* A track is recorded when its file is done, under the id that was read for it.
LEMMA RecordIsTrue == ASSUME KeepingInv, TruthInv, Record PROVE TruthInv'
  <1> DEFINE ts == {t \in ByPath : Path[t] \in done}
  <1>1. /\ phase = "batches" /\ phase' = "save"
        /\ mem' = [mem EXCEPT ![dev] = [t \in Tracks |-> IF t \in ts THEN Recorded(t) ELSE mem[dev][t]]]
        /\ UNCHANGED <<scene, plugged, shown, playlist, deleted, disk, dev, lines, oids, done>>
    BY DEF Record, deviceVars, importVars
  <1>2. dev \in Devices /\ dev = plugged /\ Remembered
    BY <1>1, QuietIsRemembered DEF KeepingInv, RecordKept, TruthInv, DevicePlugged
  <1>3. /\ \A d \in Devices : d # dev => mem'[d] = mem[d]
        /\ \A t \in Tracks : mem'[dev][t] = IF t \in ts THEN Recorded(t) ELSE mem[dev][t]
    BY <1>1, <1>2 DEF KeepingInv, TypeOK, States
  <1>4. OutputTrue'
    BY <1>1, <1>2, OutputStays DEF OutputTrue, KeepingInv, TruthInv
  <1>5. RecordTrue(disk)' /\ PlaylistsTrue'
    BY <1>1, <1>2, RecordStays, ListsStay
    DEF KeepingInv, TruthInv, RecordsSound, RecordTrue, PlaylistsTrue
  <1>6. \A t \in ts : Held[dev][Path[t]] # {} /\ Recorded(t) \in {NoId} \cup Lent[dev][Path[t]]
    <2> SUFFICES ASSUME NEW t \in ts
                 PROVE  Held[dev][Path[t]] # {} /\ Recorded(t) \in {NoId} \cup Lent[dev][Path[t]]
      OBVIOUS
    <2>1. t \in Tracks /\ Path[t] \in done /\ Path[t] \in Paths
      BY Named DEF ByPath, KeepingInv
    <2>2. Held[dev][Path[t]] # {}
      BY <1>2, <2>1 DEF TruthInv, OutputTrue
    <2>3. oids[Path[t]] # NoId => oids[Path[t]] \in Lent[dev][Path[t]]
      BY <1>2, <2>1 DEF TruthInv, OutputTrue
    <2>4. mem[dev][t] # Absent => mem[dev][t] \in {NoId} \cup Lent[dev][Path[t]]
      BY <1>2, <2>1 DEF TruthInv, RecordsSound, RecordTrue
    <2> QED
      BY <2>2, <2>3, <2>4 DEF Recorded
  <1>7. RecordTrue(mem')
    <2> SUFFICES ASSUME NEW d \in Devices, NEW t \in Tracks, mem'[d][t] # Absent
                 PROVE  Held[d][Path[t]] # {} /\ mem'[d][t] \in {NoId} \cup Lent[d][Path[t]]
      BY DEF RecordTrue
    <2>1. CASE d = dev /\ t \in ts
      BY <1>3, <1>6, <2>1
    <2>2. CASE ~(d = dev /\ t \in ts)
      <3>1. mem'[d][t] = mem[d][t]
        BY <1>3, <2>2
      <3> QED
        BY <3>1 DEF TruthInv, RecordsSound, RecordTrue
    <2> QED
      BY <2>1, <2>2
  <1>8. RecordTrue(mem)'
    BY <1>2, <1>7, RecordStays DEF KeepingInv, RecordTrue
  <1> QED
    BY <1>1, <1>2, <1>4, <1>5, <1>8 DEF TruthInv, DevicePlugged, BatchAccounted, RecordsSound

LEMMA SaveTrue == ASSUME KeepingInv, TruthInv, Save \/ LoseState PROVE TruthInv'
  <1>1. /\ disk' \in {mem, NoneRecorded} /\ phase' \in {"lists", "off"}
        /\ phase' # "off" => phase # "off"
        /\ UNCHANGED <<scene, plugged, shown, playlist, deleted, mem, dev, lines, oids, done>>
    BY DEF Save, LoseState, deviceVars, importVars
  <1>2. OutputTrue'
    BY <1>1, QuietIsRemembered, OutputStays DEF OutputTrue, KeepingInv, TruthInv
  <1>3. RecordsSound'
    BY <1>1, QuietIsRemembered, SoundStays DEF KeepingInv, TruthInv
  <1> QED
    BY <1>1, <1>2, <1>3 DEF TruthInv, DevicePlugged, BatchAccounted

\* The steps on playlists leave everything else as it is.
LEMMA ListStepTrue ==
    ASSUME KeepingInv, TruthInv, phase = "lists",
           \A d \in Devices, l \in Playlists : playlist'[d][l] \in Seq(Owned[d][l]),
           UNCHANGED <<scene, plugged, shown, deleted, disk, phase, mem, dev, lines, oids, done>>
    PROVE  TruthInv'
  <1>1. Remembered /\ TypeOK
    BY QuietIsRemembered DEF KeepingInv
  <1>2. OutputTrue'
    BY <1>1, OutputStays DEF OutputTrue, TruthInv
  <1>3. RecordTrue(disk)' /\ RecordTrue(mem)'
    BY <1>1, RecordStays DEF TruthInv, RecordsSound, RecordTrue
  <1>4. PlaylistsTrue'
    <2>1. \A d \in Devices, l \in Playlists : Owned[d][l] \subseteq Owned'[d][l]
      BY <1>1, LentStays
    <2> SUFFICES ASSUME NEW d \in Devices, NEW l \in Playlists
                 PROVE  playlist'[d][l] \in Seq(Owned'[d][l])
      BY DEF PlaylistsTrue
    <2>2. playlist'[d][l] \in Seq(Owned[d][l]) /\ Owned[d][l] \subseteq Owned'[d][l]
      BY <2>1
    <2> QED
      BY <2>2
  <1> QED
    BY <1>2, <1>3, <1>4 DEF TruthInv, DevicePlugged, BatchAccounted, RecordsSound

LEMMA ClearPlaylistTrue ==
    ASSUME KeepingInv, TruthInv, NEW p \in Playlists, ClearPlaylist(p)
    PROVE  TruthInv'
  <1>1. /\ phase = "lists" /\ playlist' = [playlist EXCEPT ![plugged][p] = <<>>]
        /\ UNCHANGED <<scene, plugged, shown, deleted, disk, phase, mem, dev, lines, oids, done>>
    BY DEF ClearPlaylist
  <1>2. \A d \in Devices, l \in Playlists : playlist'[d][l] \in {playlist[d][l], <<>>}
    BY <1>1 DEF KeepingInv, TypeOK
  <1>3. \A d \in Devices, l \in Playlists : playlist'[d][l] \in Seq(Owned[d][l])
    <2>1. \A S : <<>> \in Seq(S)
      OBVIOUS
    <2> QED
      BY <1>2, <2>1 DEF TruthInv, RecordsSound, PlaylistsTrue
  <1> QED
    BY <1>1, <1>3, ListStepTrue

\* The id that is added is on record for a member, so the device gave it for one.
LEMMA AddNextTrue == ASSUME KeepingInv, TruthInv, AddNext PROVE TruthInv'
  <1>1. PICK n \in adds :
              /\ current \in Playlists /\ dev \in Devices
              /\ Order[n] \in Tracks /\ Order[n] \in Member[current]
              /\ mem[dev][Order[n]] \in ObjectIds
              /\ playlist' = IF Contains(playlist[plugged][current], mem[dev][Order[n]]) THEN playlist
                             ELSE [playlist EXCEPT ![plugged][current] = Append(@, mem[dev][Order[n]])]
              /\ adds' = adds \ {n}
    BY Adding
  <1> DEFINE i == mem[dev][Order[n]]
  <1>2. /\ phase = "lists"
        /\ UNCHANGED <<scene, plugged, shown, deleted, disk, phase, mem, dev, lines, oids, done>>
    BY DEF AddNext
  <1>3. i \in Owned[plugged][current]
    <2>1. dev = plugged
      BY <1>2 DEF TruthInv, DevicePlugged
    <2>2. i \in Lent[plugged][Path[Order[n]]]
      BY <1>1, <2>1, IdAssumption DEF TruthInv, RecordsSound, RecordTrue
    <2> QED
      BY <1>1, <2>1, <2>2 DEF Owned
  <1>4. PlaylistsTrue
    BY DEF TruthInv, RecordsSound
  <1>5. \A d \in Devices, l \in Playlists : playlist'[d][l] \in Seq(Owned[d][l])
    <2>1. CASE UNCHANGED playlist
      BY <1>4, <2>1 DEF PlaylistsTrue
    <2>2. CASE playlist' = [playlist EXCEPT ![plugged][current] = Append(@, i)]
      <3> HIDE DEF i
      <3>1. /\ playlist'[plugged][current] = Append(playlist[plugged][current], i)
            /\ \A q \in Playlists : q # current => playlist'[plugged][q] = playlist[plugged][q]
            /\ \A d \in Devices : d # plugged => playlist'[d] = playlist[d]
        BY <1>1, <2>2, Appended DEF KeepingInv, i
      <3>2. playlist[plugged][current] \in Seq(Owned[plugged][current])
        BY <1>1, <1>4 DEF PlaylistsTrue, KeepingInv, TypeOK
      <3>3. Append(playlist[plugged][current], i) \in Seq(Owned[plugged][current])
        <4>1. \A S : \A s \in Seq(S), x \in S : Append(s, x) \in Seq(S)
          OBVIOUS
        <4> QED
          BY ONLY <1>3, <3>2, <4>1
      <3> QED
        BY <1>4, <3>1, <3>3 DEF PlaylistsTrue
    <2> QED
      BY <1>1, <2>1, <2>2
  <1> QED
    BY <1>2, <1>5, ListStepTrue

LEMMA PlugTrue ==
    ASSUME ~SwapMidRun, KeepingInv, TruthInv, NEW d \in Devices, Plug(d)
    PROVE  TruthInv'
  <1>1. /\ phase = "off"
        /\ UNCHANGED <<scene, shown, playlist, deleted, disk, phase, mem, dev, lines, oids, done>>
    BY DEF Plug, importVars
  <1>2. OutputTrue'
    BY <1>1, NothingRead DEF KeepingInv, NothingAhead
  <1>3. RecordsSound'
    BY <1>1, QuietIsRemembered, SoundStays DEF KeepingInv, TruthInv
  <1> QED
    BY <1>1, <1>2, <1>3 DEF TruthInv, DevicePlugged, BatchAccounted

\* What the user deletes stays known, and leaves the playlists.
LEMMA UserDeletesTrue ==
    ASSUME KeepingInv, TruthInv, NEW e, UserDeletes(e)
    PROVE  TruthInv'
  <1>1. /\ phase = "off"
        /\ shown' = [shown EXCEPT ![plugged] = @ \ {e}]
        /\ deleted' = [deleted EXCEPT ![plugged] = @ \cup {e}]
        /\ playlist' = [playlist EXCEPT ![plugged] =
                            [p \in Playlists |-> Device!Without(playlist[plugged][p], e.id)]]
        /\ UNCHANGED <<scene, plugged, disk, phase, mem, dev, lines, oids, done>>
    BY DEF UserDeletes, importVars
  <1>2. plugged \in Devices /\ TypeOK
    BY DEF KeepingInv, TypeOK
  <1>3. Remembered
    <2>1. \A d \in Devices : shown[d] \cup deleted[d] \subseteq shown'[d] \cup deleted'[d]
      BY <1>1, <1>2 DEF TypeOK
    <2> QED
      BY <1>1, <2>1, MoreIsRemembered
  <1>4. OutputTrue'
    BY <1>1, NothingRead DEF KeepingInv, NothingAhead
  <1>5. RecordTrue(disk)' /\ RecordTrue(mem)'
    BY <1>1, <1>2, <1>3, RecordStays DEF TruthInv, RecordsSound, RecordTrue
  <1>6. PlaylistsTrue'
    <2>1. \A d \in Devices, l \in Playlists : playlist[d][l] \in Seq(Owned'[d][l])
      BY <1>2, <1>3, ListsStay DEF TruthInv, RecordsSound
    <2>2. \A d \in Devices, l \in Playlists :
              playlist'[d][l] \in {playlist[d][l], Device!Without(playlist[d][l], e.id)}
      BY <1>1, <1>2 DEF TypeOK
    <2>3. \A d \in Devices, l \in Playlists :
              Device!Without(playlist[d][l], e.id) \in Seq(Owned'[d][l])
      BY <2>1, WithoutType
    <2> QED
      BY <2>1, <2>2, <2>3 DEF PlaylistsTrue
  <1> QED
    BY <1>1, <1>4, <1>5, <1>6 DEF TruthInv, DevicePlugged, BatchAccounted, RecordsSound

LEMMA NextTrue == ASSUME ~SwapMidRun, KeepingInv, TruthInv, Next PROVE TruthInv'
  <1>1. CASE RunStep
    BY <1>1, QuietStepTrue, BeginTrue, EndsTrue, UploadTrue, BeginBatchTrue, ImportNextTrue,
       BatchFailsTrue, BatchEndsTrue, RetryNextTrue, RecordIsTrue, SaveTrue, ClearPlaylistTrue,
       AddNextTrue DEF RunStep
  <1>2. CASE Outside
    BY <1>2, EndsTrue, SaveTrue, PlugTrue, UserDeletesTrue DEF Outside
  <1> QED
    BY <1>1, <1>2 DEF Next

-----------------------------------------------------------------------------
(* The theorems                                                            *)

\* A run keeps its types, sends only files that are staged, and adds to playlists
\* only ids it has on record (sync.py:167-282, device.py:110-196).
THEOREM RunsAlwaysKeep == Spec => []KeepingInv
  <1>1. KeepingInv /\ [Next]_vars => KeepingInv'
    BY NextKeeps, StutterKeeps
  <1> QED
    BY <1>1, InitKeeps, PTL DEF Spec

\* The state file forgets nothing but by being lost (state.py:97-117: record).
THEOREM IdsAlwaysKept == Spec => IdsKept
  <1> DEFINE Kept == disk' # NoneRecorded =>
                        \A d \in Devices, t \in Tracks :
                            /\ disk[d][t] # Absent => disk'[d][t] # Absent
                            /\ disk[d][t] \in ObjectIds => disk'[d][t] \in ObjectIds
  <1>1. ASSUME KeepingInv, [Next]_vars PROVE [Kept]_vars
    <2>1. CASE Save
      BY <1>1, <2>1 DEF Save, KeepingInv, RecordKept
    <2>2. CASE LoseState
      BY <2>2 DEF LoseState
    <2>3. CASE UNCHANGED disk
      BY <2>3
    <2>4. CASE \E p \in Playlists : ClearPlaylist(p) \/ PlaylistUntouched(p)
      BY <2>3, <2>4 DEF ClearPlaylist, PlaylistUntouched
    <2>5. CASE \/ Begin \/ Collect \/ Prepare \/ NothingPrepared \/ Upload \/ BeginBatch \/ ImportNext
               \/ BatchFails \/ BatchTimesOut \/ BatchEnds \/ RetryNext \/ RetryEnds \/ Record
               \/ AddNext \/ PlaylistEnds \/ Finish
      <3>1. UNCHANGED disk
        BY <2>5 DEF Begin, Collect, Prepare, NothingPrepared, Upload, BeginBatch, ImportNext,
           BatchFails, BatchTimesOut, BatchEnds, RetryNext, RetryEnds, Record, AddNext,
           PlaylistEnds, Finish
      <3> QED
        BY <2>3, <3>1
    <2>6. CASE \/ Interrupt \/ \E d \in Devices : Plug(d)
               \/ \E e \in [key: Keys, id: ObjectIds] : UserDeletes(e)
      <3>1. UNCHANGED disk
        BY <2>6 DEF Interrupt, Plug, UserDeletes
      <3> QED
        BY <2>3, <3>1
    <2>7. CASE UNCHANGED vars
      BY <2>3, <2>7 DEF vars
    <2> QED
      BY <1>1, <2>1, <2>2, <2>4, <2>5, <2>6, <2>7 DEF Next, RunStep, Outside
  <1> QED
    BY <1>1, RunsAlwaysKeep, PTL DEF Spec, IdsKept

\* Unless devices are exchanged during a run, the state file and the playlists made from
\* it are true of the devices, whatever a user deletes, whatever shares a file or is
\* named alike (sync.py:214-282, device.py:110-196, state.py:97-117).
THEOREM RecordsAlwaysTrue == ~SwapMidRun => (Spec => []RecordsTrue)
  <1> SUFFICES ASSUME ~SwapMidRun PROVE Spec => []RecordsTrue
    OBVIOUS
  <1>1. KeepingInv /\ TruthInv /\ [Next]_vars => TruthInv'
    BY NextTrue, StutterTrue
  <1>2. KeepingInv /\ TruthInv => RecordsTrue
    <2> SUFFICES ASSUME KeepingInv, TruthInv PROVE RecordsTrue
      OBVIOUS
    <2>1. \A t \in Tracks : Path[t] \in Paths
      BY Named DEF KeepingInv
    <2>2. StateTruthful
      <3> SUFFICES ASSUME NEW d \in Devices, NEW t \in Tracks, disk[d][t] # Absent
                   PROVE  /\ \E id \in ObjectIds : Has(d, Path[t], id)
                          /\ disk[d][t] \in {NoId} \cup Given(d, Path[t])
        BY DEF StateTruthful
      <3>1. Held[d][Path[t]] # {} /\ disk[d][t] \in {NoId} \cup Lent[d][Path[t]]
        BY DEF TruthInv, RecordsSound, RecordTrue
      <3>2. \E id \in ObjectIds : Has(d, Path[t], id)
        BY <2>1, <3>1 DEF Held
      <3> QED
        BY <2>1, <3>1, <3>2, LentIsGiven
    <2>3. PlaylistsOwn
      <3> SUFFICES ASSUME NEW d \in Devices, NEW p \in Playlists,
                          NEW n \in 1 .. Len(playlist[d][p])
                   PROVE  \E t \in Member[p] : playlist[d][p][n] \in Given(d, Path[t])
        BY DEF PlaylistsOwn
      <3>1. playlist[d][p] \in Seq(Owned[d][p])
        BY DEF TruthInv, RecordsSound, PlaylistsTrue
      <3>2. playlist[d][p][n] \in Owned[d][p]
        BY <3>1, ElementOfSeq
      <3>3. \A t \in Member[p] : Lent[d][Path[t]] = Given(d, Path[t])
        BY <2>1, LentIsGiven, SelectionAssumption
      <3> QED
        BY <3>2, <3>3 DEF Owned
    <2> QED
      BY <2>2, <2>3 DEF RecordsTrue, KeepingInv
  <1> QED
    BY <1>1, <1>2, InitTrue, RunsAlwaysKeep, PTL DEF Spec
=============================================================================
