---------------------------- MODULE ZuneCliProofs ----------------------------
(* ZuneCli has the type it says it has, no album ever references a track that *)
(* was not sent completely, what zune-import prints is on the device, and no  *)
(* process takes anything from it: for all files, names, devices and modes.   *)
EXTENDS ZuneCli, SequenceTheorems, TLAPS

\* What a process believes of the file it imports has the right type.
LEMMA TagTypes ==
    ASSUME NEW f \in Files, Meta[f] # NoMeta
    PROVE  /\ ArtistOf(f) \in Names /\ AlbumOf(f) \in Names
           /\ KeyOf(f) \in AlbumKeys
           /\ Meta[f].title \in Names /\ Meta[f].index \in Nat
           /\ Meta[f].index % TrackModulus \in Nat
  <1>1. Meta[f] \in Tags
    BY MetaAssumption
  <1>2. ArtistOf(f) \in Names /\ AlbumOf(f) \in Names
    BY <1>1, NamesAssumption DEF Tags, ArtistOf, AlbumOf, Known
  <1>3. Meta[f].title \in Names /\ Meta[f].index \in Nat
    BY <1>1 DEF Tags
  <1>4. Meta[f].index % TrackModulus \in Nat
    BY <1>3, ModulusAssumption
  <1> QED
    BY <1>2, <1>3, <1>4 DEF KeyOf, AlbumKeys

\* The head of a command sequence is a command, the rest a command sequence.
LEMMA CommandTypes ==
    ASSUME cmds \in Seq(Commands), cmds # <<>>
    PROVE  Command \in Commands /\ Tail(cmds) \in Seq(Commands)
  BY DEF Command

LEMMA ImportCommand ==
    ASSUME NEW c \in Commands, c.op = "zune-import"
    PROVE  c.file \in Files
  BY DEF Commands

LEMMA ListCommand ==
    ASSUME NEW c \in Commands,
           c.op \in {"zune-playlist-clear", "zune-playlist-add-id", "zune-playlist-add"}
    PROVE  /\ c.list \in Playlists
           /\ c.op = "zune-playlist-add-id" => c.id \in ObjectIds
           /\ c.op = "zune-playlist-add" => c.file \in Files
  BY DEF Commands

\* An object put under a new handle keeps the device's type.
LEMMA CreateType ==
    ASSUME DeviceTypeOK, NEW id \in ObjectIds, NEW o \in Objects, Create(id, o)
    PROVE  DeviceTypeOK'
  BY DEF DeviceTypeOK, Create

LEMMA FolderType ==
    ASSUME NEW parent \in MaybeId \cup {Root}, NEW name \in Labels
    PROVE  Folder(parent, name) \in Objects
  BY DEF Folder, Object, Objects, MaybeId, Labels

LEMMA LocalsType == NoLocals \in Locals
  BY DEF NoLocals, Locals, MaybeId

LEMMA EmptyTypes ==
    /\ NoRoots \in [RootFolders -> MaybeId]
    /\ NoArtists \in [Names -> ArtistEntries]
    /\ NoAlbums \in [AlbumKeys -> AlbumEntries]
    /\ NoPlaylists \in [Playlists -> PlaylistEntries]
    /\ NothingListed \in [ObjectIds -> SUBSET MaybeId]
  <1>1. NoAlbum \in AlbumEntries
    BY DEF NoAlbum, CachedAlbum, AlbumEntries, MaybeId
  <1>2. NoPlaylist \in PlaylistEntries
    BY DEF NoPlaylist, PlaylistEntries, MaybeId
  <1>3. NoArtist \in ArtistEntries
    BY DEF NoArtist, ArtistEntries, MaybeId
  <1> QED
    BY <1>1, <1>2, <1>3 DEF NoRoots, NoArtists, NoAlbums, NoPlaylists, NothingListed,
       NotListed, MaybeId

LEMMA DropCachesType == ASSUME DropCaches PROVE CacheTypeOK'
  BY EmptyTypes DEF DropCaches, CacheTypeOK

LEMMA GotoType ==
    ASSUME ProcessTypeOK, NEW l \in PCs, Goto(l),
           loc' \in Locals
    PROVE  ProcessTypeOK'
  BY DEF ProcessTypeOK, Goto

LEMMA CommandDoneType ==
    ASSUME ProcessTypeOK, cmds # <<>>, NEW r \in SUBSET Results, CommandDone(r)
    PROVE  ProcessTypeOK'
  BY LocalsType, CommandTypes DEF ProcessTypeOK, CommandDone, PCs

\* A command that is given up leaves a process, or none, of the right type.
LEMMA AbandonType ==
    ASSUME ProcessTypeOK, CacheTypeOK, cmds # <<>>,
           NEW pl \in [Playlists -> PlaylistEntries], AbandonWith(pl)
    PROVE  ProcessTypeOK' /\ CacheTypeOK'
  <1>1. CASE \E how \in {"failed", "killed"} : Exit(how)
    <2>1. ProcessTypeOK'
      BY <1>1, LocalsType DEF ProcessTypeOK, Exit, PCs
    <2>2. CacheTypeOK'
      BY <1>1, DropCachesType DEF Exit
    <2> QED
      BY <2>1, <2>2
  <1>2. CASE CommandDone({}) /\ loaded /\ plists' = pl
               /\ UNCHANGED <<loaded, roots, artists, albums, snap, unread>>
    <2>1. ProcessTypeOK'
      BY <1>2, CommandDoneType
    <2>2. CacheTypeOK'
      BY <1>2 DEF CacheTypeOK
    <2> QED
      BY <2>1, <2>2
  <1>3. CASE CommandDone({}) /\ DropCaches
    BY <1>3, CommandDoneType, DropCachesType
  <1> QED
    BY <1>1, <1>2, <1>3 DEF AbandonWith

-----------------------------------------------------------------------------
(* What a process does to the device never takes anything away             *)

\* Albums stay albums and complete tracks stay complete tracks.
Grows ==
    /\ \A i \in OfFormat("Album") : obj'[i].format = "Album"
    /\ \A i \in ObjectIds : CompleteTrack(i) => CompleteTrack(i)'

LEMMA CreateFresh ==
    ASSUME DeviceTypeOK, NEW id \in ObjectIds, NEW o \in Objects, Create(id, o)
    PROVE  /\ DeviceTypeOK' /\ Grows
           /\ obj'[id] = o
           /\ \A i \in ObjectIds : obj[i].format # "None" => obj'[i] = obj[i]
           /\ refs' = refs
  <1>1. id \notin InUse
    BY IdAssumption DEF Create, InUse
  <1>2. \A i \in InUse : obj'[i] = obj[i]
    BY <1>1 DEF Create, DeviceTypeOK, InUse
  <1>3. obj'[id] = o /\ refs' = refs
    BY DEF Create, DeviceTypeOK
  <1> QED
    BY <1>2, <1>3, CreateType DEF Grows, OfFormat, CompleteTrack, InUse

LEMMA UnchangedGrows == ASSUME UNCHANGED obj PROVE Grows
  BY DEF Grows, OfFormat, CompleteTrack

LEMMA RefsStay == ASSUME DeviceTypeOK, RefsComplete, Grows, refs' = refs PROVE RefsComplete'
  BY DEF RefsComplete, Grows, OfFormat, CompleteTrack, DeviceTypeOK

LEMMA AlbumsStay ==
    ASSUME CacheTypeOK, CachesComplete, Grows, albums' = albums
    PROVE  CachesComplete'
  BY IdAssumption DEF CachesComplete, Grows, OfFormat, CacheTypeOK, AlbumEntries, MaybeId

LEMMA NoAlbumsComplete == ASSUME albums' = NoAlbums PROVE CachesComplete'
  BY DEF CachesComplete, NoAlbums, NoAlbum, CachedAlbum

\* An album that is added to the cache references nothing yet.
LEMMA AlbumAdded ==
    ASSUME CacheTypeOK, CachesComplete, Grows, NEW k, NEW id \in ObjectIds, NEW folder \in MaybeId,
           obj'[id].format = "Album", albums' = WithAlbum(k, id, folder)
    PROVE  CachesComplete' /\ albums' \in [AlbumKeys -> AlbumEntries]
  <1>1. CASE HasAlbum(k)
    BY <1>1, AlbumsStay DEF WithAlbum, CacheTypeOK
  <1>2. CASE ~HasAlbum(k)
    <2> DEFINE new == [id |-> id, folder |-> folder, refs |-> {}, tracks |-> {}, loaded |-> FALSE]
    <2>1. new = CachedAlbum(id, folder)
      BY DEF CachedAlbum
    <2>2. albums' = [albums EXCEPT ![k] = new]
      BY <1>2, <2>1 DEF WithAlbum
    <2>3. new \in AlbumEntries
      BY DEF AlbumEntries, MaybeId
    <2>4. \A j \in AlbumKeys : albums'[j] = albums[j] \/ albums'[j] = new
      BY <2>2 DEF CacheTypeOK
    <2>5. CachesComplete'
      <3> SUFFICES ASSUME NEW j \in AlbumKeys
                   PROVE  /\ albums'[j].id # NoId => obj'[albums'[j].id].format = "Album"
                          /\ \A t \in albums'[j].refs : CompleteTrack(t)'
        BY DEF CachesComplete
      <3>1. CASE albums'[j] = new
        BY <3>1
      <3>2. CASE albums'[j] = albums[j]
        BY <3>2, IdAssumption DEF CachesComplete, Grows, OfFormat, CacheTypeOK, AlbumEntries, MaybeId
      <3> QED
        BY <2>4, <3>1, <3>2
    <2> QED
      BY <2>2, <2>3, <2>5 DEF CacheTypeOK
  <1> QED
    BY <1>1, <1>2

\* The references LoadRefs adds to an album's cache are those of the device.
LEMMA RefsOfType ==
    ASSUME DeviceTypeOK, CacheTypeOK, RefsComplete, CachesComplete,
           NEW k \in AlbumKeys, HasAlbum(k)
    PROVE  /\ RefsOf(k) \in AlbumEntries
           /\ RefsOf(k).id = albums[k].id /\ albums[k].id \in ObjectIds
           /\ \A t \in RefsOf(k).refs : CompleteTrack(t)
  <1> DEFINE al == albums[k]
             ids == refs[al.id]
             more == {[title |-> obj[t].name, index |-> obj[t].index, id |-> t] : t \in ids}
  <1>1. al \in AlbumEntries /\ al.id \in ObjectIds
    BY DEF CacheTypeOK, HasAlbum, AlbumEntries, MaybeId
  <1>2. ids \subseteq ObjectIds
    BY <1>1 DEF DeviceTypeOK
  <1>3. more \subseteq TrackKeys
    <2>1. ASSUME NEW t \in ids
          PROVE  [title |-> obj[t].name, index |-> obj[t].index, id |-> t] \in TrackKeys
      <3>1. t \in ObjectIds /\ obj[t] \in Objects
        BY <1>2, <2>1 DEF DeviceTypeOK
      <3> HIDE DEF ids
      <3> QED
        BY <3>1 DEF Objects, TrackKeys
    <2> QED
      BY <2>1
  <1>4. \A t \in al.refs \cup ids : CompleteTrack(t)
    BY <1>1 DEF CachesComplete, RefsComplete, CompleteTrack
  <1>5. CASE al.loaded
    BY <1>1, <1>4, <1>5 DEF RefsOf
  <1>6. CASE ~al.loaded
    <2>2. RefsOf(k) = [id |-> al.id, folder |-> al.folder, loaded |-> TRUE,
                       refs |-> al.refs \cup ids, tracks |-> al.tracks \cup more]
      BY <1>6 DEF RefsOf
    <2>3. /\ al.refs \cup ids \in SUBSET ObjectIds
          /\ al.tracks \cup more \in SUBSET TrackKeys
          /\ al.folder \in MaybeId /\ al.id \in MaybeId
      BY <1>1, <1>2, <1>3 DEF AlbumEntries
    <2> HIDE DEF al, ids, more
    <2>4. RefsOf(k) \in AlbumEntries /\ RefsOf(k).id = al.id
            /\ RefsOf(k).refs = al.refs \cup ids
      BY <2>2, <2>3 DEF AlbumEntries
    <2> QED
      BY <1>1, <1>4, <2>4 DEF al
  <1> QED
    BY <1>5, <1>6

\* A command that is given up leaves everything in order.
LEMMA AbandonInv ==
    ASSUME RefsInv, cmds # <<>>, NEW pl \in [Playlists -> PlaylistEntries], AbandonWith(pl),
           DeviceTypeOK', RefsComplete', Grows
    PROVE  RefsInv'
  <1>1. ProcessTypeOK' /\ CacheTypeOK'
    BY AbandonType DEF RefsInv, TypeOK
  <1>2. \/ pc' = "off" /\ albums' = NoAlbums
        \/ pc' = "cmd" /\ albums' = NoAlbums
        \/ pc' = "cmd" /\ albums' = albums
    BY DEF AbandonWith, Exit, CommandDone, DropCaches
  <1>3. CachesComplete'
    BY <1>2, AlbumsStay, NoAlbumsComplete DEF RefsInv, TypeOK
  <1> QED
    BY <1>1, <1>2, <1>3 DEF RefsInv, TypeOK, NoProcessNoCaches, UnreadAreAlbums, SongSent,
       ImportUnderWay, ConstructorUnderWay

\* The parts of RefsInv about the device, after a step that only creates ...
LEMMA CreateStep ==
    ASSUME RefsInv, NEW id \in ObjectIds, NEW o \in Objects, Create(id, o)
    PROVE  /\ DeviceTypeOK' /\ RefsComplete' /\ Grows
           /\ obj'[id] = o
           /\ \A i \in ObjectIds : obj[i].format # "None" => obj'[i] = obj[i]
           /\ albums' = albums => CachesComplete'
  BY CreateFresh, RefsStay, AlbumsStay DEF RefsInv, TypeOK

\* ... and after one that leaves the device alone.
LEMMA QuietStep ==
    ASSUME RefsInv, UNCHANGED device
    PROVE  /\ DeviceTypeOK' /\ RefsComplete' /\ Grows
           /\ albums' = albums => CachesComplete'
  <1>1. DeviceTypeOK' /\ Grows
    BY UnchangedGrows DEF device, RefsInv, TypeOK, DeviceTypeOK
  <1> QED
    BY <1>1, RefsStay, AlbumsStay DEF device, RefsInv, TypeOK

-----------------------------------------------------------------------------
(* Every action keeps RefsInv: the constructor                             *)

LEMMA BeginInitInv == ASSUME RefsInv, BeginInit PROVE RefsInv'
  <1>1. \A n \in RootFolders : FoundRoot(n) \subseteq MaybeId
    BY DEF FoundRoot, FoldersNamed, FoldersIn, OfFormat, MaybeId
  <1>2. roots' \in [RootFolders -> MaybeId]
    BY <1>1 DEF BeginInit, RootFolders
  <1>3. ProcessTypeOK' /\ CacheTypeOK'
    BY <1>2 DEF RefsInv, TypeOK, ProcessTypeOK, CacheTypeOK, BeginInit, Goto, PCs
  <1>4. DeviceTypeOK' /\ RefsComplete' /\ CachesComplete'
    BY QuietStep DEF BeginInit
  <1> QED
    BY <1>3, <1>4 DEF RefsInv, TypeOK, BeginInit, Goto, NoProcessNoCaches, UnreadAreAlbums,
       SongSent, ImportUnderWay, ConstructorUnderWay

LEMMA CreateRootInv == ASSUME RefsInv, NEW n \in RootFolders, CreateRoot(n) PROVE RefsInv'
  <1> DEFINE Found(id) == /\ roots' = [roots EXCEPT ![n] = id]
                          /\ Goto("roots")
                          /\ UNCHANGED <<loc, loaded, artists, albums, plists, snap, unread>>
  <1>1. PICK id \in ObjectIds : Create(id, Folder(Root, n)) /\ (Found(id) \/ Abandon)
    BY DEF CreateRoot
  <1>2. Folder(Root, n) \in Objects
    BY FolderType, NamesAssumption DEF Labels
  <1>3. DeviceTypeOK' /\ RefsComplete' /\ Grows /\ (albums' = albums => CachesComplete')
    BY <1>1, <1>2, CreateStep
  <1>4. cmds # <<>> /\ pc = "roots"
    BY DEF CreateRoot, RefsInv, ConstructorUnderWay
  <1>5. CASE Found(id)
    <2>1. ProcessTypeOK' /\ CacheTypeOK'
      BY <1>5 DEF RefsInv, TypeOK, ProcessTypeOK, CacheTypeOK, Goto, PCs, MaybeId
    <2> QED
      BY <1>3, <1>4, <1>5, <2>1 DEF RefsInv, TypeOK, Goto, NoProcessNoCaches, UnreadAreAlbums,
         SongSent, ImportUnderWay, ConstructorUnderWay
  <1>6. CASE Abandon
    BY <1>3, <1>4, <1>6, AbandonInv DEF Abandon, RefsInv, TypeOK, CacheTypeOK
  <1> QED
    BY <1>1, <1>5, <1>6

LEMMA QueryArtistsInv == ASSUME RefsInv, QueryArtists PROVE RefsInv'
  <1>1. roots["Music"] # NoId
    BY DEF QueryArtists, MissingRoots, RootFolders
  <1>2. FoldersIn(roots["Music"]) \subseteq MaybeId
    BY DEF FoldersIn, OfFormat, MaybeId
  <1>3. ProcessTypeOK' /\ CacheTypeOK'
    BY <1>2 DEF RefsInv, TypeOK, ProcessTypeOK, CacheTypeOK, QueryArtists, Goto, PCs, OfFormat
  <1>4. DeviceTypeOK' /\ RefsComplete' /\ CachesComplete'
    BY QuietStep DEF QueryArtists
  <1> QED
    BY <1>1, <1>3, <1>4 DEF RefsInv, TypeOK, QueryArtists, Goto, NoProcessNoCaches,
       UnreadAreAlbums, SongSent, ImportUnderWay, ConstructorUnderWay

\* What a cached or fresh listing shows are object ids.
LEMMA ListedType ==
    ASSUME CacheTypeOK, NEW parent \in ObjectIds, NEW name
    PROVE  Listed(parent, name) \subseteq MaybeId
  BY DEF CacheTypeOK, Listed, FoldersIn, OfFormat, MaybeId

LEMMA WithArtistType ==
    ASSUME CacheTypeOK, NEW n, NEW id \in MaybeId, NEW folder \in MaybeId
    PROVE  WithArtist(n, id, folder) \in [Names -> ArtistEntries]
  BY DEF CacheTypeOK, WithArtist, ArtistEntries

LEMMA LoadArtistInv == ASSUME RefsInv, NEW id \in ObjectIds, LoadArtist(id) PROVE RefsInv'
  <1> DEFINE name == obj[id].name
             music == roots["Music"]
             Insert(folder) == /\ artists' = WithArtist(name, id, folder)
                               /\ unread' = unread \ {id}
                               /\ Goto("artists")
                               /\ UNCHANGED <<loc, loaded, roots, albums, plists, snap>>
  <1>1. pc = "artists" /\ cmds # <<>> /\ music \in ObjectIds /\ name \in Labels
    BY DEF LoadArtist, RefsInv, ConstructorUnderWay, TypeOK, CacheTypeOK, DeviceTypeOK,
       RootFolders, MaybeId, Objects
  <1>2. Folder(music, name) \in Objects
    BY <1>1, FolderType DEF MaybeId
  <1>3. ASSUME NEW folder \in MaybeId, Insert(folder), DeviceTypeOK', RefsComplete',
               albums' = albums => CachesComplete'
        PROVE  RefsInv'
    <2>1. ProcessTypeOK' /\ CacheTypeOK'
      BY <1>3, WithArtistType DEF RefsInv, TypeOK, ProcessTypeOK, CacheTypeOK, Goto, PCs, MaybeId
    <2> QED
      BY <1>1, <1>3, <2>1 DEF RefsInv, TypeOK, Goto, NoProcessNoCaches, UnreadAreAlbums,
         SongSent, ImportUnderWay, ConstructorUnderWay
  <1>4. CASE UNCHANGED device /\ \E folder \in Listed(music, name) : Insert(folder)
    <2>1. PICK folder \in Listed(music, name) : Insert(folder)
      BY <1>4
    <2>2. folder \in MaybeId
      BY <1>1, <2>1, ListedType DEF RefsInv, TypeOK
    <2> QED
      BY <1>3, <1>4, <2>1, <2>2, QuietStep
  <1>5. CASE \E folder \in ObjectIds :
                Create(folder, Folder(music, name)) /\ (Insert(folder) \/ Abandon)
    <2>1. PICK folder \in ObjectIds :
                Create(folder, Folder(music, name)) /\ (Insert(folder) \/ Abandon)
      BY <1>5
    <2>2. DeviceTypeOK' /\ RefsComplete' /\ Grows /\ (albums' = albums => CachesComplete')
      BY <1>2, <2>1, CreateStep
    <2>3. CASE Insert(folder)
      BY <1>3, <2>2, <2>3 DEF MaybeId
    <2>4. CASE Abandon
      BY <1>1, <2>2, <2>4, AbandonInv DEF Abandon, RefsInv, TypeOK, CacheTypeOK
    <2> QED
      BY <2>1, <2>3, <2>4
  <1> QED
    BY <1>4, <1>5 DEF LoadArtist

LEMMA QueryAlbumsInv == ASSUME RefsInv, QueryAlbums PROVE RefsInv'
  <1>1. ProcessTypeOK' /\ CacheTypeOK'
    BY DEF RefsInv, TypeOK, ProcessTypeOK, CacheTypeOK, QueryAlbums, Goto, PCs, OfFormat
  <1>2. DeviceTypeOK' /\ RefsComplete' /\ CachesComplete'
    BY QuietStep DEF QueryAlbums
  <1>3. unread' = OfFormat("Album")'
    BY DEF QueryAlbums, OfFormat, device
  <1> QED
    BY <1>1, <1>2, <1>3 DEF RefsInv, TypeOK, QueryAlbums, Goto, NoProcessNoCaches,
       UnreadAreAlbums, SongSent, ImportUnderWay, ConstructorUnderWay

\* The name an artist is looked up by.
LEMMA KnownType ==
    ASSUME NEW name \in Names \cup {""}
    PROVE  Known(name, "UknownArtist") \in Names
  BY NamesAssumption DEF Known

LEMMA LoadAlbumArtistInv ==
    ASSUME RefsInv, NEW id \in ObjectIds, LoadAlbumArtist(id)
    PROVE  RefsInv'
  <1>1. Known(obj[id].artist, "UknownArtist") \in Names
    BY KnownType DEF RefsInv, TypeOK, DeviceTypeOK, Objects
  <1>2. ProcessTypeOK' /\ CacheTypeOK'
    BY <1>1 DEF RefsInv, TypeOK, ProcessTypeOK, CacheTypeOK, LoadAlbumArtist, Goto, PCs,
       Locals, MaybeId, caches
  <1>3. DeviceTypeOK' /\ RefsComplete' /\ CachesComplete'
    BY QuietStep DEF LoadAlbumArtist, caches
  <1> QED
    BY <1>2, <1>3 DEF RefsInv, TypeOK, LoadAlbumArtist, NextAlbum, Goto, NoProcessNoCaches,
       UnreadAreAlbums, SongSent, ImportUnderWay, ConstructorUnderWay, OfFormat, caches, device

LEMMA LoadAlbumInv == ASSUME RefsInv, NEW id \in ObjectIds, LoadAlbum(id) PROVE RefsInv'
  <1> DEFINE name == obj[id].name
             artist == Known(obj[id].artist, "UknownArtist")
             parent == artists[artist].folder
             Insert(folder) == /\ albums' = WithAlbum(<<artist, name>>, id, folder)
                               /\ unread' = unread \ {id}
                               /\ snap' = IF snap[parent] # NotListed THEN snap
                                          ELSE [snap EXCEPT ![parent] = FoldersIn(parent)]
                               /\ loc' = NoLocals
                               /\ Goto("albums")
                               /\ UNCHANGED <<loaded, roots, artists, plists>>
  <1>1. artist \in Names
    BY KnownType DEF RefsInv, TypeOK, DeviceTypeOK, Objects
  <1>2. pc = "albums" /\ cmds # <<>> /\ obj[id].format = "Album"
    BY DEF LoadAlbum, NextAlbum, RefsInv, ConstructorUnderWay, UnreadAreAlbums, OfFormat
  <1>3. parent \in ObjectIds /\ name \in Labels
    BY <1>1 DEF LoadAlbum, HasArtist, RefsInv, TypeOK, CacheTypeOK, ArtistEntries, MaybeId,
       DeviceTypeOK, Objects
  <1>4. Folder(parent, name) \in Objects
    BY <1>3, FolderType DEF MaybeId
  <1>5. ASSUME NEW folder \in MaybeId, Insert(folder), DeviceTypeOK', RefsComplete', Grows
        PROVE  RefsInv'
    <2>1. obj'[id].format = "Album"
      BY <1>2, <1>5 DEF Grows, OfFormat
    <2>2. CachesComplete' /\ albums' \in [AlbumKeys -> AlbumEntries]
      BY <1>5, <2>1, AlbumAdded DEF RefsInv, TypeOK
    <2>3. FoldersIn(parent) \subseteq MaybeId
      BY DEF FoldersIn, OfFormat, MaybeId
    <2>4. snap' \in [ObjectIds -> SUBSET MaybeId]
      BY <1>5, <2>3 DEF RefsInv, TypeOK, CacheTypeOK
    <2>5. ProcessTypeOK' /\ CacheTypeOK'
      BY <1>5, <2>2, <2>4, LocalsType DEF RefsInv, TypeOK, ProcessTypeOK, CacheTypeOK, Goto, PCs
    <2>6. unread' \subseteq OfFormat("Album")'
      BY <1>2, <1>5 DEF RefsInv, UnreadAreAlbums, OfFormat, Grows
    <2> QED
      BY <1>2, <1>5, <2>2, <2>5, <2>6 DEF RefsInv, TypeOK, Goto, NoProcessNoCaches,
         UnreadAreAlbums, SongSent, ImportUnderWay, ConstructorUnderWay
  <1>6. CASE UNCHANGED device /\ \E folder \in Listed(parent, name) : Insert(folder)
    <2>1. PICK folder \in Listed(parent, name) : Insert(folder)
      BY <1>6
    <2>2. folder \in MaybeId
      BY <1>3, <2>1, ListedType DEF RefsInv, TypeOK
    <2>3. DeviceTypeOK' /\ RefsComplete' /\ Grows
      BY <1>6, QuietStep
    <2> QED
      BY <1>5, <2>1, <2>2, <2>3
  <1>7. CASE \E folder \in ObjectIds :
                Create(folder, Folder(parent, name)) /\ (Insert(folder) \/ Abandon)
    <2>1. PICK folder \in ObjectIds :
                Create(folder, Folder(parent, name)) /\ (Insert(folder) \/ Abandon)
      BY <1>7
    <2>2. DeviceTypeOK' /\ RefsComplete' /\ Grows
      BY <1>4, <2>1, CreateStep
    <2>3. CASE Insert(folder)
      BY <1>5, <2>2, <2>3 DEF MaybeId
    <2>4. CASE Abandon
      BY <1>2, <2>2, <2>4, AbandonInv DEF Abandon, RefsInv, TypeOK, CacheTypeOK
    <2> QED
      BY <2>1, <2>3, <2>4
  <1> QED
    BY <1>6, <1>7 DEF LoadAlbum

\* Playlists are read, or not; the device stays as it is.
LEMMA LoadPlaylistsQuiet ==
    ASSUME RefsInv, LoadPlaylists
    PROVE  /\ UNCHANGED <<obj, refs, lists>> /\ DeviceTypeOK' /\ unnamed \subseteq unnamed'
  <1>1. \A i \in OfFormat("Playlist") : obj[i].name \in Labels
    BY DEF OfFormat, RefsInv, TypeOK, DeviceTypeOK, Objects
  <1>2. PICK named \in SUBSET OfFormat("Playlist") :
            unnamed' = unnamed \cup {obj[i].name : i \in OfFormat("Playlist") \ named}
    BY DEF LoadPlaylists
  <1>3. unnamed' \subseteq Labels /\ unnamed \subseteq unnamed'
    BY <1>1, <1>2 DEF RefsInv, TypeOK, DeviceTypeOK
  <1> QED
    BY <1>3 DEF LoadPlaylists, RefsInv, TypeOK, DeviceTypeOK

LEMMA LoadPlaylistsInv == ASSUME RefsInv, LoadPlaylists PROVE RefsInv'
  <1>1. PICK named \in SUBSET OfFormat("Playlist") :
            plists' \in [Playlists ->
                {NoPlaylist} \cup {CachedPlaylist(i, whole) : i \in named, whole \in BOOLEAN}]
    BY DEF LoadPlaylists
  <1>2. named \subseteq ObjectIds
    BY DEF OfFormat
  <1>3. plists' \in [Playlists -> PlaylistEntries]
    <2>1. NoPlaylist \in PlaylistEntries
      BY DEF NoPlaylist, PlaylistEntries, MaybeId
    <2>2. ASSUME NEW i \in named, NEW whole \in BOOLEAN
          PROVE  CachedPlaylist(i, whole) \in PlaylistEntries
      <3>1. lists[i] \in Seq(ObjectIds) /\ i \in ObjectIds
        BY <1>2, <2>2 DEF RefsInv, TypeOK, DeviceTypeOK
      <3>2. (IF whole THEN lists[i] ELSE <<>>) \in Seq(ObjectIds)
        BY <3>1
      <3> QED
        BY <3>1, <3>2 DEF PlaylistEntries, MaybeId, CachedPlaylist
    <2>3. {NoPlaylist} \cup {CachedPlaylist(i, whole) : i \in named, whole \in BOOLEAN}
              \subseteq PlaylistEntries
      BY <2>1, <2>2
    <2> QED
      BY <1>1, <2>3
  <1>4. ProcessTypeOK' /\ CacheTypeOK'
    BY <1>3, EmptyTypes DEF RefsInv, TypeOK, ProcessTypeOK, CacheTypeOK, LoadPlaylists, Goto, PCs
  <1>5. UNCHANGED <<obj, refs, lists>> /\ DeviceTypeOK' /\ Grows /\ albums' = albums
    BY LoadPlaylistsQuiet, UnchangedGrows DEF LoadPlaylists
  <1>6. RefsComplete' /\ CachesComplete'
    BY <1>5, RefsStay, AlbumsStay DEF RefsInv, TypeOK
  <1> QED
    BY <1>4, <1>5, <1>6 DEF RefsInv, TypeOK, LoadPlaylists, Goto, NoProcessNoCaches, UnreadAreAlbums,
       SongSent, ImportUnderWay, ConstructorUnderWay

-----------------------------------------------------------------------------
(* Every action keeps RefsInv: CreateArtist                                *)

LEMMA CreatedArtistInv ==
    ASSUME RefsInv, pc \in {"artistFolder", "artistObject"}, NEW id \in MaybeId,
           NEW folder \in MaybeId, CreatedArtist(id, folder),
           DeviceTypeOK', RefsComplete', Grows, CachesComplete'
    PROVE  RefsInv'
  <1>1. ProcessTypeOK' /\ CacheTypeOK'
    <2>1. loc' \in Locals
      BY DEF CreatedArtist, NoLocals, Locals, RefsInv, TypeOK, ProcessTypeOK, MaybeId
    <2> QED
      BY <2>1, WithArtistType DEF CreatedArtist, RefsInv, TypeOK, ProcessTypeOK, CacheTypeOK,
         Goto, PCs
  <1>2. ~loaded => unread' \subseteq OfFormat("Album")'
    BY DEF CreatedArtist, RefsInv, UnreadAreAlbums, OfFormat, Grows
  <1> QED
    BY <1>1, <1>2 DEF CreatedArtist, RefsInv, TypeOK, Goto, NoProcessNoCaches, UnreadAreAlbums,
       SongSent, ImportUnderWay, ConstructorUnderWay

LEMMA GotArtistFolderInv ==
    ASSUME RefsInv, pc = "artistFolder", NEW folder \in MaybeId, GotArtistFolder(folder),
           DeviceTypeOK', RefsComplete', Grows, albums' = albums => CachesComplete'
    PROVE  RefsInv'
  <1>1. CASE /\ loc' = [loc EXCEPT !.folder = folder]
             /\ Goto("artistObject")
             /\ UNCHANGED caches
    <2>1. ProcessTypeOK' /\ CacheTypeOK'
      BY <1>1 DEF RefsInv, TypeOK, ProcessTypeOK, CacheTypeOK, Goto, PCs, Locals, caches
    <2>2. ~loaded => unread' \subseteq OfFormat("Album")'
      BY <1>1 DEF RefsInv, UnreadAreAlbums, OfFormat, Grows, caches
    <2> QED
      BY <1>1, <2>1, <2>2 DEF RefsInv, TypeOK, Goto, NoProcessNoCaches, UnreadAreAlbums,
         SongSent, ImportUnderWay, ConstructorUnderWay, caches
  <1>2. CASE CreatedArtist(NoId, folder)
    BY <1>2, CreatedArtistInv DEF MaybeId, CreatedArtist
  <1> QED
    BY <1>1, <1>2 DEF GotArtistFolder

LEMMA ArtistFolderInv == ASSUME RefsInv, ArtistFolder PROVE RefsInv'
  <1> DEFINE found == FoldersNamed(roots["Music"], loc.artist)
  <1>1. pc = "artistFolder" /\ cmds # <<>>
    BY DEF ArtistFolder, RefsInv, ConstructorUnderWay
  <1>2. Folder(roots["Music"], loc.artist) \in Objects
    BY FolderType DEF RefsInv, TypeOK, CacheTypeOK, ProcessTypeOK, Locals, Labels, RootFolders
  <1>3. CASE UNCHANGED device /\ \E folder \in found : GotArtistFolder(folder)
    <2>1. PICK folder \in found : GotArtistFolder(folder)
      BY <1>3
    <2>2. folder \in MaybeId
      BY <2>1 DEF FoldersNamed, FoldersIn, OfFormat, MaybeId
    <2> QED
      BY <1>1, <1>3, <2>1, <2>2, QuietStep, GotArtistFolderInv
  <1>4. CASE \E folder \in ObjectIds :
                /\ Create(folder, Folder(roots["Music"], loc.artist))
                /\ GotArtistFolder(folder) \/ Abandon
    <2>1. PICK folder \in ObjectIds :
                /\ Create(folder, Folder(roots["Music"], loc.artist))
                /\ GotArtistFolder(folder) \/ Abandon
      BY <1>4
    <2>2. DeviceTypeOK' /\ RefsComplete' /\ Grows /\ (albums' = albums => CachesComplete')
      BY <1>2, <2>1, CreateStep
    <2>3. CASE GotArtistFolder(folder)
      BY <1>1, <2>2, <2>3, GotArtistFolderInv DEF MaybeId
    <2>4. CASE Abandon
      BY <1>1, <2>2, <2>4, AbandonInv DEF Abandon, RefsInv, TypeOK, CacheTypeOK
    <2> QED
      BY <2>1, <2>3, <2>4
  <1> QED
    BY <1>3, <1>4 DEF ArtistFolder

LEMMA ArtistObjectInv == ASSUME RefsInv, ArtistObject PROVE RefsInv'
  <1> DEFINE o == Object("Artist", roots["Artists"], loc.artist)
  <1>1. pc = "artistObject" /\ cmds # <<>>
    BY DEF ArtistObject, RefsInv, ConstructorUnderWay
  <1>2. o \in Objects
    BY DEF Object, Objects, RefsInv, TypeOK, CacheTypeOK, ProcessTypeOK, Locals, Labels,
       RootFolders, MaybeId
  <1>3. PICK id \in ObjectIds : Create(id, o) /\ (CreatedArtist(id, loc.folder) \/ Abandon)
    BY DEF ArtistObject
  <1>4. DeviceTypeOK' /\ RefsComplete' /\ Grows /\ (albums' = albums => CachesComplete')
    BY <1>2, <1>3, CreateStep
  <1>5. CASE CreatedArtist(id, loc.folder)
    <2>1. id \in MaybeId /\ loc.folder \in MaybeId /\ albums' = albums
      BY <1>5 DEF MaybeId, RefsInv, TypeOK, ProcessTypeOK, Locals, CreatedArtist
    <2> QED
      BY <1>1, <1>4, <1>5, <2>1, CreatedArtistInv
  <1>6. CASE Abandon
    BY <1>1, <1>4, <1>6, AbandonInv DEF Abandon, RefsInv, TypeOK, CacheTypeOK
  <1> QED
    BY <1>3, <1>5, <1>6

-----------------------------------------------------------------------------
(* Every action keeps RefsInv: ZuneImport                                  *)

\* What an import under way is about.
LEMMA ImportFacts ==
    ASSUME RefsInv, pc \in {"albumObject", "data", "cover", "refs"}
    PROVE  /\ loaded /\ cmds # <<>> /\ Command.file \in Files /\ Meta[Command.file] # NoMeta
           /\ KeyOf(Command.file) \in AlbumKeys
           /\ pc # "albumObject" => HasAlbum(KeyOf(Command.file))
  <1>1. loaded /\ cmds # <<>> /\ Meta[Command.file] # NoMeta /\ Command.op = "zune-import"
    BY DEF RefsInv, ImportUnderWay
  <1>2. Command.file \in Files
    BY <1>1, CommandTypes, ImportCommand DEF RefsInv, TypeOK, ProcessTypeOK
  <1> QED
    BY <1>1, <1>2, TagTypes DEF RefsInv, ImportUnderWay

LEMMA NeedArtistInv == ASSUME RefsInv, NEW f \in Files, NeedArtist(f) PROVE RefsInv'
  <1>1. ArtistOf(f) \in Names /\ cmds # <<>> /\ pc = "cmd" /\ loaded
    BY TagTypes DEF NeedArtist, Importing, Running
  <1>2. ProcessTypeOK' /\ CacheTypeOK'
    BY <1>1 DEF NeedArtist, RefsInv, TypeOK, ProcessTypeOK, CacheTypeOK, Goto, PCs, Locals, caches
  <1>3. DeviceTypeOK' /\ RefsComplete' /\ CachesComplete'
    BY QuietStep DEF NeedArtist, caches
  <1> QED
    BY <1>1, <1>2, <1>3 DEF NeedArtist, RefsInv, TypeOK, Goto, NoProcessNoCaches,
       UnreadAreAlbums, SongSent, ImportUnderWay, ConstructorUnderWay, caches

LEMMA GotAlbumFolderInv ==
    ASSUME RefsInv, NEW f \in Files, Importing(f), NEW folder \in MaybeId, GotAlbumFolder(folder),
           DeviceTypeOK', RefsComplete', albums' = albums => CachesComplete'
    PROVE  RefsInv'
  <1>1. ProcessTypeOK' /\ CacheTypeOK'
    BY DEF GotAlbumFolder, RefsInv, TypeOK, ProcessTypeOK, CacheTypeOK, Goto, PCs, Locals, caches
  <1>2. loaded /\ cmds # <<>> /\ Command.op = "zune-import" /\ Meta[Command.file] # NoMeta
    BY DEF Importing, Running
  <1> QED
    BY <1>1, <1>2 DEF GotAlbumFolder, RefsInv, TypeOK, Goto, NoProcessNoCaches, UnreadAreAlbums,
       SongSent, ImportUnderWay, ConstructorUnderWay, Command, caches

LEMMA AlbumFolderInv == ASSUME RefsInv, NEW f \in Files, AlbumFolder(f) PROVE RefsInv'
  <1> DEFINE parent == artists[ArtistOf(f)].folder
             found == FoldersNamed(parent, AlbumOf(f))
  <1>1. Importing(f) /\ cmds # <<>>
    BY DEF AlbumFolder, Importing, Running
  <1>2. Folder(parent, AlbumOf(f)) \in Objects
    BY <1>1, TagTypes, FolderType DEF Importing, RefsInv, TypeOK, CacheTypeOK, ArtistEntries, Labels
  <1>3. CASE UNCHANGED device /\ \E folder \in found : GotAlbumFolder(folder)
    <2>1. PICK folder \in found : GotAlbumFolder(folder)
      BY <1>3
    <2>2. folder \in MaybeId
      BY <2>1 DEF FoldersNamed, FoldersIn, OfFormat, MaybeId
    <2> QED
      BY <1>1, <1>3, <2>1, <2>2, QuietStep, GotAlbumFolderInv
  <1>4. CASE \E folder \in ObjectIds :
                /\ Create(folder, Folder(parent, AlbumOf(f)))
                /\ GotAlbumFolder(folder) \/ Abandon
    <2>1. PICK folder \in ObjectIds :
                /\ Create(folder, Folder(parent, AlbumOf(f)))
                /\ GotAlbumFolder(folder) \/ Abandon
      BY <1>4
    <2>2. DeviceTypeOK' /\ RefsComplete' /\ Grows /\ (albums' = albums => CachesComplete')
      BY <1>2, <2>1, CreateStep
    <2>3. CASE GotAlbumFolder(folder)
      BY <1>1, <2>2, <2>3, GotAlbumFolderInv DEF MaybeId
    <2>4. CASE Abandon
      BY <1>1, <2>2, <2>4, AbandonInv DEF Abandon, RefsInv, TypeOK, CacheTypeOK
    <2> QED
      BY <2>1, <2>3, <2>4
  <1> QED
    BY <1>3, <1>4 DEF AlbumFolder

LEMMA AlbumObjectInv == ASSUME RefsInv, AlbumObject PROVE RefsInv'
  <1> DEFINE f == Command.file
             o == [Object("Album", roots["Albums"], AlbumOf(f)) EXCEPT !.artist = ArtistOf(f)]
             Got(id) == /\ albums' = WithAlbum(KeyOf(f), id, loc.folder)
                        /\ loc' = NoLocals
                        /\ Goto("cmd")
                        /\ UNCHANGED <<loaded, roots, artists, plists, snap, unread>>
  <1>1. pc = "albumObject" /\ cmds # <<>> /\ ArtistOf(f) \in Names /\ AlbumOf(f) \in Names
    BY ImportFacts, TagTypes DEF AlbumObject
  <1>2. o \in Objects /\ o.format = "Album"
    BY <1>1 DEF Object, Objects, RefsInv, TypeOK, CacheTypeOK, Labels, RootFolders
  <1>3. PICK id \in ObjectIds : Create(id, o) /\ (Got(id) \/ Abandon)
    BY DEF AlbumObject
  <1>4. DeviceTypeOK' /\ RefsComplete' /\ Grows /\ obj'[id] = o
    BY <1>2, <1>3, CreateStep
  <1>5. CASE Got(id)
    <2>1. CachesComplete' /\ albums' \in [AlbumKeys -> AlbumEntries]
      BY <1>2, <1>4, <1>5, AlbumAdded DEF RefsInv, TypeOK, ProcessTypeOK, Locals
    <2>2. ProcessTypeOK' /\ CacheTypeOK'
      BY <1>5, <2>1, LocalsType DEF RefsInv, TypeOK, ProcessTypeOK, CacheTypeOK, Goto, PCs
    <2> QED
      BY <1>4, <1>5, <2>1, <2>2 DEF RefsInv, TypeOK, Goto, NoProcessNoCaches, UnreadAreAlbums,
         SongSent, ImportUnderWay, ConstructorUnderWay
  <1>6. CASE Abandon
    BY <1>1, <1>4, <1>6, AbandonInv DEF Abandon, RefsInv, TypeOK, CacheTypeOK
  <1> QED
    BY <1>3, <1>5, <1>6

\* Keeping what LoadRefs read keeps the caches right.
LEMMA RefsCached ==
    ASSUME RefsInv, NEW k \in AlbumKeys, HasAlbum(k), albums' = [albums EXCEPT ![k] = RefsOf(k)],
           Grows
    PROVE  CachesComplete' /\ albums' \in [AlbumKeys -> AlbumEntries] /\ albums'[k].id # NoId
  <1>1. /\ RefsOf(k) \in AlbumEntries
        /\ RefsOf(k).id = albums[k].id /\ albums[k].id \in ObjectIds
        /\ \A t \in RefsOf(k).refs : CompleteTrack(t)
    BY RefsOfType DEF RefsInv, TypeOK
  <1>2. RefsOf(k).refs \subseteq ObjectIds
    BY <1>1 DEF AlbumEntries
  <1>3. albums' \in [AlbumKeys -> AlbumEntries] /\ albums'[k] = RefsOf(k)
    BY <1>1 DEF RefsInv, TypeOK, CacheTypeOK
  <1>4. ASSUME NEW j \in AlbumKeys
        PROVE  /\ albums'[j].id # NoId => obj'[albums'[j].id].format = "Album"
               /\ \A t \in albums'[j].refs : CompleteTrack(t)'
    <2>1. CASE j = k
      BY <1>1, <1>2, <1>3, <2>1, IdAssumption DEF RefsInv, CachesComplete, Grows, OfFormat, HasAlbum
    <2>2. CASE j # k
      <3>1. albums'[j] = albums[j] /\ albums[j] \in AlbumEntries
        BY <2>2 DEF RefsInv, TypeOK, CacheTypeOK
      <3> QED
        BY <3>1 DEF RefsInv, CachesComplete, Grows, OfFormat, AlbumEntries, MaybeId
    <2> QED
      BY <2>1, <2>2
  <1> QED
    BY <1>1, <1>3, <1>4, IdAssumption DEF CachesComplete

\* What a track looked up among an album's cached tracks is.
LEMMA MatchingType ==
    ASSUME RefsInv, NEW f, NEW k \in AlbumKeys, HasAlbum(k), NEW t \in Matching(f, RefsOf(k).tracks)
    PROVE  t.id \in ObjectIds
  <1>1. RefsOf(k) \in AlbumEntries
    BY RefsOfType DEF RefsInv, TypeOK
  <1> QED
    BY <1>1 DEF Matching, AlbumEntries, TrackKeys

LEMMA SkipTrackInv == ASSUME RefsInv, NEW f \in Files, SkipTrack(f) PROVE RefsInv'
  <1>1. cmds # <<>> /\ pc = "cmd" /\ loaded /\ KeyOf(f) \in AlbumKeys /\ HasAlbum(KeyOf(f))
    BY TagTypes DEF SkipTrack, Importing, Running
  <1>2. PICK t \in Matching(f, RefsOf(KeyOf(f)).tracks) :
            CommandDone({[file |-> f, result |-> "skipped", id |-> t.id]})
    BY DEF SkipTrack
  <1>3. {[file |-> f, result |-> "skipped", id |-> t.id]} \in SUBSET Results
    <2>1. t.id \in ObjectIds
      BY <1>1, <1>2, MatchingType
    <2> QED
      BY <2>1 DEF Results
  <1>4. ProcessTypeOK'
    BY <1>1, <1>2, <1>3, CommandDoneType DEF RefsInv, TypeOK
  <1>5. DeviceTypeOK' /\ RefsComplete' /\ Grows
    BY QuietStep DEF SkipTrack
  <1>6. CachesComplete' /\ albums' \in [AlbumKeys -> AlbumEntries]
    BY <1>1, <1>5, RefsCached DEF SkipTrack
  <1>7. CacheTypeOK'
    BY <1>6 DEF SkipTrack, RefsInv, TypeOK, CacheTypeOK
  <1> QED
    BY <1>1, <1>2, <1>4, <1>5, <1>6, <1>7 DEF CommandDone, RefsInv, TypeOK, NoProcessNoCaches,
       UnreadAreAlbums, SongSent, ImportUnderWay, ConstructorUnderWay

LEMMA CreateTrackInv == ASSUME RefsInv, NEW f \in Files, CreateTrack(f) PROVE RefsInv'
  <1> DEFINE k == KeyOf(f)
             Got(id) == /\ loc' = [loc EXCEPT !.song = id]
                        /\ albums' = [albums EXCEPT ![k] = RefsOf(k)]
                        /\ Goto("data")
                        /\ UNCHANGED <<loaded, roots, artists, plists, snap, unread>>
  <1>1. /\ cmds # <<>> /\ pc = "cmd" /\ loaded /\ Command.op = "zune-import"
        /\ f = Command.file /\ Meta[f] # NoMeta /\ k \in AlbumKeys /\ HasAlbum(k)
    BY TagTypes DEF CreateTrack, Importing, Running
  <1>2. albums[k].folder \in MaybeId
    BY <1>1 DEF RefsInv, TypeOK, CacheTypeOK, AlbumEntries
  <1>3. TrackObject(f) \in Objects /\ TrackObject(f).format = "Track"
    BY <1>1, <1>2, TagTypes DEF TrackObject, Object, Objects, Labels
  <1>4. PICK id \in ObjectIds : Create(id, TrackObject(f)) /\ (Got(id) \/ Abandon)
    BY DEF CreateTrack
  <1>5. DeviceTypeOK' /\ RefsComplete' /\ Grows /\ obj'[id] = TrackObject(f)
    BY <1>3, <1>4, CreateStep
  <1>6. CASE Got(id)
    <2>1. CachesComplete' /\ albums' \in [AlbumKeys -> AlbumEntries] /\ albums'[k].id # NoId
      BY <1>1, <1>5, <1>6, RefsCached
    <2>2. loc' \in Locals /\ loc'.song = id
      BY <1>6 DEF RefsInv, TypeOK, ProcessTypeOK, Locals, MaybeId
    <2>3. ProcessTypeOK' /\ CacheTypeOK'
      BY <1>6, <2>1, <2>2 DEF RefsInv, TypeOK, ProcessTypeOK, CacheTypeOK, Goto, PCs
    <2>4. SongSent'
      BY <1>3, <1>5, <1>6, <2>2 DEF SongSent, Goto
    <2>5. ImportUnderWay'
      BY <1>1, <1>6, <2>1 DEF ImportUnderWay, Goto, Command, HasAlbum
    <2> QED
      BY <1>1, <1>5, <1>6, <2>1, <2>3, <2>4, <2>5 DEF RefsInv, TypeOK, Goto, NoProcessNoCaches,
         UnreadAreAlbums, ConstructorUnderWay
  <1>7. CASE Abandon
    BY <1>1, <1>5, <1>7, AbandonInv DEF Abandon, RefsInv, TypeOK, CacheTypeOK
  <1> QED
    BY <1>4, <1>6, <1>7

\* A track whose data arrived is still a track.
LEMMA CompletedType ==
    ASSUME NEW o \in Objects, o.format = "Track"
    PROVE  /\ [o EXCEPT !.complete = TRUE] \in Objects
           /\ [o EXCEPT !.complete = TRUE].format = "Track"
           /\ [o EXCEPT !.complete = TRUE].complete
  BY DEF Objects

LEMMA SendObjectInv == ASSUME RefsInv, SendObject PROVE RefsInv'
  <1> DEFINE f == Command.file
             next == IF Meta[f].cover /\ AlbumCoverSupported THEN "cover" ELSE "refs"
             sent == [obj[loc.song] EXCEPT !.complete = TRUE]
  <1>1. /\ pc = "data" /\ cmds # <<>> /\ loc.song \in ObjectIds
        /\ obj[loc.song].format = "Track" /\ next \in {"cover", "refs"}
    BY ImportFacts DEF SendObject, RefsInv, SongSent
  <1>2. sent \in Objects /\ sent.format = "Track" /\ sent.complete
    BY <1>1, CompletedType DEF RefsInv, TypeOK, DeviceTypeOK
  <1>3. /\ obj' = [obj EXCEPT ![loc.song] = sent] /\ refs' = refs /\ lists' = lists
        /\ unnamed' = unnamed
    BY DEF SendObject
  <1>4. DeviceTypeOK' /\ obj'[loc.song] = sent
        /\ \A i \in ObjectIds : i # loc.song => obj'[i] = obj[i]
    BY <1>1, <1>2, <1>3 DEF RefsInv, TypeOK, DeviceTypeOK
  <1>5. Grows
    BY <1>1, <1>2, <1>4 DEF Grows, OfFormat, CompleteTrack
  <1>6. RefsComplete' /\ (albums' = albums => CachesComplete')
    BY <1>3, <1>5, RefsStay, AlbumsStay DEF RefsInv, TypeOK
  <1>7. CASE Goto(next) /\ UNCHANGED <<loc, caches>>
    <2>1. ProcessTypeOK' /\ CacheTypeOK'
      BY <1>1, <1>7 DEF RefsInv, TypeOK, ProcessTypeOK, CacheTypeOK, Goto, PCs, caches
    <2>2. SongSent'
      BY <1>1, <1>2, <1>4, <1>7 DEF SongSent
    <2>3. ImportUnderWay'
      BY <1>1, <1>7 DEF RefsInv, ImportUnderWay, Goto, Command, HasAlbum, caches
    <2> QED
      BY <1>1, <1>4, <1>6, <1>7, <2>1, <2>2, <2>3 DEF RefsInv, TypeOK, Goto, NoProcessNoCaches,
         UnreadAreAlbums, ConstructorUnderWay, caches
  <1>8. CASE Abandon
    BY <1>1, <1>4, <1>5, <1>6, <1>8, AbandonInv DEF Abandon, RefsInv, TypeOK, CacheTypeOK
  <1> QED
    BY <1>7, <1>8 DEF SendObject

LEMMA AddCoverInv == ASSUME RefsInv, AddCover PROVE RefsInv'
  <1>1. ProcessTypeOK' /\ CacheTypeOK'
    BY DEF AddCover, RefsInv, TypeOK, ProcessTypeOK, CacheTypeOK, Goto, PCs, caches
  <1>2. DeviceTypeOK' /\ RefsComplete' /\ CachesComplete'
    BY QuietStep DEF AddCover, caches
  <1>3. SongSent' /\ ImportUnderWay'
    BY DEF AddCover, RefsInv, SongSent, ImportUnderWay, Goto, Command, HasAlbum, caches, device
  <1> QED
    BY <1>1, <1>2, <1>3 DEF AddCover, RefsInv, TypeOK, Goto, NoProcessNoCaches, UnreadAreAlbums,
       ConstructorUnderWay, caches

\* The one step that gives an album a reference: what it adds was sent.
LEMMA AddTrackInv == ASSUME RefsInv, AddTrack PROVE RefsInv'
  <1> DEFINE f == Command.file
             k == KeyOf(f)
             al == RefsOf(k)
             newRefs == al.refs \cup {loc.song}
             newTrack == [title |-> Meta[f].title, index |-> Meta[f].index, id |-> loc.song]
             new == WithTrack(al, newTrack)
             result == [file |-> f, result |-> "imported", id |-> loc.song]
  <1>1. /\ pc = "refs" /\ cmds # <<>> /\ f \in Files /\ Meta[f] # NoMeta
        /\ k \in AlbumKeys /\ HasAlbum(k)
    BY ImportFacts DEF AddTrack
  <1>2. loc.song \in ObjectIds /\ CompleteTrack(loc.song)
    BY <1>1 DEF RefsInv, SongSent, CompleteTrack
  <1>3. /\ al \in AlbumEntries /\ al.id = albums[k].id /\ al.id \in ObjectIds
        /\ \A t \in al.refs : CompleteTrack(t)
    BY <1>1, RefsOfType DEF RefsInv, TypeOK
  <1>4. newRefs \in SUBSET ObjectIds /\ \A t \in newRefs : CompleteTrack(t)
    BY <1>2, <1>3 DEF AlbumEntries
  <1>5. obj[al.id].format = "Album"
    BY <1>1, <1>3 DEF RefsInv, CachesComplete, HasAlbum
  <1>6. /\ refs' = [refs EXCEPT ![al.id] = newRefs] /\ obj' = obj /\ lists' = lists
        /\ unnamed' = unnamed
    BY DEF AddTrack
  <1> HIDE DEF newRefs
  <1>7. DeviceTypeOK' /\ Grows
    BY <1>4, <1>6, UnchangedGrows DEF RefsInv, TypeOK, DeviceTypeOK
  <1>8. RefsComplete'
    BY <1>3, <1>4, <1>5, <1>6 DEF RefsInv, TypeOK, DeviceTypeOK, RefsComplete, CompleteTrack
  <1>9. CASE /\ albums' = [albums EXCEPT ![k] = new]
             /\ CommandDone({result})
             /\ UNCHANGED <<loaded, roots, artists, plists, snap, unread>>
    <2>1. newTrack \in TrackKeys
      BY <1>1, <1>2, TagTypes DEF TrackKeys, Labels
    <2>2. al.folder \in MaybeId /\ al.tracks \cup {newTrack} \in SUBSET TrackKeys
      BY <1>3, <2>1 DEF AlbumEntries
    <2>3. new \in AlbumEntries /\ new.id = al.id /\ new.refs = newRefs
      <3>1. newTrack.id = loc.song
        OBVIOUS
      <3>2. newRefs = al.refs \cup {loc.song}
        BY DEF newRefs
      <3> HIDE DEF al, newTrack
      <3> QED
        BY <1>3, <1>4, <2>2, <3>1, <3>2 DEF AlbumEntries, MaybeId, WithTrack
    <2> HIDE DEF new
    <2>4. albums' \in [AlbumKeys -> AlbumEntries]
      BY <1>9, <2>3 DEF RefsInv, TypeOK, CacheTypeOK
    <2>5. ASSUME NEW j \in AlbumKeys
          PROVE  /\ albums'[j].id # NoId => obj[albums'[j].id].format = "Album"
                 /\ \A t \in albums'[j].refs : CompleteTrack(t)
      <3>1. albums'[j] = new \/ albums'[j] = albums[j]
        BY <1>9 DEF RefsInv, TypeOK, CacheTypeOK
      <3> QED
        BY <1>4, <1>5, <2>3, <3>1 DEF RefsInv, CachesComplete
    <2>6. CachesComplete'
      BY <1>6, <2>5 DEF CachesComplete, CompleteTrack
    <2>7. {result} \in SUBSET Results
      BY <1>1, <1>2 DEF Results
    <2>8. ProcessTypeOK' /\ CacheTypeOK'
      BY <1>1, <1>9, <2>4, <2>7, CommandDoneType DEF RefsInv, TypeOK, CacheTypeOK
    <2> QED
      BY <1>7, <1>8, <1>9, <2>6, <2>8 DEF RefsInv, TypeOK, CommandDone, NoProcessNoCaches,
         UnreadAreAlbums, SongSent, ImportUnderWay, ConstructorUnderWay
  <1>10. CASE Abandon
    BY <1>1, <1>7, <1>8, <1>10, AbandonInv DEF Abandon, RefsInv, TypeOK, CacheTypeOK
  <1> QED
    BY <1>9, <1>10 DEF AddTrack, newRefs

-----------------------------------------------------------------------------
(* Every action keeps RefsInv: the playlist commands                       *)

\* What the playlist commands are about.
LEMMA ListFacts ==
    ASSUME RefsInv, Running("zune-playlist-clear") \/ AddingToPlaylist
    PROVE  /\ cmds # <<>> /\ pc = "cmd" /\ loaded /\ Command.list \in Playlists
           /\ AddingToPlaylist => TrackIds \subseteq ObjectIds
  <1>1. /\ cmds # <<>> /\ pc = "cmd" /\ loaded
        /\ Command.op \in {"zune-playlist-clear", "zune-playlist-add-id", "zune-playlist-add"}
    BY DEF AddingToPlaylist, Running
  <1>2. Command \in Commands
    BY <1>1, CommandTypes DEF RefsInv, TypeOK, ProcessTypeOK
  <1>3. /\ Command.list \in Playlists
        /\ Command.op = "zune-playlist-add-id" => Command.id \in ObjectIds
        /\ Command.op = "zune-playlist-add" => Command.file \in Files
    BY <1>1, <1>2, ListCommand
  <1>4. ASSUME AddingToPlaylist, NEW t \in TrackIds
        PROVE  t \in ObjectIds
    <2>1. CASE Command.op = "zune-playlist-add-id"
      BY <1>3, <1>4, <2>1 DEF TrackIds
    <2>2. CASE Command.op # "zune-playlist-add-id"
      <3> DEFINE f == Command.file
      <3>1. f \in Files /\ Meta[f] # NoMeta
        BY <1>3, <1>4, <2>2 DEF AddingToPlaylist, Running
      <3>2. KeyOf(f) \in AlbumKeys
        BY <3>1, TagTypes
      <3>3. HasAlbum(KeyOf(f)) /\ \E m \in Matching(f, RefsOf(KeyOf(f)).tracks) : t = m.id
        BY <1>4, <2>2 DEF TrackIds
      <3> QED
        BY <3>2, <3>3, MatchingType
    <2> QED
      BY <2>1, <2>2
  <1> QED
    BY <1>1, <1>3, <1>4

\* Steps that end a command, or change cached playlists, and nothing else.
LEMMA ListStepInv ==
    ASSUME RefsInv, pc = "cmd", cmds # <<>>, NEW pl \in [Playlists -> PlaylistEntries],
           \/ CommandDone({})
           \/ Goto("cmd") /\ UNCHANGED loc,
           DeviceTypeOK', RefsComplete', Grows, plists' = pl,
           UNCHANGED <<loaded, roots, artists, albums, snap, unread>>
    PROVE  RefsInv'
  <1>1. CachesComplete'
    BY AlbumsStay DEF RefsInv, TypeOK
  <1>2. ProcessTypeOK' /\ CacheTypeOK'
    BY CommandDoneType, GotoType DEF RefsInv, TypeOK, ProcessTypeOK, CacheTypeOK, PCs
  <1>3. pc' = "cmd"
    BY DEF CommandDone, Goto
  <1> QED
    BY <1>1, <1>2, <1>3 DEF RefsInv, TypeOK, NoProcessNoCaches, UnreadAreAlbums, SongSent,
       ImportUnderWay, ConstructorUnderWay

LEMMA CreatePlaylistInv == ASSUME RefsInv, CreatePlaylist PROVE RefsInv'
  <1> DEFINE o == Object("Playlist", Root, Command.list)
             Got(id) == /\ plists' = [plists EXCEPT ![Command.list] = [@ EXCEPT !.id = id]]
                        /\ Goto("cmd")
                        /\ UNCHANGED <<loc, loaded, roots, artists, albums, snap, unread>>
  <1>1. cmds # <<>> /\ pc = "cmd" /\ Command.list \in Playlists
    BY ListFacts DEF CreatePlaylist
  <1>2. o \in Objects
    BY <1>1 DEF Object, Objects, Labels
  <1>3. PICK id \in ObjectIds : Create(id, o) /\ (Got(id) \/ Abandon)
    BY DEF CreatePlaylist
  <1>4. DeviceTypeOK' /\ RefsComplete' /\ Grows
    BY <1>2, <1>3, CreateStep
  <1>5. CASE Got(id)
    <2>1. [plists[Command.list] EXCEPT !.id = id] \in PlaylistEntries
      BY <1>1 DEF RefsInv, TypeOK, CacheTypeOK, PlaylistEntries, MaybeId
    <2>2. plists' \in [Playlists -> PlaylistEntries]
      BY <1>5, <2>1 DEF RefsInv, TypeOK, CacheTypeOK
    <2> QED
      BY <1>1, <1>4, <1>5, <2>2, ListStepInv
  <1>6. CASE Abandon
    BY <1>1, <1>4, <1>6, AbandonInv DEF Abandon, RefsInv, TypeOK, CacheTypeOK
  <1> QED
    BY <1>3, <1>5, <1>6

LEMMA WritePlaylistRefsInv ==
    ASSUME RefsInv, pc = "cmd", cmds # <<>>, Command.list \in Playlists,
           NEW tracks \in Seq(ObjectIds), WritePlaylistRefs(tracks)
    PROVE  RefsInv'
  <1> DEFINE p == Command.list
             new == [plists EXCEPT ![p] = [@ EXCEPT !.tracks = tracks]]
             Write == lists' = [lists EXCEPT ![plists[p].id] = tracks]
  <1>1. new \in [Playlists -> PlaylistEntries]
    <2>1. [plists[p] EXCEPT !.tracks = tracks] \in PlaylistEntries
      BY DEF RefsInv, TypeOK, CacheTypeOK, PlaylistEntries
    <2> QED
      BY <2>1 DEF RefsInv, TypeOK, CacheTypeOK
  <1>2. UNCHANGED <<obj, refs, unnamed>> /\ (Write \/ UNCHANGED lists)
    BY DEF WritePlaylistRefs
  <1> DEFINE done == [new EXCEPT ![p] = [@ EXCEPT !.whole = TRUE]]
  <1>7. done \in [Playlists -> PlaylistEntries]
    <2>1. [new[p] EXCEPT !.whole = TRUE] \in PlaylistEntries
      BY <1>1 DEF PlaylistEntries
    <2> QED
      BY <1>1, <2>1
  <1>3. DeviceTypeOK' /\ Grows
    BY <1>2, UnchangedGrows DEF RefsInv, TypeOK, DeviceTypeOK
  <1>4. RefsComplete'
    BY <1>2, <1>3, RefsStay DEF RefsInv, TypeOK
  <1>5. CASE /\ CommandDone({}) /\ plists' = done
             /\ UNCHANGED <<loaded, roots, artists, albums, snap, unread>>
    <2> HIDE DEF done
    <2> QED
      BY <1>3, <1>4, <1>5, <1>7, ListStepInv
  <1> HIDE DEF new
  <1>6. CASE AbandonWith(new)
    BY <1>1, <1>3, <1>4, <1>6, AbandonInv
  <1> QED
    BY <1>5, <1>6 DEF WritePlaylistRefs, new, done

LEMMA ClearPlaylistInv == ASSUME RefsInv, ClearPlaylist PROVE RefsInv'
  <1>1. pc = "cmd" /\ cmds # <<>> /\ Command.list \in Playlists
    BY ListFacts DEF ClearPlaylist
  <1>2. <<>> \in Seq(ObjectIds)
    OBVIOUS
  <1> QED
    BY <1>1, <1>2, WritePlaylistRefsInv DEF ClearPlaylist

\* A command that did nothing more ends.
LEMMA NothingDoneInv ==
    ASSUME RefsInv, pc = "cmd", cmds # <<>>, CommandDone({}), UNCHANGED <<device, caches>>
    PROVE  RefsInv'
  <1>1. DeviceTypeOK' /\ RefsComplete' /\ Grows
    BY QuietStep
  <1>2. plists' \in [Playlists -> PlaylistEntries]
    BY DEF RefsInv, TypeOK, CacheTypeOK, caches
  <1> QED
    BY <1>1, <1>2, ListStepInv DEF caches

LEMMA AddToPlaylistInv == ASSUME RefsInv, AddToPlaylist PROVE RefsInv'
  <1> DEFINE tracks == plists[Command.list].tracks
  <1>1. pc = "cmd" /\ cmds # <<>> /\ Command.list \in Playlists /\ TrackIds \subseteq ObjectIds
    BY ListFacts DEF AddToPlaylist
  <1>2. tracks \in Seq(ObjectIds)
    BY <1>1 DEF RefsInv, TypeOK, CacheTypeOK, PlaylistEntries
  <1>3. CASE CommandDone({}) /\ UNCHANGED <<device, caches>>
    BY <1>1, <1>3, NothingDoneInv
  <1>4. ASSUME NEW t \in TrackIds, WritePlaylistRefs(Append(tracks, t))
        PROVE  RefsInv'
    <2>1. Append(tracks, t) \in Seq(ObjectIds)
      BY <1>1, <1>2
    <2> QED
      BY <1>1, <1>4, <2>1, WritePlaylistRefsInv
  <1> QED
    BY <1>3, <1>4 DEF AddToPlaylist

LEMMA NotOnDeviceInv == ASSUME RefsInv, NotOnDevice PROVE RefsInv'
  <1>1. pc = "cmd" /\ cmds # <<>>
    BY ListFacts DEF NotOnDevice
  <1> QED
    BY <1>1, NothingDoneInv DEF NotOnDevice

LEMMA InitDoneInv == ASSUME RefsInv, InitDone PROVE RefsInv'
  BY NothingDoneInv DEF InitDone, Running

-----------------------------------------------------------------------------
(* Every action keeps RefsInv: the process and the user                    *)

LEMMA StartInv == ASSUME RefsInv, NEW line \in CommandLines, Start(line) PROVE RefsInv'
  <1>1. line \in Seq(Commands)
    BY CommandAssumption
  <1>2. ProcessTypeOK' /\ CacheTypeOK'
    BY <1>1, LocalsType DEF Start, RefsInv, TypeOK, ProcessTypeOK, CacheTypeOK, PCs, caches
  <1>3. DeviceTypeOK' /\ RefsComplete' /\ CachesComplete'
    BY QuietStep DEF Start, caches
  <1> QED
    BY <1>2, <1>3 DEF Start, RefsInv, TypeOK, NoProcessNoCaches, UnreadAreAlbums, SongSent,
       ImportUnderWay, ConstructorUnderWay

LEMMA FinishInv == ASSUME RefsInv, Finish PROVE RefsInv'
  <1>1. ProcessTypeOK'
    BY LocalsType DEF Finish, Exit, RefsInv, TypeOK, ProcessTypeOK, PCs
  <1>2. CacheTypeOK' /\ CachesComplete'
    BY DropCachesType, NoAlbumsComplete DEF Finish, Exit, DropCaches
  <1>3. DeviceTypeOK' /\ RefsComplete'
    BY QuietStep DEF Finish
  <1>4. pc' = "off" /\ albums' = NoAlbums
    BY DEF Finish, Exit, DropCaches
  <1> QED
    BY <1>1, <1>2, <1>3, <1>4 DEF RefsInv, TypeOK, NoProcessNoCaches, UnreadAreAlbums, SongSent,
       ImportUnderWay, ConstructorUnderWay

LEMMA FailInv == ASSUME RefsInv, Fail PROVE RefsInv'
  <1>1. DeviceTypeOK' /\ RefsComplete' /\ Grows
    BY QuietStep DEF Fail
  <1> QED
    BY <1>1, AbandonInv DEF Fail, Abandon, RefsInv, TypeOK, CacheTypeOK

LEMMA WithoutType ==
    ASSUME NEW S, NEW s \in Seq(S), NEW x
    PROVE  Without(s, x) \in Seq(S)
  <1>1. CASE \E n \in 1 .. Len(s) : s[n] = x
    <2> DEFINE n == CHOOSE m \in 1 .. Len(s) : s[m] = x
    <2>1. n \in 1 .. Len(s)
      BY <1>1
    <2>2. SubSeq(s, 1, n - 1) \in Seq(S) /\ SubSeq(s, n + 1, Len(s)) \in Seq(S)
      <3> HIDE DEF n
      <3>1. /\ \A i \in 1 .. n - 1 : s[i] \in S
            /\ \A i \in n + 1 .. Len(s) : s[i] \in S
        BY <2>1
      <3> QED
        BY <2>1, <3>1, SubSeqProperties
    <2> HIDE DEF n
    <2>3. SubSeq(s, 1, n - 1) \o SubSeq(s, n + 1, Len(s)) \in Seq(S)
      BY <2>2
    <2> QED
      BY <1>1, <2>3 DEF Without, n
  <1>2. CASE ~ \E n \in 1 .. Len(s) : s[n] = x
    BY <1>2 DEF Without
  <1> QED
    BY <1>1, <1>2

\* Nothing that is left refers to an object that is gone.
LEMMA RemoveInv ==
    ASSUME RefsInv, NEW id \in ObjectIds, pc = "off", Remove(id), UNCHANGED <<process, caches>>
    PROVE  RefsInv'
  <1>1. obj' = [obj EXCEPT ![id] = NoObject]
        /\ refs' = [a \in ObjectIds |-> IF a = id THEN {} ELSE refs[a] \ {id}]
        /\ lists' = [p \in ObjectIds |-> IF p = id THEN <<>> ELSE Without(lists[p], id)]
        /\ unnamed' = unnamed
    BY DEF Remove
  <1>2. NoObject \in Objects
    BY DEF NoObject, Object, Objects, MaybeId, Labels
  <1>3. \A p \in ObjectIds : Without(lists[p], id) \in Seq(ObjectIds)
    BY WithoutType DEF RefsInv, TypeOK, DeviceTypeOK
  <1>4. lists' \in [ObjectIds -> Seq(ObjectIds)]
    BY <1>1, <1>3
  <1>5. DeviceTypeOK'
    BY <1>1, <1>2, <1>4 DEF RefsInv, TypeOK, DeviceTypeOK
  <1>6. RefsComplete'
    BY <1>1 DEF RefsInv, TypeOK, DeviceTypeOK, RefsComplete
  <1>7. albums' = NoAlbums /\ pc' = "off"
    BY DEF RefsInv, NoProcessNoCaches, caches, process
  <1>8. ProcessTypeOK' /\ CacheTypeOK'
    BY DEF RefsInv, TypeOK, ProcessTypeOK, CacheTypeOK, caches, process
  <1> QED
    BY <1>5, <1>6, <1>7, <1>8, NoAlbumsComplete DEF RefsInv, TypeOK, NoProcessNoCaches,
       UnreadAreAlbums, SongSent, ImportUnderWay, ConstructorUnderWay

-----------------------------------------------------------------------------
LEMMA InitInv == Init => RefsInv
  <1> SUFFICES ASSUME Init PROVE RefsInv
    OBVIOUS
  <1>1. NoObject \in Objects
    BY DEF NoObject, Object, Objects, MaybeId, Labels
  <1>2. DeviceTypeOK /\ RefsComplete
    BY <1>1 DEF Init, DeviceTypeOK, RefsComplete
  <1>3. ProcessTypeOK /\ CacheTypeOK
    <2>1. cmds \in Seq(Commands)
      BY DEF Init
    <2> QED
      BY <2>1, LocalsType, EmptyTypes DEF Init, ProcessTypeOK, CacheTypeOK, PCs
  <1>4. CachesComplete
    BY DEF Init, CachesComplete, NoAlbums, NoAlbum, CachedAlbum
  <1> QED
    BY <1>2, <1>3, <1>4 DEF Init, RefsInv, TypeOK, NoProcessNoCaches, UnreadAreAlbums, SongSent,
       ImportUnderWay, ConstructorUnderWay

\* Nothing RefsInv speaks of changes in a stuttering step.
LEMMA StutterInv == RefsInv /\ UNCHANGED vars => RefsInv'
  BY DEF vars, RefsInv, TypeOK, DeviceTypeOK, ProcessTypeOK, CacheTypeOK, RefsComplete,
     CachesComplete, CompleteTrack, NoProcessNoCaches, UnreadAreAlbums, SongSent, ImportUnderWay,
     ConstructorUnderWay, OfFormat, HasAlbum, Command

LEMMA NextInv == RefsInv /\ [Next]_vars => RefsInv'
  <1> SUFFICES ASSUME RefsInv, [Next]_vars PROVE RefsInv'
    OBVIOUS
  <1>1. CASE Construct
    BY <1>1, BeginInitInv, CreateRootInv, QueryArtistsInv, LoadArtistInv, QueryAlbumsInv,
       LoadAlbumArtistInv, LoadAlbumInv, LoadPlaylistsInv DEF Construct
  <1>2. CASE CreateArtist
    BY <1>2, ArtistFolderInv, ArtistObjectInv DEF CreateArtist
  <1>3. CASE ZuneImport
    BY <1>3, NeedArtistInv, AlbumFolderInv, SkipTrackInv, CreateTrackInv, AlbumObjectInv,
       SendObjectInv, AddCoverInv, AddTrackInv DEF ZuneImport
  <1>4. CASE ZunePlaylist
    BY <1>4, CreatePlaylistInv, ClearPlaylistInv, AddToPlaylistInv, NotOnDeviceInv DEF ZunePlaylist
  <1>5. CASE InitDone \/ Finish \/ Fail
    BY <1>5, InitDoneInv, FinishInv, FailInv
  <1>6. CASE \E line \in CommandLines : Start(line)
    BY <1>6, StartInv
  <1>7. CASE \E id \in ObjectIds : UserDeletes(id) \/ DropIncomplete(id)
    BY <1>7, RemoveInv DEF UserDeletes, DropIncomplete
  <1>8. CASE UNCHANGED vars
    BY <1>8, StutterInv
  <1> QED
    BY <1>1, <1>2, <1>3, <1>4, <1>5, <1>6, <1>7, <1>8 DEF Next, ProcessStep

\* RefsInv holds of every state a device and the processes using it can reach.
THEOREM RefsInvHolds == Spec => []RefsInv
  BY InitInv, NextInv, PTL DEF Spec

\* Every variable keeps its type: no process ever works with a cache entry, an
\* object id or a command it could not have.
THEOREM TypeCorrect == Spec => []TypeOK
  <1>1. RefsInv => TypeOK
    BY DEF RefsInv
  <1> QED
    BY <1>1, RefsInvHolds, PTL

\* Whatever zune-* commands run, fail or are killed in whatever order, and
\* whatever the user deletes in between, no album ever references a track that
\* is missing or was not sent completely.
THEOREM RefsAlwaysComplete == Spec => []RefsComplete
  <1>1. RefsInv => RefsComplete
    BY DEF RefsInv
  <1> QED
    BY <1>1, RefsInvHolds, PTL

-----------------------------------------------------------------------------
(* The caches of Library agree with the device as far as they are written back *)

\* The parts of CachesInv about the caches of albums.
AlbumsAgree == AlbumsHaveArtists /\ CachedIsListed /\ LoadedIsWhole

\* What no step of a process does: rename or remove an object, or create an album
\* without an artist.
ObjectsKept ==
    \A i \in ObjectIds :
        /\ obj[i].format # "None" =>
               /\ obj'[i].format = obj[i].format /\ obj'[i].name = obj[i].name
               /\ obj'[i].artist = obj[i].artist
        /\ obj[i].format = "None" /\ obj'[i].format = "Album" => obj'[i].artist # ""

LEMMA CreateKeeps ==
    ASSUME DeviceTypeOK, NEW id \in ObjectIds, NEW o \in Objects, Create(id, o),
           o.format = "Album" => o.artist # ""
    PROVE  ObjectsKept /\ refs' = refs
  <1>1. /\ obj'[id] = o /\ refs' = refs
        /\ \A i \in ObjectIds : obj[i].format # "None" => obj'[i] = obj[i]
    BY CreateFresh
  <1>2. \A i \in ObjectIds : i # id => obj'[i] = obj[i]
    BY DEF Create, DeviceTypeOK
  <1> QED
    BY <1>1, <1>2 DEF ObjectsKept

LEMMA QuietKeeps == ASSUME UNCHANGED device PROVE ObjectsKept /\ refs' = refs
  BY DEF device, ObjectsKept

\* A cached album is an object that is there, and so is what it references.
LEMMA CachedThere ==
    ASSUME RefsInv, NEW k \in AlbumKeys, HasAlbum(k)
    PROVE  /\ albums[k] \in AlbumEntries
           /\ albums[k].id \in ObjectIds /\ obj[albums[k].id].format = "Album"
           /\ \A t \in albums[k].refs : t \in ObjectIds /\ obj[t].format = "Track"
  <1>1. albums[k] \in AlbumEntries
    BY DEF RefsInv, TypeOK, CacheTypeOK
  <1> QED
    BY <1>1 DEF RefsInv, CachesComplete, CompleteTrack, HasAlbum, AlbumEntries, MaybeId

\* Caches that stay as they are agree with the device after a step that changes
\* references only by adding some to an album that is not in the cache, or whose
\* cache is dropped when the step fails.
LEMMA AlbumsKeep ==
    ASSUME RefsInv, AlbumsAgree, ObjectsKept, albums' = albums,
           \A k \in AlbumKeys : HasAlbum(k) => albums[k].refs \subseteq refs'[albums[k].id],
           Interactive \/ refs' = refs
    PROVE  AlbumsAgree'
  <1>1. AlbumsHaveArtists'
    BY DEF AlbumsAgree, AlbumsHaveArtists, ObjectsKept, OfFormat
  <1>2. CachedIsListed'
    <2> SUFFICES ASSUME NEW k \in AlbumKeys, HasAlbum(k)
                 PROVE  /\ obj'[albums[k].id].artist = k[1] /\ obj'[albums[k].id].name = k[2]
                        /\ albums[k].refs \subseteq refs'[albums[k].id]
                        /\ \A t \in albums[k].tracks :
                               t.id \in albums[k].refs /\ obj'[t.id].name = t.title
      BY DEF CachedIsListed, HasAlbum
    <2>1. albums[k].id \in ObjectIds /\ obj[albums[k].id].format = "Album"
      BY CachedThere
    <2>2. obj[albums[k].id].artist = k[1] /\ obj[albums[k].id].name = k[2]
      BY DEF AlbumsAgree, CachedIsListed
    <2>3. ASSUME NEW t \in albums[k].tracks
          PROVE  t.id \in albums[k].refs /\ obj'[t.id].name = t.title
      <3>1. t.id \in albums[k].refs /\ obj[t.id].name = t.title
        BY <2>3 DEF AlbumsAgree, CachedIsListed
      <3>2. t.id \in ObjectIds /\ obj[t.id].format = "Track"
        BY <3>1, CachedThere
      <3> QED
        BY <3>1, <3>2 DEF ObjectsKept
    <2> QED
      BY <2>1, <2>2, <2>3 DEF ObjectsKept
  <1>3. LoadedIsWhole'
    BY DEF AlbumsAgree, LoadedIsWhole, HasAlbum
  <1> QED
    BY <1>1, <1>2, <1>3 DEF AlbumsAgree

\* Without caches there is nothing to agree.
LEMMA NoAlbumsAgree ==
    ASSUME AlbumsHaveArtists', albums' = NoAlbums
    PROVE  AlbumsAgree'
  <1>1. \A k \in AlbumKeys : ~HasAlbum(k)'
    BY DEF HasAlbum, NoAlbums, NoAlbum, CachedAlbum
  <1> QED
    BY <1>1 DEF AlbumsAgree, CachedIsListed, LoadedIsWhole

\* One album's cache changes, the device only grows.
LEMMA AlbumSet ==
    ASSUME RefsInv, AlbumsAgree, ObjectsKept, refs' = refs,
           NEW k \in AlbumKeys, NEW al \in AlbumEntries, albums' = [albums EXCEPT ![k] = al],
           al.id \in ObjectIds, obj'[al.id].artist = k[1], obj'[al.id].name = k[2],
           al.refs \subseteq refs[al.id],
           \A t \in al.tracks : t.id \in al.refs /\ obj'[t.id].name = t.title,
           al.loaded => refs[al.id] \subseteq al.refs \/ Interactive
    PROVE  AlbumsAgree'
  <1>1. AlbumsHaveArtists'
    BY DEF AlbumsAgree, AlbumsHaveArtists, ObjectsKept, OfFormat
  <1>2. albums'[k] = al /\ \A j \in AlbumKeys : j # k => albums'[j] = albums[j]
    BY DEF RefsInv, TypeOK, CacheTypeOK
  <1>3. ASSUME NEW j \in AlbumKeys, j # k, HasAlbum(j)
        PROVE  /\ obj'[albums[j].id].artist = j[1] /\ obj'[albums[j].id].name = j[2]
               /\ albums[j].refs \subseteq refs[albums[j].id]
               /\ \A t \in albums[j].tracks :
                      t.id \in albums[j].refs /\ obj'[t.id].name = t.title
    <2>1. /\ albums[j].id \in ObjectIds /\ obj[albums[j].id].format = "Album"
          /\ \A t \in albums[j].refs : t \in ObjectIds /\ obj[t].format = "Track"
      BY <1>3, CachedThere
    <2>2. /\ obj[albums[j].id].artist = j[1] /\ obj[albums[j].id].name = j[2]
          /\ albums[j].refs \subseteq refs[albums[j].id]
          /\ \A t \in albums[j].tracks : t.id \in albums[j].refs /\ obj[t.id].name = t.title
      BY <1>3 DEF AlbumsAgree, CachedIsListed
    <2> QED
      BY <2>1, <2>2 DEF ObjectsKept
  <1>4. CachedIsListed'
    BY <1>2, <1>3 DEF CachedIsListed, HasAlbum
  <1>5. LoadedIsWhole'
    BY <1>2 DEF AlbumsAgree, LoadedIsWhole, HasAlbum
  <1> QED
    BY <1>1, <1>4, <1>5 DEF AlbumsAgree

\* What was printed stays in the cache and on the device.
LEMMA PrintedKeep ==
    ASSUME RefsInv, PrintedIsCached, pc # "off", ObjectsKept, loaded => loaded', out' = out,
           \A k \in AlbumKeys : HasAlbum(k) => HasAlbum(k)' /\ albums[k].refs \subseteq albums'[k].refs
    PROVE  PrintedIsCached'
  <1> SUFFICES ASSUME NEW r \in out
               PROVE  /\ loaded' /\ Meta[r.file] # NoMeta /\ HasAlbum(KeyOf(r.file))'
                      /\ r.id \in albums'[KeyOf(r.file)].refs
                      /\ obj'[r.id].name = Meta[r.file].title
    BY DEF PrintedIsCached
  <1>1. /\ loaded /\ Meta[r.file] # NoMeta /\ HasAlbum(KeyOf(r.file))
        /\ r.id \in albums[KeyOf(r.file)].refs /\ obj[r.id].name = Meta[r.file].title
    BY DEF PrintedIsCached
  <1>2. KeyOf(r.file) \in AlbumKeys
    <2>1. r.file \in Files
      BY DEF RefsInv, TypeOK, ProcessTypeOK, Results
    <2> QED
      BY <1>1, <2>1, TagTypes
  <1>3. r.id \in ObjectIds /\ obj[r.id].format = "Track"
    BY <1>1, <1>2, CachedThere
  <1> QED
    BY <1>1, <1>2, <1>3 DEF ObjectsKept

\* Steps of a process that neither touch the caches of albums nor print.
Calm ==
    /\ pc # "off" /\ ObjectsKept /\ UNCHANGED <<refs, albums, out>>
    /\ loaded => loaded'
    /\ pc' \notin {"data", "cover", "refs"}

LEMMA CalmKeeps == ASSUME CachesInv, RefsInv', Calm PROVE CachesInv'
  <1>1. AlbumsAgree'
    BY AlbumsKeep DEF CachesInv, AlbumsAgree, CachedIsListed, Calm
  <1>2. PrintedIsCached'
    BY PrintedKeep DEF CachesInv, Calm, HasAlbum
  <1>3. SongNamed'
    BY DEF Calm, SongNamed
  <1> QED
    BY <1>1, <1>2, <1>3 DEF CachesInv, AlbumsAgree

\* A command that is given up ends the process, or leaves what is cached alone.
LEMMA AbandonKeeps ==
    ASSUME CachesInv, RefsInv', pc # "off", ObjectsKept, NEW pl, AbandonWith(pl),
           \A k \in AlbumKeys : HasAlbum(k) => albums[k].refs \subseteq refs'[albums[k].id]
    PROVE  CachesInv'
  <1>1. AlbumsHaveArtists'
    BY DEF CachesInv, AlbumsHaveArtists, ObjectsKept, OfFormat
  <1>2. CASE \E how \in {"failed", "killed"} : Exit(how)
    <2>1. pc' = "off" /\ albums' = NoAlbums
      BY <1>2 DEF Exit, DropCaches
    <2> QED
      BY <1>1, <2>1, NoAlbumsAgree DEF CachesInv, AlbumsAgree, SongNamed, PrintedIsCached
  <1>3. CASE /\ Interactive /\ CommandDone({}) /\ loaded
             /\ UNCHANGED <<loaded, roots, artists, albums, snap, unread>>
    <2>1. pc' = "cmd" /\ out' = out
      BY <1>3 DEF CommandDone
    <2>2. AlbumsAgree'
      BY <1>3, AlbumsKeep DEF CachesInv, AlbumsAgree
    <2>3. PrintedIsCached'
      BY <1>3, <2>1, PrintedKeep DEF CachesInv, HasAlbum
    <2> QED
      BY <2>1, <2>2, <2>3 DEF CachesInv, AlbumsAgree, SongNamed
  <1>4. CASE CommandDone({}) /\ ~loaded /\ DropCaches
    <2>1. pc' = "cmd" /\ out' = out /\ albums' = NoAlbums
      BY <1>4 DEF CommandDone, DropCaches
    <2>2. out = {}
      BY <1>4 DEF CachesInv, PrintedIsCached
    <2> QED
      BY <1>1, <2>1, <2>2, NoAlbumsAgree DEF CachesInv, AlbumsAgree, SongNamed, PrintedIsCached
  <1> QED
    BY <1>2, <1>3, <1>4 DEF AbandonWith

\* The same where the device keeps its references.
LEMMA AbandonQuietly ==
    ASSUME CachesInv, RefsInv', pc # "off", ObjectsKept, refs' = refs, NEW pl, AbandonWith(pl)
    PROVE  CachesInv'
  BY AbandonKeeps DEF CachesInv, CachedIsListed

-----------------------------------------------------------------------------
(* The constructor and CreateArtist *)

LEMMA NotAnAlbum ==
    /\ \A parent, name : Folder(parent, name).format # "Album"
    /\ \A parent, name : Object("Artist", parent, name).format # "Album"
    /\ \A parent, name : Object("Playlist", parent, name).format # "Album"
  BY DEF Folder, Object

\* Creating a folder, an artist or a playlist.
LEMMA CreateOther ==
    ASSUME RefsInv, NEW id \in ObjectIds, NEW o \in Objects, o.format # "Album", Create(id, o)
    PROVE  ObjectsKept /\ refs' = refs
  BY CreateKeeps DEF RefsInv, TypeOK

LEMMA BeginInitKeeps == ASSUME CachesInv, RefsInv', BeginInit PROVE CachesInv'
  BY QuietKeeps, CalmKeeps DEF BeginInit, Goto, Calm

LEMMA CreateRootKeeps ==
    ASSUME CachesInv, RefsInv', NEW n \in RootFolders, CreateRoot(n)
    PROVE  CachesInv'
  <1>1. PICK id \in ObjectIds :
            /\ Create(id, Folder(Root, n))
            /\ \/ Goto("roots") /\ UNCHANGED <<loc, loaded, artists, albums, plists, snap, unread>>
               \/ Abandon
    BY DEF CreateRoot
  <1>2. Folder(Root, n) \in Objects
    BY FolderType, NamesAssumption DEF Labels
  <1>3. ObjectsKept /\ refs' = refs
    <2>1. RefsInv /\ Folder(Root, n).format # "Album"
      BY NotAnAlbum DEF CachesInv
    <2> QED
      BY <1>1, <1>2, <2>1, CreateOther
  <1> QED
    BY <1>1, <1>3, CalmKeeps, AbandonQuietly DEF CreateRoot, Goto, Calm, Abandon

LEMMA QueriesKeep ==
    ASSUME CachesInv, RefsInv', QueryArtists \/ QueryAlbums \/ LoadPlaylists
    PROVE  CachesInv'
  <1>1. ObjectsKept /\ refs' = refs
    <2>1. UNCHANGED <<obj, refs>>
      BY DEF QueryArtists, QueryAlbums, LoadPlaylists, device
    <2> QED
      BY <2>1 DEF ObjectsKept
  <1> QED
    BY <1>1, CalmKeeps DEF QueryArtists, QueryAlbums, LoadPlaylists, Goto, Calm

LEMMA LoadArtistKeeps ==
    ASSUME CachesInv, RefsInv', NEW id \in ObjectIds, LoadArtist(id)
    PROVE  CachesInv'
  <1> DEFINE folderOf == Folder(roots["Music"], obj[id].name)
             Insert == Goto("artists") /\ UNCHANGED <<loc, loaded, roots, albums, plists, snap>>
  <1>1. pc = "artists"
    BY DEF LoadArtist
  <1>2. folderOf \in Objects
    <2>1. roots["Music"] \in MaybeId /\ obj[id].name \in Labels
      BY DEF CachesInv, RefsInv, TypeOK, CacheTypeOK, DeviceTypeOK, Objects, RootFolders
    <2> QED
      BY <2>1, FolderType
  <1>3. \/ UNCHANGED device /\ Insert
        \/ \E folder \in ObjectIds : Create(folder, folderOf) /\ (Insert \/ Abandon)
    BY DEF LoadArtist
  <1>4. ObjectsKept /\ refs' = refs
    BY <1>2, <1>3, CreateOther, NotAnAlbum, QuietKeeps DEF CachesInv
  <1>5. Insert \/ Abandon
    BY <1>3
  <1> QED
    BY <1>1, <1>4, <1>5, CalmKeeps, AbandonQuietly DEF Goto, Calm, Abandon

LEMMA LoadAlbumArtistKeeps ==
    ASSUME CachesInv, RefsInv', NEW id \in ObjectIds, LoadAlbumArtist(id)
    PROVE  CachesInv'
  BY QuietKeeps, CalmKeeps DEF LoadAlbumArtist, NextAlbum, caches, Goto, Calm

\* Steps of CreateArtist are calm.
LEMMA ArtistFolderKeeps == ASSUME CachesInv, RefsInv', ArtistFolder PROVE CachesInv'
  <1> DEFINE folderOf == Folder(roots["Music"], loc.artist)
  <1>1. folderOf \in Objects
    BY FolderType DEF CachesInv, RefsInv, TypeOK, CacheTypeOK, ProcessTypeOK, Locals, Labels,
       RootFolders
  <1>2. /\ pc = "artistFolder"
        /\ \/ UNCHANGED device /\ \E folder : GotArtistFolder(folder)
           \/ \E folder \in ObjectIds :
                  Create(folder, folderOf) /\ (GotArtistFolder(folder) \/ Abandon)
    BY DEF ArtistFolder
  <1>3. ObjectsKept /\ refs' = refs
    BY <1>1, <1>2, CreateOther, NotAnAlbum, QuietKeeps DEF CachesInv
  <1>4. CASE \E folder : GotArtistFolder(folder)
    BY <1>2, <1>3, <1>4, CalmKeeps DEF GotArtistFolder, CreatedArtist, caches, Goto, Calm
  <1>5. CASE Abandon
    BY <1>2, <1>3, <1>5, AbandonQuietly DEF Abandon
  <1> QED
    BY <1>2, <1>4, <1>5

LEMMA ArtistObjectKeeps == ASSUME CachesInv, RefsInv', ArtistObject PROVE CachesInv'
  <1> DEFINE o == Object("Artist", roots["Artists"], loc.artist)
  <1>1. o \in Objects
    BY DEF Object, Objects, CachesInv, RefsInv, TypeOK, CacheTypeOK, ProcessTypeOK, Locals, Labels,
       RootFolders, MaybeId
  <1>2. /\ pc = "artistObject"
        /\ \E id \in ObjectIds : Create(id, o) /\ (CreatedArtist(id, loc.folder) \/ Abandon)
    BY DEF ArtistObject
  <1>3. ObjectsKept /\ refs' = refs
    BY <1>1, <1>2, CreateOther, NotAnAlbum DEF CachesInv
  <1>4. CASE \E id : CreatedArtist(id, loc.folder)
    BY <1>2, <1>3, <1>4, CalmKeeps DEF CreatedArtist, Goto, Calm
  <1>5. CASE Abandon
    BY <1>2, <1>3, <1>5, AbandonQuietly DEF Abandon
  <1> QED
    BY <1>2, <1>4, <1>5

\* An album that is entered into the cache references nothing yet.
LEMMA NewAlbumKeeps ==
    ASSUME CachesInv, RefsInv', pc # "off", pc' \in {"cmd", "albums"}, out' = out,
           loaded' = loaded, ObjectsKept, refs' = refs,
           NEW artist \in Names, NEW name, NEW id \in ObjectIds, NEW folder,
           obj'[id].artist = artist, obj'[id].name = name,
           albums' = WithAlbum(<<artist, name>>, id, folder)
    PROVE  CachesInv'
  <1> DEFINE k == <<artist, name>>
             new == CachedAlbum(id, folder)
  <1>1. SongNamed'
    BY DEF SongNamed
  <1>2. CASE albums' = albums
    BY <1>1, <1>2, CalmKeeps DEF Calm
  <1>3. CASE ~HasAlbum(k) /\ albums' = [albums EXCEPT ![k] = new] /\ k \in AlbumKeys
    <2>1. albums'[k] = new /\ \A j \in AlbumKeys : j # k => albums'[j] = albums[j]
      BY <1>3 DEF CachesInv, RefsInv, TypeOK, CacheTypeOK
    <2>2. /\ new.id = id /\ new.refs = {} /\ new.tracks = {} /\ new.loaded = FALSE
          /\ k[1] = artist /\ k[2] = name
      BY DEF CachedAlbum
    <2>3. new \in AlbumEntries
      BY <1>3, <2>1 DEF RefsInv, TypeOK, CacheTypeOK
    <2> HIDE DEF k, new
    <2>4. AlbumsAgree'
      BY <1>3, <2>2, <2>3, AlbumSet DEF CachesInv, AlbumsAgree
    <2>5. \A j \in AlbumKeys : HasAlbum(j) => HasAlbum(j)' /\ albums[j].refs \subseteq albums'[j].refs
      BY <1>3, <2>1 DEF HasAlbum
    <2>6. PrintedIsCached'
      BY <2>5, PrintedKeep DEF CachesInv
    <2> QED
      BY <1>1, <2>4, <2>6 DEF CachesInv, AlbumsAgree
  <1>4. CASE ~HasAlbum(k) /\ albums' = [albums EXCEPT ![k] = new] /\ k \notin AlbumKeys
    <2>1. albums' = albums
      BY <1>4 DEF CachesInv, RefsInv, TypeOK, CacheTypeOK
    <2> QED
      BY <1>2, <2>1
  <1> QED
    BY <1>2, <1>3, <1>4 DEF WithAlbum

\* The constructor enters an album under its artist and its name.
LEMMA LoadAlbumKeeps ==
    ASSUME CachesInv, RefsInv', NEW id \in ObjectIds, LoadAlbum(id)
    PROVE  CachesInv'
  <1> DEFINE name == obj[id].name
             artist == Known(obj[id].artist, "UknownArtist")
             folderOf == Folder(artists[artist].folder, name)
             Insert(folder) == /\ albums' = WithAlbum(<<artist, name>>, id, folder)
                               /\ Goto("albums") /\ UNCHANGED loaded
  <1>1. pc = "albums" /\ obj[id].format = "Album" /\ obj[id].artist # ""
    BY DEF LoadAlbum, NextAlbum, CachesInv, RefsInv, UnreadAreAlbums, AlbumsHaveArtists, OfFormat
  <1>2. artist = obj[id].artist /\ name \in Labels /\ artist \in Names
    BY <1>1 DEF Known, CachesInv, RefsInv, TypeOK, DeviceTypeOK, Objects
  <1>3. folderOf \in Objects
    BY <1>2, FolderType DEF CachesInv, RefsInv, TypeOK, CacheTypeOK, ArtistEntries
  <1>4. \/ UNCHANGED device /\ \E folder : Insert(folder)
        \/ \E folder \in ObjectIds : Create(folder, folderOf) /\ (Insert(folder) \/ Abandon)
    BY DEF LoadAlbum
  <1>5. ObjectsKept /\ refs' = refs
    BY <1>3, <1>4, CreateOther, NotAnAlbum, QuietKeeps DEF CachesInv
  <1>6. CASE Abandon
    BY <1>1, <1>5, <1>6, AbandonQuietly DEF Abandon
  <1>7. ASSUME NEW folder, Insert(folder)
        PROVE  CachesInv'
    BY <1>1, <1>2, <1>5, <1>7, NewAlbumKeeps DEF ObjectsKept, Goto
  <1> QED
    BY <1>4, <1>6, <1>7

LEMMA AlbumObjectKeeps == ASSUME CachesInv, RefsInv', AlbumObject PROVE CachesInv'
  <1> DEFINE f == Command.file
             o == [Object("Album", roots["Albums"], AlbumOf(f)) EXCEPT !.artist = ArtistOf(f)]
             Got(id) == /\ albums' = WithAlbum(KeyOf(f), id, loc.folder)
                        /\ Goto("cmd") /\ UNCHANGED loaded
  <1>1. /\ pc = "albumObject" /\ ArtistOf(f) \in Names /\ AlbumOf(f) \in Names
        /\ KeyOf(f) = <<ArtistOf(f), AlbumOf(f)>>
    BY ImportFacts, TagTypes DEF AlbumObject, CachesInv, KeyOf
  <1>2. o \in Objects /\ o.artist = ArtistOf(f) /\ o.name = AlbumOf(f) /\ o.artist # ""
    BY <1>1, NamesAssumption DEF Object, Objects, CachesInv, RefsInv, TypeOK, CacheTypeOK, Labels,
       RootFolders
  <1>3. PICK id \in ObjectIds : Create(id, o) /\ (Got(id) \/ Abandon)
    BY DEF AlbumObject
  <1>4. ObjectsKept /\ refs' = refs
    BY <1>2, <1>3, CreateKeeps DEF CachesInv, RefsInv, TypeOK
  <1>5. obj'[id] = o
    BY <1>3 DEF Create, CachesInv, RefsInv, TypeOK, DeviceTypeOK
  <1>6. CASE Abandon
    BY <1>1, <1>4, <1>6, AbandonQuietly DEF Abandon
  <1>7. CASE Got(id)
    <2> HIDE DEF o
    <2> QED
      BY <1>1, <1>2, <1>4, <1>5, <1>7, NewAlbumKeeps DEF Goto
  <1> QED
    BY <1>3, <1>6, <1>7

-----------------------------------------------------------------------------
(* ZuneImport *)

LEMMA NeedArtistKeeps ==
    ASSUME CachesInv, RefsInv', NEW f \in Files, NeedArtist(f)
    PROVE  CachesInv'
  BY QuietKeeps, CalmKeeps DEF NeedArtist, Importing, Running, caches, Goto, Calm

LEMMA AlbumFolderKeeps ==
    ASSUME CachesInv, RefsInv', NEW f \in Files, AlbumFolder(f)
    PROVE  CachesInv'
  <1> DEFINE folderOf == Folder(artists[ArtistOf(f)].folder, AlbumOf(f))
  <1>1. folderOf \in Objects
    BY TagTypes, FolderType DEF AlbumFolder, Importing, CachesInv, RefsInv, TypeOK, CacheTypeOK,
       ArtistEntries, Labels
  <1>2. /\ pc = "cmd"
        /\ \/ UNCHANGED device /\ \E folder : GotAlbumFolder(folder)
           \/ \E folder \in ObjectIds :
                  Create(folder, folderOf) /\ (GotAlbumFolder(folder) \/ Abandon)
    BY DEF AlbumFolder, Importing, Running
  <1>3. ObjectsKept /\ refs' = refs
    BY <1>1, <1>2, CreateOther, NotAnAlbum, QuietKeeps DEF CachesInv
  <1>4. CASE \E folder : GotAlbumFolder(folder)
    BY <1>2, <1>3, <1>4, CalmKeeps DEF GotAlbumFolder, caches, Goto, Calm
  <1>5. CASE Abandon
    BY <1>2, <1>3, <1>5, AbandonQuietly DEF Abandon
  <1> QED
    BY <1>2, <1>4, <1>5

\* What LoadRefs makes of an album's cache agrees with the device: its references
\* are those of the device and of the cache, its tracks are called what they are.
LEMMA RefsOfAgree ==
    ASSUME CachesInv, NEW k \in AlbumKeys, HasAlbum(k)
    PROVE  /\ RefsOf(k) \in AlbumEntries /\ RefsOf(k).id = albums[k].id
           /\ RefsOf(k).id \in ObjectIds
           /\ obj[albums[k].id].artist = k[1] /\ obj[albums[k].id].name = k[2]
           /\ albums[k].refs \subseteq RefsOf(k).refs
           /\ RefsOf(k).refs \subseteq refs[albums[k].id]
           /\ ~Interactive => refs[albums[k].id] \subseteq RefsOf(k).refs
           /\ \A t \in RefsOf(k).tracks : t.id \in RefsOf(k).refs /\ obj[t.id].name = t.title
  <1> DEFINE al == albums[k]
             ids == refs[al.id]
             more == {[title |-> obj[t].name, index |-> obj[t].index, id |-> t] : t \in ids}
  <1>1. /\ RefsOf(k) \in AlbumEntries /\ RefsOf(k).id = al.id /\ al.id \in ObjectIds
    BY RefsOfType DEF CachesInv, RefsInv, TypeOK
  <1>2. /\ obj[al.id].artist = k[1] /\ obj[al.id].name = k[2] /\ al.refs \subseteq ids
        /\ \A t \in al.tracks : t.id \in al.refs /\ obj[t.id].name = t.title
        /\ ~Interactive /\ al.loaded => ids \subseteq al.refs
    BY DEF CachesInv, CachedIsListed, LoadedIsWhole
  <1>3. \A t \in more : t.id \in ids /\ obj[t.id].name = t.title
    OBVIOUS
  <1>4. CASE al.loaded
    BY <1>1, <1>2, <1>4 DEF RefsOf
  <1>5. CASE ~al.loaded
    <2>1. RefsOf(k).refs = al.refs \cup ids /\ RefsOf(k).tracks = al.tracks \cup more
      BY <1>5 DEF RefsOf
    <2> HIDE DEF ids, more, al
    <2>2. \A t \in RefsOf(k).tracks : t.id \in RefsOf(k).refs /\ obj[t.id].name = t.title
      BY <1>2, <1>3, <2>1
    <2> QED
      BY <1>1, <1>2, <2>1, <2>2 DEF al, ids
  <1> QED
    BY <1>4, <1>5

\* One album's cache has come to know more.
LEMMA MoreCached ==
    ASSUME CachesInv, pc # "off", ObjectsKept, loaded => loaded', out' = out,
           NEW k \in AlbumKeys, HasAlbum(k), NEW al \in AlbumEntries, al.id = albums[k].id,
           albums[k].refs \subseteq al.refs, albums' = [albums EXCEPT ![k] = al]
    PROVE  PrintedIsCached'
  <1>1. albums'[k] = al /\ \A j \in AlbumKeys : j # k => albums'[j] = albums[j]
    BY DEF CachesInv, RefsInv, TypeOK, CacheTypeOK
  <1>2. \A j \in AlbumKeys :
            HasAlbum(j) => HasAlbum(j)' /\ albums[j].refs \subseteq albums'[j].refs
    BY <1>1 DEF HasAlbum
  <1> QED
    BY <1>2, PrintedKeep DEF CachesInv

\* LoadRefs' result is kept: nothing the caches agreed on is lost.
LEMMA RefsCachedKeep ==
    ASSUME CachesInv, ObjectsKept, refs' = refs,
           NEW k \in AlbumKeys, HasAlbum(k), albums' = [albums EXCEPT ![k] = RefsOf(k)]
    PROVE  AlbumsAgree'
  <1>1. /\ RefsOf(k) \in AlbumEntries /\ RefsOf(k).id = albums[k].id /\ RefsOf(k).id \in ObjectIds
        /\ obj[RefsOf(k).id].artist = k[1] /\ obj[RefsOf(k).id].name = k[2]
        /\ RefsOf(k).refs \subseteq refs[RefsOf(k).id]
        /\ ~Interactive => refs[RefsOf(k).id] \subseteq RefsOf(k).refs
        /\ \A t \in RefsOf(k).tracks : t.id \in RefsOf(k).refs /\ obj[t.id].name = t.title
    BY RefsOfAgree
  <1>2. obj[RefsOf(k).id].format = "Album"
    BY <1>1, CachedThere DEF CachesInv
  <1>3. \A t \in RefsOf(k).tracks : t.id \in ObjectIds /\ obj[t.id].format = "Track"
    BY <1>1, RefsOfType DEF CachesInv, RefsInv, TypeOK, CompleteTrack, AlbumEntries
  <1>4. /\ obj'[RefsOf(k).id].artist = k[1] /\ obj'[RefsOf(k).id].name = k[2]
        /\ \A t \in RefsOf(k).tracks : t.id \in RefsOf(k).refs /\ obj'[t.id].name = t.title
    BY <1>1, <1>2, <1>3 DEF ObjectsKept
  <1> HIDE DEF RefsOf
  <1> QED
    BY <1>1, <1>4, AlbumSet DEF CachesInv, AlbumsAgree

LEMMA SkipTrackKeeps ==
    ASSUME CachesInv, RefsInv', NEW f \in Files, SkipTrack(f)
    PROVE  CachesInv'
  <1> DEFINE k == KeyOf(f)
             al == RefsOf(k)
  <1>1. /\ pc = "cmd" /\ loaded /\ loaded' /\ Meta[f] # NoMeta /\ k \in AlbumKeys /\ HasAlbum(k)
        /\ albums' = [albums EXCEPT ![k] = al] /\ UNCHANGED device
    BY TagTypes DEF SkipTrack, Importing, Running
  <1>2. PICK t \in Matching(f, al.tracks) :
            CommandDone({[file |-> f, result |-> "skipped", id |-> t.id]})
    BY DEF SkipTrack
  <1>3. /\ al \in AlbumEntries /\ al.id = albums[k].id /\ albums[k].refs \subseteq al.refs
        /\ t.id \in al.refs /\ obj[t.id].name = Meta[f].title
    BY <1>1, RefsOfAgree DEF Matching
  <1>4. AlbumsAgree'
    BY <1>1, QuietKeeps, RefsCachedKeep
  <1> HIDE DEF k, al
  <1>5. albums'[k] = al /\ \A j \in AlbumKeys : j # k => albums'[j] = albums[j]
    BY <1>1 DEF CachesInv, RefsInv, TypeOK, CacheTypeOK
  <1>6. PrintedIsCached'
    <2> SUFFICES ASSUME NEW r \in out'
                 PROVE  /\ Meta[r.file] # NoMeta /\ HasAlbum(KeyOf(r.file))'
                        /\ r.id \in albums'[KeyOf(r.file)].refs
                        /\ obj[r.id].name = Meta[r.file].title
      BY <1>1 DEF PrintedIsCached, device
    <2>1. CASE r \in out
      <3>1. /\ Meta[r.file] # NoMeta /\ HasAlbum(KeyOf(r.file))
            /\ r.id \in albums[KeyOf(r.file)].refs /\ obj[r.id].name = Meta[r.file].title
        BY <1>1, <2>1 DEF CachesInv, PrintedIsCached
      <3>2. KeyOf(r.file) \in AlbumKeys
        BY <2>1, <3>1, TagTypes DEF CachesInv, RefsInv, TypeOK, ProcessTypeOK, Results
      <3> QED
        BY <1>1, <1>3, <1>5, <3>1, <3>2 DEF HasAlbum
    <2>2. CASE r = [file |-> f, result |-> "skipped", id |-> t.id]
      BY <1>1, <1>3, <1>5, <2>2 DEF HasAlbum, k
    <2> QED
      BY <1>2, <2>1, <2>2 DEF CommandDone
  <1> QED
    BY <1>2, <1>4, <1>6 DEF CachesInv, AlbumsAgree, SongNamed, CommandDone

LEMMA CreateTrackKeeps ==
    ASSUME CachesInv, RefsInv', NEW f \in Files, CreateTrack(f)
    PROVE  CachesInv'
  <1> DEFINE k == KeyOf(f)
             Got(id) == /\ loc' = [loc EXCEPT !.song = id]
                        /\ albums' = [albums EXCEPT ![k] = RefsOf(k)]
                        /\ Goto("data") /\ UNCHANGED loaded
  <1>1. /\ pc = "cmd" /\ f = Command.file /\ Meta[f] # NoMeta /\ k \in AlbumKeys /\ HasAlbum(k)
    BY TagTypes DEF CreateTrack, Importing, Running
  <1>2. /\ TrackObject(f) \in Objects /\ TrackObject(f).format = "Track"
        /\ TrackObject(f).name = Meta[f].title
    <2>1. albums[k].folder \in MaybeId
      BY <1>1 DEF CachesInv, RefsInv, TypeOK, CacheTypeOK, AlbumEntries
    <2> QED
      BY <1>1, <2>1, TagTypes DEF TrackObject, Object, Objects, Labels
  <1>3. PICK id \in ObjectIds : Create(id, TrackObject(f)) /\ (Got(id) \/ Abandon)
    BY DEF CreateTrack
  <1>4. ObjectsKept /\ refs' = refs /\ obj'[id] = TrackObject(f)
    BY <1>2, <1>3, CreateFresh, CreateOther DEF CachesInv, RefsInv, TypeOK
  <1>5. CASE Abandon
    BY <1>1, <1>4, <1>5, AbandonQuietly DEF Abandon
  <1>6. CASE Got(id)
    <2>1. AlbumsAgree'
      BY <1>1, <1>4, <1>6, RefsCachedKeep
    <2>2. PrintedIsCached'
      BY <1>1, <1>4, <1>6, RefsOfAgree, MoreCached DEF Goto
    <2>3. SongNamed'
      <3>1. loc'.song = id /\ Command' = Command
        BY <1>6 DEF Goto, Command, CachesInv, RefsInv, TypeOK, ProcessTypeOK, Locals
      <3> QED
        BY <1>1, <1>2, <1>4, <3>1 DEF SongNamed
    <2> QED
      BY <2>1, <2>2, <2>3 DEF CachesInv, AlbumsAgree
  <1> QED
    BY <1>3, <1>5, <1>6

LEMMA SendObjectKeeps == ASSUME CachesInv, RefsInv', SendObject PROVE CachesInv'
  <1> DEFINE sent == [obj[loc.song] EXCEPT !.complete = TRUE]
  <1>1. pc = "data" /\ loc.song \in ObjectIds /\ obj[loc.song] \in Objects
        /\ obj[loc.song].format = "Track"
    BY DEF SendObject, CachesInv, RefsInv, SongSent, TypeOK, DeviceTypeOK
  <1>2. sent.format = "Track" /\ sent.name = obj[loc.song].name
        /\ sent.artist = obj[loc.song].artist
    BY <1>1 DEF Objects
  <1>3. obj' = [obj EXCEPT ![loc.song] = sent] /\ refs' = refs
    BY DEF SendObject
  <1> HIDE DEF sent
  <1>4. obj'[loc.song] = sent /\ \A i \in ObjectIds : i # loc.song => obj'[i] = obj[i]
    BY <1>1, <1>3 DEF CachesInv, RefsInv, TypeOK, DeviceTypeOK
  <1>5. ObjectsKept
    BY <1>1, <1>2, <1>4 DEF ObjectsKept
  <1>6. CASE Abandon
    BY <1>1, <1>3, <1>5, <1>6, AbandonQuietly DEF Abandon
  <1>7. CASE Goto(pc') /\ UNCHANGED <<loc, caches>>
    <2>1. AlbumsAgree'
      BY <1>3, <1>5, <1>7, AlbumsKeep DEF CachesInv, AlbumsAgree, CachedIsListed, caches
    <2>2. PrintedIsCached'
      BY <1>1, <1>5, <1>7, PrintedKeep DEF CachesInv, caches, Goto, HasAlbum
    <2>3. SongNamed'
      BY <1>1, <1>2, <1>4, <1>7 DEF CachesInv, SongNamed, Goto, Command
    <2> QED
      BY <2>1, <2>2, <2>3 DEF CachesInv, AlbumsAgree
  <1> QED
    BY <1>6, <1>7 DEF SendObject, Goto

LEMMA AddCoverKeeps == ASSUME CachesInv, RefsInv', AddCover PROVE CachesInv'
  <1>1. pc = "cover" /\ ObjectsKept /\ obj' = obj /\ refs' = refs
        /\ Goto("refs") /\ UNCHANGED <<loc, caches>>
    BY QuietKeeps DEF AddCover, device
  <1>2. AlbumsAgree'
    BY <1>1, AlbumsKeep DEF CachesInv, AlbumsAgree, CachedIsListed, caches
  <1>3. PrintedIsCached'
    BY <1>1, PrintedKeep DEF CachesInv, caches, Goto, HasAlbum
  <1>4. SongNamed'
    BY <1>1 DEF CachesInv, SongNamed, Goto, Command
  <1> QED
    BY <1>2, <1>3, <1>4 DEF CachesInv, AlbumsAgree

\* Two cached albums are two objects.
LEMMA AlbumsApart ==
    ASSUME CachesInv, NEW j \in AlbumKeys, NEW k \in AlbumKeys, HasAlbum(j), HasAlbum(k),
           albums[j].id = albums[k].id
    PROVE  j = k
  <1>1. j[1] = k[1] /\ j[2] = k[2]
    BY DEF CachesInv, CachedIsListed
  <1> QED
    BY <1>1 DEF AlbumKeys

\* What AddTrack writes: all the album had, as far as the cache was whole, and the song.
LEMMA AddTrackWrites ==
    ASSUME CachesInv, AddTrack
    PROVE  LET k == KeyOf(Command.file)
               written == RefsOf(k).refs \cup {loc.song}
           IN  /\ refs' = [refs EXCEPT ![albums[k].id] = written]
               /\ \A j \in AlbumKeys : HasAlbum(j) =>
                      albums[j].refs \subseteq refs'[albums[j].id]
               /\ ~Interactive => \A a \in ObjectIds : refs[a] \subseteq refs'[a]
  <1> DEFINE k == KeyOf(Command.file)
             written == RefsOf(k).refs \cup {loc.song}
  <1>1. k \in AlbumKeys /\ HasAlbum(k)
    BY ImportFacts DEF CachesInv, AddTrack
  <1>2. /\ RefsOf(k).id = albums[k].id /\ albums[k].id \in ObjectIds
        /\ albums[k].refs \subseteq RefsOf(k).refs
        /\ ~Interactive => refs[albums[k].id] \subseteq RefsOf(k).refs
    BY <1>1, RefsOfAgree
  <1>3. refs' = [refs EXCEPT ![albums[k].id] = written]
    BY <1>2 DEF AddTrack
  <1> HIDE DEF k, written
  <1>4. /\ refs'[albums[k].id] = written
        /\ \A a \in ObjectIds : a # albums[k].id => refs'[a] = refs[a]
    BY <1>2, <1>3 DEF CachesInv, RefsInv, TypeOK, DeviceTypeOK
  <1>5. ASSUME NEW j \in AlbumKeys, HasAlbum(j)
        PROVE  albums[j].refs \subseteq refs'[albums[j].id]
    <2>1. albums[j].id \in ObjectIds /\ albums[j].refs \subseteq refs[albums[j].id]
      BY <1>5, CachedThere DEF CachesInv, CachedIsListed
    <2>2. CASE albums[j].id = albums[k].id
      <3>1. j = k
        BY <1>1, <1>5, <2>2, AlbumsApart
      <3> QED
        BY <1>2, <1>4, <3>1 DEF written
    <2>3. CASE albums[j].id # albums[k].id
      BY <1>4, <2>1, <2>3
    <2> QED
      BY <2>2, <2>3
  <1>6. ~Interactive => \A a \in ObjectIds : refs[a] \subseteq refs'[a]
    BY <1>2, <1>4 DEF written
  <1> QED
    BY <1>3, <1>5, <1>6 DEF k, written

LEMMA AddTrackKeeps == ASSUME CachesInv, RefsInv', AddTrack PROVE CachesInv'
  <1> DEFINE f == Command.file
             k == KeyOf(f)
             al == RefsOf(k)
             newTrack == [title |-> Meta[f].title, index |-> Meta[f].index, id |-> loc.song]
             new == WithTrack(al, newTrack)
             result == [file |-> f, result |-> "imported", id |-> loc.song]
  <1>1. /\ pc = "refs" /\ loaded /\ Meta[f] # NoMeta /\ k \in AlbumKeys /\ HasAlbum(k)
        /\ obj' = obj /\ ObjectsKept /\ obj[loc.song].name = Meta[f].title
    BY ImportFacts DEF AddTrack, CachesInv, SongNamed, ObjectsKept
  <1>2. /\ al.id = albums[k].id /\ al.id \in ObjectIds
        /\ obj[al.id].artist = k[1] /\ obj[al.id].name = k[2]
        /\ albums[k].refs \subseteq al.refs
        /\ \A t \in al.tracks : t.id \in al.refs /\ obj[t.id].name = t.title
    BY <1>1, RefsOfAgree
  <1>3. /\ refs' = [refs EXCEPT ![al.id] = al.refs \cup {loc.song}]
        /\ \A j \in AlbumKeys : HasAlbum(j) => albums[j].refs \subseteq refs'[albums[j].id]
    BY <1>2, AddTrackWrites
  <1>4. CASE Abandon
    BY <1>1, <1>3, <1>4, AbandonKeeps DEF Abandon
  <1>5. CASE /\ albums' = [albums EXCEPT ![k] = new] /\ CommandDone({result}) /\ UNCHANGED loaded
    <2>1. /\ new.id = al.id /\ new.refs = al.refs \cup {loc.song} /\ new.loaded
          /\ new.tracks = al.tracks \cup {newTrack}
          /\ newTrack.id = loc.song /\ newTrack.title = Meta[f].title
      BY DEF WithTrack
    <2>2. result.file = f /\ result.id = loc.song
      OBVIOUS
    <2> HIDE DEF new, newTrack, al, k, result
    <2>3. /\ albums'[k] = new /\ \A j \in AlbumKeys : j # k => albums'[j] = albums[j]
          /\ refs'[al.id] = new.refs /\ \A a \in ObjectIds : a # al.id => refs'[a] = refs[a]
      BY <1>1, <1>2, <1>3, <1>5, <2>1 DEF CachesInv, RefsInv, TypeOK, CacheTypeOK, DeviceTypeOK
    <2>4. CachedIsListed'
      <3> SUFFICES ASSUME NEW j \in AlbumKeys, albums'[j].id # NoId
                   PROVE  /\ obj[albums'[j].id].artist = j[1] /\ obj[albums'[j].id].name = j[2]
                          /\ albums'[j].refs \subseteq refs'[albums'[j].id]
                          /\ \A t \in albums'[j].tracks :
                                 t.id \in albums'[j].refs /\ obj[t.id].name = t.title
        BY <1>1 DEF CachedIsListed, HasAlbum
      <3>1. CASE j = k
        BY <1>1, <1>2, <2>1, <2>3, <3>1
      <3>2. CASE j # k
        BY <1>3, <2>3, <3>2 DEF CachesInv, CachedIsListed, HasAlbum
      <3> QED
        BY <3>1, <3>2
    <2>5. LoadedIsWhole'
      <3> SUFFICES ASSUME ~Interactive, NEW j \in AlbumKeys, albums'[j].id # NoId,
                          albums'[j].loaded
                   PROVE  refs'[albums'[j].id] \subseteq albums'[j].refs
        BY DEF LoadedIsWhole, HasAlbum
      <3>1. CASE j = k
        BY <2>1, <2>3, <3>1
      <3>2. CASE j # k
        <4>1. HasAlbum(j) /\ albums'[j] = albums[j]
          BY <2>3, <3>2 DEF HasAlbum
        <4>2. albums[j].id # albums[k].id /\ albums[j].id \in ObjectIds
          BY <1>1, <3>2, <4>1, AlbumsApart, CachedThere DEF CachesInv
        <4> QED
          BY <1>2, <2>3, <4>1, <4>2 DEF CachesInv, LoadedIsWhole
      <3> QED
        BY <3>1, <3>2
    <2>6. PrintedIsCached'
      <3> SUFFICES ASSUME NEW r \in out'
                   PROVE  /\ Meta[r.file] # NoMeta /\ HasAlbum(KeyOf(r.file))'
                          /\ r.id \in albums'[KeyOf(r.file)].refs
                          /\ obj[r.id].name = Meta[r.file].title
        BY <1>1, <1>5 DEF PrintedIsCached
      <3>1. CASE r \in out
        <4>1. /\ Meta[r.file] # NoMeta /\ HasAlbum(KeyOf(r.file))
              /\ r.id \in albums[KeyOf(r.file)].refs /\ obj[r.id].name = Meta[r.file].title
          BY <1>1, <3>1 DEF CachesInv, PrintedIsCached
        <4>2. KeyOf(r.file) \in AlbumKeys
          BY <3>1, <4>1, TagTypes DEF CachesInv, RefsInv, TypeOK, ProcessTypeOK, Results
        <4> QED
          BY <1>1, <1>2, <2>1, <2>3, <4>1, <4>2 DEF HasAlbum
      <3>2. CASE r = result
        BY <1>1, <1>2, <2>1, <2>2, <2>3, <3>2 DEF HasAlbum, k
      <3> QED
        BY <1>5, <3>1, <3>2 DEF CommandDone
    <2>7. AlbumsHaveArtists' /\ SongNamed'
      BY <1>1, <1>5 DEF CachesInv, AlbumsHaveArtists, OfFormat, SongNamed, CommandDone
    <2> QED
      BY <2>4, <2>5, <2>6, <2>7 DEF CachesInv
  <1> QED
    BY <1>4, <1>5 DEF AddTrack

-----------------------------------------------------------------------------
(* Playlists, the process and the user *)

LEMMA PlaylistsKeep ==
    ASSUME CachesInv, RefsInv', CreatePlaylist
    PROVE  CachesInv'
  <1> DEFINE o == Object("Playlist", Root, Command.list)
  <1>1. pc = "cmd" /\ Command.list \in Playlists
    BY ListFacts DEF CachesInv, CreatePlaylist
  <1>2. o \in Objects
    BY <1>1 DEF Object, Objects, Labels
  <1>3. PICK id \in ObjectIds :
            /\ Create(id, o)
            /\ \/ Goto("cmd") /\ UNCHANGED <<loc, loaded, roots, artists, albums, snap, unread>>
               \/ Abandon
    BY DEF CreatePlaylist
  <1>4. ObjectsKept /\ refs' = refs
    BY <1>2, <1>3, CreateOther, NotAnAlbum DEF CachesInv
  <1> QED
    BY <1>1, <1>3, <1>4, CalmKeeps, AbandonQuietly DEF Goto, Calm, Abandon

LEMMA WritePlaylistKeeps ==
    ASSUME CachesInv, RefsInv', pc = "cmd", NEW tracks, WritePlaylistRefs(tracks)
    PROVE  CachesInv'
  <1>1. ObjectsKept /\ refs' = refs
    BY DEF WritePlaylistRefs, ObjectsKept
  <1>2. \/ CommandDone({}) /\ UNCHANGED <<loaded, roots, artists, albums, snap, unread>>
        \/ \E pl : AbandonWith(pl)
    BY DEF WritePlaylistRefs
  <1> QED
    BY <1>1, <1>2, CalmKeeps, AbandonQuietly DEF CommandDone, Calm

\* A command that did nothing more.
LEMMA DoneKeeps ==
    ASSUME CachesInv, RefsInv', pc = "cmd", CommandDone({}), UNCHANGED <<device, caches>>
    PROVE  CachesInv'
  BY QuietKeeps, CalmKeeps DEF CommandDone, Calm, caches

LEMMA CommandsKeep ==
    ASSUME CachesInv, RefsInv', ClearPlaylist \/ AddToPlaylist \/ NotOnDevice \/ InitDone
    PROVE  CachesInv'
  <1>1. pc = "cmd"
    BY DEF ClearPlaylist, AddToPlaylist, NotOnDevice, InitDone, AddingToPlaylist, Running
  <1> QED
    BY <1>1, WritePlaylistKeeps, DoneKeeps DEF ClearPlaylist, AddToPlaylist, NotOnDevice, InitDone

LEMMA StartKeeps ==
    ASSUME CachesInv, RefsInv', NEW line \in CommandLines, Start(line)
    PROVE  CachesInv'
  <1>1. albums' = NoAlbums /\ pc' = "cmd" /\ out' = {}
    BY DEF Start, CachesInv, RefsInv, NoProcessNoCaches, caches
  <1>2. AlbumsHaveArtists'
    BY DEF Start, device, CachesInv, AlbumsHaveArtists, OfFormat
  <1> QED
    BY <1>1, <1>2, NoAlbumsAgree DEF CachesInv, AlbumsAgree, SongNamed, PrintedIsCached

LEMMA EndKeeps == ASSUME CachesInv, RefsInv', Finish \/ Fail PROVE CachesInv'
  <1>1. ObjectsKept /\ refs' = refs
    BY QuietKeeps DEF Finish, Fail
  <1>2. CASE Finish
    <2>1. pc' = "off" /\ albums' = NoAlbums
      BY <1>2 DEF Finish, Exit, DropCaches
    <2>2. AlbumsHaveArtists'
      BY <1>1 DEF CachesInv, AlbumsHaveArtists, ObjectsKept, OfFormat
    <2> QED
      BY <2>1, <2>2, NoAlbumsAgree DEF CachesInv, AlbumsAgree, SongNamed, PrintedIsCached
  <1>3. CASE Fail
    BY <1>1, <1>3, AbandonQuietly DEF Fail, Abandon
  <1> QED
    BY <1>2, <1>3

LEMMA RemoveKeeps ==
    ASSUME CachesInv, RefsInv', NEW id \in ObjectIds, pc = "off", Remove(id),
           UNCHANGED <<process, caches>>
    PROVE  CachesInv'
  <1>1. albums' = NoAlbums /\ pc' = "off"
    BY DEF CachesInv, RefsInv, NoProcessNoCaches, caches, process
  <1>2. AlbumsHaveArtists'
    <2>1. /\ obj'[id].format = "None"
          /\ \A i \in ObjectIds : i # id => obj'[i] = obj[i]
      BY DEF Remove, NoObject, Object, CachesInv, RefsInv, TypeOK, DeviceTypeOK
    <2> QED
      BY <2>1 DEF CachesInv, AlbumsHaveArtists, OfFormat
  <1> QED
    BY <1>1, <1>2, NoAlbumsAgree DEF CachesInv, AlbumsAgree, SongNamed, PrintedIsCached

-----------------------------------------------------------------------------
LEMMA InitCaches == Init => CachesInv
  <1> SUFFICES ASSUME Init PROVE CachesInv
    OBVIOUS
  <1>1. RefsInv
    BY InitInv
  <1>2. \A k \in AlbumKeys : ~HasAlbum(k)
    BY DEF Init, HasAlbum, NoAlbums, NoAlbum, CachedAlbum
  <1> QED
    BY <1>1, <1>2 DEF Init, CachesInv, AlbumsHaveArtists, OfFormat, NoObject, Object, CachedIsListed,
       LoadedIsWhole, SongNamed, PrintedIsCached

LEMMA StutterCaches == ASSUME CachesInv, RefsInv', UNCHANGED vars PROVE CachesInv'
  BY DEF vars, CachesInv, AlbumsHaveArtists, OfFormat, CachedIsListed, LoadedIsWhole, SongNamed,
     PrintedIsCached, HasAlbum, Command

LEMMA NextCaches == CachesInv /\ [Next]_vars => CachesInv'
  <1> SUFFICES ASSUME CachesInv, [Next]_vars PROVE CachesInv'
    OBVIOUS
  <1>0. RefsInv'
    BY NextInv DEF CachesInv
  <1>1. CASE Construct
    BY <1>0, <1>1, BeginInitKeeps, CreateRootKeeps, QueriesKeep, LoadArtistKeeps,
       LoadAlbumArtistKeeps, LoadAlbumKeeps DEF Construct
  <1>2. CASE CreateArtist
    BY <1>0, <1>2, ArtistFolderKeeps, ArtistObjectKeeps DEF CreateArtist
  <1>3. CASE ZuneImport
    BY <1>0, <1>3, NeedArtistKeeps, AlbumFolderKeeps, SkipTrackKeeps, CreateTrackKeeps,
       AlbumObjectKeeps, SendObjectKeeps, AddCoverKeeps, AddTrackKeeps DEF ZuneImport
  <1>4. CASE ZunePlaylist \/ InitDone
    BY <1>0, <1>4, PlaylistsKeep, CommandsKeep DEF ZunePlaylist
  <1>5. CASE Finish \/ Fail
    BY <1>0, <1>5, EndKeeps
  <1>6. CASE \E line \in CommandLines : Start(line)
    BY <1>0, <1>6, StartKeeps
  <1>7. CASE \E id \in ObjectIds : UserDeletes(id) \/ DropIncomplete(id)
    BY <1>0, <1>7, RemoveKeeps DEF UserDeletes, DropIncomplete
  <1>8. CASE UNCHANGED vars
    BY <1>0, <1>8, StutterCaches
  <1> QED
    BY <1>1, <1>2, <1>3, <1>4, <1>5, <1>6, <1>7, <1>8 DEF Next, ProcessStep

\* The caches agree with the device as far as they are written back or printed from.
THEOREM CachesInvHolds == Spec => []CachesInv
  BY InitCaches, NextCaches, PTL DEF Spec

\* Whatever zune-import printed in this process, "imported" or "skipped", is a
\* complete track of that title, shown by the album of that artist and name: also
\* at the prompt, where commands fail and the caches live on.
THEOREM PrintedAlwaysOnDevice == Spec => []PrintedIsOnDevice
  <1>1. CachesInv => PrintedIsOnDevice
    <2> SUFFICES ASSUME CachesInv, pc # "off", NEW r \in out
                 PROVE  /\ obj[r.id].format = "Track" /\ obj[r.id].complete
                        /\ obj[r.id].name = Meta[r.file].title
                        /\ \E a \in OfFormat("Album") :
                               /\ obj[a].artist = ArtistOf(r.file) /\ obj[a].name = AlbumOf(r.file)
                               /\ r.id \in refs[a]
      BY DEF PrintedIsOnDevice
    <2> DEFINE k == KeyOf(r.file)
               a == albums[k].id
    <2>1. /\ Meta[r.file] # NoMeta /\ HasAlbum(k)
          /\ r.id \in albums[k].refs /\ obj[r.id].name = Meta[r.file].title
      BY DEF CachesInv, PrintedIsCached
    <2>2. k \in AlbumKeys /\ k[1] = ArtistOf(r.file) /\ k[2] = AlbumOf(r.file)
      BY <2>1, TagTypes DEF KeyOf, CachesInv, RefsInv, TypeOK, ProcessTypeOK, Results
    <2>3. /\ a \in OfFormat("Album") /\ obj[a].artist = k[1] /\ obj[a].name = k[2]
          /\ r.id \in refs[a]
      BY <2>1, <2>2, CachedThere DEF CachesInv, CachedIsListed, OfFormat
    <2>4. obj[r.id].format = "Track" /\ obj[r.id].complete
      BY <2>3 DEF CachesInv, RefsInv, RefsComplete, OfFormat
    <2> QED
      BY <2>1, <2>2, <2>3, <2>4
  <1> QED
    BY <1>1, CachesInvHolds, PTL

\* What a step of a process does to objects and albums.
ProcessWrites ==
    \/ UNCHANGED <<obj, refs>>
    \/ \E id \in ObjectIds : \E o : Create(id, o)
    \/ SendObject
    \/ AddTrack

LEMMA StepsWrite == ASSUME Next, pc # "off" PROVE ProcessWrites
  <1>1. ASSUME Construct PROVE ProcessWrites
    <2>1. LoadPlaylists => UNCHANGED <<obj, refs>>
      BY DEF LoadPlaylists
    <2> QED
      BY <1>1, <2>1 DEF Construct, BeginInit, CreateRoot, QueryArtists, LoadArtist, QueryAlbums,
         LoadAlbumArtist, LoadAlbum, device, ProcessWrites
  <1>2. ASSUME CreateArtist PROVE ProcessWrites
    BY <1>2 DEF CreateArtist, ArtistFolder, ArtistObject, device, ProcessWrites
  <1>3. ASSUME ZuneImport PROVE ProcessWrites
    BY <1>3 DEF ZuneImport, NeedArtist, AlbumFolder, SkipTrack, CreateTrack, AlbumObject, AddCover,
       device, ProcessWrites
  <1>4. ASSUME ZunePlaylist PROVE ProcessWrites
    BY <1>4 DEF ZunePlaylist, CreatePlaylist, ClearPlaylist, AddToPlaylist, NotOnDevice,
       WritePlaylistRefs, device, ProcessWrites
  <1>5. ASSUME InitDone \/ Finish \/ Fail PROVE ProcessWrites
    BY <1>5 DEF InitDone, Finish, Fail, device, ProcessWrites
  <1>6. ~ \E line \in CommandLines : Start(line)
    BY DEF Start
  <1>7. ~ \E id \in ObjectIds : UserDeletes(id) \/ DropIncomplete(id)
    BY DEF UserDeletes, DropIncomplete
  <1> QED
    BY <1>1, <1>2, <1>3, <1>4, <1>5, <1>6, <1>7 DEF Next, ProcessStep

LEMMA WritesAdd ==
    ASSUME CachesInv, ~Interactive, ProcessWrites
    PROVE  InUse \subseteq InUse' /\ \A a \in ObjectIds : refs[a] \subseteq refs'[a]
  <1>1. CASE UNCHANGED <<obj, refs>>
    BY <1>1 DEF InUse
  <1>2. CASE \E id \in ObjectIds : \E o : Create(id, o)
    <2>0. PICK id \in ObjectIds : \E o : Create(id, o)
      BY <1>2
    <2>1. PICK o : Create(id, o)
      BY <2>0
    <2>2. id \notin InUse /\ obj' = [obj EXCEPT ![id] = o] /\ refs' = refs
      BY <2>1, IdAssumption DEF Create, InUse
    <2> QED
      BY <2>2 DEF InUse, CachesInv, RefsInv, TypeOK, DeviceTypeOK
  <1>3. CASE SendObject
    <2> DEFINE sent == [obj[loc.song] EXCEPT !.complete = TRUE]
    <2>1. loc.song \in ObjectIds /\ obj[loc.song] \in Objects
      BY <1>3 DEF SendObject, CachesInv, RefsInv, SongSent, TypeOK, DeviceTypeOK
    <2>2. sent.format = obj[loc.song].format
      BY <2>1 DEF Objects
    <2>3. obj' = [obj EXCEPT ![loc.song] = sent] /\ refs' = refs
      BY <1>3 DEF SendObject
    <2> HIDE DEF sent
    <2> QED
      BY <2>1, <2>2, <2>3 DEF InUse, CachesInv, RefsInv, TypeOK, DeviceTypeOK
  <1>4. CASE AddTrack
    BY <1>4, AddTrackWrites DEF AddTrack, InUse
  <1> QED
    BY <1>1, <1>2, <1>3, <1>4 DEF ProcessWrites

\* A process given its commands on the command line takes nothing from the device:
\* no object, and no track from an album, although the references it writes come
\* from a cache.  The assumption is needed: at the prompt a track whose import
\* failed with the answer to SetObjectReferences lost is dropped by the next one.
THEOREM ProcessAlwaysAdds ==
    ASSUME ~Interactive
    PROVE  Spec => ProcessOnlyAdds
  <1>1. CachesInv /\ [Next]_vars =>
            [pc # "off" => /\ InUse \subseteq InUse'
                           /\ \A a \in ObjectIds : refs[a] \subseteq refs'[a]]_vars
    BY StepsWrite, WritesAdd
  <1> QED
    BY <1>1, CachesInvHolds, PTL DEF Spec, ProcessOnlyAdds
-----------------------------------------------------------------------------
(* The zune-* commands implement ZuneStore, for all files, names and devices,  *)
(* where the process ends with the first failure, the references of playlists *)
(* can be read, and track numbers fit the device's property; what they leave  *)
(* on the device bears unique names, and adding to a playlist drops nothing   *)
(* from it.                                                                   *)

\* The conditions: at the prompt a lost answer is forgotten, and a track number that is
\* cut is not recognised.
Batch ==
    /\ ~Interactive
    /\ \A f \in Files : Meta[f] # NoMeta => Meta[f].index < TrackModulus

-----------------------------------------------------------------------------
(* The invariant *)

\* Albums and playlists are unique by their names, which are those of the files'
\* tags and of the commands.
AlbumsUnique ==
    /\ \A a \in OfFormat("Album") : <<obj[a].artist, obj[a].name>> \in AlbumKeys
    /\ \A a, b \in OfFormat("Album") :
           obj[a].artist = obj[b].artist /\ obj[a].name = obj[b].name => a = b

PlaylistsUnique ==
    /\ \A i \in OfFormat("Playlist") : obj[i].name \in Playlists
    /\ \A i, j \in OfFormat("Playlist") :
           obj[i].name = obj[j].name /\ obj[i].name \notin unnamed => i = j

\* Only playlists have contents.
ListsOfPlaylists == \A i \in ObjectIds : obj[i].format # "Playlist" => lists[i] = <<>>

\* What the process knows once it has asked for the albums: each is in the cache, or
\* yet to be looked at.
Asked == (pc = "cmd" /\ loaded)
         \/ pc \in {"albums", "artistFolder", "artistObject", "albumObject", "data", "cover", "refs"}

AlbumsKnown ==
    /\ pc \in {"roots", "artists"} => ~loaded
    /\ pc = "albumObject" => ~HasAlbum(KeyOf(Command.file))
    /\ Asked => \A a \in OfFormat("Album") :
                    \/ albums[<<obj[a].artist, obj[a].name>>].id = a
                    \/ ~loaded /\ a \in unread

\* Cached playlists are the device's, with what is in them where that could be read,
\* and all of them but those whose names could not.
PlaylistKnown(q) ==
    IF plists[q].id = NoId THEN plists[q] = NoPlaylist
    ELSE /\ plists[q].id \in OfFormat("Playlist") /\ obj[plists[q].id].name = q
         /\ plists[q].tracks = IF plists[q].whole THEN lists[plists[q].id] ELSE <<>>

PlaylistsKnown ==
    /\ pc = "off" => plists = NoPlaylists /\ ~loaded
    /\ loaded /\ PlaylistsSupported =>
           \A i \in OfFormat("Playlist") : obj[i].name \notin unnamed => plists[obj[i].name].id = i
    /\ \A q \in Playlists : PlaylistKnown(q)

\* Once the references of an album have been read, its tracks are known as the
\* device has them.
TracksKnown ==
    \A k \in AlbumKeys : HasAlbum(k) /\ albums[k].loaded =>
        \A i \in refs[albums[k].id] :
            \E t \in albums[k].tracks :
                t.id = i /\ t.title = obj[i].name /\ t.index = obj[i].index

\* The new track is in no album yet, and its album shows none like it.
SongNew ==
    pc \in {"data", "cover", "refs"} =>
        /\ obj[loc.song].index = Meta[Command.file].index
        /\ \A a \in ObjectIds : loc.song \notin refs[a]
        /\ \A i \in refs[albums[KeyOf(Command.file)].id] :
               ~ (obj[i].name = Meta[Command.file].title /\ obj[i].index = Meta[Command.file].index)

StoreInv ==
    /\ CachesInv /\ AlbumsUnique /\ PlaylistsUnique /\ ListsOfPlaylists /\ AlbumsKnown
    /\ PlaylistsKnown /\ TracksKnown /\ SongNew

DeviceSound == AlbumsUnique /\ PlaylistsUnique /\ ListsOfPlaylists

-----------------------------------------------------------------------------
(* The device *)

\* What an object is known by.
SameObject(i) ==
    /\ obj'[i].format = obj[i].format /\ obj'[i].name = obj[i].name
    /\ obj'[i].artist = obj[i].artist /\ obj'[i].index = obj[i].index

\* Objects stay what they are, and there is no new album or playlist.
Still ==
    /\ \A i \in InUse : SameObject(i)
    /\ \A i \in ObjectIds : obj'[i].format \in {"Album", "Playlist"} => i \in InUse
    /\ refs' = refs /\ lists' = lists /\ unnamed \subseteq unnamed'

LEMMA SmallIndex ==
    ASSUME Batch, NEW f \in Files, Meta[f] # NoMeta
    PROVE  Meta[f].index % TrackModulus = Meta[f].index
  <1>1. Meta[f].index \in Nat /\ Meta[f].index < TrackModulus
    BY TagTypes DEF Batch
  <1> QED
    BY <1>1, ModulusAssumption

LEMMA QuietStill == ASSUME UNCHANGED device PROVE Still
  BY DEF device, Still, SameObject, InUse

\* A new object takes a handle that was free.
LEMMA CreateAt ==
    ASSUME DeviceTypeOK, NEW id \in ObjectIds, NEW o \in Objects, Create(id, o)
    PROVE  /\ id \notin InUse /\ obj'[id] = o /\ refs' = refs /\ lists' = lists /\ unnamed' = unnamed
           /\ \A i \in ObjectIds : i # id => obj'[i] = obj[i]
           /\ \A i \in InUse : SameObject(i)
  <1>1. /\ id \notin InUse /\ obj' = [obj EXCEPT ![id] = o]
        /\ refs' = refs /\ lists' = lists /\ unnamed' = unnamed
    BY IdAssumption DEF Create, InUse
  <1>2. obj'[id] = o /\ \A i \in ObjectIds : i # id => obj'[i] = obj[i]
    BY <1>1 DEF DeviceTypeOK
  <1> QED
    BY <1>1, <1>2 DEF SameObject, InUse

LEMMA CreateStill ==
    ASSUME DeviceTypeOK, NEW id \in ObjectIds, NEW o \in Objects, Create(id, o),
           o.format \notin {"Album", "Playlist"}
    PROVE  Still
  BY CreateAt DEF Still, InUse

LEMMA StillSound == ASSUME DeviceSound, Still PROVE DeviceSound'
  <1>1. \A i \in ObjectIds : obj'[i].format \in {"Album", "Playlist"} => SameObject(i)
    BY DEF Still
  <1>2. \A i \in ObjectIds : obj[i].format = "Playlist" => obj'[i].format = "Playlist"
    BY DEF Still, SameObject, InUse
  <1>3. AlbumsUnique'
    BY <1>1 DEF DeviceSound, AlbumsUnique, OfFormat, SameObject
  <1>4. PlaylistsUnique'
    BY <1>1 DEF DeviceSound, PlaylistsUnique, OfFormat, SameObject, Still
  <1>5. ListsOfPlaylists'
    BY <1>2 DEF DeviceSound, ListsOfPlaylists, Still
  <1> QED
    BY <1>3, <1>4, <1>5 DEF DeviceSound

\* A new album, or a new playlist, that there was none like.
LEMMA NewAlbumSound ==
    ASSUME DeviceTypeOK, DeviceSound, NEW id \in ObjectIds, NEW o \in Objects, Create(id, o),
           o.format = "Album", <<o.artist, o.name>> \in AlbumKeys,
           \A a \in OfFormat("Album") : ~(obj[a].artist = o.artist /\ obj[a].name = o.name)
    PROVE  DeviceSound'
  <1>1. /\ id \notin InUse /\ obj'[id] = o /\ lists' = lists /\ unnamed' = unnamed
        /\ \A i \in ObjectIds : i # id => obj'[i] = obj[i]
    BY CreateAt
  <1>2. AlbumsUnique'
    BY <1>1 DEF DeviceSound, AlbumsUnique, OfFormat
  <1>3. PlaylistsUnique'
    BY <1>1 DEF DeviceSound, PlaylistsUnique, OfFormat
  <1>4. ListsOfPlaylists'
    BY <1>1 DEF DeviceSound, ListsOfPlaylists, InUse
  <1> QED
    BY <1>2, <1>3, <1>4 DEF DeviceSound

LEMMA NewPlaylistSound ==
    ASSUME DeviceTypeOK, DeviceSound, NEW id \in ObjectIds, NEW o \in Objects, Create(id, o),
           o.format = "Playlist", o.name \in Playlists,
           \A i \in OfFormat("Playlist") : obj[i].name # o.name \/ o.name \in unnamed
    PROVE  DeviceSound'
  <1>1. /\ id \notin InUse /\ obj'[id] = o /\ lists' = lists /\ unnamed' = unnamed
        /\ \A i \in ObjectIds : i # id => obj'[i] = obj[i]
    BY CreateAt
  <1>2. AlbumsUnique'
    BY <1>1 DEF DeviceSound, AlbumsUnique, OfFormat
  <1>3. PlaylistsUnique'
    BY <1>1 DEF DeviceSound, PlaylistsUnique, OfFormat
  <1>4. ListsOfPlaylists'
    BY <1>1 DEF DeviceSound, ListsOfPlaylists, InUse
  <1> QED
    BY <1>2, <1>3, <1>4 DEF DeviceSound

-----------------------------------------------------------------------------
(* The process *)

\* The process that ends knows nothing any more.
LEMMA ExitStore ==
    ASSUME CachesInv', DeviceSound', NEW how, Exit(how)
    PROVE  StoreInv'
  <1>1. pc' = "off" /\ albums' = NoAlbums /\ plists' = NoPlaylists /\ ~loaded'
    BY DEF Exit, DropCaches
  <1>2. AlbumsKnown' /\ SongNew'
    BY <1>1 DEF AlbumsKnown, Asked, SongNew
  <1>3. TracksKnown'
    BY <1>1 DEF TracksKnown, HasAlbum, NoAlbums, NoAlbum, CachedAlbum
  <1>4. PlaylistsKnown'
    BY <1>1 DEF PlaylistsKnown, PlaylistKnown, NoPlaylists, NoPlaylist
  <1> QED
    BY <1>2, <1>3, <1>4 DEF StoreInv, DeviceSound

LEMMA AbandonStore ==
    ASSUME Batch, CachesInv', DeviceSound', NEW pl, AbandonWith(pl)
    PROVE  StoreInv'
  BY ExitStore DEF Batch, AbandonWith

LEMMA StoreSound == ASSUME StoreInv PROVE DeviceSound /\ DeviceTypeOK /\ CacheTypeOK /\ RefsInv
  BY DEF StoreInv, DeviceSound, CachesInv, RefsInv, TypeOK

\* What was known of tracks and playlists is still known.
LEMMA TracksStill ==
    ASSUME StoreInv, \A i \in InUse : SameObject(i), refs' = refs,
           \A k \in AlbumKeys : HasAlbum(k)' /\ albums'[k].loaded => albums'[k] = albums[k]
    PROVE  TracksKnown'
  <1> SUFFICES ASSUME NEW k \in AlbumKeys, HasAlbum(k), albums[k].loaded, albums'[k] = albums[k],
                      NEW i \in refs[albums[k].id]
               PROVE  \E t \in albums[k].tracks :
                          t.id = i /\ t.title = obj'[i].name /\ t.index = obj'[i].index
    BY DEF TracksKnown, HasAlbum
  <1>1. albums[k].id \in ObjectIds
    BY CachedThere, StoreSound
  <1>2. i \in InUse
    BY <1>1, StoreSound DEF RefsInv, RefsComplete, TypeOK, DeviceTypeOK, InUse
  <1> QED
    BY <1>2 DEF StoreInv, TracksKnown, SameObject

LEMMA PlaylistsStill ==
    ASSUME StoreInv, \A i \in InUse : SameObject(i), lists' = lists, unnamed \subseteq unnamed',
           \A i \in ObjectIds : obj'[i].format = "Playlist" => i \in InUse,
           plists' = plists, loaded' = loaded, pc # "off" \/ pc' = pc
    PROVE  PlaylistsKnown' \/ pc' = "off"
  <1>1. \A i \in ObjectIds : obj'[i].format = "Playlist" => SameObject(i)
    OBVIOUS
  <1>2. \A i \in ObjectIds : obj[i].format = "Playlist" => SameObject(i)
    BY DEF InUse
  <1>3. \A q \in Playlists : PlaylistKnown(q)'
    BY <1>2 DEF StoreInv, PlaylistsKnown, PlaylistKnown, OfFormat, SameObject
  <1> QED
    BY <1>1, <1>2, <1>3 DEF StoreInv, PlaylistsKnown, OfFormat, SameObject

LEMMA AlbumsStill ==
    ASSUME StoreInv, Still, albums' = albums, Asked' => Asked /\ loaded' = loaded /\ unread' = unread,
           pc' \in {"roots", "artists"} => ~loaded',
           pc' = "albumObject" => ~HasAlbum(KeyOf(Command'.file))
    PROVE  AlbumsKnown'
  <1>1. \A i \in ObjectIds : obj'[i].format = "Album" => SameObject(i)
    BY DEF Still
  <1>2. Asked' => \A a \in OfFormat("Album")' :
                     \/ albums[<<obj'[a].artist, obj'[a].name>>].id = a
                     \/ ~loaded' /\ a \in unread'
    BY <1>1 DEF StoreInv, AlbumsKnown, OfFormat, SameObject
  <1>3. pc' = "albumObject" => ~HasAlbum(KeyOf(Command.file))'
    BY DEF HasAlbum, KeyOf, ArtistOf, AlbumOf
  <1> QED
    BY <1>2, <1>3 DEF AlbumsKnown

\* Most steps change nothing the invariant speaks of.
LEMMA StillStore ==
    ASSUME StoreInv, CachesInv', Still, UNCHANGED <<albums, plists, loaded>>, pc # "off",
           pc' \notin {"off", "data", "cover", "refs"}, Asked' => Asked /\ unread' = unread,
           pc' \in {"roots", "artists"} => ~loaded,
           pc' = "albumObject" => ~HasAlbum(KeyOf(Command'.file))
    PROVE  StoreInv'
  <1>1. DeviceSound'
    BY StillSound, StoreSound
  <1>2. TracksKnown' /\ PlaylistsKnown' /\ AlbumsKnown'
    BY TracksStill, PlaylistsStill, AlbumsStill DEF Still
  <1>3. SongNew'
    BY DEF SongNew
  <1> QED
    BY <1>1, <1>2, <1>3 DEF StoreInv, DeviceSound

-----------------------------------------------------------------------------
(* The constructor and CreateArtist *)

\* Giving up after a step that left albums and playlists alone.
LEMMA StillAbandon ==
    ASSUME Batch, StoreInv, CachesInv', Still, NEW pl, AbandonWith(pl)
    PROVE  StoreInv'
  BY StillSound, StoreSound, AbandonStore

\* Folders and artists are neither albums nor playlists.
LEMMA OtherStill ==
    ASSUME StoreInv, NEW id \in ObjectIds, NEW o \in Objects, Create(id, o),
           o.format \in {"Association", "Artist", "Track"}
    PROVE  Still
  BY StoreSound, CreateStill

LEMMA FolderFormat ==
    \A parent, name : /\ Folder(parent, name).format = "Association"
                      /\ Object("Artist", parent, name).format = "Artist"
  BY DEF Folder, Object

LEMMA BeginInitStore == ASSUME StoreInv, CachesInv', BeginInit PROVE StoreInv'
  BY QuietStill, StillStore DEF BeginInit, Goto, Asked

LEMMA CreateRootStore ==
    ASSUME Batch, StoreInv, CachesInv', NEW n \in RootFolders, CreateRoot(n)
    PROVE  StoreInv'
  <1>1. PICK id \in ObjectIds :
            /\ Create(id, Folder(Root, n))
            /\ \/ Goto("roots") /\ UNCHANGED <<loc, loaded, artists, albums, plists, snap, unread>>
               \/ Abandon
    BY DEF CreateRoot
  <1>2. Folder(Root, n) \in Objects
    BY FolderType, NamesAssumption DEF Labels
  <1>3. Still
    BY <1>1, <1>2, OtherStill, FolderFormat
  <1>4. pc = "roots" /\ ~loaded
    BY DEF CreateRoot, StoreInv, AlbumsKnown
  <1> QED
    BY <1>1, <1>3, <1>4, StillStore, StillAbandon DEF Goto, Asked, Abandon

LEMMA QueryArtistsStore == ASSUME StoreInv, CachesInv', QueryArtists PROVE StoreInv'
  <1>1. pc = "roots" /\ ~loaded
    BY DEF QueryArtists, StoreInv, AlbumsKnown
  <1> QED
    BY <1>1, QuietStill, StillStore DEF QueryArtists, Goto, Asked

LEMMA LoadArtistStore ==
    ASSUME Batch, StoreInv, CachesInv', NEW id \in ObjectIds, LoadArtist(id)
    PROVE  StoreInv'
  <1> DEFINE folderOf == Folder(roots["Music"], obj[id].name)
             Insert == Goto("artists") /\ UNCHANGED <<loc, loaded, roots, albums, plists, snap>>
  <1>1. pc = "artists" /\ ~loaded
    BY DEF LoadArtist, StoreInv, AlbumsKnown
  <1>2. folderOf \in Objects
    <2>1. roots["Music"] \in MaybeId /\ obj[id].name \in Labels
      BY StoreSound DEF CacheTypeOK, DeviceTypeOK, Objects, RootFolders
    <2> QED
      BY <2>1, FolderType
  <1>3. \/ UNCHANGED device /\ Insert
        \/ \E folder \in ObjectIds : Create(folder, folderOf) /\ (Insert \/ Abandon)
    BY DEF LoadArtist
  <1>4. Still
    BY <1>2, <1>3, OtherStill, FolderFormat, QuietStill
  <1>5. Insert \/ Abandon
    BY <1>3
  <1> QED
    BY <1>1, <1>4, <1>5, StillStore, StillAbandon DEF Goto, Asked, Abandon

\* All albums are asked for.
LEMMA QueryAlbumsStore == ASSUME StoreInv, CachesInv', QueryAlbums PROVE StoreInv'
  <1>1. pc = "artists" /\ ~loaded /\ Still /\ pc' = "albums" /\ ~loaded'
        /\ UNCHANGED <<obj, albums, plists, loaded>> /\ unread' = OfFormat("Album")
    BY QuietStill DEF QueryAlbums, StoreInv, AlbumsKnown, Goto, device
  <1>2. DeviceSound'
    BY <1>1, StillSound, StoreSound
  <1>4. TracksKnown'
    BY <1>1, TracksStill DEF Still
  <1>5. PlaylistsKnown'
    BY <1>1, PlaylistsStill DEF Still
  <1>3. AlbumsKnown' /\ SongNew'
    BY <1>1 DEF AlbumsKnown, SongNew, OfFormat
  <1> QED
    BY <1>2, <1>3, <1>4, <1>5 DEF StoreInv, DeviceSound

LEMMA LoadAlbumArtistStore ==
    ASSUME StoreInv, CachesInv', NEW id \in ObjectIds, LoadAlbumArtist(id)
    PROVE  StoreInv'
  BY QuietStill, StillStore DEF LoadAlbumArtist, NextAlbum, caches, Goto, Asked

LEMMA CreatedArtistStore ==
    ASSUME StoreInv, CachesInv', Still, pc \in {"artistFolder", "artistObject"},
           NEW id, NEW folder, CreatedArtist(id, folder)
    PROVE  StoreInv'
  BY StillStore DEF CreatedArtist, Goto, Asked

LEMMA ArtistFolderStore == ASSUME Batch, StoreInv, CachesInv', ArtistFolder PROVE StoreInv'
  <1> DEFINE folderOf == Folder(roots["Music"], loc.artist)
  <1>1. folderOf \in Objects
    BY FolderType, StoreSound DEF RefsInv, TypeOK, CacheTypeOK, ProcessTypeOK, Locals, Labels,
       RootFolders
  <1>2. /\ pc = "artistFolder"
        /\ \/ UNCHANGED device /\ \E folder : GotArtistFolder(folder)
           \/ \E folder \in ObjectIds :
                  Create(folder, folderOf) /\ (GotArtistFolder(folder) \/ Abandon)
    BY DEF ArtistFolder
  <1>3. Still
    BY <1>1, <1>2, OtherStill, FolderFormat, QuietStill
  <1>4. CASE \E folder : GotArtistFolder(folder)
    BY <1>2, <1>3, <1>4, CreatedArtistStore, StillStore DEF GotArtistFolder, caches, Goto, Asked
  <1>5. CASE Abandon
    BY <1>3, <1>5, StillAbandon DEF Abandon
  <1> QED
    BY <1>2, <1>4, <1>5

LEMMA ArtistObjectStore == ASSUME Batch, StoreInv, CachesInv', ArtistObject PROVE StoreInv'
  <1> DEFINE o == Object("Artist", roots["Artists"], loc.artist)
  <1>1. o \in Objects
    BY StoreSound DEF Object, Objects, RefsInv, TypeOK, CacheTypeOK, ProcessTypeOK, Locals, Labels,
       RootFolders, MaybeId
  <1>2. /\ pc = "artistObject"
        /\ \E id \in ObjectIds : Create(id, o) /\ (CreatedArtist(id, loc.folder) \/ Abandon)
    BY DEF ArtistObject
  <1>3. Still
    BY <1>1, <1>2, OtherStill, FolderFormat
  <1> QED
    BY <1>2, <1>3, CreatedArtistStore, StillAbandon DEF Abandon

\* An album is entered into the cache, unless it is there.
LEMMA AlbumEntered ==
    ASSUME StoreInv, CachesInv', DeviceSound', \A i \in InUse : SameObject(i),
           refs' = refs, lists' = lists, unnamed' = unnamed,
           NEW k \in AlbumKeys, NEW id \in ObjectIds, NEW folder,
           obj'[id].format = "Album", obj'[id].artist = k[1], obj'[id].name = k[2],
           albums' = WithAlbum(k, id, folder),
           \A i \in ObjectIds : obj'[i].format \in {"Album", "Playlist"} => i \in InUse \/ i = id,
           plists' = plists, loaded' = loaded, pc # "off", pc' \in {"cmd", "albums"}, Asked,
           ~loaded => unread \ {id} \subseteq unread'
    PROVE  StoreInv'
  <1>1. /\ HasAlbum(k)'
        /\ \A j \in AlbumKeys : j # k \/ HasAlbum(j) => albums'[j] = albums[j]
        /\ ~HasAlbum(k) => albums'[k] = CachedAlbum(id, folder)
    BY IdAssumption, StoreSound DEF WithAlbum, HasAlbum, CacheTypeOK, CachedAlbum
  <1>2. albums'[k].id = id
    <2>1. CASE HasAlbum(k)
      <3>1. /\ albums'[k].id \in ObjectIds /\ obj'[albums'[k].id].format = "Album"
            /\ obj'[albums'[k].id].artist = k[1] /\ obj'[albums'[k].id].name = k[2]
        <4>1. albums[k].id \in ObjectIds /\ albums[k].id \in InUse
              /\ obj[albums[k].id].format = "Album"
              /\ obj[albums[k].id].artist = k[1] /\ obj[albums[k].id].name = k[2]
          BY <2>1, CachedThere, StoreSound DEF InUse, StoreInv, CachesInv, CachedIsListed
        <4> QED
          BY <1>1, <2>1, <4>1 DEF SameObject
      <3> QED
        BY <3>1 DEF DeviceSound, AlbumsUnique, OfFormat
    <2>2. CASE ~HasAlbum(k)
      BY <1>1, <2>2 DEF CachedAlbum
    <2> QED
      BY <2>1, <2>2
  <1>3. ASSUME NEW a \in OfFormat("Album")'
        PROVE  \/ albums'[<<obj'[a].artist, obj'[a].name>>].id = a
               \/ ~loaded' /\ a \in unread'
    <2>1. a \in ObjectIds /\ obj'[a].format = "Album" /\ k = <<k[1], k[2]>>
      BY DEF OfFormat, AlbumKeys
    <2>2. CASE a = id
      BY <1>2, <2>1, <2>2
    <2>3. CASE a # id
      <3> DEFINE j == <<obj[a].artist, obj[a].name>>
      <3>1. a \in OfFormat("Album") /\ SameObject(a)
        BY <2>1, <2>3 DEF OfFormat, SameObject
      <3>2. j \in AlbumKeys /\ (albums[j].id = a \/ (~loaded /\ a \in unread))
        BY <3>1 DEF StoreInv, AlbumsUnique, AlbumsKnown
      <3>3. albums[j].id = a => albums'[j] = albums[j]
        BY <1>1, <2>1, <3>2, IdAssumption DEF HasAlbum
      <3> QED
        BY <2>3, <3>1, <3>2, <3>3 DEF SameObject
    <2> QED
      BY <2>2, <2>3
  <1>4. AlbumsKnown'
    BY <1>3 DEF AlbumsKnown
  <1>5. TracksKnown'
    <2>1. ASSUME NEW j \in AlbumKeys, albums'[j].loaded
          PROVE  albums'[j] = albums[j]
      BY <1>1, <2>1 DEF CachedAlbum
    <2> QED
      BY <2>1, TracksStill
  <1>6. PlaylistsKnown' /\ SongNew'
    BY PlaylistsStill DEF SongNew
  <1> QED
    BY <1>4, <1>5, <1>6 DEF StoreInv, DeviceSound

LEMMA LoadAlbumStore ==
    ASSUME Batch, StoreInv, CachesInv', NEW id \in ObjectIds, LoadAlbum(id)
    PROVE  StoreInv'
  <1> DEFINE name == obj[id].name
             artist == Known(obj[id].artist, "UknownArtist")
             k == <<artist, name>>
             folderOf == Folder(artists[artist].folder, name)
             Insert(folder) == /\ albums' = WithAlbum(k, id, folder) /\ unread' = unread \ {id}
                               /\ Goto("albums") /\ UNCHANGED <<loaded, plists>>
  <1>1. pc = "albums" /\ id \in InUse /\ obj[id].format = "Album" /\ obj[id].artist # ""
    BY DEF LoadAlbum, NextAlbum, StoreInv, CachesInv, RefsInv, UnreadAreAlbums, AlbumsHaveArtists,
       OfFormat, InUse
  <1>2. artist = obj[id].artist /\ name \in Labels /\ artist \in Names /\ k \in AlbumKeys
    <2>1. k = <<obj[id].artist, obj[id].name>>
      BY <1>1 DEF Known
    <2>2. k \in AlbumKeys
      BY <1>1, <2>1 DEF StoreInv, AlbumsUnique, OfFormat
    <2> QED
      BY <2>1, <2>2 DEF AlbumKeys, Labels
  <1>3. folderOf \in Objects
    BY <1>2, FolderType, StoreSound DEF CacheTypeOK, ArtistEntries
  <1>4. \/ UNCHANGED device /\ \E folder : Insert(folder)
        \/ \E folder \in ObjectIds : Create(folder, folderOf) /\ (Insert(folder) \/ Abandon)
    BY DEF LoadAlbum
  <1>5. Still
    BY <1>3, <1>4, OtherStill, FolderFormat, QuietStill
  <1>8. unnamed' = unnamed
    BY <1>4 DEF Create, device
  <1>6. CASE Abandon
    BY <1>5, <1>6, StillAbandon DEF Abandon
  <1>7. ASSUME NEW folder, Insert(folder)
        PROVE  StoreInv'
    <2>1. obj'[id].format = "Album" /\ obj'[id].artist = k[1] /\ obj'[id].name = k[2]
      BY <1>1, <1>2, <1>5 DEF Still, SameObject
    <2>2. DeviceSound' /\ Asked
      BY <1>1, <1>5, StillSound, StoreSound DEF Asked
    <2> HIDE DEF k
    <2> QED
      BY <1>1, <1>2, <1>5, <1>7, <1>8, <2>1, <2>2, AlbumEntered DEF Still, Goto
  <1> QED
    BY <1>4, <1>6, <1>7

\* The playlists that can be read are taken over as they are.
LEMMA LoadPlaylistsStore == ASSUME Batch, StoreInv, CachesInv', LoadPlaylists PROVE StoreInv'
  <1> DEFINE ids == OfFormat("Playlist")
  <1>0. UNCHANGED <<obj, refs, lists>> /\ unnamed \subseteq unnamed'
    BY LoadPlaylistsQuiet, StoreSound
  <1>1. PICK named \in SUBSET ids :
            /\ plists' \in [Playlists ->
                    {NoPlaylist} \cup {CachedPlaylist(i, whole) : i \in named, whole \in BOOLEAN}]
            /\ \A p \in Playlists :
                    LET here == {i \in named : PlaylistsSupported /\ obj[i].name = p}
                    IN  IF here = {} THEN plists'[p] = NoPlaylist ELSE plists'[p].id \in here
            /\ unnamed' = unnamed \cup {obj[i].name : i \in ids \ named}
    BY DEF LoadPlaylists
  <1>2. pc = "albums" /\ unread = {} /\ pc' = "cmd" /\ loaded' = TRUE /\ albums' = albums
    BY DEF LoadPlaylists, Goto
  <1>3. Still /\ DeviceSound' /\ TracksKnown'
    <2>1. Still
      BY <1>0 DEF Still, SameObject, InUse
    <2> QED
      BY <1>2, <2>1, StillSound, StoreSound, TracksStill DEF Still
  <1>4. ASSUME NEW p \in Playlists
        PROVE  PlaylistKnown(p)'
    <2>1. CASE plists'[p] = NoPlaylist
      BY <2>1 DEF NoPlaylist, PlaylistKnown
    <2>2. ASSUME NEW i \in named, NEW whole \in BOOLEAN, plists'[p] = CachedPlaylist(i, whole)
          PROVE  PlaylistKnown(p)'
      <3>1. /\ plists'[p].id = i /\ plists'[p].whole = whole
            /\ plists'[p].tracks = IF whole THEN lists[i] ELSE <<>>
        BY <2>2 DEF CachedPlaylist
      <3>2. i \in ObjectIds /\ i # NoId /\ i \in ids
        BY IdAssumption DEF OfFormat
      <3>3. obj[i].name = p
        BY <1>1, <3>1, <3>2 DEF NoPlaylist
      <3> QED
        BY <1>0, <3>1, <3>2, <3>3 DEF PlaylistKnown, OfFormat
    <2>3. plists'[p] \in {NoPlaylist} \cup
              {CachedPlaylist(i, whole) : i \in named, whole \in BOOLEAN}
      BY <1>1
    <2> QED
      BY <2>1, <2>2, <2>3
  <1>5. ASSUME PlaylistsSupported, NEW i \in ids, obj[i].name \notin unnamed'
        PROVE  plists'[obj[i].name].id = i
    <2>1. obj[i].name \in Playlists /\ i \in named
      BY <1>1, <1>5 DEF StoreInv, PlaylistsUnique
    <2>2. \A j \in ids : obj[j].name = obj[i].name => j = i
      BY <1>0, <1>5 DEF StoreInv, PlaylistsUnique
    <2> QED
      BY <1>1, <1>5, <2>1, <2>2
  <1>6. PlaylistsKnown'
    BY <1>0, <1>2, <1>4, <1>5 DEF PlaylistsKnown, OfFormat
  <1>7. AlbumsKnown' /\ SongNew'
    BY <1>0, <1>2 DEF StoreInv, AlbumsKnown, Asked, SongNew, OfFormat
  <1> QED
    BY <1>3, <1>6, <1>7 DEF StoreInv, DeviceSound

-----------------------------------------------------------------------------
(* ZuneImport *)

LEMMA NeedArtistStore ==
    ASSUME StoreInv, CachesInv', NEW f \in Files, NeedArtist(f)
    PROVE  StoreInv'
  BY QuietStill, StillStore DEF NeedArtist, Importing, Running, caches, Goto, Asked

LEMMA AlbumFolderStore ==
    ASSUME Batch, StoreInv, CachesInv', NEW f \in Files, AlbumFolder(f)
    PROVE  StoreInv'
  <1> DEFINE folderOf == Folder(artists[ArtistOf(f)].folder, AlbumOf(f))
  <1>1. folderOf \in Objects
    BY TagTypes, FolderType, StoreSound DEF AlbumFolder, Importing, CacheTypeOK, ArtistEntries, Labels
  <1>2. /\ pc = "cmd" /\ loaded /\ f = Command.file /\ ~HasAlbum(KeyOf(f))
        /\ \/ UNCHANGED device /\ \E folder : GotAlbumFolder(folder)
           \/ \E folder \in ObjectIds :
                  Create(folder, folderOf) /\ (GotAlbumFolder(folder) \/ Abandon)
    BY DEF AlbumFolder, Importing, Running
  <1>3. Still
    BY <1>1, <1>2, OtherStill, FolderFormat, QuietStill
  <1>4. CASE \E folder : GotAlbumFolder(folder)
    <2>1. Command' = Command
      BY <1>4 DEF GotAlbumFolder, Goto, Command
    <2> QED
      BY <1>2, <1>3, <1>4, <2>1, StillStore DEF GotAlbumFolder, caches, Goto, Asked
  <1>5. CASE Abandon
    BY <1>3, <1>5, StillAbandon DEF Abandon
  <1> QED
    BY <1>2, <1>4, <1>5

\* The album is new: every album the device has is in the cache.
LEMMA AlbumObjectStore == ASSUME Batch, StoreInv, CachesInv', AlbumObject PROVE StoreInv'
  <1> DEFINE f == Command.file
             k == KeyOf(f)
             o == [Object("Album", roots["Albums"], AlbumOf(f)) EXCEPT !.artist = ArtistOf(f)]
             Got(id) == /\ albums' = WithAlbum(k, id, loc.folder)
                        /\ Goto("cmd") /\ UNCHANGED <<loaded, plists>>
  <1>1. /\ pc = "albumObject" /\ loaded /\ ArtistOf(f) \in Names /\ AlbumOf(f) \in Names
        /\ k = <<ArtistOf(f), AlbumOf(f)>> /\ k \in AlbumKeys /\ ~HasAlbum(k)
    BY ImportFacts, TagTypes, StoreSound DEF AlbumObject, KeyOf, StoreInv, AlbumsKnown
  <1>2. /\ o \in Objects /\ o.format = "Album" /\ o.artist = ArtistOf(f) /\ o.name = AlbumOf(f)
        /\ o.artist = k[1] /\ o.name = k[2]
    <2>1. roots["Albums"] \in MaybeId
      BY StoreSound DEF CacheTypeOK, RootFolders
    <2>2. k[1] = ArtistOf(f) /\ k[2] = AlbumOf(f)
      BY <1>1
    <2> HIDE DEF k
    <2> QED
      BY <1>1, <2>1, <2>2, NamesAssumption DEF Object, Objects, Labels
  <1>3. PICK id \in ObjectIds : Create(id, o) /\ (Got(id) \/ Abandon)
    BY DEF AlbumObject
  <1>4. \A a \in OfFormat("Album") : ~(obj[a].artist = ArtistOf(f) /\ obj[a].name = AlbumOf(f))
    <2>1. \A a \in OfFormat("Album") : albums[<<obj[a].artist, obj[a].name>>].id = a /\ a # NoId
      BY <1>1, IdAssumption DEF StoreInv, AlbumsKnown, Asked, OfFormat
    <2> QED
      BY <1>1, <2>1 DEF HasAlbum
  <1> HIDE DEF o, k
  <1>5. DeviceSound'
    BY <1>1, <1>2, <1>3, <1>4, NewAlbumSound, StoreSound
  <1>6. /\ obj'[id] = o /\ refs' = refs /\ lists' = lists /\ unnamed' = unnamed
        /\ \A i \in InUse : SameObject(i)
        /\ \A i \in ObjectIds : i # id => obj'[i] = obj[i]
    BY <1>2, <1>3, CreateAt, StoreSound
  <1>7. CASE Abandon
    BY <1>5, <1>7, AbandonStore DEF Abandon
  <1>8. CASE Got(id)
    BY <1>1, <1>2, <1>5, <1>6, <1>8, AlbumEntered DEF Goto, Asked, InUse
  <1> QED
    BY <1>3, <1>7, <1>8

\* Once LoadRefs has run, each track of the album on the device is a known one.
LEMMA RefsOfCovers ==
    ASSUME StoreInv, NEW k \in AlbumKeys, HasAlbum(k), NEW i \in refs[albums[k].id]
    PROVE  \E t \in RefsOf(k).tracks : t.id = i /\ t.title = obj[i].name /\ t.index = obj[i].index
  <1>1. CASE albums[k].loaded
    BY <1>1 DEF RefsOf, StoreInv, TracksKnown
  <1>2. CASE ~albums[k].loaded
    <2> DEFINE t == [title |-> obj[i].name, index |-> obj[i].index, id |-> i]
    <2>1. t \in RefsOf(k).tracks
      BY <1>2 DEF RefsOf
    <2> QED
      BY <2>1
  <1> QED
    BY <1>1, <1>2

\* Albums stay known while their objects and their cached handles do.
LEMMA KnownStill ==
    ASSUME StoreInv, Asked, loaded, \A a \in ObjectIds : obj'[a].format = "Album" => SameObject(a),
           \A k \in AlbumKeys : albums'[k].id = albums[k].id,
           pc' \notin {"roots", "artists", "albumObject"}
    PROVE  AlbumsKnown'
  <1>1. ASSUME NEW a \in OfFormat("Album")'
        PROVE  albums'[<<obj'[a].artist, obj'[a].name>>].id = a
    <2>1. a \in OfFormat("Album") /\ SameObject(a)
      BY DEF OfFormat, SameObject
    <2>2. <<obj[a].artist, obj[a].name>> \in AlbumKeys
          /\ albums[<<obj[a].artist, obj[a].name>>].id = a
      BY <2>1 DEF StoreInv, AlbumsUnique, AlbumsKnown
    <2> QED
      BY <2>1, <2>2 DEF SameObject
  <1> QED
    BY <1>1 DEF AlbumsKnown

\* What an import learns from LoadRefs.
LEMMA RefsLearned ==
    ASSUME StoreInv, Still, NEW k \in AlbumKeys, HasAlbum(k), albums' = [albums EXCEPT ![k] = RefsOf(k)],
           UNCHANGED <<plists, loaded>>, pc = "cmd", loaded, pc' \in {"cmd", "data"}
    PROVE  DeviceSound' /\ AlbumsKnown' /\ TracksKnown' /\ PlaylistsKnown'
  <1>1. DeviceSound' /\ \A a \in ObjectIds : obj'[a].format = "Album" => SameObject(a)
    BY StillSound, StoreSound DEF Still
  <1>2. /\ albums'[k] = RefsOf(k) /\ RefsOf(k).id = albums[k].id /\ albums[k].id \in ObjectIds
        /\ \A j \in AlbumKeys : j # k => albums'[j] = albums[j]
    BY StoreSound, RefsOfType DEF CacheTypeOK, RefsInv
  <1>3. AlbumsKnown'
    BY <1>1, <1>2, KnownStill DEF Asked
  <1>4. PlaylistsKnown'
    BY PlaylistsStill DEF Still
  <1>5. TracksKnown'
    <2> SUFFICES ASSUME NEW j \in AlbumKeys, albums'[j].id # NoId, albums'[j].loaded,
                        NEW i \in refs[albums'[j].id]
                 PROVE  \E t \in albums'[j].tracks :
                            t.id = i /\ t.title = obj'[i].name /\ t.index = obj'[i].index
      BY DEF TracksKnown, HasAlbum, Still
    <2>1. HasAlbum(j) /\ albums'[j].id = albums[j].id /\ i \in refs[albums[j].id]
      BY <1>2 DEF HasAlbum
    <2>2. SameObject(i)
      <3>1. albums[j].id \in ObjectIds
        BY <2>1, CachedThere, StoreSound
      <3>2. i \in InUse
        BY <2>1, <3>1, StoreSound DEF RefsInv, RefsComplete, DeviceTypeOK, InUse
      <3> QED
        BY <3>2 DEF Still
    <2>3. \E t \in albums'[j].tracks : t.id = i /\ t.title = obj[i].name /\ t.index = obj[i].index
      <3>1. CASE j = k
        BY <1>2, <2>1, <3>1, RefsOfCovers
      <3>2. CASE j # k
        BY <1>2, <2>1, <3>2 DEF StoreInv, TracksKnown
      <3> QED
        BY <3>1, <3>2
    <2> QED
      BY <2>2, <2>3 DEF SameObject
  <1> QED
    BY <1>1, <1>3, <1>4, <1>5

LEMMA SkipTrackStore ==
    ASSUME StoreInv, CachesInv', NEW f \in Files, SkipTrack(f)
    PROVE  StoreInv'
  <1>1. /\ pc = "cmd" /\ loaded /\ KeyOf(f) \in AlbumKeys /\ HasAlbum(KeyOf(f)) /\ pc' = "cmd"
        /\ albums' = [albums EXCEPT ![KeyOf(f)] = RefsOf(KeyOf(f))] /\ Still
        /\ UNCHANGED <<plists, loaded>>
    BY TagTypes, QuietStill DEF SkipTrack, Importing, Running, CommandDone
  <1>2. DeviceSound' /\ AlbumsKnown' /\ TracksKnown' /\ PlaylistsKnown'
    BY <1>1, RefsLearned
  <1>3. SongNew'
    BY <1>1 DEF SongNew
  <1> QED
    BY <1>2, <1>3 DEF StoreInv, DeviceSound

LEMMA CreateTrackStore ==
    ASSUME Batch, StoreInv, CachesInv', NEW f \in Files, CreateTrack(f)
    PROVE  StoreInv'
  <1> DEFINE k == KeyOf(f)
             Got(id) == /\ loc' = [loc EXCEPT !.song = id]
                        /\ albums' = [albums EXCEPT ![k] = RefsOf(k)]
                        /\ Goto("data") /\ UNCHANGED <<loaded, plists>>
  <1>1. /\ pc = "cmd" /\ loaded /\ f = Command.file /\ Meta[f] # NoMeta /\ k \in AlbumKeys
        /\ HasAlbum(k) /\ Matching(f, RefsOf(k).tracks) = {}
    BY TagTypes DEF CreateTrack, Importing, Running
  <1>2. /\ TrackObject(f) \in Objects /\ TrackObject(f).format = "Track"
        /\ TrackObject(f).index = Meta[f].index
    <2>1. albums[k].folder \in MaybeId
      BY <1>1, StoreSound DEF CacheTypeOK, AlbumEntries
    <2>2. Meta[f].index % TrackModulus = Meta[f].index
      BY <1>1, SmallIndex
    <2> QED
      BY <1>1, <2>1, <2>2, TagTypes DEF TrackObject, Object, Objects, Labels
  <1>3. PICK id \in ObjectIds : Create(id, TrackObject(f)) /\ (Got(id) \/ Abandon)
    BY DEF CreateTrack
  <1>4. Still /\ id \notin InUse /\ obj'[id] = TrackObject(f)
        /\ \A i \in ObjectIds : i # id => obj'[i] = obj[i]
    BY <1>2, <1>3, OtherStill, CreateAt, StoreSound
  <1>5. CASE Abandon
    BY <1>4, <1>5, StillAbandon DEF Abandon
  <1>6. CASE Got(id)
    <2>1. DeviceSound' /\ AlbumsKnown' /\ TracksKnown' /\ PlaylistsKnown'
      BY <1>1, <1>4, <1>6, RefsLearned DEF Goto
    <2>2. loc'.song = id /\ Command' = Command /\ refs' = refs
      BY <1>4, <1>6, StoreSound DEF Goto, Command, RefsInv, TypeOK, ProcessTypeOK, Locals, Still
    <2>3. /\ albums'[k].id = albums[k].id /\ albums[k].id \in ObjectIds
      BY <1>1, <1>6, StoreSound, RefsOfType DEF CacheTypeOK, RefsInv
    <2>4. \A a \in ObjectIds : \A i \in refs[a] : i \in InUse
      BY StoreSound DEF RefsInv, RefsComplete, DeviceTypeOK, InUse
    <2>5. ASSUME NEW i \in refs[albums[k].id]
          PROVE  ~(obj'[i].name = Meta[f].title /\ obj'[i].index = Meta[f].index)
      <3>1. \E t \in RefsOf(k).tracks : t.title = obj[i].name /\ t.index = obj[i].index
        BY <1>1, RefsOfCovers
      <3>2. i \in InUse /\ i \in ObjectIds
        BY <2>3, <2>4 DEF InUse
      <3>3. obj'[i] = obj[i]
        BY <1>4, <3>2
      <3> QED
        BY <1>1, <3>1, <3>3 DEF Matching
    <2>6. SongNew'
      BY <1>1, <1>2, <1>4, <2>2, <2>3, <2>4, <2>5 DEF SongNew
    <2> QED
      BY <2>1, <2>6 DEF StoreInv, DeviceSound
  <1> QED
    BY <1>3, <1>5, <1>6

\* The import goes on with the song it has created.
LEMMA ImportGoesOn ==
    ASSUME StoreInv, CachesInv', Still, pc \in {"data", "cover"}, Goto(pc'), pc' \in {"cover", "refs"},
           UNCHANGED <<loc, caches>>
    PROVE  StoreInv'
  <1>1. loaded /\ DeviceSound' /\ Command' = Command /\ UNCHANGED <<albums, plists, loaded>>
    BY ImportFacts, StillSound, StoreSound DEF Goto, Command, caches
  <1>2. AlbumsKnown'
    BY <1>1, KnownStill DEF Still, Asked
  <1>3. TracksKnown'
    BY <1>1, TracksStill DEF Still
  <1>4. PlaylistsKnown'
    BY <1>1, PlaylistsStill DEF Still
  <1>5. SongNew'
    <2> DEFINE k == KeyOf(Command.file)
    <2>1. k \in AlbumKeys /\ HasAlbum(k) /\ loc.song \in InUse
      BY ImportFacts, StoreSound DEF RefsInv, SongSent, InUse, ImportUnderWay
    <2>2. \A a \in ObjectIds : \A i \in refs[a] : i \in InUse
      BY StoreSound DEF RefsInv, RefsComplete, DeviceTypeOK, InUse
    <2>3. albums[k].id \in ObjectIds
      BY <2>1, CachedThere, StoreSound
    <2> HIDE DEF k
    <2>4. /\ obj[loc.song].index = Meta[Command.file].index
          /\ \A a \in ObjectIds : loc.song \notin refs[a]
          /\ \A i \in refs[albums[k].id] :
                 ~ (obj[i].name = Meta[Command.file].title /\ obj[i].index = Meta[Command.file].index)
      BY DEF StoreInv, SongNew, k
    <2>5. /\ obj'[loc.song].index = Meta[Command.file].index
          /\ \A i \in refs[albums[k].id] :
                 ~ (obj'[i].name = Meta[Command.file].title /\ obj'[i].index = Meta[Command.file].index)
      BY <2>1, <2>2, <2>3, <2>4 DEF Still, SameObject
    <2> QED
      BY <1>1, <2>4, <2>5 DEF SongNew, k, Still
  <1> QED
    BY <1>1, <1>2, <1>3, <1>4, <1>5 DEF StoreInv, DeviceSound

LEMMA SendStill == ASSUME StoreInv, SendObject PROVE Still
  <1> DEFINE sent == [obj[loc.song] EXCEPT !.complete = TRUE]
  <1>1. loc.song \in ObjectIds /\ obj[loc.song] \in Objects /\ obj[loc.song].format = "Track"
    BY StoreSound DEF SendObject, RefsInv, SongSent, DeviceTypeOK
  <1>2. /\ sent.format = "Track" /\ sent.name = obj[loc.song].name
        /\ sent.artist = obj[loc.song].artist /\ sent.index = obj[loc.song].index
    BY <1>1 DEF Objects
  <1>3. /\ obj' = [obj EXCEPT ![loc.song] = sent] /\ refs' = refs /\ lists' = lists
        /\ unnamed' = unnamed
    BY DEF SendObject
  <1> HIDE DEF sent
  <1>4. obj'[loc.song] = sent /\ \A i \in ObjectIds : i # loc.song => obj'[i] = obj[i]
    BY <1>1, <1>3, StoreSound DEF DeviceTypeOK
  <1> QED
    BY <1>1, <1>2, <1>3, <1>4 DEF Still, SameObject, InUse

LEMMA SendObjectStore == ASSUME Batch, StoreInv, CachesInv', SendObject PROVE StoreInv'
  BY SendStill, ImportGoesOn, StillAbandon DEF SendObject, Goto, Abandon

LEMMA AddCoverStore == ASSUME StoreInv, CachesInv', AddCover PROVE StoreInv'
  BY QuietStill, ImportGoesOn DEF AddCover, Goto

\* The album gets the song, and its cache as well.
LEMMA AddTrackStore == ASSUME Batch, StoreInv, CachesInv', AddTrack PROVE StoreInv'
  <1> DEFINE f == Command.file
             k == KeyOf(f)
             al == RefsOf(k)
             newTrack == [title |-> Meta[f].title, index |-> Meta[f].index, id |-> loc.song]
             new == WithTrack(al, newTrack)
  <1>1. /\ pc = "refs" /\ loaded /\ k \in AlbumKeys /\ HasAlbum(k)
        /\ obj' = obj /\ lists' = lists /\ unnamed' = unnamed
    BY ImportFacts, StoreSound DEF AddTrack
  <1>2. obj[loc.song].name = Meta[f].title /\ obj[loc.song].index = Meta[f].index
    BY <1>1 DEF StoreInv, CachesInv, SongNamed, SongNew
  <1>3. /\ refs' = [refs EXCEPT ![albums[k].id] = al.refs \cup {loc.song}]
        /\ al.id = albums[k].id /\ albums[k].id \in ObjectIds /\ al.refs = refs[albums[k].id]
    <2>1. CachesInv /\ ~Interactive
      BY DEF StoreInv, Batch
    <2>2. refs' = [refs EXCEPT ![albums[k].id] = al.refs \cup {loc.song}]
      BY <2>1, AddTrackWrites
    <2>3. /\ al.id = albums[k].id /\ al.id \in ObjectIds
          /\ al.refs \subseteq refs[albums[k].id] /\ refs[albums[k].id] \subseteq al.refs
      BY <1>1, <2>1, RefsOfAgree
    <2> QED
      BY <2>2, <2>3
  <1>4. DeviceSound'
    BY <1>1, StoreSound DEF DeviceSound, AlbumsUnique, PlaylistsUnique, ListsOfPlaylists, OfFormat
  <1>5. CASE Abandon
    BY <1>4, <1>5, AbandonStore DEF Abandon
  <1>6. CASE /\ albums' = [albums EXCEPT ![k] = new] /\ pc' = "cmd" /\ UNCHANGED <<loaded, plists>>
    <2>1. new.id = al.id /\ new.tracks = al.tracks \cup {newTrack}
          /\ newTrack.id = loc.song /\ newTrack.title = Meta[f].title /\ newTrack.index = Meta[f].index
      BY DEF WithTrack
    <2>2. \A i \in refs[albums[k].id] :
              \E t \in al.tracks : t.id = i /\ t.title = obj[i].name /\ t.index = obj[i].index
      BY <1>1, RefsOfCovers
    <2> HIDE DEF new, newTrack, al, k
    <2>3. /\ albums'[k] = new /\ \A j \in AlbumKeys : j # k => albums'[j] = albums[j]
          /\ refs'[albums[k].id] = al.refs \cup {loc.song}
          /\ \A a \in ObjectIds : a # albums[k].id => refs'[a] = refs[a]
      BY <1>1, <1>3, <1>6, StoreSound DEF CacheTypeOK, DeviceTypeOK
    <2>4. TracksKnown'
      <3> SUFFICES ASSUME NEW j \in AlbumKeys, albums'[j].id # NoId, albums'[j].loaded,
                          NEW i \in refs'[albums'[j].id]
                   PROVE  \E t \in albums'[j].tracks :
                              t.id = i /\ t.title = obj[i].name /\ t.index = obj[i].index
        BY <1>1 DEF TracksKnown, HasAlbum
      <3>1. CASE j = k
        BY <1>2, <1>3, <2>1, <2>2, <2>3, <3>1
      <3>2. CASE j # k
        <4>1. HasAlbum(j) /\ albums'[j] = albums[j]
          BY <2>3, <3>2 DEF HasAlbum
        <4>2. albums[j].id \in ObjectIds /\ albums[j].id # albums[k].id
          BY <1>1, <3>2, <4>1, AlbumsApart, CachedThere, StoreSound DEF StoreInv
        <4> QED
          BY <2>3, <4>1, <4>2 DEF StoreInv, TracksKnown
      <3> QED
        BY <3>1, <3>2
    <2>5. AlbumsKnown'
      <3>1. \A j \in AlbumKeys : albums'[j].id = albums[j].id
        BY <1>3, <2>1, <2>3
      <3>2. \A a \in ObjectIds : SameObject(a)
        BY <1>1 DEF SameObject
      <3> QED
        BY <1>1, <1>6, <3>1, <3>2, KnownStill DEF Asked
    <2>6. PlaylistsKnown'
      BY <1>1, <1>6 DEF StoreInv, PlaylistsKnown, PlaylistKnown, OfFormat
    <2>7. SongNew'
      BY <1>6 DEF SongNew
    <2> QED
      BY <1>4, <2>4, <2>5, <2>6, <2>7 DEF StoreInv, DeviceSound
  <1> QED
    BY <1>5, <1>6 DEF AddTrack, CommandDone

-----------------------------------------------------------------------------
(* The playlist commands *)

\* The playlist is new: every playlist the device has is in the cache.
LEMMA CreatePlaylistSound ==
    ASSUME StoreInv, CreatePlaylist
    PROVE  /\ DeviceSound' /\ pc = "cmd" /\ loaded /\ Command.list \in Playlists
           /\ \A i \in OfFormat("Playlist") :
                 obj[i].name # Command.list \/ Command.list \in unnamed
           /\ plists[Command.list] = NoPlaylist
           /\ \E id \in ObjectIds :
                 /\ id \notin InUse /\ obj'[id].format = "Playlist" /\ obj'[id].name = Command.list
                 /\ \A i \in ObjectIds : i # id => obj'[i] = obj[i]
                 /\ refs' = refs /\ lists' = lists /\ lists[id] = <<>> /\ unnamed' = unnamed
                 /\ \/ /\ plists' = [plists EXCEPT ![Command.list] = [@ EXCEPT !.id = id]]
                       /\ pc' = "cmd" /\ UNCHANGED <<loaded, albums, out>>
                    \/ Abandon
  <1> DEFINE p == Command.list
             o == Object("Playlist", Root, p)
  <1>1. pc = "cmd" /\ loaded /\ p \in Playlists /\ PlaylistsSupported /\ plists[p].id = NoId
    BY ListFacts, StoreSound DEF CreatePlaylist
  <1>2. o \in Objects /\ o.format = "Playlist" /\ o.name = p
    BY <1>1 DEF Object, Objects, Labels
  <1>3. PICK id \in ObjectIds :
            /\ Create(id, o)
            /\ \/ /\ plists' = [plists EXCEPT ![p] = [@ EXCEPT !.id = id]]
                  /\ pc' = "cmd" /\ UNCHANGED <<loaded, albums, out>>
               \/ Abandon
    BY DEF CreatePlaylist, Goto
  <1> HIDE DEF o
  <1>4. \A i \in OfFormat("Playlist") : obj[i].name # p \/ p \in unnamed
    BY <1>1, IdAssumption DEF StoreInv, PlaylistsKnown, OfFormat
  <1>5. DeviceSound'
    BY <1>1, <1>2, <1>3, <1>4, NewPlaylistSound, StoreSound
  <1>6. /\ id \notin InUse /\ obj'[id] = o /\ refs' = refs /\ lists' = lists /\ unnamed' = unnamed
        /\ \A i \in ObjectIds : i # id => obj'[i] = obj[i]
    BY <1>2, <1>3, CreateAt, StoreSound
  <1>7. lists[id] = <<>>
    BY <1>6 DEF StoreInv, ListsOfPlaylists, InUse
  <1>8. plists[p] = NoPlaylist
    BY <1>1 DEF StoreInv, PlaylistsKnown, PlaylistKnown
  <1> QED
    BY <1>1, <1>2, <1>3, <1>4, <1>5, <1>6, <1>7, <1>8

LEMMA CreatePlaylistStore ==
    ASSUME Batch, StoreInv, CachesInv', CreatePlaylist
    PROVE  StoreInv'
  <1> DEFINE p == Command.list
  <1>1. /\ DeviceSound' /\ pc = "cmd" /\ loaded /\ p \in Playlists
        /\ \A i \in OfFormat("Playlist") : obj[i].name # p \/ p \in unnamed
        /\ plists[p] = NoPlaylist
    BY CreatePlaylistSound
  <1>2. PICK id \in ObjectIds :
            /\ id \notin InUse /\ obj'[id].format = "Playlist" /\ obj'[id].name = p
            /\ \A i \in ObjectIds : i # id => obj'[i] = obj[i]
            /\ refs' = refs /\ lists' = lists /\ lists[id] = <<>> /\ unnamed' = unnamed
            /\ \/ /\ plists' = [plists EXCEPT ![p] = [@ EXCEPT !.id = id]]
                  /\ pc' = "cmd" /\ UNCHANGED <<loaded, albums, out>>
               \/ Abandon
    BY CreatePlaylistSound
  <1> HIDE DEF p
  <1>3. CASE Abandon
    BY <1>1, <1>3, AbandonStore DEF Abandon
  <1>4. CASE /\ plists' = [plists EXCEPT ![p] = [@ EXCEPT !.id = id]]
             /\ pc' = "cmd" /\ UNCHANGED <<loaded, albums>>
    <2>1. \A i \in InUse : SameObject(i)
      BY <1>2 DEF InUse, SameObject
    <2>2. TracksKnown'
      BY <1>2, <1>4, <2>1, TracksStill
    <2>3. AlbumsKnown'
      <3>1. \A a \in ObjectIds : obj'[a].format = "Album" => SameObject(a)
        BY <1>2 DEF SameObject
      <3> QED
        BY <1>1, <1>4, <3>1, KnownStill DEF Asked
    <2>4. /\ plists'[p].id = id /\ plists'[p].tracks = <<>>
          /\ \A q \in Playlists : q # p => plists'[q] = plists[q]
      BY <1>1, <1>4, StoreSound DEF CacheTypeOK, NoPlaylist
    <2>5. ASSUME NEW i \in OfFormat("Playlist")', PlaylistsSupported, obj'[i].name \notin unnamed'
          PROVE  plists'[obj'[i].name].id = i
      <3>1. CASE i = id
        BY <1>2, <2>4, <3>1
      <3>2. CASE i # id
        <4>1. i \in OfFormat("Playlist") /\ obj'[i] = obj[i] /\ obj[i].name \notin unnamed
          BY <1>2, <2>5, <3>2 DEF OfFormat
        <4>2. obj[i].name \in Playlists /\ obj[i].name # p /\ plists[obj[i].name].id = i
          BY <1>1, <2>5, <4>1 DEF StoreInv, PlaylistsUnique, PlaylistsKnown
        <4> QED
          BY <2>4, <4>1, <4>2
      <3> QED
        BY <3>1, <3>2
    <2>6. ASSUME NEW q \in Playlists
          PROVE  PlaylistKnown(q)'
      <3>1. CASE q = p
        BY <1>2, <2>4, <3>1, IdAssumption DEF OfFormat, PlaylistKnown
      <3>2. CASE q # p
        <4>1. plists'[q] = plists[q]
          BY <2>4, <3>2
        <4>2. PlaylistKnown(q)
          BY DEF StoreInv, PlaylistsKnown
        <4>3. plists[q].id # NoId => obj'[plists[q].id] = obj[plists[q].id]
          BY <1>2, <4>2 DEF InUse, PlaylistKnown, OfFormat
        <4> QED
          BY <1>2, <4>1, <4>2, <4>3 DEF OfFormat, PlaylistKnown
      <3> QED
        BY <3>1, <3>2
    <2>7. PlaylistsKnown'
      BY <1>4, <2>5, <2>6 DEF PlaylistsKnown
    <2>8. SongNew'
      BY <1>4 DEF SongNew
    <2> QED
      BY <1>1, <2>2, <2>3, <2>7, <2>8 DEF StoreInv, DeviceSound
  <1> QED
    BY <1>2, <1>3, <1>4

\* What is written to a playlist is what its cache is set to.
LEMMA WritePlaylistStore ==
    ASSUME Batch, StoreInv, CachesInv', pc = "cmd", loaded, Command.list \in Playlists,
           plists[Command.list].id # NoId, NEW tracks, WritePlaylistRefs(tracks)
    PROVE  StoreInv'
  <1> DEFINE p == Command.list
             i == plists[p].id
             new == [plists EXCEPT ![p] = [@ EXCEPT !.tracks = tracks]]
             done == [new EXCEPT ![p] = [@ EXCEPT !.whole = TRUE]]
  <1>1. i \in ObjectIds /\ obj[i].format = "Playlist" /\ obj[i].name = p
    BY DEF StoreInv, PlaylistsKnown, PlaylistKnown, OfFormat
  <1>2. obj' = obj /\ refs' = refs /\ unnamed' = unnamed
    BY DEF WritePlaylistRefs
  <1>3. lists' = lists \/ lists' = [lists EXCEPT ![i] = tracks]
    BY DEF WritePlaylistRefs
  <1>4. DeviceSound'
    <2>1. \A j \in ObjectIds : obj[j].format # "Playlist" => lists'[j] = lists[j]
      BY <1>1, <1>3, StoreSound DEF DeviceTypeOK
    <2> QED
      BY <1>2, <2>1, StoreSound DEF DeviceSound, AlbumsUnique, PlaylistsUnique, ListsOfPlaylists,
         OfFormat
  <1>5. CASE \E pl : AbandonWith(pl)
    BY <1>4, <1>5, AbandonStore
  <1>6. CASE /\ lists' = [lists EXCEPT ![i] = tracks] /\ plists' = done
             /\ pc' = "cmd" /\ UNCHANGED <<loaded, albums>>
    <2>1. \A a \in ObjectIds : SameObject(a)
      BY <1>2 DEF SameObject
    <2>2. TracksKnown' /\ AlbumsKnown' /\ SongNew'
      BY <1>2, <1>6, <2>1, TracksStill, KnownStill DEF InUse, Asked, SongNew
    <2>3. /\ plists'[p].id = i /\ plists'[p].tracks = tracks /\ plists'[p].whole
          /\ \A q \in Playlists : q # p => plists'[q] = plists[q]
          /\ lists'[i] = tracks /\ \A j \in ObjectIds : j # i => lists'[j] = lists[j]
      BY <1>1, <1>6, StoreSound DEF CacheTypeOK, DeviceTypeOK, PlaylistEntries
    <2> HIDE DEF p, i
    <2>4. ASSUME NEW q \in Playlists
          PROVE  PlaylistKnown(q)'
      <3>1. CASE q = p
        BY <1>1, <1>2, <2>3, <3>1, IdAssumption DEF OfFormat, PlaylistKnown
      <3>2. CASE q # p
        BY <1>1, <1>2, <2>3, <3>2 DEF OfFormat, StoreInv, PlaylistsKnown, PlaylistKnown
      <3> QED
        BY <3>1, <3>2
    <2>5. ASSUME NEW j \in OfFormat("Playlist"), PlaylistsSupported, obj[j].name \notin unnamed
          PROVE  plists'[obj[j].name].id = j
      <3>1. obj[j].name \in Playlists /\ plists[obj[j].name].id = j
        BY <2>5 DEF StoreInv, PlaylistsUnique, PlaylistsKnown
      <3> QED
        BY <2>3, <3>1 DEF i
    <2>6. PlaylistsKnown'
      BY <1>2, <1>6, <2>4, <2>5 DEF PlaylistsKnown, OfFormat
    <2> QED
      BY <1>4, <2>2, <2>6 DEF StoreInv, DeviceSound
  <1> QED
    BY <1>5, <1>6 DEF WritePlaylistRefs, CommandDone

\* A command that did nothing more.
LEMMA DoneStore ==
    ASSUME StoreInv, CachesInv', pc = "cmd", loaded, CommandDone({}), UNCHANGED <<device, caches>>
    PROVE  StoreInv'
  BY QuietStill, StillStore DEF CommandDone, caches, Asked

LEMMA CommandsStore ==
    ASSUME Batch, StoreInv, CachesInv', ClearPlaylist \/ AddToPlaylist \/ NotOnDevice \/ InitDone
    PROVE  StoreInv'
  <1>1. pc = "cmd" /\ loaded
    BY DEF ClearPlaylist, AddToPlaylist, NotOnDevice, InitDone, AddingToPlaylist, Running
  <1>2. ClearPlaylist \/ AddToPlaylist => Command.list \in Playlists
    BY ListFacts, StoreSound DEF ClearPlaylist, AddToPlaylist
  <1> QED
    BY <1>1, <1>2, WritePlaylistStore, DoneStore DEF ClearPlaylist, AddToPlaylist, NotOnDevice, InitDone

-----------------------------------------------------------------------------
(* The process and the user *)

LEMMA StartStore ==
    ASSUME StoreInv, CachesInv', NEW line, Start(line)
    PROVE  StoreInv'
  <1>1. /\ pc = "off" /\ pc' = "cmd" /\ ~loaded /\ ~loaded' /\ UNCHANGED <<loaded, albums, plists>>
        /\ obj' = obj /\ lists' = lists /\ Still
    BY QuietStill DEF Start, caches, device, StoreInv, PlaylistsKnown
  <1>2. DeviceSound' /\ TracksKnown'
    BY <1>1, StillSound, StoreSound, TracksStill DEF Still
  <1>3. PlaylistsKnown'
    BY <1>1 DEF StoreInv, PlaylistsKnown, PlaylistKnown, OfFormat
  <1>4. AlbumsKnown' /\ SongNew'
    BY <1>1 DEF AlbumsKnown, Asked, SongNew
  <1> QED
    BY <1>2, <1>3, <1>4 DEF StoreInv, DeviceSound

LEMMA EndStore == ASSUME Batch, StoreInv, CachesInv', Finish \/ Fail PROVE StoreInv'
  <1>1. Still /\ DeviceSound'
    BY QuietStill, StillSound, StoreSound DEF Finish, Fail
  <1> QED
    BY <1>1, ExitStore, AbandonStore DEF Finish, Fail, Abandon

LEMMA WithoutEmpty == ASSUME NEW x PROVE Without(<<>>, x) = <<>>
  <1>1. ~ \E n \in 1 .. Len(<<>>) : <<>>[n] = x
    OBVIOUS
  <1> QED
    BY <1>1 DEF Without

LEMMA RemoveStore ==
    ASSUME StoreInv, CachesInv', NEW id \in ObjectIds, pc = "off", Remove(id),
           UNCHANGED <<process, caches>>
    PROVE  StoreInv'
  <1>1. pc' = "off" /\ ~loaded' /\ plists' = NoPlaylists /\ albums' = NoAlbums
    BY StoreSound DEF StoreInv, PlaylistsKnown, process, caches, RefsInv, NoProcessNoCaches
  <1>2. /\ obj'[id].format = "None" /\ \A i \in ObjectIds : i # id => obj'[i] = obj[i]
        /\ \A i \in ObjectIds : lists'[i] = IF i = id THEN <<>> ELSE Without(lists[i], id)
    BY StoreSound DEF Remove, DeviceTypeOK, NoObject, Object
  <1>3. AlbumsUnique' /\ PlaylistsUnique'
    BY <1>2 DEF StoreInv, AlbumsUnique, PlaylistsUnique, OfFormat, Remove
  <1>4. ListsOfPlaylists'
    BY <1>2, WithoutEmpty DEF StoreInv, ListsOfPlaylists
  <1>5. AlbumsKnown' /\ SongNew'
    BY <1>1 DEF AlbumsKnown, Asked, SongNew
  <1>6. TracksKnown'
    BY <1>1 DEF TracksKnown, HasAlbum, NoAlbums, NoAlbum, CachedAlbum
  <1>7. PlaylistsKnown'
    BY <1>1 DEF PlaylistsKnown, PlaylistKnown, NoPlaylists, NoPlaylist
  <1> QED
    BY <1>3, <1>4, <1>5, <1>6, <1>7 DEF StoreInv

-----------------------------------------------------------------------------
LEMMA InitStore == Init => StoreInv
  <1> SUFFICES ASSUME Init PROVE StoreInv
    OBVIOUS
  <1>1. CachesInv
    BY InitCaches
  <1>2. pc = "off" /\ ~loaded /\ plists = NoPlaylists /\ albums = NoAlbums
    BY DEF Init
  <1>3. \A i \in ObjectIds : obj[i].format = "None" /\ lists[i] = <<>>
    BY DEF Init, NoObject, Object
  <1>4. AlbumsUnique /\ PlaylistsUnique /\ ListsOfPlaylists
    BY <1>3 DEF AlbumsUnique, PlaylistsUnique, ListsOfPlaylists, OfFormat
  <1>5. AlbumsKnown /\ SongNew
    BY <1>2 DEF AlbumsKnown, Asked, SongNew
  <1>6. TracksKnown
    BY <1>2 DEF TracksKnown, HasAlbum, NoAlbums, NoAlbum, CachedAlbum
  <1>7. PlaylistsKnown
    BY <1>2 DEF PlaylistsKnown, PlaylistKnown, NoPlaylists, NoPlaylist
  <1> QED
    BY <1>1, <1>4, <1>5, <1>6, <1>7 DEF StoreInv

LEMMA StutterStore == ASSUME StoreInv, CachesInv', UNCHANGED vars PROVE StoreInv'
  BY DEF vars, StoreInv, AlbumsUnique, PlaylistsUnique, ListsOfPlaylists, AlbumsKnown, Asked,
     PlaylistsKnown, PlaylistKnown, TracksKnown, SongNew, OfFormat, HasAlbum, Command

LEMMA NextStore ==
    ASSUME Batch, StoreInv, [Next]_vars
    PROVE  StoreInv'
  <1>0. CachesInv'
    BY NextCaches DEF StoreInv
  <1>1. CASE Construct
    BY <1>0, <1>1, BeginInitStore, CreateRootStore, QueryArtistsStore, LoadArtistStore,
       QueryAlbumsStore, LoadAlbumArtistStore, LoadAlbumStore, LoadPlaylistsStore DEF Construct
  <1>2. CASE CreateArtist
    BY <1>0, <1>2, ArtistFolderStore, ArtistObjectStore DEF CreateArtist
  <1>3. CASE ZuneImport
    BY <1>0, <1>3, NeedArtistStore, AlbumFolderStore, SkipTrackStore, CreateTrackStore,
       AlbumObjectStore, SendObjectStore, AddCoverStore, AddTrackStore DEF ZuneImport
  <1>4. CASE ZunePlaylist \/ InitDone
    BY <1>0, <1>4, CreatePlaylistStore, CommandsStore DEF ZunePlaylist
  <1>5. CASE Finish \/ Fail
    BY <1>0, <1>5, EndStore
  <1>6. CASE \E line \in CommandLines : Start(line)
    BY <1>0, <1>6, StartStore
  <1>7. CASE \E id \in ObjectIds : UserDeletes(id) \/ DropIncomplete(id)
    BY <1>0, <1>7, RemoveStore DEF UserDeletes, DropIncomplete
  <1>8. CASE UNCHANGED vars
    BY <1>0, <1>8, StutterStore
  <1> QED
    BY <1>1, <1>2, <1>3, <1>4, <1>5, <1>6, <1>7, <1>8 DEF Next, ProcessStep

\* At every step the caches tell what the device shows, as far as they have been
\* filled: no album and no playlist of the device is unknown to a running command.
THEOREM StoreInvHolds ==
    ASSUME Batch
    PROVE  Spec => []StoreInv
  <1>1. StoreInv /\ [Next]_vars => StoreInv'
    BY NextStore
  <1> QED
    BY <1>1, InitStore, PTL DEF Spec

-----------------------------------------------------------------------------
(* What is shown *)

LEMMA ShownMember ==
    \A e : e \in Shown <=>
        \E a \in OfFormat("Album") : \E t \in refs[a] :
            e = [key |-> <<obj[a].artist, obj[a].name, obj[t].name, obj[t].index>>, id |-> t]
  BY DEF Shown

LEMMA ShownMemberNext ==
    \A e : e \in Shown' <=>
        \E a \in OfFormat("Album")' : \E t \in refs'[a] :
            e = [key |-> <<obj'[a].artist, obj'[a].name, obj'[t].name, obj'[t].index>>, id |-> t]
  BY DEF Shown

\* A playlist's name stands for the one object of that name, where there can be no other.
ListsAre ==
    PlaylistsUnique => \A p \in Playlists :
        /\ p \in unnamed => ListShown[p] = <<>>
        /\ \A i \in OfFormat("Playlist") :
              obj[i].name = p /\ p \notin unnamed => ListShown[p] = lists[i]
        /\ (\A i \in OfFormat("Playlist") : obj[i].name # p) => ListShown[p] = <<>>

LEMMA ListsNow == ListsAre
  <1> SUFFICES ASSUME PlaylistsUnique, NEW p \in Playlists
               PROVE  /\ p \in unnamed => ListShown[p] = <<>>
                      /\ \A i \in OfFormat("Playlist") :
                            obj[i].name = p /\ p \notin unnamed => ListShown[p] = lists[i]
                      /\ (\A i \in OfFormat("Playlist") : obj[i].name # p) => ListShown[p] = <<>>
    BY DEF ListsAre
  <1> DEFINE here == {i \in OfFormat("Playlist") : obj[i].name = p}
  <1>1. ListShown[p] = IF here = {} \/ p \in unnamed THEN <<>> ELSE lists[CHOOSE i \in here : TRUE]
    BY DEF ListShown
  <1>2. ASSUME NEW i \in OfFormat("Playlist"), obj[i].name = p, p \notin unnamed
        PROVE  ListShown[p] = lists[i]
    <2>1. here = {i}
      BY <1>2 DEF PlaylistsUnique
    <2>2. (CHOOSE j \in {i} : TRUE) = i
      OBVIOUS
    <2> QED
      BY <1>1, <1>2, <2>1, <2>2
  <1>3. (\A i \in OfFormat("Playlist") : obj[i].name # p) => here = {}
    OBVIOUS
  <1> QED
    BY <1>1, <1>2, <1>3

LEMMA ListsNext == ListsAre'
  BY ListsNow, PTL

\* Only albums reference anything, and only tracks that are there.
LEMMA RefsThere ==
    ASSUME StoreInv, NEW a \in ObjectIds, NEW t \in refs[a]
    PROVE  /\ obj[a].format = "Album" /\ obj[t].format = "Track"
           /\ t \in ObjectIds /\ t \in InUse /\ a \in InUse /\ a \in OfFormat("Album")
  BY StoreSound DEF RefsInv, RefsComplete, DeviceTypeOK, InUse, OfFormat

\* Steps that leave objects, references and contents alone show nothing.
LEMMA NothingShown ==
    ASSUME StoreInv, StoreInv', \A i \in InUse : SameObject(i), refs' = refs, lists' = lists
    PROVE  /\ Shown' = Shown
           /\ unnamed \subseteq unnamed' =>
                 ListShown' = [p \in Playlists |-> IF p \in unnamed' THEN <<>> ELSE ListShown[p]]
  <1>1. \A a \in ObjectIds : \A t \in refs[a] :
            /\ a \in OfFormat("Album") /\ a \in OfFormat("Album")' /\ SameObject(a) /\ SameObject(t)
    BY RefsThere DEF OfFormat, SameObject
  <1>2. ASSUME NEW e, e \in Shown'
        PROVE  e \in Shown
    <2>1. PICK a \in OfFormat("Album")' : \E t \in refs[a] :
              e = [key |-> <<obj'[a].artist, obj'[a].name, obj'[t].name, obj'[t].index>>, id |-> t]
      BY <1>2, ShownMemberNext
    <2>2. PICK t \in refs[a] :
              e = [key |-> <<obj'[a].artist, obj'[a].name, obj'[t].name, obj'[t].index>>, id |-> t]
      BY <2>1
    <2>3. a \in ObjectIds
      BY DEF OfFormat
    <2>4. a \in OfFormat("Album") /\ SameObject(a) /\ SameObject(t)
      BY <1>1, <2>3
    <2>5. e = [key |-> <<obj[a].artist, obj[a].name, obj[t].name, obj[t].index>>, id |-> t]
      BY <2>2, <2>4 DEF SameObject
    <2> QED
      BY <2>4, <2>5, ShownMember
  <1>3. ASSUME NEW e, e \in Shown
        PROVE  e \in Shown'
    <2>1. PICK a \in OfFormat("Album") : \E t \in refs[a] :
              e = [key |-> <<obj[a].artist, obj[a].name, obj[t].name, obj[t].index>>, id |-> t]
      BY <1>3, ShownMember
    <2>2. PICK t \in refs[a] :
              e = [key |-> <<obj[a].artist, obj[a].name, obj[t].name, obj[t].index>>, id |-> t]
      BY <2>1
    <2>3. a \in ObjectIds
      BY DEF OfFormat
    <2>4. a \in OfFormat("Album")' /\ SameObject(a) /\ SameObject(t)
      BY <1>1, <2>3
    <2>5. e = [key |-> <<obj'[a].artist, obj'[a].name, obj'[t].name, obj'[t].index>>, id |-> t]
      BY <2>2, <2>4 DEF SameObject
    <2> QED
      BY <2>4, <2>5, ShownMemberNext
  <1>4. ASSUME unnamed \subseteq unnamed', NEW p \in Playlists
        PROVE  ListShown'[p] = IF p \in unnamed' THEN <<>> ELSE ListShown[p]
    <2>1. PlaylistsUnique /\ PlaylistsUnique' /\ ListsOfPlaylists
      BY DEF StoreInv
    <2>2. CASE p \in unnamed'
      BY <2>1, <2>2, ListsNext DEF ListsAre
    <2>3. ASSUME p \notin unnamed', NEW i \in OfFormat("Playlist"), obj[i].name = p
          PROVE  ListShown'[p] = ListShown[p]
      <3>1. i \in OfFormat("Playlist")' /\ obj'[i].name = p
        BY <2>3 DEF OfFormat, InUse, SameObject
      <3>2. p \notin unnamed
        BY <1>4, <2>3
      <3> QED
        BY <2>1, <2>3, <3>1, <3>2, ListsNow, ListsNext DEF ListsAre
    <2>4. ASSUME p \notin unnamed', \A i \in OfFormat("Playlist") : obj[i].name # p,
                 NEW i \in OfFormat("Playlist")', obj'[i].name = p
          PROVE  ListShown'[p] = ListShown[p]
      <3>1. ListShown'[p] = lists[i] /\ ListShown[p] = <<>>
        BY <2>1, <2>4, ListsNow, ListsNext DEF ListsAre
      <3>2. i \in ObjectIds /\ obj[i].format # "Playlist"
        BY <2>4 DEF OfFormat, InUse, SameObject
      <3> QED
        BY <2>1, <3>1, <3>2 DEF ListsOfPlaylists
    <2>5. ASSUME \A i \in OfFormat("Playlist") : obj[i].name # p,
                 \A i \in OfFormat("Playlist")' : obj'[i].name # p
          PROVE  ListShown'[p] = ListShown[p]
      BY <2>1, <2>5, ListsNow, ListsNext DEF ListsAre
    <2> QED
      BY <2>2, <2>3, <2>4, <2>5
  <1>5. unnamed \subseteq unnamed' =>
            ListShown' = [p \in Playlists |-> IF p \in unnamed' THEN <<>> ELSE ListShown[p]]
    BY <1>4 DEF ListShown
  <1>6. Shown' = Shown
    BY <1>2, <1>3
  <1> QED
    BY <1>5, <1>6

LEMMA ListsFunction ==
    /\ ListShown = [p \in Playlists |-> ListShown[p]]
    /\ ListShown' = [p \in Playlists |-> ListShown'[p]]
  BY DEF ListShown

LEMMA MisreadLists == Misread' \subseteq Playlists /\ (unnamed' \cap Playlists) \subseteq Misread'
  BY DEF Misread

\* Whatever else a step does, the store allows it when nothing shows but playlists that
\* are no longer spoken of.
LEMMA QuietlyLost ==
    ASSUME StoreInv, StoreInv', \A i \in InUse : SameObject(i), refs' = refs, lists' = lists,
           unnamed \subseteq unnamed'
    PROVE  Store!StoreNext
  <1> DEFINE P == unnamed' \cap Playlists
  <1>1. Shown' = Shown
        /\ ListShown' = [p \in Playlists |-> IF p \in unnamed' THEN <<>> ELSE ListShown[p]]
    BY NothingShown
  <1>2. ListShown' = [p \in Playlists |-> IF p \in P THEN <<>> ELSE ListShown[p]]
    BY <1>1
  <1>3. P \subseteq Misread' /\ P \in SUBSET Playlists
    BY MisreadLists
  <1> HIDE DEF P
  <1>4. Store!LoseLists(P)
    BY <1>1, <1>2, <1>3 DEF Store!LoseLists
  <1> QED
    BY <1>3, <1>4, MisreadLists DEF Store!StoreNext

-----------------------------------------------------------------------------
(* Steps that show something *)

\* An import: the track becomes visible in one step, and there was none like it.
LEMMA AddTrackShows ==
    ASSUME Batch, StoreInv, AddTrack
    PROVE  Store!StoreNext
  <1> DEFINE f == Command.file
             k == KeyOf(f)
             a == albums[k].id
             e == [key |-> ShownKey(f), id |-> loc.song]
  <1>1. /\ pc = "refs" /\ f \in Files /\ Meta[f] # NoMeta /\ k \in AlbumKeys /\ HasAlbum(k)
        /\ k = <<ArtistOf(f), AlbumOf(f)>> /\ obj' = obj /\ lists' = lists /\ unnamed' = unnamed
    BY ImportFacts, StoreSound DEF AddTrack, KeyOf
  <1>2. /\ a \in OfFormat("Album") /\ obj[a].artist = ArtistOf(f) /\ obj[a].name = AlbumOf(f)
    <2>1. obj[a].artist = k[1] /\ obj[a].name = k[2] /\ a \in OfFormat("Album")
      BY <1>1, CachedThere, StoreSound DEF StoreInv, CachesInv, CachedIsListed, OfFormat
    <2>2. k[1] = ArtistOf(f) /\ k[2] = AlbumOf(f)
      BY <1>1
    <2> QED
      BY <2>1, <2>2
  <1>3. /\ loc.song \in ObjectIds /\ \A b \in ObjectIds : loc.song \notin refs[b]
        /\ obj[loc.song].name = Meta[f].title /\ obj[loc.song].index = Meta[f].index
        /\ \A i \in refs[a] : ~(obj[i].name = Meta[f].title /\ obj[i].index = Meta[f].index)
    BY <1>1, StoreSound DEF StoreInv, CachesInv, SongNamed, SongNew, RefsInv, SongSent
  <1>4. ShownKey(f) = <<obj[a].artist, obj[a].name, obj[loc.song].name, obj[loc.song].index>>
    BY <1>1, <1>2, <1>3, SmallIndex DEF ShownKey
  <1>5. refs'[a] = refs[a] \cup {loc.song} /\ \A b \in ObjectIds : b # a => refs'[b] = refs[b]
    <2>1. CachesInv /\ ~Interactive
      BY DEF StoreInv, Batch
    <2>2. refs' = [refs EXCEPT ![a] = RefsOf(k).refs \cup {loc.song}]
      BY <2>1, AddTrackWrites
    <2>3. RefsOf(k).refs = refs[a] /\ a \in ObjectIds
      <3>1. RefsOf(k).refs \subseteq refs[a] /\ refs[a] \subseteq RefsOf(k).refs
        BY <1>1, <2>1, RefsOfAgree
      <3> QED
        BY <1>2, <3>1 DEF OfFormat
    <2> QED
      BY <2>2, <2>3, StoreSound DEF DeviceTypeOK
  <1>6. ListShown' = ListShown
    BY <1>1 DEF ListShown, OfFormat
  <1> HIDE DEF k, a
  <1>7. ASSUME NEW x
        PROVE  x \in Shown' <=> x \in Shown \/ x = e
    <2>1. OfFormat("Album")' = OfFormat("Album")
      BY <1>1 DEF OfFormat
    <2>2. x \in Shown' <=>
            \E b \in OfFormat("Album") : \E t \in refs'[b] :
                x = [key |-> <<obj[b].artist, obj[b].name, obj[t].name, obj[t].index>>, id |-> t]
      BY <1>1, <2>1, ShownMemberNext
    <2>3. ASSUME NEW b \in OfFormat("Album"), NEW t \in refs'[b],
                 x = [key |-> <<obj[b].artist, obj[b].name, obj[t].name, obj[t].index>>, id |-> t]
          PROVE  x \in Shown \/ x = e
      <3>1. b \in ObjectIds
        BY DEF OfFormat
      <3>2. CASE t \in refs[b]
        BY <2>3, <3>2, ShownMember
      <3>3. CASE t \notin refs[b]
        <4>1. b = a /\ t = loc.song
          BY <1>5, <2>3, <3>1, <3>3
        <4> QED
          BY <1>4, <2>3, <4>1
      <3> QED
        BY <3>2, <3>3
    <2>4. ASSUME NEW b \in OfFormat("Album"), NEW t \in refs[b],
                 x = [key |-> <<obj[b].artist, obj[b].name, obj[t].name, obj[t].index>>, id |-> t]
          PROVE  t \in refs'[b]
      BY <1>5, <2>4 DEF OfFormat
    <2>5. ASSUME x = e
          PROVE  /\ loc.song \in refs'[a]
                 /\ x = [key |-> <<obj[a].artist, obj[a].name, obj[loc.song].name,
                                   obj[loc.song].index>>, id |-> loc.song]
      BY <1>4, <1>5, <2>5
    <2> QED
      BY <1>2, <2>2, <2>3, <2>4, <2>5, ShownMember
  <1>8. ASSUME NEW x \in Shown
        PROVE  x.key # ShownKey(f) /\ x.id # loc.song
    <2>1. PICK b \in OfFormat("Album") : \E t \in refs[b] :
              x = [key |-> <<obj[b].artist, obj[b].name, obj[t].name, obj[t].index>>, id |-> t]
      BY ShownMember
    <2>2. PICK t \in refs[b] :
              x = [key |-> <<obj[b].artist, obj[b].name, obj[t].name, obj[t].index>>, id |-> t]
      BY <2>1
    <2>3. x.id = t /\ x.key = <<obj[b].artist, obj[b].name, obj[t].name, obj[t].index>>
      BY <2>2
    <2>4. t # loc.song
      BY <1>3 DEF OfFormat
    <2>5. ASSUME x.key = ShownKey(f)
          PROVE  FALSE
      <3>1. /\ obj[b].artist = obj[a].artist /\ obj[b].name = obj[a].name
            /\ obj[t].name = obj[loc.song].name /\ obj[t].index = obj[loc.song].index
        BY <1>4, <2>3, <2>5
      <3>2. b = a
        BY <1>2, <3>1 DEF StoreInv, AlbumsUnique
      <3> QED
        BY <1>3, <3>1, <3>2
    <2> QED
      BY <2>3, <2>4, <2>5
  <1>9. e \notin Shown
    BY <1>8
  <1>10. Shown' = Shown \cup {e}
    BY <1>7
  <1>11. e \in (Shown' \ Shown) \cap Store!Entries
    <2>1. ShownKey(f) \in {ShownKey(g) : g \in {h \in Files : Meta[h] # NoMeta}}
      BY <1>1
    <2> HIDE DEF f
    <2> QED
      BY <1>3, <1>9, <1>10, <2>1 DEF Store!Entries
  <1>12. Store!Publish(e.key, e.id)
    BY <1>6, <1>8, <1>10 DEF Store!Publish
  <1> QED
    BY <1>11, <1>12, MisreadLists DEF Store!StoreNext

\* What is written to a playlist shows under its name, and nowhere else.
LEMMA WriteShows ==
    ASSUME StoreInv, StoreInv', NEW p \in Playlists, plists[p].id # NoId, NEW tracks,
           obj' = obj, refs' = refs, unnamed' = unnamed,
           lists' = [lists EXCEPT ![plists[p].id] = tracks]
    PROVE  /\ Shown' = Shown
           /\ ListShown' = IF p \in unnamed THEN ListShown ELSE [ListShown EXCEPT ![p] = tracks]
  <1> DEFINE i == plists[p].id
  <1>1. i \in OfFormat("Playlist") /\ obj[i].name = p /\ i \in ObjectIds
    BY DEF StoreInv, PlaylistsKnown, PlaylistKnown, OfFormat
  <1>2. lists'[i] = tracks /\ \A j \in ObjectIds : j # i => lists'[j] = lists[j]
    BY <1>1, StoreSound DEF DeviceTypeOK
  <1> HIDE DEF i
  <1>3. PlaylistsUnique /\ PlaylistsUnique' /\ OfFormat("Playlist")' = OfFormat("Playlist")
    BY DEF StoreInv, OfFormat
  <1>4. Shown' = Shown
    BY DEF Shown, OfFormat
  <1>5. ListShown'[p] = IF p \in unnamed THEN ListShown[p] ELSE tracks
    <2>1. i \in OfFormat("Playlist")' /\ obj'[i].name = p
      BY <1>1, <1>3
    <2> QED
      BY <1>2, <1>3, <2>1, ListsNow, ListsNext DEF ListsAre
  <1>6. ASSUME NEW q \in Playlists, q # p
        PROVE  ListShown'[q] = ListShown[q]
    <2>1. ASSUME NEW j \in OfFormat("Playlist"), obj[j].name = q
          PROVE  ListShown'[q] = ListShown[q]
      <3>1. j # i /\ j \in ObjectIds
        BY <1>1, <1>6, <2>1 DEF OfFormat
      <3>2. j \in OfFormat("Playlist")' /\ obj'[j].name = q
        BY <1>3, <2>1
      <3>3. q \notin unnamed => ListShown'[q] = lists'[j] /\ ListShown[q] = lists[j]
        BY <1>3, <2>1, <3>2, ListsNow, ListsNext DEF ListsAre
      <3>4. q \in unnamed => ListShown'[q] = ListShown[q]
        BY <1>3, ListsNow, ListsNext DEF ListsAre
      <3> QED
        BY <1>2, <3>1, <3>3, <3>4
    <2>2. ASSUME \A j \in OfFormat("Playlist") : obj[j].name # q
          PROVE  ListShown'[q] = ListShown[q]
      BY <1>3, <2>2, ListsNow, ListsNext DEF ListsAre
    <2> QED
      BY <2>1, <2>2
  <1>7. ListShown' = IF p \in unnamed THEN ListShown ELSE [ListShown EXCEPT ![p] = tracks]
    BY <1>5, <1>6, ListsFunction
  <1> QED
    BY <1>4, <1>7

\* What a playlist shows is what its cache holds, where that was read.
LEMMA CachedShown ==
    ASSUME StoreInv, NEW p \in Playlists, plists[p].id # NoId, plists[p].whole, p \notin unnamed
    PROVE  ListShown[p] = plists[p].tracks
  <1>1. /\ plists[p].id \in OfFormat("Playlist") /\ obj[plists[p].id].name = p
        /\ plists[p].tracks = lists[plists[p].id] /\ PlaylistsUnique
    BY DEF StoreInv, PlaylistsKnown, PlaylistKnown
  <1> QED
    BY <1>1, ListsNow DEF ListsAre

LEMMA UnseenAsStore ==
    ASSUME StoreInv, StoreInv', UNCHANGED device
    PROVE  Store!StoreNext
  BY QuietlyLost DEF device, SameObject

\* A write to a playlist with a double shows nothing.
LEMMA DoubleWritten ==
    ASSUME Shown' = Shown, ListShown' = ListShown
    PROVE  Store!StoreNext
  <1>1. ListShown' = [p \in Playlists |-> IF p \in {} THEN <<>> ELSE ListShown[p]]
    BY ListsFunction
  <1>2. Store!LoseLists({}) /\ {} \in SUBSET Playlists
    BY <1>1 DEF Store!LoseLists
  <1> QED
    BY <1>2, MisreadLists DEF Store!StoreNext

LEMMA ClearShows ==
    ASSUME StoreInv, StoreInv', ClearPlaylist
    PROVE  Store!StoreNext
  <1> DEFINE p == Command.list
  <1>1. p \in Playlists /\ plists[p].id # NoId
    BY ListFacts, StoreSound DEF ClearPlaylist
  <1>2. /\ obj' = obj /\ refs' = refs /\ unnamed' = unnamed
        /\ \/ lists' = lists
           \/ lists' = [lists EXCEPT ![plists[p].id] = <<>>]
    BY DEF ClearPlaylist, WritePlaylistRefs
  <1>3. CASE lists' = lists
    BY <1>2, <1>3, UnseenAsStore DEF device
  <1>4. CASE lists' = [lists EXCEPT ![plists[p].id] = <<>>]
    <2>1. /\ Shown' = Shown
          /\ ListShown' = IF p \in unnamed THEN ListShown ELSE [ListShown EXCEPT ![p] = <<>>]
      BY <1>1, <1>2, <1>4, WriteShows
    <2>2. CASE p \in unnamed
      BY <2>1, <2>2, DoubleWritten
    <2>3. CASE p \notin unnamed
      <3>1. Store!ClearList(p)
        BY <2>1, <2>3 DEF Store!ClearList
      <3> QED
        BY <1>1, <3>1, MisreadLists DEF Store!StoreNext
    <2> QED
      BY <2>2, <2>3
  <1> QED
    BY <1>2, <1>3, <1>4

\* What an addition writes: a playlist that was read gets one entry more, and one
\* that was not keeps that entry only.
LEMMA AddWrites ==
    ASSUME StoreInv, StoreInv', NEW p \in Playlists, plists[p].id # NoId, NEW t \in ObjectIds,
           ~Contains(plists[p].tracks, t), p \notin unnamed, Shown' = Shown,
           ListShown' = [ListShown EXCEPT ![p] = Append(plists[p].tracks, t)],
           ~plists[p].whole => p \in Misread
    PROVE  Store!StoreNext
  <1>1. CASE plists[p].whole
    <2>1. ListShown[p] = plists[p].tracks
      BY <1>1, CachedShown
    <2>2. \A n \in 1 .. Len(ListShown[p]) : ListShown[p][n] # t
      BY <2>1 DEF Contains
    <2>3. ListShown' = [ListShown EXCEPT ![p] = Append(@, t)]
      BY <2>1
    <2>4. Store!ExtendList(p, t)
      BY <2>2, <2>3 DEF Store!ExtendList
    <2> QED
      BY <2>4, MisreadLists DEF Store!StoreNext
  <1>2. CASE ~plists[p].whole
    <2>1. plists[p].tracks = <<>>
      BY <1>2 DEF StoreInv, PlaylistsKnown, PlaylistKnown
    <2>2. Append(<<>>, t) = <<t>>
      OBVIOUS
    <2>3. Store!ReplaceList(p, t)
      BY <1>2, <2>1, <2>2 DEF Store!ReplaceList
    <2> QED
      BY <2>3, MisreadLists DEF Store!StoreNext
  <1> QED
    BY <1>1, <1>2

LEMMA AddShows ==
    ASSUME StoreInv, StoreInv', AddToPlaylist
    PROVE  Store!StoreNext
  <1> DEFINE p == Command.list
             tracks == plists[p].tracks
  <1>1. p \in Playlists /\ plists[p].id # NoId /\ TrackIds \subseteq ObjectIds
    BY ListFacts, StoreSound DEF AddToPlaylist
  <1>2. PICK t \in TrackIds :
            \/ UNCHANGED device
            \/ ~Contains(tracks, t) /\ WritePlaylistRefs(Append(tracks, t))
    BY DEF AddToPlaylist
  <1>3. CASE UNCHANGED device
    BY <1>3, UnseenAsStore
  <1>4. CASE ~Contains(tracks, t) /\ WritePlaylistRefs(Append(tracks, t))
    <2>1. /\ obj' = obj /\ refs' = refs /\ unnamed' = unnamed
          /\ \/ lists' = lists
             \/ lists' = [lists EXCEPT ![plists[p].id] = Append(tracks, t)]
      BY <1>4 DEF WritePlaylistRefs
    <2>2. CASE lists' = lists
      BY <2>1, <2>2, UnseenAsStore DEF device
    <2>3. CASE lists' = [lists EXCEPT ![plists[p].id] = Append(tracks, t)]
      <3>1. /\ Shown' = Shown
            /\ ListShown' = IF p \in unnamed THEN ListShown
                            ELSE [ListShown EXCEPT ![p] = Append(tracks, t)]
        BY <1>1, <2>1, <2>3, WriteShows
      <3>2. CASE p \in unnamed
        BY <3>1, <3>2, DoubleWritten
      <3>3. CASE p \notin unnamed
        <4>1. ~plists[p].whole => p \in Misread
          BY <1>1 DEF Misread
        <4>2. t \in ObjectIds
          BY <1>1
        <4> QED
          BY <1>1, <1>4, <3>1, <3>3, <4>1, <4>2, AddWrites
      <3> QED
        BY <3>2, <3>3
    <2> QED
      BY <2>1, <2>2, <2>3
  <1> QED
    BY <1>2, <1>3, <1>4

\* What goes is gone from albums and playlists; a playlist takes its entries along.
LEMMA RemoveShows ==
    ASSUME StoreInv, StoreInv', NEW id \in ObjectIds, Remove(id), refs[id] = {}
    PROVE  Store!StoreNext
  <1>1. /\ obj'[id].format = "None" /\ \A i \in ObjectIds : i # id => obj'[i] = obj[i]
        /\ \A i \in ObjectIds : refs'[i] = refs[i] \ {id}
        /\ \A i \in ObjectIds : i # id => lists'[i] = Without(lists[i], id)
        /\ unnamed' = unnamed
    BY StoreSound DEF Remove, DeviceTypeOK, NoObject, Object
  <1>2. PlaylistsUnique /\ PlaylistsUnique'
    BY DEF StoreInv
  <1>3. Shown' = {e \in Shown : e.id # id}
    <2>1. ASSUME NEW x
          PROVE  x \in Shown' <=> x \in Shown /\ x.id # id
      <3>1. ASSUME x \in Shown'
            PROVE  x \in Shown /\ x.id # id
        <4>1. PICK a \in OfFormat("Album")' : \E t \in refs'[a] :
                  x = [key |-> <<obj'[a].artist, obj'[a].name, obj'[t].name, obj'[t].index>>, id |-> t]
          BY <3>1, ShownMemberNext
        <4>2. PICK t \in refs'[a] :
                  x = [key |-> <<obj'[a].artist, obj'[a].name, obj'[t].name, obj'[t].index>>, id |-> t]
          BY <4>1
        <4>3. a \in ObjectIds /\ a # id /\ obj'[a] = obj[a] /\ a \in OfFormat("Album")
          BY <1>1 DEF OfFormat
        <4>4. t \in refs[a] /\ t # id
          BY <1>1, <4>3
        <4>5. t \in ObjectIds
          BY <4>3, <4>4, RefsThere
        <4>6. x = [key |-> <<obj[a].artist, obj[a].name, obj[t].name, obj[t].index>>, id |-> t]
          BY <1>1, <4>2, <4>3, <4>4, <4>5
        <4>7. x.id = t
          BY <4>6
        <4> QED
          BY <4>3, <4>4, <4>6, <4>7, ShownMember
      <3>2. ASSUME x \in Shown, x.id # id
            PROVE  x \in Shown'
        <4>1. PICK a \in OfFormat("Album") : \E t \in refs[a] :
                  x = [key |-> <<obj[a].artist, obj[a].name, obj[t].name, obj[t].index>>, id |-> t]
          BY <3>2, ShownMember
        <4>2. PICK t \in refs[a] :
                  x = [key |-> <<obj[a].artist, obj[a].name, obj[t].name, obj[t].index>>, id |-> t]
          BY <4>1
        <4>3. x.id = t /\ t # id
          BY <3>2, <4>2
        <4>4. a \in ObjectIds /\ a # id
          BY <4>2 DEF OfFormat
        <4>5. t \in ObjectIds
          BY <4>4, RefsThere
        <4>6. a \in OfFormat("Album")' /\ t \in refs'[a]
          BY <1>1, <4>3, <4>4 DEF OfFormat
        <4>7. x = [key |-> <<obj'[a].artist, obj'[a].name, obj'[t].name, obj'[t].index>>, id |-> t]
          BY <1>1, <4>2, <4>3, <4>4, <4>5
        <4> QED
          BY <4>6, <4>7, ShownMemberNext
      <3> QED
        BY <3>1, <3>2
    <2> QED
      BY <2>1
  <1>4. ASSUME NEW q \in Playlists,
               obj[id].format # "Playlist" \/ obj[id].name # q \/ q \in unnamed
        PROVE  ListShown'[q] = Without(ListShown[q], id)
    <2>0. CASE q \in unnamed
      <3>1. ListShown'[q] = <<>> /\ ListShown[q] = <<>>
        BY <1>1, <1>2, <2>0, ListsNow, ListsNext DEF ListsAre
      <3> QED
        BY <3>1, WithoutEmpty
    <2>1. ASSUME NEW i \in OfFormat("Playlist"), obj[i].name = q, q \notin unnamed
          PROVE  ListShown'[q] = Without(ListShown[q], id)
      <3>1. i # id /\ i \in ObjectIds /\ i \in OfFormat("Playlist")' /\ obj'[i].name = q
        BY <1>1, <1>4, <2>1 DEF OfFormat
      <3>2. ListShown'[q] = lists'[i] /\ ListShown[q] = lists[i]
        BY <1>1, <1>2, <2>1, <3>1, ListsNow, ListsNext DEF ListsAre
      <3> QED
        BY <1>1, <3>1, <3>2
    <2>2. ASSUME \A i \in OfFormat("Playlist") : obj[i].name # q
          PROVE  ListShown'[q] = Without(ListShown[q], id)
      <3>1. \A i \in OfFormat("Playlist")' : obj'[i].name # q
        BY <1>1, <2>2 DEF OfFormat
      <3>2. ListShown'[q] = <<>> /\ ListShown[q] = <<>>
        BY <1>2, <2>2, <3>1, ListsNow, ListsNext DEF ListsAre
      <3> QED
        BY <3>2, WithoutEmpty
    <2> QED
      BY <2>0, <2>1, <2>2
  <1>5. \A s : Store!Without(s, id) = Without(s, id)
    BY DEF Store!Without, Without
  <1>6. CASE obj[id].format # "Playlist" \/ obj[id].name \in unnamed
    <2>1. \A q \in Playlists : ListShown'[q] = Store!Without(ListShown[q], id)
      BY <1>4, <1>5, <1>6
    <2>2. ListShown' = [q \in Playlists |-> Store!Without(ListShown[q], id)]
      BY <2>1, ListsFunction
    <2>3. Store!Withdraw(id)
      BY <1>3, <2>2 DEF Store!Withdraw
    <2> QED
      BY <2>3, MisreadLists DEF Store!StoreNext
  <1>7. CASE obj[id].format = "Playlist" /\ obj[id].name \notin unnamed
    <2> DEFINE p == obj[id].name
    <2>1. id \in OfFormat("Playlist") /\ p \in Playlists
      BY <1>2, <1>7 DEF PlaylistsUnique, OfFormat
    <2>2. ListShown'[p] = <<>>
      <3>1. \A i \in OfFormat("Playlist")' : obj'[i].name # p
        BY <1>1, <1>2, <1>7, <2>1 DEF PlaylistsUnique, OfFormat
      <3> QED
        BY <1>2, <2>1, <3>1, ListsNext DEF ListsAre
    <2>3. \A e \in Shown : e.id # id
      <3> SUFFICES ASSUME NEW e \in Shown PROVE e.id # id
        OBVIOUS
      <3>1. PICK a \in OfFormat("Album") : \E t \in refs[a] :
                e = [key |-> <<obj[a].artist, obj[a].name, obj[t].name, obj[t].index>>, id |-> t]
        BY ShownMember
      <3>2. PICK t \in refs[a] :
                e = [key |-> <<obj[a].artist, obj[a].name, obj[t].name, obj[t].index>>, id |-> t]
        BY <3>1
      <3>3. e.id = t /\ a \in ObjectIds
        BY <3>2 DEF OfFormat
      <3> QED
        BY <1>7, <3>3, RefsThere
    <2>4. \A q \in Playlists : ListShown'[q] = IF q = p THEN <<>> ELSE Store!Without(ListShown[q], id)
      BY <1>4, <1>5, <2>2
    <2>5. Shown' = Shown
      BY <1>3, <2>3
    <2> HIDE DEF p
    <2>6. ListShown' = [q \in Playlists |-> IF q = p THEN <<>> ELSE Store!Without(ListShown[q], id)]
      BY <2>4, ListsFunction
    <2>7. Store!DropList(p, id)
      BY <2>3, <2>5, <2>6 DEF Store!DropList
    <2> QED
      BY <2>1, <2>7, MisreadLists DEF Store!StoreNext
  <1> QED
    BY <1>6, <1>7

-----------------------------------------------------------------------------
(* The refinement *)

LEMMA InitShows == Init => Store!StoreInit
  <1> SUFFICES ASSUME Init PROVE Store!StoreInit
    OBVIOUS
  <1>1. \A i \in ObjectIds : obj[i].format = "None"
    BY DEF Init, NoObject, Object
  <1>2. Shown = {}
    BY <1>1 DEF Shown, OfFormat
  <1>3. ListShown = [p \in Playlists |-> <<>>]
    BY <1>1 DEF ListShown, OfFormat
  <1>4. Misread = {}
    BY DEF Init, Misread, NoPlaylists, NoPlaylist
  <1> QED
    BY <1>2, <1>3, <1>4 DEF Store!StoreInit

\* What a step does to the device, so that it shows or not.
DeviceWrites ==
    \/ UNCHANGED device
    \/ LoadPlaylists
    \/ \E id \in ObjectIds : \E o : Create(id, o)
    \/ SendObject
    \/ AddTrack
    \/ ClearPlaylist
    \/ AddToPlaylist
    \/ \E id \in ObjectIds : Remove(id) /\ (Deletable(id) \/ id \in OfFormat("Track"))

LEMMA StepsShow == ASSUME [Next]_vars PROVE DeviceWrites
  <1>1. ASSUME Construct PROVE DeviceWrites
    BY <1>1 DEF Construct, BeginInit, CreateRoot, QueryArtists, LoadArtist, QueryAlbums,
       LoadAlbumArtist, LoadAlbum, DeviceWrites
  <1>2. ASSUME CreateArtist PROVE DeviceWrites
    BY <1>2 DEF CreateArtist, ArtistFolder, ArtistObject, DeviceWrites
  <1>3. ASSUME ZuneImport PROVE DeviceWrites
    BY <1>3 DEF ZuneImport, NeedArtist, AlbumFolder, SkipTrack, CreateTrack, AlbumObject, AddCover,
       DeviceWrites
  <1>4. ASSUME ZunePlaylist PROVE DeviceWrites
    BY <1>4 DEF ZunePlaylist, CreatePlaylist, NotOnDevice, DeviceWrites
  <1>5. ASSUME InitDone \/ Finish \/ Fail PROVE DeviceWrites
    BY <1>5 DEF InitDone, Finish, Fail, DeviceWrites
  <1>6. ASSUME NEW line \in CommandLines, Start(line) PROVE DeviceWrites
    BY <1>6 DEF Start, DeviceWrites
  <1>7. ASSUME NEW id \in ObjectIds, UserDeletes(id) \/ DropIncomplete(id) PROVE DeviceWrites
    BY <1>7 DEF UserDeletes, DropIncomplete, DeviceWrites
  <1>8. ASSUME UNCHANGED vars PROVE DeviceWrites
    BY <1>8 DEF vars, device, DeviceWrites
  <1> QED
    BY <1>1, <1>2, <1>3, <1>4, <1>5, <1>6, <1>7, <1>8 DEF Next, ProcessStep

LEMMA StepsImplement ==
    ASSUME Batch, StoreInv, [Next]_vars
    PROVE  Store!StoreNext
  <1>0. StoreInv'
    BY NextStore
  <1>1. CASE UNCHANGED device
    BY <1>0, <1>1, UnseenAsStore
  <1>2. ASSUME NEW id \in ObjectIds, NEW o, Create(id, o)
        PROVE  Store!StoreNext
    <2>1. /\ id \notin InUse /\ obj' = [obj EXCEPT ![id] = o] /\ refs' = refs /\ lists' = lists
          /\ unnamed' = unnamed
      BY <1>2, IdAssumption DEF Create, InUse
    <2>2. \A i \in InUse : SameObject(i)
      BY <2>1, StoreSound DEF InUse, SameObject, DeviceTypeOK
    <2> QED
      BY <1>0, <2>1, <2>2, QuietlyLost
  <1>3. CASE SendObject
    BY <1>0, <1>3, SendStill, QuietlyLost DEF Still
  <1>4. CASE AddTrack
    BY <1>4, AddTrackShows
  <1>5. CASE ClearPlaylist
    BY <1>0, <1>5, ClearShows
  <1>6. CASE AddToPlaylist
    BY <1>0, <1>6, AddShows
  <1>7. ASSUME NEW id \in ObjectIds, Remove(id), Deletable(id) \/ id \in OfFormat("Track")
        PROVE  Store!StoreNext
    <2>1. refs[id] = {}
      BY <1>7, StoreSound DEF Deletable, OfFormat, RefsInv, RefsComplete
    <2> QED
      BY <1>0, <1>7, <2>1, RemoveShows
  <1>8. CASE LoadPlaylists
    <2>1. UNCHANGED <<obj, refs, lists>> /\ unnamed \subseteq unnamed'
      BY <1>8, LoadPlaylistsQuiet, StoreSound
    <2>2. \A i \in InUse : SameObject(i)
      BY <2>1 DEF SameObject
    <2> QED
      BY <1>0, <2>1, <2>2, QuietlyLost
  <1> QED
    BY <1>1, <1>2, <1>3, <1>4, <1>5, <1>6, <1>7, <1>8, StepsShow DEF DeviceWrites

\* The commands implement ZuneStore: whichever steps of an import fail, and whatever
\* the user deletes between two processes, a file's track appears in one step and
\* once only, and a playlist is emptied or changes by one entry at a time: but for one
\* that could not be read, whose entries give way to the one that is added.
THEOREM CommandsImplementStore ==
    ASSUME Batch
    PROVE  Spec => ImplementsStore
  <1>1. StoreInv /\ [Next]_vars => Store!StoreNext
    BY StepsImplement
  <1> QED
    BY <1>1, InitShows, StoreInvHolds, PTL DEF Spec, ImplementsStore, Store!StoreSpec

-----------------------------------------------------------------------------
(* Playlists only grow *)

LEMMA PrefixOfAppend ==
    ASSUME NEW S, NEW s \in Seq(S), NEW e \in S
    PROVE  IsPrefix(s, s) /\ IsPrefix(s, Append(s, e))
  BY DEF IsPrefix

\* What a playlist may lose to an addition: everything, where it could not be read.
Spared(i) == i = plists[Command.list].id /\ ~plists[Command.list].whole

\* What a command that adds to a playlist writes is the playlist and one entry more,
\* where it could read the playlist.
LEMMA AddStepKeeps ==
    ASSUME StoreInv, AddToPlaylist, NEW p \in ObjectIds
    PROVE  IsPrefix(lists[p], lists'[p]) \/ Spared(p)
  <1> DEFINE q == Command.list
             i == plists[q].id
  <1>1. /\ q \in Playlists /\ i \in OfFormat("Playlist") /\ TrackIds \subseteq ObjectIds
        /\ plists[q].whole => plists[q].tracks = lists[i]
    <2>1. q \in Playlists /\ i # NoId /\ TrackIds \subseteq ObjectIds
      BY ListFacts, StoreSound DEF AddToPlaylist
    <2> QED
      BY <2>1 DEF StoreInv, PlaylistsKnown, PlaylistKnown
  <1>2. i \in ObjectIds /\ lists \in [ObjectIds -> Seq(ObjectIds)]
    BY <1>1, StoreSound DEF OfFormat, DeviceTypeOK
  <1>3. PICK t \in TrackIds :
            lists' = lists \/ lists' = [lists EXCEPT ![i] = Append(plists[q].tracks, t)]
    BY <1>1 DEF AddToPlaylist, WritePlaylistRefs, device
  <1>4. t \in ObjectIds /\ lists[p] \in Seq(ObjectIds)
    BY <1>1, <1>2
  <1>5. Spared(p) <=> p = i /\ ~plists[q].whole
    BY DEF Spared
  <1> HIDE DEF i, q
  <1>6. Spared(p) \/ lists'[p] = lists[p] \/ lists'[p] = Append(lists[p], t)
    BY <1>1, <1>2, <1>3, <1>5
  <1> QED
    BY <1>4, <1>6, PrefixOfAppend

LEMMA StepKeeps ==
    ASSUME StoreInv, [Next]_vars, AddingToPlaylist, NEW p \in ObjectIds
    PROVE  IsPrefix(lists[p], lists'[p]) \/ Spared(p)
  <1>1. pc = "cmd" /\ loaded /\ lists[p] \in Seq(ObjectIds)
        /\ Command.op \in {"zune-playlist-add-id", "zune-playlist-add"}
    BY StoreSound DEF AddingToPlaylist, Running, DeviceTypeOK
  <1>2. CASE lists' = lists
    BY <1>1, <1>2 DEF IsPrefix
  <1>3. CASE AddToPlaylist
    BY <1>3, AddStepKeeps
  <1>4. lists' = lists \/ AddToPlaylist
    <2>1. ASSUME Construct PROVE lists' = lists
      BY <1>1, <2>1 DEF Construct, BeginInit, CreateRoot, QueryArtists, LoadArtist, QueryAlbums,
         LoadAlbumArtist, NextAlbum, LoadAlbum, LoadPlaylists
    <2>2. ASSUME CreateArtist PROVE lists' = lists
      BY <1>1, <2>2 DEF CreateArtist, ArtistFolder, ArtistObject
    <2>3. ASSUME ZuneImport PROVE lists' = lists
      BY <2>3 DEF ZuneImport, NeedArtist, AlbumFolder, SkipTrack, CreateTrack, AlbumObject,
         SendObject, AddCover, AddTrack, Create, device
    <2>4. ASSUME ZunePlaylist PROVE lists' = lists \/ AddToPlaylist
      <3>1. ~ClearPlaylist
        BY <1>1 DEF ClearPlaylist, Running
      <3>2. CreatePlaylist \/ NotOnDevice => lists' = lists
        BY DEF CreatePlaylist, NotOnDevice, Create, device
      <3> QED
        BY <2>4, <3>1, <3>2 DEF ZunePlaylist
    <2>5. ASSUME InitDone \/ Finish \/ Fail PROVE lists' = lists
      BY <2>5 DEF InitDone, Finish, Fail, device
    <2>6. ASSUME NEW line \in CommandLines, Start(line) PROVE lists' = lists
      BY <2>6 DEF Start, device
    <2>7. ASSUME NEW id \in ObjectIds, UserDeletes(id) \/ DropIncomplete(id) PROVE FALSE
      BY <1>1, <2>7 DEF UserDeletes, DropIncomplete
    <2>8. ASSUME UNCHANGED vars PROVE lists' = lists
      BY <2>8 DEF vars
    <2> QED
      BY <2>1, <2>2, <2>3, <2>4, <2>5, <2>6, <2>7, <2>8 DEF Next, ProcessStep
  <1> QED
    BY <1>2, <1>3, <1>4

\* zune-playlist-add and -add-id write the whole list back from the cache, and yet
\* leave every entry of every playlist where it was, whatever else failed before,
\* except those of a playlist whose references could not be read at the start.
THEOREM AdditionsKeepEntries ==
    ASSUME Batch
    PROVE  Spec => AddKeepsEntries
  <1>1. StoreInv /\ [Next]_vars =>
            [AddingToPlaylist =>
                \A i \in ObjectIds :
                    \/ IsPrefix(lists[i], lists'[i])
                    \/ i = plists[Command.list].id /\ ~plists[Command.list].whole]_vars
    BY StepKeeps DEF Spared
  <1> QED
    BY <1>1, StoreInvHolds, PTL DEF Spec, AddKeepsEntries

-----------------------------------------------------------------------------
(* Unique names: the invariant *)

\* Folders of one place, and artists, are unique by their names.
FoldersUnique ==
    \A i, j \in OfFormat("Association") :
        obj[i].parent = obj[j].parent /\ obj[i].name = obj[j].name => i = j

ArtistsUnique ==
    /\ \A i \in OfFormat("Artist") : ArtistSupported /\ obj[i].name \in Names
    /\ \A i, j \in OfFormat("Artist") : obj[i].name = obj[j].name => i = j

\* Nothing is known before the constructor asks; a complete library keeps no listing.
NothingKnown ==
    /\ pc = "off" => roots = NoRoots
    /\ pc \in {"off", "roots"} \/ (pc = "cmd" /\ ~loaded) => artists = NoArtists
    /\ pc \in {"off", "roots", "cmd"} \/ loaded => snap = NothingListed
    /\ pc \in {"off", "roots", "artists"} \/ (pc = "cmd" /\ ~loaded) => albums = NoAlbums
    /\ pc = "albums" => ~loaded

\* The folders of the root are the ones the constructor found or made.
RootsKnown ==
    /\ pc = "roots" => \A n \in RootFolders : roots[n] = NoId => FoldersNamed(Root, n) = {}
    /\ roots["Music"] # NoId => roots["Music"] \in FoldersNamed(Root, "Music")
    /\ pc = "artists" \/ Asked => roots["Music"] # NoId

\* The folder of a known artist is the one of that name.
ArtistsInPlace ==
    \A n \in Names : HasArtist(n) => artists[n].folder \in FoldersNamed(roots["Music"], n)

\* Every artist of the device is known, or yet to be looked at, and then not known; a
\* folder that the listing of the first loop misses was made for an artist that is.
ArtistsKnown ==
    /\ Asked => \A i \in OfFormat("Artist") : HasArtist(obj[i].name)
    /\ pc = "artists" =>
        /\ unread \subseteq OfFormat("Artist")
        /\ \A i \in OfFormat("Artist") : i \in unread \/ HasArtist(obj[i].name)
        /\ \A i \in unread : ~HasArtist(obj[i].name)
        /\ \A j \in FoldersIn(roots["Music"]) :
               \/ j \in snap[roots["Music"]]
               \/ obj[j].name \in Names /\ HasArtist(obj[j].name)

\* The artist that is being made is not known yet.
NewArtist ==
    pc \in {"artistFolder", "artistObject"} =>
        /\ loc.artist \in Names /\ ~HasArtist(loc.artist)
        /\ pc = "artistObject" =>
              ArtistSupported /\ loc.folder \in FoldersNamed(roots["Music"], loc.artist)

LoadingAlbums == pc = "albums" \/ (pc \in {"artistFolder", "artistObject"} /\ ~loaded)

\* A listing shows folders of the place it was taken of, Music or that of an artist.  A
\* folder of an artist that it misses was made for an album that is known; the albums
\* yet to be looked at are not.
ListingsHold ==
    \A p \in ObjectIds : snap[p] # NotListed =>
        /\ snap[p] \subseteq FoldersIn(p)
        /\ p = roots["Music"] \/ \E n \in Names : artists[n].folder = p

AlbumsListed ==
    \A n \in Names : HasArtist(n) /\ snap[artists[n].folder] # NotListed =>
        \A j \in FoldersIn(artists[n].folder) :
            \/ j \in snap[artists[n].folder]
            \/ obj[j].name \in Names /\ HasAlbum(<<n, obj[j].name>>)

AlbumsUnread ==
    LoadingAlbums => \A a \in unread : ~HasAlbum(<<obj[a].artist, obj[a].name>>)

DeviceNames == FoldersUnique /\ ArtistsUnique

CachesNamed ==
    /\ NothingKnown /\ RootsKnown /\ ArtistsInPlace /\ ArtistsKnown /\ NewArtist
    /\ ListingsHold /\ AlbumsListed /\ AlbumsUnread

NamesInv == StoreInv /\ DeviceNames /\ CachesNamed

-----------------------------------------------------------------------------
(* The device *)

\* An object stays what it is and where it is.
Placed(i) == SameObject(i) /\ obj'[i].parent = obj[i].parent

Stays == \A i \in InUse : Placed(i)

\* There is no new folder and no new artist.
Settled ==
    /\ Stays
    /\ \A i \in ObjectIds : obj'[i].format \in {"Association", "Artist"} => i \in InUse

LEMMA QuietSettled == ASSUME UNCHANGED device PROVE Settled
  BY DEF device, Settled, Stays, Placed, SameObject, InUse

LEMMA SettledNames == ASSUME DeviceNames, Settled PROVE DeviceNames'
  <1>1. \A i \in ObjectIds : obj'[i].format \in {"Association", "Artist"} => Placed(i)
    BY DEF Settled, Stays
  <1>2. FoldersUnique'
    BY <1>1 DEF DeviceNames, FoldersUnique, OfFormat, Placed, SameObject
  <1>3. ArtistsUnique'
    BY <1>1 DEF DeviceNames, ArtistsUnique, OfFormat, Placed, SameObject
  <1> QED
    BY <1>2, <1>3 DEF DeviceNames

LEMMA CreateStays ==
    ASSUME DeviceTypeOK, NEW id \in ObjectIds, NEW o \in Objects, Create(id, o)
    PROVE  Stays
  BY CreateAt DEF Stays, Placed, InUse

LEMMA CreateSettled ==
    ASSUME DeviceTypeOK, NEW id \in ObjectIds, NEW o \in Objects, Create(id, o),
           o.format \notin {"Association", "Artist"}
    PROVE  Settled
  BY CreateAt, CreateStays DEF Settled, InUse

LEMMA ObjectFields ==
    \A format, parent, name :
        /\ Object(format, parent, name).format = format
        /\ Object(format, parent, name).parent = parent
        /\ Object(format, parent, name).name = name
  BY DEF Object

\* A folder is made where there is none of its name.
LEMMA FolderAdded ==
    ASSUME DeviceTypeOK, DeviceNames, NEW id \in ObjectIds, NEW parent, NEW name,
           Folder(parent, name) \in Objects, Create(id, Folder(parent, name)),
           FoldersNamed(parent, name) = {}
    PROVE  /\ DeviceNames' /\ Stays /\ id \notin InUse
           /\ obj'[id].format = "Association" /\ obj'[id].parent = parent /\ obj'[id].name = name
           /\ \A i \in ObjectIds : i # id => obj'[i] = obj[i]
  <1>1. /\ id \notin InUse /\ obj'[id] = Folder(parent, name) /\ Stays
        /\ \A i \in ObjectIds : i # id => obj'[i] = obj[i]
    BY CreateAt, CreateStays
  <1>2. obj'[id].format = "Association" /\ obj'[id].parent = parent /\ obj'[id].name = name
    BY <1>1, ObjectFields DEF Folder
  <1>3. \A i \in OfFormat("Association") : ~(obj[i].parent = parent /\ obj[i].name = name)
    BY DEF FoldersNamed, FoldersIn
  <1>4. FoldersUnique'
    BY <1>1, <1>2, <1>3 DEF DeviceNames, FoldersUnique, OfFormat
  <1>5. ArtistsUnique'
    BY <1>1, <1>2 DEF DeviceNames, ArtistsUnique, OfFormat
  <1> QED
    BY <1>1, <1>2, <1>4, <1>5 DEF DeviceNames

\* So is an artist.
LEMMA ArtistAdded ==
    ASSUME DeviceTypeOK, DeviceNames, NEW id \in ObjectIds, NEW parent, NEW name \in Names,
           Object("Artist", parent, name) \in Objects, Create(id, Object("Artist", parent, name)),
           ArtistSupported, \A i \in OfFormat("Artist") : obj[i].name # name
    PROVE  /\ DeviceNames' /\ Stays /\ obj'[id].format = "Artist" /\ obj'[id].name = name
           /\ \A i \in ObjectIds : i # id => obj'[i] = obj[i]
  <1>1. /\ id \notin InUse /\ obj'[id] = Object("Artist", parent, name) /\ Stays
        /\ \A i \in ObjectIds : i # id => obj'[i] = obj[i]
    BY CreateAt, CreateStays
  <1>2. obj'[id].format = "Artist" /\ obj'[id].name = name
    BY <1>1, ObjectFields
  <1>3. FoldersUnique'
    BY <1>1, <1>2 DEF DeviceNames, FoldersUnique, OfFormat
  <1>4. ArtistsUnique'
    BY <1>1, <1>2 DEF DeviceNames, ArtistsUnique, OfFormat
  <1> QED
    BY <1>1, <1>2, <1>3, <1>4 DEF DeviceNames

LEMMA NamesSound ==
    ASSUME NamesInv
    PROVE  StoreInv /\ DeviceNames /\ CachesNamed /\ DeviceTypeOK /\ CacheTypeOK /\ RefsInv
  BY StoreSound DEF NamesInv

-----------------------------------------------------------------------------
(* Places *)

\* Folders that are there stay where they are.
LEMMA NamedStays ==
    ASSUME Stays, NEW p, NEW n, NEW i \in FoldersNamed(p, n)
    PROVE  i \in ObjectIds /\ obj'[i].format = "Association" /\ obj'[i].parent = p /\ obj'[i].name = n
  BY DEF FoldersNamed, FoldersIn, OfFormat, InUse, Stays, Placed, SameObject

LEMMA RootsStay ==
    ASSUME RootsKnown, Stays, roots' = roots, pc' # "roots",
           pc' = "artists" \/ Asked' => pc = "artists" \/ Asked
    PROVE  RootsKnown'
  <1>1. roots["Music"] # NoId => roots'["Music"] \in FoldersNamed(Root, "Music")'
    BY NamedStays DEF RootsKnown, FoldersNamed, FoldersIn, OfFormat
  <1> QED
    BY <1>1 DEF RootsKnown

LEMMA PlacesStay ==
    ASSUME ArtistsInPlace, Stays, roots' = roots, artists' = artists
    PROVE  ArtistsInPlace'
  <1> SUFFICES ASSUME NEW n \in Names, HasArtist(n)
               PROVE  artists[n].folder \in FoldersNamed(roots["Music"], n)'
    BY DEF ArtistsInPlace, HasArtist
  <1>1. artists[n].folder \in FoldersNamed(roots["Music"], n)
    BY DEF ArtistsInPlace
  <1> QED
    BY <1>1, NamedStays DEF FoldersNamed, FoldersIn, OfFormat

\* Music is not the folder of an artist, and no two artists share one.
LEMMA PlacesDiffer ==
    ASSUME CachesNamed, NEW m \in Names, NEW n \in Names, HasArtist(m), HasArtist(n)
    PROVE  /\ artists[n].folder \in ObjectIds /\ roots["Music"] \in ObjectIds \cup {NoId}
           /\ artists[n].folder # roots["Music"]
           /\ obj[artists[n].folder].format = "Association"
           /\ obj[artists[n].folder].parent = roots["Music"] /\ obj[artists[n].folder].name = n
           /\ artists[m].folder = artists[n].folder => m = n
  <1>1. artists[n].folder \in FoldersNamed(roots["Music"], n)
        /\ artists[m].folder \in FoldersNamed(roots["Music"], m)
    BY DEF CachesNamed, ArtistsInPlace
  <1>2. roots["Music"] = NoId \/ roots["Music"] \in FoldersNamed(Root, "Music")
    BY DEF CachesNamed, RootsKnown
  <1> QED
    BY <1>1, <1>2, IdAssumption DEF FoldersNamed, FoldersIn, OfFormat

-----------------------------------------------------------------------------
(* The process ends, starts or rests *)

EmptyCaches ==
    /\ roots = NoRoots /\ artists = NoArtists /\ albums = NoAlbums /\ snap = NothingListed
    /\ ~loaded /\ pc \in {"off", "cmd"}

LEMMA EmptyNamed == EmptyCaches => CachesNamed
  <1> SUFFICES ASSUME EmptyCaches PROVE CachesNamed
    OBVIOUS
  <1>1. /\ roots["Music"] = NoId /\ \A n \in Names : ~HasArtist(n)
        /\ \A p \in ObjectIds : snap[p] = NotListed
    BY DEF EmptyCaches, NoRoots, RootFolders, NoArtists, NoArtist, HasArtist, NothingListed
  <1>2. NothingKnown /\ ~Asked /\ ~LoadingAlbums
    BY DEF EmptyCaches, NothingKnown, Asked, LoadingAlbums
  <1>3. RootsKnown /\ ArtistsInPlace /\ ArtistsKnown /\ NewArtist
    BY <1>1, <1>2 DEF EmptyCaches, RootsKnown, ArtistsInPlace, ArtistsKnown, NewArtist
  <1>4. ListingsHold /\ AlbumsListed /\ AlbumsUnread
    BY <1>1, <1>2 DEF ListingsHold, AlbumsListed, AlbumsUnread
  <1> QED
    BY <1>2, <1>3, <1>4 DEF CachesNamed

LEMMA EmptyNamedNext == EmptyCaches' => CachesNamed'
  BY EmptyNamed, PTL

LEMMA OffEmpty ==
    ASSUME NamesInv, pc = "off"
    PROVE  EmptyCaches
  BY DEF NamesInv, StoreInv, PlaylistsKnown, CachesNamed, NothingKnown, EmptyCaches

LEMMA ExitNames ==
    ASSUME StoreInv', DeviceNames', NEW how, Exit(how)
    PROVE  NamesInv'
  <1>1. EmptyCaches'
    BY DEF Exit, DropCaches, EmptyCaches
  <1> QED
    BY <1>1, EmptyNamedNext DEF NamesInv

LEMMA AbandonNames ==
    ASSUME Batch, StoreInv', DeviceNames', NEW pl, AbandonWith(pl)
    PROVE  NamesInv'
  BY ExitNames DEF Batch, AbandonWith

\* A process whose library is complete makes no artist here.
LEMMA LoadedNames ==
    ASSUME NamesInv, StoreInv', DeviceNames', Stays, loaded, loaded',
           \A i \in ObjectIds : obj'[i].format = "Artist" => i \in InUse,
           UNCHANGED <<roots, artists, snap>>,
           pc' \in {"cmd", "albumObject", "data", "cover", "refs"}
    PROVE  NamesInv'
  <1>1. /\ Asked /\ snap = NothingListed /\ \A p \in ObjectIds : snap[p] = NotListed
        /\ pc' \notin {"off", "roots", "artists", "albums", "artistFolder", "artistObject"}
    <2>1. pc \in PCs /\ pc \notin {"off", "roots", "artists", "albums"}
      BY NamesSound DEF StoreInv, PlaylistsKnown, AlbumsKnown, CachesNamed, NothingKnown, RefsInv,
         TypeOK, ProcessTypeOK
    <2>2. Asked
      BY <2>1 DEF PCs, Asked
    <2>3. snap = NothingListed
      BY NamesSound DEF CachesNamed, NothingKnown
    <2> QED
      BY <2>2, <2>3 DEF NothingListed
  <1>2. NothingKnown' /\ ~LoadingAlbums'
    BY <1>1 DEF NothingKnown, LoadingAlbums
  <1>3. RootsKnown' /\ ArtistsInPlace'
    BY <1>1, NamesSound, RootsStay, PlacesStay DEF CachesNamed
  <1>4. ArtistsKnown'
    BY <1>1, NamesSound DEF CachesNamed, ArtistsKnown, OfFormat, Stays, Placed, SameObject, HasArtist
  <1>5. NewArtist' /\ AlbumsUnread'
    BY <1>1, <1>2 DEF NewArtist, AlbumsUnread
  <1>6. ListingsHold'
    BY <1>1 DEF ListingsHold
  <1>7. AlbumsListed'
    <2> SUFFICES ASSUME NEW n \in Names, HasArtist(n)'
                 PROVE  snap'[artists'[n].folder] = NotListed
      BY DEF AlbumsListed
    <2>1. artists'[n].folder \in ObjectIds
      BY <1>3 DEF ArtistsInPlace, FoldersNamed, FoldersIn, OfFormat
    <2> QED
      BY <1>1, <2>1
  <1> QED
    BY <1>2, <1>3, <1>4, <1>5, <1>6, <1>7 DEF CachesNamed, NamesInv

-----------------------------------------------------------------------------
(* The constructor asks for folders, artists and albums *)

\* Before the first artist is entered, only the roots are known.
LEMMA BareNamed ==
    ASSUME StoreInv', DeviceNames', RootsKnown', artists' = NoArtists, albums' = NoAlbums,
           snap' = NothingListed, ~loaded', pc' = "roots"
    PROVE  NamesInv'
  <1>1. /\ \A n \in Names : ~HasArtist(n)'
        /\ \A p \in ObjectIds : snap'[p] = NotListed
    BY DEF NoArtists, NoArtist, HasArtist, NothingListed
  <1>2. NothingKnown' /\ ~Asked' /\ ~LoadingAlbums'
    BY DEF NothingKnown, Asked, LoadingAlbums
  <1>3. ArtistsInPlace' /\ ArtistsKnown' /\ NewArtist'
    BY <1>1, <1>2 DEF ArtistsInPlace, ArtistsKnown, NewArtist
  <1>4. ListingsHold' /\ AlbumsListed' /\ AlbumsUnread'
    BY <1>1, <1>2 DEF ListingsHold, AlbumsListed, AlbumsUnread
  <1> QED
    BY <1>2, <1>3, <1>4 DEF CachesNamed, NamesInv

LEMMA BeginInitNames == ASSUME NamesInv, StoreInv', BeginInit PROVE NamesInv'
  <1>1. /\ pc = "cmd" /\ ~loaded /\ pc' = "roots" /\ ~loaded' /\ UNCHANGED device
        /\ artists' = NoArtists /\ albums' = NoAlbums /\ snap' = NothingListed
    BY NamesSound DEF BeginInit, Goto, CachesNamed, NothingKnown
  <1>2. DeviceNames' /\ obj' = obj
    BY <1>1, NamesSound, QuietSettled, SettledNames DEF device
  <1>3. \A n \in RootFolders : roots'[n] \in FoundRoot(n)
    BY DEF BeginInit, RootFolders
  <1>4. \A n : NoId \notin FoldersNamed(Root, n)
    BY IdAssumption DEF FoldersNamed, FoldersIn, OfFormat
  <1>5. \A n \in RootFolders : IF roots'[n] = NoId THEN FoldersNamed(Root, n) = {}
                               ELSE roots'[n] \in FoldersNamed(Root, n)
    BY <1>3, <1>4 DEF FoundRoot
  <1>6. RootsKnown'
    BY <1>1, <1>2, <1>5 DEF RootsKnown, Asked, RootFolders, FoldersNamed, FoldersIn, OfFormat
  <1> QED
    BY <1>1, <1>2, <1>6, BareNamed

LEMMA CreateRootNames ==
    ASSUME Batch, NamesInv, StoreInv', NEW n \in RootFolders, CreateRoot(n)
    PROVE  NamesInv'
  <1>1. PICK id \in ObjectIds :
            /\ Create(id, Folder(Root, n))
            /\ \/ /\ roots' = [roots EXCEPT ![n] = id]
                  /\ Goto("roots") /\ UNCHANGED <<loc, loaded, artists, albums, plists, snap, unread>>
               \/ Abandon
    BY DEF CreateRoot
  <1>2. Folder(Root, n) \in Objects
    BY FolderType, NamesAssumption DEF Labels
  <1>3. pc = "roots" /\ ~loaded /\ roots[n] = NoId /\ FoldersNamed(Root, n) = {}
    BY NamesSound DEF CreateRoot, FirstMissing, MissingRoots, StoreInv, AlbumsKnown, CachesNamed,
       RootsKnown
  <1>4. /\ DeviceNames' /\ Stays /\ id \notin InUse
        /\ obj'[id].format = "Association" /\ obj'[id].parent = Root /\ obj'[id].name = n
        /\ \A i \in ObjectIds : i # id => obj'[i] = obj[i]
    BY <1>1, <1>2, <1>3, FolderAdded, NamesSound
  <1>5. CASE Abandon
    BY <1>4, <1>5, AbandonNames DEF Abandon
  <1>6. CASE /\ roots' = [roots EXCEPT ![n] = id]
             /\ Goto("roots") /\ UNCHANGED <<loc, loaded, artists, albums, plists, snap, unread>>
    <2>1. /\ pc' = "roots" /\ ~loaded' /\ artists' = NoArtists /\ albums' = NoAlbums
          /\ snap' = NothingListed
      BY <1>3, <1>6, NamesSound DEF Goto, CachesNamed, NothingKnown
    <2>2. roots'[n] = id /\ id # NoId /\ \A m \in RootFolders : m # n => roots'[m] = roots[m]
      BY <1>6, NamesSound, IdAssumption DEF CacheTypeOK
    <2>3. \A m \in RootFolders : roots'[m] = NoId => FoldersNamed(Root, m)' = {}
      <3> SUFFICES ASSUME NEW m \in RootFolders, roots'[m] = NoId,
                          NEW i \in ObjectIds, obj'[i].format = "Association",
                          obj'[i].parent = Root, obj'[i].name = m
                   PROVE  FALSE
        BY DEF FoldersNamed, FoldersIn, OfFormat
      <3>1. m # n /\ i # id /\ FoldersNamed(Root, m) = {}
        BY <1>3, <1>4, <2>2, NamesSound DEF CachesNamed, RootsKnown
      <3> QED
        BY <1>4, <3>1 DEF FoldersNamed, FoldersIn, OfFormat
    <2>4. roots'["Music"] # NoId => roots'["Music"] \in FoldersNamed(Root, "Music")'
      <3>1. CASE n = "Music"
        BY <1>4, <2>2, <3>1 DEF FoldersNamed, FoldersIn, OfFormat
      <3>2. CASE n # "Music"
        <4>1. roots'["Music"] = roots["Music"]
          BY <2>2, <3>2 DEF RootFolders
        <4>2. roots["Music"] # NoId => roots["Music"] \in FoldersNamed(Root, "Music")
          BY NamesSound DEF CachesNamed, RootsKnown
        <4> QED
          BY <1>4, <4>1, <4>2, NamedStays DEF FoldersNamed, FoldersIn, OfFormat
      <3> QED
        BY <3>1, <3>2
    <2>5. RootsKnown'
      BY <2>1, <2>3, <2>4 DEF RootsKnown, Asked
    <2> QED
      BY <1>4, <2>1, <2>5, BareNamed
  <1> QED
    BY <1>1, <1>5, <1>6

LEMMA QueryArtistsNames == ASSUME NamesInv, StoreInv', QueryArtists PROVE NamesInv'
  <1> DEFINE music == roots["Music"]
  <1>1. /\ pc = "roots" /\ ~loaded /\ pc' = "artists" /\ ~loaded' /\ UNCHANGED device
        /\ artists = NoArtists /\ albums = NoAlbums /\ snap = NothingListed
        /\ artists' = artists /\ albums' = albums /\ roots' = roots
        /\ snap' = [snap EXCEPT ![music] = FoldersIn(music)]
        /\ unread' = IF ArtistSupported THEN OfFormat("Artist") ELSE {}
    BY NamesSound DEF QueryArtists, Goto, CachesNamed, NothingKnown, StoreInv, AlbumsKnown
  <1>2. DeviceNames' /\ obj' = obj /\ Stays /\ unread' = OfFormat("Artist")
    BY <1>1, NamesSound, QuietSettled, SettledNames
       DEF device, Settled, DeviceNames, ArtistsUnique, OfFormat
  <1>3. music \in ObjectIds /\ music # NoId
    <2>1. music # NoId
      BY DEF QueryArtists, MissingRoots, RootFolders
    <2> QED
      BY <2>1, NamesSound DEF CacheTypeOK, RootFolders, MaybeId
  <1>4. /\ \A n \in Names : ~HasArtist(n)'
        /\ \A p \in ObjectIds : snap'[p] = IF p = music THEN FoldersIn(music) ELSE NotListed
    BY <1>1, <1>3 DEF NoArtists, NoArtist, HasArtist, NothingListed
  <1> HIDE DEF music
  <1>5. NothingKnown' /\ ~Asked' /\ ~LoadingAlbums'
    BY <1>1 DEF NothingKnown, Asked, LoadingAlbums
  <1>6. RootsKnown'
    BY <1>1, <1>3, <1>2, NamesSound DEF music, CachesNamed, RootsKnown, Asked, FoldersNamed, FoldersIn,
       OfFormat
  <1>7. ArtistsInPlace' /\ NewArtist'
    BY <1>1, <1>4 DEF ArtistsInPlace, NewArtist
  <1>8. ArtistsKnown'
    <2>1. FoldersIn(roots["Music"])' = snap'[roots'["Music"]]
      BY <1>1, <1>2, <1>3, <1>4 DEF music, FoldersIn, OfFormat
    <2>2. \A i \in OfFormat("Artist") : obj[i].name \in Names
      BY NamesSound DEF DeviceNames, ArtistsUnique
    <2> QED
      BY <1>2, <1>4, <1>5, <2>1, <2>2 DEF ArtistsKnown, OfFormat
  <1>9. ListingsHold'
    BY <1>1, <1>2, <1>4 DEF ListingsHold, music, FoldersIn, OfFormat
  <1>10. AlbumsListed' /\ AlbumsUnread'
    BY <1>4, <1>5 DEF AlbumsListed, AlbumsUnread
  <1> QED
    BY <1>2, <1>5, <1>6, <1>7, <1>8, <1>9, <1>10 DEF CachesNamed, NamesInv

LEMMA QueryAlbumsNames == ASSUME NamesInv, StoreInv', QueryAlbums PROVE NamesInv'
  <1>1. /\ pc = "artists" /\ ~loaded /\ pc' = "albums" /\ ~loaded' /\ UNCHANGED device
        /\ unread = {} /\ UNCHANGED <<roots, artists, albums, snap>> /\ albums = NoAlbums
    BY NamesSound DEF QueryAlbums, Goto, CachesNamed, NothingKnown, StoreInv, AlbumsKnown
  <1>2. DeviceNames' /\ obj' = obj /\ Stays
    BY <1>1, NamesSound, QuietSettled, SettledNames DEF device, Settled
  <1>3. NothingKnown' /\ NewArtist'
    BY <1>1 DEF NothingKnown, NewArtist
  <1>4. RootsKnown' /\ ArtistsInPlace'
    BY <1>1, <1>2, NamesSound, RootsStay, PlacesStay DEF CachesNamed
  <1>5. ArtistsKnown'
    BY <1>1, <1>2, NamesSound DEF CachesNamed, ArtistsKnown, OfFormat, HasArtist
  <1>6. ListingsHold' /\ AlbumsListed'
    BY <1>1, <1>2, NamesSound DEF CachesNamed, ListingsHold, AlbumsListed, HasArtist, HasAlbum, FoldersIn,
       OfFormat
  <1>7. AlbumsUnread'
    <2>1. \A k \in AlbumKeys : ~HasAlbum(k)'
      BY <1>1 DEF HasAlbum, NoAlbums, NoAlbum, CachedAlbum
    <2>2. \A a \in unread' : <<obj[a].artist, obj[a].name>> \in AlbumKeys
      <3>1. unread' = OfFormat("Album")
        BY DEF QueryAlbums
      <3> QED
        BY <3>1, NamesSound DEF StoreInv, AlbumsUnique
    <2> QED
      BY <1>2, <2>1, <2>2 DEF AlbumsUnread
  <1> QED
    BY <1>2, <1>3, <1>4, <1>5, <1>6, <1>7 DEF CachesNamed, NamesInv

\* The library is complete, and its listings are dropped.
LEMMA LoadPlaylistsNames == ASSUME NamesInv, StoreInv', LoadPlaylists PROVE NamesInv'
  <1>1. /\ pc = "albums" /\ pc' = "cmd" /\ loaded' /\ obj' = obj
        /\ UNCHANGED <<roots, artists, albums>> /\ snap' = NothingListed
    BY DEF LoadPlaylists, Goto
  <1>2. DeviceNames' /\ obj' = obj /\ Stays
    BY <1>1, NamesSound DEF DeviceNames, FoldersUnique, ArtistsUnique, OfFormat, Stays, Placed,
       SameObject
  <1>3. NothingKnown' /\ NewArtist'
    BY <1>1 DEF NothingKnown, NewArtist
  <1>4. RootsKnown' /\ ArtistsInPlace'
    BY <1>1, <1>2, NamesSound, RootsStay, PlacesStay DEF CachesNamed, Asked
  <1>5. ArtistsKnown'
    BY <1>1, <1>2, NamesSound DEF CachesNamed, ArtistsKnown, OfFormat, HasArtist, Asked
  <1>6. ListingsHold' /\ AlbumsListed'
    <2>1. \A p \in ObjectIds : snap'[p] = NotListed
      BY <1>1 DEF NothingListed
    <2>2. \A n \in Names : HasArtist(n)' => artists'[n].folder \in ObjectIds
      BY <1>4 DEF ArtistsInPlace, FoldersNamed, FoldersIn, OfFormat
    <2> QED
      BY <2>1, <2>2 DEF ListingsHold, AlbumsListed
  <1>7. AlbumsUnread'
    BY <1>1 DEF AlbumsUnread, LoadingAlbums
  <1> QED
    BY <1>2, <1>3, <1>4, <1>5, <1>6, <1>7 DEF CachesNamed, NamesInv

-----------------------------------------------------------------------------
(* Artists *)

\* The listed folders of a name are there.
LEMMA ListedThere ==
    ASSUME NamesInv, NEW p \in ObjectIds, NEW name
    PROVE  Listed(p, name) \subseteq FoldersNamed(p, name)
  <1>1. snap[p] # NotListed => snap[p] \subseteq FoldersIn(p)
    BY NamesSound DEF CachesNamed, ListingsHold
  <1> QED
    BY <1>1 DEF Listed, FoldersNamed

\* The folder is the artist's, and no other folder is new.
FolderOf(n, folder) ==
    /\ folder \in ObjectIds /\ obj'[folder].format = "Association"
    /\ obj'[folder].parent = roots["Music"] /\ obj'[folder].name = n
    /\ \A i \in ObjectIds : obj'[i].format = "Association" => i \in InUse \/ i = folder

LEMMA EnteredFacts ==
    ASSUME NamesInv, NEW n \in Names, ~HasArtist(n), NEW id, NEW folder \in ObjectIds,
           artists' = WithArtist(n, id, folder)
    PROVE  /\ HasArtist(n)' /\ artists'[n].folder = folder
           /\ \A m \in Names : m # n => artists'[m] = artists[m]
           /\ \A m \in Names : HasArtist(m)' <=> m = n \/ HasArtist(m)
  <1>1. artists \in [Names -> ArtistEntries]
    BY NamesSound DEF CacheTypeOK
  <1>2. artists' = [artists EXCEPT ![n] = [id |-> id, folder |-> folder]]
    BY DEF WithArtist
  <1>3. artists'[n].folder = folder /\ folder # NoId /\ \A m \in Names : m # n => artists'[m] = artists[m]
    BY <1>1, <1>2, IdAssumption
  <1> QED
    BY <1>3 DEF HasArtist

\* Entering an artist keeps places and listings right.
LEMMA ArtistEntered ==
    ASSUME NamesInv, Stays, roots["Music"] \in ObjectIds,
           NEW n \in Names, ~HasArtist(n), NEW id, NEW folder, FolderOf(n, folder),
           artists' = WithArtist(n, id, folder), UNCHANGED <<roots, albums, snap>>
    PROVE  ArtistsInPlace' /\ ListingsHold' /\ AlbumsListed'
  <1> DEFINE music == roots["Music"]
  <1>1. /\ folder \in ObjectIds /\ obj'[folder].format = "Association"
        /\ obj'[folder].parent = music /\ obj'[folder].name = n
        /\ \A i \in ObjectIds : obj'[i].format = "Association" => i \in InUse \/ i = folder
    BY DEF FolderOf
  <1>2. /\ artists'[n].folder = folder
        /\ \A m \in Names : m # n => artists'[m] = artists[m]
        /\ \A m \in Names : HasArtist(m)' <=> m = n \/ HasArtist(m)
    BY <1>1, EnteredFacts
  <1>3. /\ obj[music].format = "Association" /\ obj[music].parent = Root /\ music \in InUse
        /\ obj'[music].parent = Root /\ Root # music
    <2>1. music \in FoldersNamed(Root, "Music")
      BY NamesSound, IdAssumption DEF CachesNamed, RootsKnown
    <2> QED
      BY <2>1, NamedStays, IdAssumption DEF FoldersNamed, FoldersIn, OfFormat, InUse
  <1>4. ASSUME NEW m \in Names, HasArtist(m), m # n
        PROVE  /\ artists[m].folder \in ObjectIds /\ artists[m].folder # music
               /\ obj'[artists[m].folder].format = "Association"
               /\ obj'[artists[m].folder].parent = music /\ obj'[artists[m].folder].name = m
    <2>1. artists[m].folder \in FoldersNamed(music, m)
      BY <1>4, NamesSound DEF CachesNamed, ArtistsInPlace
    <2> QED
      BY <1>3, <1>4, <2>1, NamedStays, PlacesDiffer, NamesSound
  <1> HIDE DEF music
  <1>5. ArtistsInPlace'
    <2> SUFFICES ASSUME NEW m \in Names, HasArtist(m)'
                 PROVE  artists'[m].folder \in FoldersNamed(roots["Music"], m)'
      BY DEF ArtistsInPlace
    <2>1. artists'[m].folder \in ObjectIds /\ obj'[artists'[m].folder].format = "Association"
          /\ obj'[artists'[m].folder].parent = music /\ obj'[artists'[m].folder].name = m
      BY <1>1, <1>2, <1>4
    <2> QED
      BY <2>1 DEF music, FoldersNamed, FoldersIn, OfFormat
  <1>6. ASSUME NEW p \in ObjectIds, p # music, NEW j \in ObjectIds,
               obj'[j].format = "Association", obj'[j].parent = p
        PROVE  j \in FoldersIn(p) /\ obj'[j].name = obj[j].name
    BY <1>1, <1>6 DEF Stays, Placed, SameObject, FoldersIn, OfFormat
  <1>7. ASSUME NEW p \in ObjectIds, snap[p] # NotListed
        PROVE  /\ \A j \in snap[p] : j \in ObjectIds /\ obj'[j].format = "Association" /\ obj'[j].parent = p
               /\ p = music \/ \E m \in Names : artists'[m].folder = p /\ artists[m].folder = p /\ HasArtist(m)
    <2>1. snap[p] \subseteq FoldersIn(p) /\ (p = music \/ \E m \in Names : artists[m].folder = p)
      BY <1>7, NamesSound DEF CachesNamed, ListingsHold, music
    <2>2. \A m \in Names : artists[m].folder = p => HasArtist(m) /\ m # n
      BY IdAssumption DEF HasArtist
    <2> QED
      BY <1>2, <2>1, <2>2 DEF FoldersIn, OfFormat, Stays, Placed, SameObject, InUse
  <1>8. ListingsHold'
    BY <1>7 DEF ListingsHold, music, FoldersIn, OfFormat
  <1>9. AlbumsListed'
    <2> SUFFICES ASSUME NEW m \in Names, HasArtist(m)', snap[artists'[m].folder] # NotListed,
                        NEW j \in ObjectIds, obj'[j].format = "Association",
                        obj'[j].parent = artists'[m].folder
                 PROVE  \/ j \in snap[artists'[m].folder]
                        \/ obj'[j].name \in Names /\ HasAlbum(<<m, obj'[j].name>>)
      BY DEF AlbumsListed, FoldersIn, OfFormat, HasAlbum
    <2>1. CASE m = n
      <3>1. snap[folder] # NotListed /\ folder # music
        BY <1>1, <1>2, <1>3, <2>1
      <3>2. PICK l \in Names : artists[l].folder = folder /\ HasArtist(l)
        BY <1>1, <1>7, <3>1
      <3>3. l # n
        BY <3>2
      <3> QED
        BY <1>1, <1>4, <3>2, <3>3
    <2>2. CASE m # n
      <3>1. HasArtist(m) /\ artists'[m] = artists[m]
        BY <1>2, <2>2
      <3>2. j \in FoldersIn(artists[m].folder) /\ obj'[j].name = obj[j].name
        BY <1>4, <1>6, <2>2, <3>1
      <3> QED
        BY <3>1, <3>2, NamesSound DEF CachesNamed, AlbumsListed
    <2> QED
      BY <2>1, <2>2
  <1> QED
    BY <1>5, <1>8, <1>9

LEMMA LoadArtistNames ==
    ASSUME Batch, NamesInv, StoreInv', NEW id \in ObjectIds, LoadArtist(id)
    PROVE  NamesInv'
  <1> DEFINE music == roots["Music"]
             name == obj[id].name
             Insert(folder) == /\ artists' = WithArtist(name, id, folder)
                               /\ unread' = unread \ {id} /\ Goto("artists")
                               /\ UNCHANGED <<loc, loaded, roots, albums, plists, snap>>
  <1>1. /\ pc = "artists" /\ ~loaded /\ id \in unread /\ id \in OfFormat("Artist") /\ name \in Names
        /\ ~HasArtist(name) /\ albums = NoAlbums
    BY NamesSound DEF LoadArtist, CachesNamed, ArtistsKnown, DeviceNames, ArtistsUnique, NothingKnown,
       StoreInv, AlbumsKnown
  <1>2. music \in ObjectIds /\ music # NoId
    BY <1>1, NamesSound DEF CachesNamed, RootsKnown, CacheTypeOK, RootFolders, MaybeId
  <1>3. Folder(music, name) \in Objects
    BY <1>1, <1>2, FolderType DEF MaybeId, Labels
  <1>4. \/ UNCHANGED device /\ \E folder \in Listed(music, name) : Insert(folder)
        \/ /\ Listed(music, name) = {}
           /\ \E folder \in ObjectIds : Create(folder, Folder(music, name)) /\ (Insert(folder) \/ Abandon)
    BY DEF LoadArtist
  <1>5. ASSUME Listed(music, name) = {}
        PROVE  FoldersNamed(music, name) = {}
    <2> SUFFICES ASSUME NEW j \in FoldersIn(music), obj[j].name = name PROVE FALSE
      BY DEF FoldersNamed
    <2>1. j \in snap[music] \/ HasArtist(name)
      BY <1>1, NamesSound DEF CachesNamed, ArtistsKnown
    <2> QED
      BY <1>1, <1>5, <2>1 DEF Listed
  <1>6. ASSUME NEW folder, Insert(folder), DeviceNames', Stays, FolderOf(name, folder),
               \A i \in ObjectIds : obj'[i].format = "Artist" => i \in InUse
        PROVE  NamesInv'
    <2>1. /\ pc' = "artists" /\ ~loaded' /\ artists' = WithArtist(name, id, folder)
          /\ unread' = unread \ {id} /\ UNCHANGED <<roots, albums, snap>>
      BY <1>1, <1>6 DEF Goto
    <2>2. ArtistsInPlace' /\ ListingsHold' /\ AlbumsListed'
      BY <1>1, <1>2, <1>6, <2>1, ArtistEntered
    <2>3. \A m \in Names : HasArtist(m)' <=> m = name \/ HasArtist(m)
      BY <1>1, <1>6, <2>1, EnteredFacts DEF FolderOf
    <2>4. NothingKnown' /\ NewArtist' /\ ~Asked' /\ AlbumsUnread'
      BY <1>1, <2>1, NamesSound DEF NothingKnown, NewArtist, Asked, AlbumsUnread, LoadingAlbums
    <2>5. RootsKnown'
      BY <1>1, <1>6, <2>1, RootsStay, NamesSound DEF CachesNamed
    <2>6. ArtistsKnown'
      <3>1. \A i \in OfFormat("Artist")' : i \in OfFormat("Artist") /\ obj'[i].name = obj[i].name
        BY <1>6 DEF OfFormat, Stays, Placed, SameObject
      <3>2. \A i \in unread' : i \in OfFormat("Artist")'
        <4>1. \A i \in unread : i \in ObjectIds /\ obj[i].format = "Artist"
          BY <1>1, NamesSound DEF CachesNamed, ArtistsKnown, OfFormat
        <4> QED
          BY <1>6, <2>1, <4>1 DEF OfFormat, Stays, Placed, SameObject, InUse
      <3>3. \A i \in OfFormat("Artist") : obj[i].name \in Names /\ (i = id \/ obj[i].name # name)
        BY <1>1, NamesSound DEF DeviceNames, ArtistsUnique
      <3>4. \A i \in OfFormat("Artist")' : i \in unread' \/ artists'[obj'[i].name].folder # NoId
        <4> SUFFICES ASSUME NEW i \in OfFormat("Artist")', i \notin unread'
                     PROVE  artists'[obj'[i].name].folder # NoId
          OBVIOUS
        <4>1. i \in OfFormat("Artist") /\ obj'[i].name = obj[i].name /\ obj[i].name \in Names
          BY <3>1, <3>3
        <4>2. obj[i].name = name \/ HasArtist(obj[i].name)
          BY <1>1, <2>1, <4>1, NamesSound DEF CachesNamed, ArtistsKnown
        <4>3. artists'[obj[i].name].folder # NoId
          BY <2>3, <4>1, <4>2 DEF HasArtist
        <4> QED
          BY <4>1, <4>3
      <3>5. \A i \in unread' : artists'[obj'[i].name].folder = NoId
        <4> SUFFICES ASSUME NEW i \in unread' PROVE artists'[obj'[i].name].folder = NoId
          OBVIOUS
        <4>1. i \in OfFormat("Artist") /\ obj'[i].name = obj[i].name /\ obj[i].name \in Names /\ i # id
              /\ i \in unread
          BY <2>1, <3>1, <3>2, <3>3
        <4>2. obj[i].name # name /\ ~HasArtist(obj[i].name)
          BY <1>1, <3>3, <4>1, NamesSound DEF CachesNamed, ArtistsKnown
        <4> QED
          BY <2>3, <4>1, <4>2 DEF HasArtist
      <3>6. ASSUME NEW j \in FoldersIn(roots["Music"])'
            PROVE  \/ j \in snap'[roots'["Music"]]
                   \/ obj'[j].name \in Names /\ artists'[obj'[j].name].folder # NoId
        <4>1. /\ j \in ObjectIds /\ obj'[j].format = "Association" /\ obj'[j].parent = music
              /\ snap'[roots'["Music"]] = snap[music]
          BY <2>1 DEF FoldersIn, OfFormat
        <4>2. CASE j = folder
          BY <1>1, <1>6, <2>3, <4>1, <4>2 DEF FolderOf, HasArtist
        <4>3. CASE j # folder
          <5>1. j \in FoldersIn(music) /\ obj'[j].name = obj[j].name
            BY <1>6, <4>1, <4>3 DEF FolderOf, Stays, Placed, SameObject, FoldersIn, OfFormat
          <5>2. j \in snap[music] \/ (obj[j].name \in Names /\ HasArtist(obj[j].name))
            BY <1>1, <5>1, NamesSound DEF CachesNamed, ArtistsKnown
          <5> QED
            BY <2>3, <4>1, <5>1, <5>2 DEF HasArtist
        <4> QED
          BY <4>2, <4>3
      <3> QED
        BY <2>4, <3>2, <3>4, <3>5, <3>6 DEF ArtistsKnown, HasArtist
    <2> QED
      BY <1>6, <2>2, <2>4, <2>5, <2>6 DEF CachesNamed, NamesInv
  <1>7. CASE UNCHANGED device /\ \E folder \in Listed(music, name) : Insert(folder)
    <2>1. PICK folder \in Listed(music, name) : Insert(folder)
      BY <1>7
    <2>2. folder \in FoldersNamed(music, name)
      BY <1>2, ListedThere
    <2>3. Settled /\ DeviceNames' /\ Stays
      BY <1>7, QuietSettled, SettledNames, NamesSound DEF Settled
    <2>4. FolderOf(name, folder)
      BY <2>2, <2>3, NamedStays DEF FolderOf, Settled
    <2> QED
      BY <1>6, <2>1, <2>3, <2>4 DEF Settled
  <1>8. ASSUME Listed(music, name) = {}, NEW folder \in ObjectIds, Create(folder, Folder(music, name)),
               Insert(folder) \/ Abandon
        PROVE  NamesInv'
    <2>1. /\ DeviceNames' /\ Stays
          /\ obj'[folder].format = "Association" /\ obj'[folder].parent = music /\ obj'[folder].name = name
          /\ \A i \in ObjectIds : i # folder => obj'[i] = obj[i]
      BY <1>3, <1>5, <1>8, FolderAdded, NamesSound
    <2>2. FolderOf(name, folder)
      BY <2>1 DEF FolderOf, InUse
    <2>3. \A i \in ObjectIds : obj'[i].format = "Artist" => i \in InUse
      BY <2>1 DEF InUse
    <2>4. CASE Abandon
      BY <2>1, <2>4, AbandonNames DEF Abandon
    <2>5. CASE Insert(folder)
      BY <1>6, <2>1, <2>2, <2>3, <2>5
    <2> QED
      BY <1>8, <2>4, <2>5
  <1> QED
    BY <1>4, <1>7, <1>8

\* Listings stay right where no folder of an artist is new.
LEMMA ListingsStay ==
    ASSUME NamesInv, Stays, UNCHANGED <<roots, artists, albums, snap>>,
           \A i \in ObjectIds : obj'[i].format = "Association" =>
               i \in InUse \/ obj'[i].parent = roots["Music"]
    PROVE  ListingsHold' /\ AlbumsListed'
  <1>1. ListingsHold'
    <2> SUFFICES ASSUME NEW p \in ObjectIds, snap[p] # NotListed, NEW j \in snap[p]
                 PROVE  j \in ObjectIds /\ obj'[j].format = "Association" /\ obj'[j].parent = p
      BY NamesSound DEF CachesNamed, ListingsHold, FoldersIn, OfFormat
    <2>1. j \in FoldersIn(p)
      BY NamesSound DEF CachesNamed, ListingsHold
    <2> QED
      BY <2>1 DEF FoldersIn, OfFormat, Stays, Placed, SameObject, InUse
  <1>2. AlbumsListed'
    <2> SUFFICES ASSUME NEW n \in Names, HasArtist(n), snap[artists[n].folder] # NotListed,
                        NEW j \in ObjectIds, obj'[j].format = "Association",
                        obj'[j].parent = artists[n].folder
                 PROVE  \/ j \in snap[artists[n].folder]
                        \/ obj'[j].name \in Names /\ HasAlbum(<<n, obj'[j].name>>)
      BY DEF AlbumsListed, FoldersIn, OfFormat, HasAlbum, HasArtist
    <2>1. j \in InUse
      BY PlacesDiffer, NamesSound
    <2>2. j \in FoldersIn(artists[n].folder) /\ obj'[j].name = obj[j].name
      BY <2>1 DEF Stays, Placed, SameObject, FoldersIn, OfFormat
    <2> QED
      BY <2>2, NamesSound DEF CachesNamed, AlbumsListed
  <1> QED
    BY <1>1, <1>2

LEMMA UnreadStay ==
    ASSUME NamesInv, Stays, UNCHANGED <<albums, unread>>, LoadingAlbums' => LoadingAlbums
    PROVE  AlbumsUnread'
  <1> SUFFICES ASSUME LoadingAlbums, NEW a \in unread
               PROVE  ~(albums[<<obj'[a].artist, obj'[a].name>>].id # NoId)
    BY DEF AlbumsUnread, HasAlbum
  <1>1. a \in OfFormat("Album")
    BY NamesSound DEF RefsInv, UnreadAreAlbums, LoadingAlbums
  <1>2. obj'[a].artist = obj[a].artist /\ obj'[a].name = obj[a].name
    BY <1>1 DEF OfFormat, InUse, Stays, Placed, SameObject
  <1> QED
    BY <1>2, NamesSound DEF CachesNamed, AlbumsUnread, HasAlbum

\* An unknown artist is made next.
LEMMA MakingArtist ==
    ASSUME NamesInv, StoreInv', DeviceNames', obj' = obj, Stays, UNCHANGED caches,
           (pc = "albums" /\ ~loaded) \/ (pc = "cmd" /\ loaded), pc' = "artistFolder",
           loc'.artist \in Names, ~HasArtist(loc'.artist)
    PROVE  NamesInv'
  <1>1. UNCHANGED <<loaded, roots, artists, albums, snap, unread>> /\ Asked
    BY DEF caches, Asked
  <1>2. NothingKnown' /\ (LoadingAlbums' => LoadingAlbums)
    BY <1>1, NamesSound DEF CachesNamed, NothingKnown, LoadingAlbums
  <1>3. RootsKnown' /\ ArtistsInPlace'
    BY <1>1, NamesSound, RootsStay, PlacesStay DEF CachesNamed, Asked
  <1>4. ArtistsKnown'
    BY <1>1, NamesSound DEF CachesNamed, ArtistsKnown, OfFormat, HasArtist
  <1>5. NewArtist'
    BY <1>1 DEF NewArtist, HasArtist
  <1>6. ListingsHold' /\ AlbumsListed'
    BY <1>1, ListingsStay DEF InUse
  <1>7. AlbumsUnread'
    BY <1>1, <1>2, UnreadStay
  <1> QED
    BY <1>2, <1>3, <1>4, <1>5, <1>6, <1>7 DEF CachesNamed, NamesInv

\* The artist that was made is known.
LEMMA CreatedNames ==
    ASSUME NamesInv, StoreInv', DeviceNames', Stays, pc \in {"artistFolder", "artistObject"},
           NEW id, NEW folder, FolderOf(loc.artist, folder), CreatedArtist(id, folder),
           \A i \in ObjectIds : obj'[i].format = "Artist" => i \in InUse \/ obj'[i].name = loc.artist
    PROVE  NamesInv'
  <1> DEFINE n == loc.artist
  <1>1. /\ roots["Music"] \in ObjectIds /\ Asked /\ n \in Names /\ ~HasArtist(n)
    BY NamesSound DEF Asked, CachesNamed, RootsKnown, NewArtist, CacheTypeOK, RootFolders, MaybeId
  <1>2. /\ artists' = WithArtist(n, id, folder) /\ pc' = (IF loaded THEN "cmd" ELSE "albums")
        /\ UNCHANGED <<loaded, roots, albums, snap, unread>>
    BY DEF CreatedArtist, Goto
  <1>3. \A m \in Names : HasArtist(m)' <=> m = n \/ HasArtist(m)
    BY <1>1, <1>2, EnteredFacts DEF FolderOf
  <1>4. ArtistsInPlace' /\ ListingsHold' /\ AlbumsListed'
    BY <1>1, <1>2, ArtistEntered
  <1>5. NothingKnown' /\ NewArtist' /\ (LoadingAlbums' => LoadingAlbums)
    BY <1>2, NamesSound DEF CachesNamed, NothingKnown, NewArtist, LoadingAlbums
  <1>6. RootsKnown'
    BY <1>1, <1>2, NamesSound, RootsStay DEF CachesNamed
  <1>7. ArtistsKnown'
    <2> SUFFICES ASSUME NEW i \in ObjectIds, obj'[i].format = "Artist"
                 PROVE  artists'[obj'[i].name].folder # NoId
      BY <1>2 DEF ArtistsKnown, OfFormat, HasArtist
    <2>1. CASE i \in InUse
      <3>1. i \in OfFormat("Artist") /\ obj'[i].name = obj[i].name
        BY <2>1 DEF Stays, Placed, SameObject, OfFormat
      <3>2. obj[i].name \in Names /\ HasArtist(obj[i].name)
        BY <1>1, <3>1, NamesSound DEF CachesNamed, ArtistsKnown, DeviceNames, ArtistsUnique
      <3> QED
        BY <1>3, <3>1, <3>2 DEF HasArtist
    <2>2. CASE obj'[i].name = n
      BY <1>1, <1>3, <2>2 DEF HasArtist
    <2> QED
      BY <2>1, <2>2
  <1>8. AlbumsUnread'
    BY <1>2, <1>5, UnreadStay
  <1> QED
    BY <1>4, <1>5, <1>6, <1>7, <1>8 DEF CachesNamed, NamesInv

LEMMA LoadAlbumArtistNames ==
    ASSUME NamesInv, StoreInv', NEW id \in ObjectIds, LoadAlbumArtist(id)
    PROVE  NamesInv'
  <1>1. /\ pc = "albums" /\ ~loaded /\ pc' = "artistFolder" /\ UNCHANGED device /\ UNCHANGED caches
        /\ loc'.artist = Known(obj[id].artist, "UknownArtist")
        /\ ~HasArtist(Known(obj[id].artist, "UknownArtist"))
    BY NamesSound DEF LoadAlbumArtist, NextAlbum, Goto, CachesNamed, NothingKnown
  <1>2. Known(obj[id].artist, "UknownArtist") \in Names
    BY NamesSound, NamesAssumption DEF DeviceTypeOK, Objects, Known
  <1>3. DeviceNames' /\ obj' = obj /\ Stays
    BY <1>1, NamesSound, QuietSettled, SettledNames DEF device, Settled
  <1> QED
    BY <1>1, <1>2, <1>3, NamesSound, MakingArtist

\* An artist is about to be made, from the constructor or from zune-import.
LEMMA NeedArtistNames ==
    ASSUME NamesInv, StoreInv', NEW f \in Files, NeedArtist(f)
    PROVE  NamesInv'
  <1>1. /\ pc = "cmd" /\ loaded /\ pc' = "artistFolder" /\ UNCHANGED device /\ UNCHANGED caches
        /\ loc' = [loc EXCEPT !.artist = ArtistOf(f)] /\ ~HasArtist(ArtistOf(f)) /\ ArtistOf(f) \in Names
    BY TagTypes DEF NeedArtist, Importing, Running, Goto
  <1>2. loc'.artist = ArtistOf(f)
    BY <1>1, NamesSound DEF RefsInv, TypeOK, ProcessTypeOK, Locals
  <1>3. DeviceNames' /\ obj' = obj /\ Stays
    BY <1>1, NamesSound, QuietSettled, SettledNames DEF device, Settled
  <1> QED
    BY <1>1, <1>2, <1>3, NamesSound, MakingArtist

\* Its folder is there, and its object is next.
LEMMA ArtistFolderGot ==
    ASSUME Batch, NamesInv, StoreInv', DeviceNames', Stays, pc = "artistFolder",
           NEW folder, FolderOf(loc.artist, folder), GotArtistFolder(folder),
           \A i \in ObjectIds : obj'[i].format = "Artist" => i \in InUse
    PROVE  NamesInv'
  <1>1. roots["Music"] \in ObjectIds /\ loc.artist \in Names /\ ~HasArtist(loc.artist)
    BY NamesSound DEF Asked, CachesNamed, RootsKnown, NewArtist, CacheTypeOK, RootFolders, MaybeId
  <1>2. CASE ~ArtistSupported /\ CreatedArtist(NoId, folder)
    BY <1>1, <1>2, CreatedNames
  <1>3. CASE /\ ArtistSupported /\ loc' = [loc EXCEPT !.folder = folder]
             /\ Goto("artistObject") /\ UNCHANGED caches
    <2>1. /\ pc' = "artistObject" /\ loc'.folder = folder /\ loc'.artist = loc.artist
          /\ UNCHANGED <<loaded, roots, artists, albums, snap, unread>>
      BY <1>3, NamesSound DEF Goto, caches, RefsInv, TypeOK, ProcessTypeOK, Locals
    <2>2. NothingKnown' /\ LoadingAlbums' = LoadingAlbums
      BY <2>1, NamesSound DEF CachesNamed, NothingKnown, LoadingAlbums
    <2>3. RootsKnown' /\ ArtistsInPlace'
      BY <2>1, NamesSound, RootsStay, PlacesStay DEF CachesNamed, Asked
    <2>4. ArtistsKnown'
      BY <2>1, NamesSound DEF CachesNamed, ArtistsKnown, OfFormat, Stays, Placed, SameObject, HasArtist,
         Asked
    <2>5. NewArtist'
      BY <1>1, <1>3, <2>1 DEF NewArtist, HasArtist, FolderOf, FoldersNamed, FoldersIn, OfFormat
    <2>6. ListingsHold' /\ AlbumsListed'
      BY <1>1, <2>1, ListingsStay DEF FolderOf
    <2>7. AlbumsUnread'
      BY <2>1, <2>2, UnreadStay
    <2> QED
      BY <2>2, <2>3, <2>4, <2>5, <2>6, <2>7 DEF CachesNamed, NamesInv
  <1> QED
    BY <1>2, <1>3 DEF GotArtistFolder

LEMMA ArtistFolderNames == ASSUME Batch, NamesInv, StoreInv', ArtistFolder PROVE NamesInv'
  <1> DEFINE music == roots["Music"]
             found == FoldersNamed(music, loc.artist)
  <1>1. /\ pc = "artistFolder" /\ music \in ObjectIds /\ loc.artist \in Names
    BY NamesSound DEF ArtistFolder, Asked, CachesNamed, RootsKnown, NewArtist, CacheTypeOK, RootFolders,
       MaybeId
  <1>2. Folder(music, loc.artist) \in Objects
    BY <1>1, FolderType DEF MaybeId, Labels
  <1>3. \/ UNCHANGED device /\ \E folder \in found : GotArtistFolder(folder)
        \/ /\ found = {}
           /\ \E folder \in ObjectIds : /\ Create(folder, Folder(music, loc.artist))
                                        /\ GotArtistFolder(folder) \/ Abandon
    BY DEF ArtistFolder
  <1>4. ASSUME UNCHANGED device, NEW folder \in found, GotArtistFolder(folder)
        PROVE  NamesInv'
    <2>1. Settled /\ DeviceNames' /\ Stays
      BY <1>4, QuietSettled, SettledNames, NamesSound DEF Settled
    <2>2. FolderOf(loc.artist, folder)
      BY <2>1, NamedStays DEF FolderOf, Settled
    <2> QED
      BY <1>1, <1>4, <2>1, <2>2, ArtistFolderGot DEF Settled
  <1>5. ASSUME found = {}, NEW folder \in ObjectIds, Create(folder, Folder(music, loc.artist)),
               GotArtistFolder(folder) \/ Abandon
        PROVE  NamesInv'
    <2>1. /\ DeviceNames' /\ Stays /\ obj'[folder].format = "Association"
          /\ obj'[folder].parent = music /\ obj'[folder].name = loc.artist
          /\ \A i \in ObjectIds : i # folder => obj'[i] = obj[i]
      BY <1>2, <1>5, FolderAdded, NamesSound
    <2>2. FolderOf(loc.artist, folder) /\ \A i \in ObjectIds : obj'[i].format = "Artist" => i \in InUse
      BY <2>1 DEF FolderOf, InUse
    <2>3. CASE Abandon
      BY <2>1, <2>3, AbandonNames DEF Abandon
    <2>4. CASE GotArtistFolder(folder)
      BY <1>1, <2>1, <2>2, <2>4, ArtistFolderGot
    <2> QED
      BY <1>5, <2>3, <2>4
  <1> QED
    BY <1>3, <1>4, <1>5

\* The artist is new: every artist the device has is known.
LEMMA ArtistObjectNames == ASSUME Batch, NamesInv, StoreInv', ArtistObject PROVE NamesInv'
  <1> DEFINE o == Object("Artist", roots["Artists"], loc.artist)
  <1>1. /\ pc = "artistObject" /\ Asked /\ loc.artist \in Names /\ ~HasArtist(loc.artist)
        /\ ArtistSupported /\ loc.folder \in FoldersNamed(roots["Music"], loc.artist)
    BY NamesSound DEF ArtistObject, Asked, CachesNamed, NewArtist
  <1>2. PICK id \in ObjectIds : Create(id, o) /\ (CreatedArtist(id, loc.folder) \/ Abandon)
    BY DEF ArtistObject
  <1>3. o \in Objects
    BY NamesSound DEF Object, Objects, RefsInv, TypeOK, CacheTypeOK, ProcessTypeOK, Locals, Labels,
       RootFolders, MaybeId
  <1>4. \A i \in OfFormat("Artist") : obj[i].name # loc.artist
    BY <1>1, NamesSound DEF CachesNamed, ArtistsKnown
  <1>5. /\ DeviceNames' /\ Stays /\ obj'[id].format = "Artist" /\ obj'[id].name = loc.artist
        /\ \A i \in ObjectIds : i # id => obj'[i] = obj[i]
    BY <1>1, <1>2, <1>3, <1>4, ArtistAdded, NamesSound
  <1>6. CASE Abandon
    BY <1>5, <1>6, AbandonNames DEF Abandon
  <1>7. CASE CreatedArtist(id, loc.folder)
    <2>1. FolderOf(loc.artist, loc.folder)
      BY <1>1, <1>5, NamedStays DEF FolderOf, InUse
    <2>2. \A i \in ObjectIds : obj'[i].format = "Artist" => i \in InUse \/ obj'[i].name = loc.artist
      BY <1>5 DEF InUse
    <2> QED
      BY <1>1, <1>5, <1>7, <2>1, <2>2, CreatedNames
  <1> QED
    BY <1>2, <1>6, <1>7

-----------------------------------------------------------------------------
(* Albums *)

\* An album is entered under a name that none had, with the listing of its artist's
\* folder: the folder that was made for it is the only one the listing can miss.
LEMMA AlbumEnteredNames ==
    ASSUME NamesInv, StoreInv', DeviceNames', Stays, pc = "albums", pc' = "albums", ~loaded',
           NEW id \in unread, NEW n \in Names, NEW name, HasArtist(n),
           obj[id].artist = n, obj[id].name = name, <<n, name>> \in AlbumKeys,
           NEW folder, albums' = WithAlbum(<<n, name>>, id, folder),
           unread' = unread \ {id}, UNCHANGED <<roots, artists>>,
           snap' = (IF snap[artists[n].folder] # NotListed THEN snap
                    ELSE [snap EXCEPT ![artists[n].folder] = FoldersIn(artists[n].folder)]),
           \A i \in ObjectIds : obj'[i].format = "Association" =>
               i \in InUse \/ (obj'[i].parent = artists[n].folder /\ obj'[i].name = name),
           \A i \in ObjectIds : obj'[i].format = "Artist" => i \in InUse
    PROVE  NamesInv'
  <1> DEFINE p == artists[n].folder
             k == <<n, name>>
  <1>1. /\ id \in OfFormat("Album") /\ p \in ObjectIds /\ ~HasAlbum(k) /\ name \in Names
        /\ Asked /\ LoadingAlbums /\ id # NoId
    <2>1. id \in OfFormat("Album") /\ id # NoId
      BY NamesSound, IdAssumption DEF RefsInv, UnreadAreAlbums, OfFormat
    <2>2. ~HasAlbum(k)
      BY NamesSound DEF CachesNamed, AlbumsUnread, LoadingAlbums
    <2> QED
      BY <2>1, <2>2, PlacesDiffer, NamesSound DEF Asked, LoadingAlbums, AlbumKeys
  <1>2. /\ HasAlbum(k)' /\ \A j \in AlbumKeys : j # k => albums'[j] = albums[j]
    BY <1>1, NamesSound DEF WithAlbum, CachedAlbum, HasAlbum, CacheTypeOK
  <1>3. /\ snap'[p] = (IF snap[p] # NotListed THEN snap[p] ELSE FoldersIn(p))
        /\ \A q \in ObjectIds : q # p => snap'[q] = snap[q]
    BY <1>1, NamesSound DEF CacheTypeOK
  <1> HIDE DEF p, k
  <1>4. NothingKnown' /\ NewArtist'
    BY DEF NothingKnown, NewArtist
  <1>5. RootsKnown' /\ ArtistsInPlace'
    BY <1>1, NamesSound, RootsStay, PlacesStay DEF CachesNamed
  <1>6. ArtistsKnown'
    BY <1>1, NamesSound DEF CachesNamed, ArtistsKnown, OfFormat, Stays, Placed, SameObject, HasArtist
  <1>7. \A q \in ObjectIds : \A j \in FoldersIn(q) :
            j \in ObjectIds /\ obj'[j].format = "Association" /\ obj'[j].parent = q /\ obj'[j].name = obj[j].name
    BY DEF FoldersIn, OfFormat, Stays, Placed, SameObject, InUse
  <1>8. ListingsHold'
    <2> SUFFICES ASSUME NEW q \in ObjectIds, snap'[q] # NotListed
                 PROVE  /\ \A j \in snap'[q] : j \in ObjectIds /\ obj'[j].format = "Association"
                                               /\ obj'[j].parent = q
                        /\ q = roots["Music"] \/ \E m \in Names : artists[m].folder = q
      BY DEF ListingsHold, FoldersIn, OfFormat
    <2>1. CASE snap[q] # NotListed
      <3>1. snap'[q] = snap[q]
        BY <1>3, <2>1
      <3> QED
        BY <1>7, <2>1, <3>1, NamesSound DEF CachesNamed, ListingsHold
    <2>2. CASE snap[q] = NotListed
      <3>1. q = p
        BY <1>3, <2>2
      <3> QED
        BY <1>3, <1>7, <2>2, <3>1 DEF p
    <2> QED
      BY <2>1, <2>2
  <1>9. AlbumsListed'
    <2> SUFFICES ASSUME NEW m \in Names, HasArtist(m), snap'[artists[m].folder] # NotListed,
                        NEW j \in ObjectIds, obj'[j].format = "Association",
                        obj'[j].parent = artists[m].folder, j \notin snap'[artists[m].folder]
                 PROVE  obj'[j].name \in Names /\ albums'[<<m, obj'[j].name>>].id # NoId
      BY DEF AlbumsListed, FoldersIn, OfFormat, HasAlbum, HasArtist
    <2>1. artists[m].folder \in ObjectIds /\ (artists[m].folder = p => m = n)
      BY PlacesDiffer, NamesSound DEF p
    <2>2. CASE j \in InUse
      <3>1. j \in FoldersIn(artists[m].folder) /\ obj'[j].name = obj[j].name
        BY <2>2 DEF Stays, Placed, SameObject, FoldersIn, OfFormat
      <3>2. snap[artists[m].folder] # NotListed /\ j \notin snap[artists[m].folder]
        BY <1>3, <2>1, <3>1
      <3>3. obj[j].name \in Names /\ HasAlbum(<<m, obj[j].name>>)
        BY <3>1, <3>2, NamesSound DEF CachesNamed, AlbumsListed
      <3>4. <<m, obj[j].name>> \in AlbumKeys
        BY <3>3 DEF AlbumKeys
      <3> QED
        BY <1>2, <3>1, <3>3, <3>4 DEF HasAlbum
    <2>3. CASE j \notin InUse
      <3>1. artists[m].folder = p /\ obj'[j].name = name
        BY <2>3 DEF p
      <3>2. m = n
        BY <2>1, <3>1
      <3> QED
        BY <1>1, <1>2, <3>1, <3>2 DEF HasAlbum, k
    <2> QED
      BY <2>2, <2>3
  <1>10. AlbumsUnread'
    <2> SUFFICES ASSUME NEW a \in unread, a # id
                 PROVE  albums'[<<obj'[a].artist, obj'[a].name>>].id = NoId
      BY DEF AlbumsUnread, HasAlbum
    <2> DEFINE j == <<obj[a].artist, obj[a].name>>
    <2>1. a \in OfFormat("Album") /\ ~HasAlbum(j)
      BY <1>1, NamesSound DEF RefsInv, UnreadAreAlbums, LoadingAlbums, CachesNamed, AlbumsUnread
    <2>2. obj'[a].artist = obj[a].artist /\ obj'[a].name = obj[a].name
      BY <2>1 DEF OfFormat, InUse, Stays, Placed, SameObject
    <2>3. j \in AlbumKeys /\ ~(obj[a].artist = n /\ obj[a].name = name)
      BY <1>1, <2>1, NamesSound DEF StoreInv, AlbumsUnique
    <2>4. j # k
      BY <2>3 DEF k
    <2> QED
      BY <1>2, <2>1, <2>2, <2>3, <2>4 DEF HasAlbum
  <1> QED
    BY <1>4, <1>5, <1>6, <1>8, <1>9, <1>10 DEF CachesNamed, NamesInv

LEMMA LoadAlbumNames ==
    ASSUME Batch, NamesInv, StoreInv', NEW id \in ObjectIds, LoadAlbum(id)
    PROVE  NamesInv'
  <1> DEFINE name == obj[id].name
             n == Known(obj[id].artist, "UknownArtist")
             parent == artists[n].folder
             k == <<n, name>>
             Insert(folder) ==
                 /\ albums' = WithAlbum(k, id, folder) /\ unread' = unread \ {id}
                 /\ snap' = (IF snap[parent] # NotListed THEN snap
                             ELSE [snap EXCEPT ![parent] = FoldersIn(parent)])
                 /\ Goto("albums") /\ UNCHANGED <<loaded, roots, artists>>
  <1>1. /\ pc = "albums" /\ ~loaded /\ id \in unread /\ id \in OfFormat("Album") /\ HasArtist(n)
        /\ n = obj[id].artist
    <2>1. pc = "albums" /\ id \in unread /\ HasArtist(n) /\ ~loaded
      BY NamesSound DEF LoadAlbum, NextAlbum, CachesNamed, NothingKnown
    <2>2. id \in OfFormat("Album") /\ obj[id].artist # ""
      BY <2>1, NamesSound DEF StoreInv, CachesInv, RefsInv, UnreadAreAlbums, AlbumsHaveArtists
    <2> QED
      BY <2>1, <2>2 DEF Known
  <1>2. k \in AlbumKeys /\ n \in Names /\ name \in Names
    <2>1. <<obj[id].artist, obj[id].name>> \in AlbumKeys
      BY <1>1, NamesSound DEF StoreInv, AlbumsUnique
    <2> QED
      BY <1>1, <2>1 DEF AlbumKeys
  <1>3. /\ \/ UNCHANGED device /\ \E folder \in Listed(parent, name) : Insert(folder)
           \/ /\ Listed(parent, name) = {}
              /\ \E folder \in ObjectIds : Create(folder, Folder(parent, name)) /\ (Insert(folder) \/ Abandon)
    BY DEF LoadAlbum
  <1> HIDE DEF n
  <1>4. parent \in ObjectIds /\ Folder(parent, name) \in Objects
    <2>1. parent \in ObjectIds
      BY <1>1, <1>2, PlacesDiffer, NamesSound
    <2> QED
      BY <1>2, <2>1, FolderType DEF MaybeId, Labels
  <1>5. ASSUME Listed(parent, name) = {}
        PROVE  FoldersNamed(parent, name) = {}
    <2> SUFFICES ASSUME NEW j \in FoldersIn(parent), obj[j].name = name PROVE FALSE
      BY DEF FoldersNamed
    <2>1. snap[parent] # NotListed /\ j \notin snap[parent]
      BY <1>5 DEF Listed
    <2>2. HasAlbum(<<n, obj[j].name>>)
      BY <1>1, <1>2, <2>1, NamesSound DEF CachesNamed, AlbumsListed
    <2>3. ~HasAlbum(<<obj[id].artist, obj[id].name>>)
      BY <1>1, NamesSound DEF CachesNamed, AlbumsUnread, LoadingAlbums
    <2> QED
      BY <1>1, <2>2, <2>3
  <1>6. ASSUME NEW folder, Insert(folder), DeviceNames', Stays,
               \A i \in ObjectIds : obj'[i].format = "Association" =>
                   i \in InUse \/ (obj'[i].parent = parent /\ obj'[i].name = name),
               \A i \in ObjectIds : obj'[i].format = "Artist" => i \in InUse
        PROVE  NamesInv'
    <2>1. pc' = "albums" /\ ~loaded'
      BY <1>1, <1>6 DEF Goto
    <2> QED
      BY <1>1, <1>2, <1>6, <2>1, AlbumEnteredNames
  <1>7. CASE UNCHANGED device /\ \E folder \in Listed(parent, name) : Insert(folder)
    <2>1. Settled /\ DeviceNames' /\ Stays
      BY <1>7, QuietSettled, SettledNames, NamesSound DEF Settled
    <2> QED
      BY <1>6, <1>7, <2>1 DEF Settled
  <1>8. ASSUME Listed(parent, name) = {}, NEW folder \in ObjectIds, Create(folder, Folder(parent, name)),
               Insert(folder) \/ Abandon
        PROVE  NamesInv'
    <2>1. /\ DeviceNames' /\ Stays
          /\ obj'[folder].format = "Association" /\ obj'[folder].parent = parent /\ obj'[folder].name = name
          /\ \A i \in ObjectIds : i # folder => obj'[i] = obj[i]
      BY <1>4, <1>5, <1>8, FolderAdded, NamesSound
    <2>2. CASE Abandon
      BY <2>1, <2>2, AbandonNames DEF Abandon
    <2>3. CASE Insert(folder)
      <3>1. /\ \A i \in ObjectIds : obj'[i].format = "Association" =>
                   i \in InUse \/ (obj'[i].parent = parent /\ obj'[i].name = name)
            /\ \A i \in ObjectIds : obj'[i].format = "Artist" => i \in InUse
        BY <2>1 DEF InUse
      <3> HIDE DEF Insert
      <3> QED
        BY <1>6, <2>1, <2>3, <3>1
    <2> QED
      BY <1>8, <2>2, <2>3
  <1> QED
    BY <1>3, <1>7, <1>8

-----------------------------------------------------------------------------
(* Commands of a process whose library is complete *)

LEMMA AlbumFolderNames ==
    ASSUME Batch, NamesInv, StoreInv', NEW f \in Files, AlbumFolder(f)
    PROVE  NamesInv'
  <1> DEFINE parent == artists[ArtistOf(f)].folder
             found == FoldersNamed(parent, AlbumOf(f))
  <1>1. /\ pc = "cmd" /\ loaded /\ ArtistOf(f) \in Names /\ AlbumOf(f) \in Names
        /\ HasArtist(ArtistOf(f))
    BY TagTypes DEF AlbumFolder, Importing, Running
  <1>2. \/ UNCHANGED device /\ \E folder \in found : GotAlbumFolder(folder)
        \/ /\ found = {}
           /\ \E folder \in ObjectIds : /\ Create(folder, Folder(parent, AlbumOf(f)))
                                        /\ GotAlbumFolder(folder) \/ Abandon
    BY DEF AlbumFolder
  <1>3. Folder(parent, AlbumOf(f)) \in Objects
    BY <1>1, PlacesDiffer, NamesSound, FolderType DEF MaybeId, Labels
  <1>4. \A folder : GotAlbumFolder(folder) =>
            UNCHANGED <<loaded, roots, artists, snap>> /\ pc' = "albumObject"
    BY DEF GotAlbumFolder, Goto, caches
  <1>5. CASE UNCHANGED device /\ \E folder \in found : GotAlbumFolder(folder)
    <2>1. Settled /\ DeviceNames' /\ Stays
      BY <1>5, QuietSettled, SettledNames, NamesSound DEF Settled
    <2> QED
      BY <1>1, <1>4, <1>5, <2>1, LoadedNames DEF Settled
  <1>6. ASSUME found = {}, NEW folder \in ObjectIds, Create(folder, Folder(parent, AlbumOf(f))),
               GotAlbumFolder(folder) \/ Abandon
        PROVE  NamesInv'
    <2>1. /\ DeviceNames' /\ Stays /\ obj'[folder].format = "Association"
          /\ \A i \in ObjectIds : i # folder => obj'[i] = obj[i]
      BY <1>3, <1>6, FolderAdded, NamesSound
    <2>2. CASE Abandon
      BY <2>1, <2>2, AbandonNames DEF Abandon
    <2>3. CASE GotAlbumFolder(folder)
      <3>1. \A i \in ObjectIds : obj'[i].format = "Artist" => i \in InUse
        BY <2>1 DEF InUse
      <3> QED
        BY <1>1, <1>4, <2>1, <2>3, <3>1, LoadedNames
    <2> QED
      BY <1>6, <2>2, <2>3
  <1> QED
    BY <1>2, <1>5, <1>6

\* Steps that leave folders, artists and the listings alone.
LEMMA SettledStep ==
    ASSUME Batch, NamesInv, StoreInv', Settled, loaded,
           \/ /\ UNCHANGED <<loaded, roots, artists, snap>>
              /\ pc' \in {"cmd", "data", "cover", "refs"}
           \/ \E pl : AbandonWith(pl)
    PROVE  NamesInv'
  <1>1. DeviceNames' /\ Stays /\ \A i \in ObjectIds : obj'[i].format = "Artist" => i \in InUse
    BY SettledNames, NamesSound DEF Settled
  <1>2. CASE \E pl : AbandonWith(pl)
    BY <1>1, <1>2, AbandonNames
  <1>3. CASE UNCHANGED <<loaded, roots, artists, snap>> /\ pc' \in {"cmd", "data", "cover", "refs"}
    BY <1>1, <1>3, LoadedNames
  <1> QED
    BY <1>2, <1>3

LEMMA AlbumObjectNames == ASSUME Batch, NamesInv, StoreInv', AlbumObject PROVE NamesInv'
  <1> DEFINE f == Command.file
             o == [Object("Album", roots["Albums"], AlbumOf(f)) EXCEPT !.artist = ArtistOf(f)]
  <1>1. /\ pc = "albumObject" /\ loaded /\ ArtistOf(f) \in Names /\ AlbumOf(f) \in Names
    BY ImportFacts, TagTypes, NamesSound DEF AlbumObject
  <1>2. o \in Objects /\ o.format = "Album"
    <2>1. roots["Albums"] \in MaybeId
      BY NamesSound DEF CacheTypeOK, RootFolders
    <2> QED
      BY <1>1, <2>1, NamesAssumption DEF Object, Objects, Labels
  <1>3. PICK id \in ObjectIds :
            /\ Create(id, o)
            /\ (Goto("cmd") /\ UNCHANGED <<loaded, roots, artists, plists, snap, unread>>) \/ Abandon
    BY DEF AlbumObject
  <1> HIDE DEF o
  <1>4. Settled
    BY <1>2, <1>3, CreateSettled, NamesSound
  <1> QED
    BY <1>1, <1>3, <1>4, SettledStep DEF Goto, Abandon

LEMMA SkipTrackNames ==
    ASSUME Batch, NamesInv, StoreInv', NEW f \in Files, SkipTrack(f)
    PROVE  NamesInv'
  <1>1. pc = "cmd" /\ loaded /\ pc' = "cmd" /\ UNCHANGED device /\ UNCHANGED <<loaded, roots, artists, snap>>
    BY DEF SkipTrack, Importing, Running, CommandDone
  <1> QED
    BY <1>1, QuietSettled, SettledStep

LEMMA CreateTrackNames ==
    ASSUME Batch, NamesInv, StoreInv', NEW f \in Files, CreateTrack(f)
    PROVE  NamesInv'
  <1>1. /\ pc = "cmd" /\ loaded /\ Meta[f] # NoMeta /\ KeyOf(f) \in AlbumKeys
    BY TagTypes DEF CreateTrack, Importing, Running
  <1>2. TrackObject(f) \in Objects /\ TrackObject(f).format = "Track"
    <2>1. albums[KeyOf(f)].folder \in MaybeId
      BY <1>1, NamesSound DEF CacheTypeOK, AlbumEntries
    <2> QED
      BY <1>1, <2>1, TagTypes DEF TrackObject, Object, Objects, Labels
  <1>3. PICK id \in ObjectIds :
            /\ Create(id, TrackObject(f))
            /\ (Goto("data") /\ UNCHANGED <<loaded, roots, artists, plists, snap, unread>>) \/ Abandon
    BY DEF CreateTrack
  <1>4. Settled
    BY <1>2, <1>3, CreateSettled, NamesSound
  <1> QED
    BY <1>1, <1>3, <1>4, SettledStep DEF Goto, Abandon

LEMMA SendObjectNames == ASSUME Batch, NamesInv, StoreInv', SendObject PROVE NamesInv'
  <1> DEFINE sent == [obj[loc.song] EXCEPT !.complete = TRUE]
  <1>1. /\ pc = "data" /\ loaded /\ loc.song \in ObjectIds /\ obj[loc.song] \in Objects
        /\ obj[loc.song].format = "Track"
    BY ImportFacts, NamesSound DEF SendObject, RefsInv, SongSent, DeviceTypeOK
  <1>2. /\ sent.format = "Track" /\ sent.name = obj[loc.song].name /\ sent.parent = obj[loc.song].parent
        /\ sent.artist = obj[loc.song].artist /\ sent.index = obj[loc.song].index
    BY <1>1 DEF Objects
  <1>3. obj'[loc.song] = sent /\ \A i \in ObjectIds : i # loc.song => obj'[i] = obj[i]
    BY <1>1, NamesSound DEF SendObject, DeviceTypeOK
  <1> HIDE DEF sent
  <1>4. Settled
    BY <1>1, <1>2, <1>3 DEF Settled, Stays, Placed, SameObject, InUse
  <1>5. \/ pc' \in {"cover", "refs"} /\ UNCHANGED caches
        \/ Abandon
    BY DEF SendObject, Goto
  <1> QED
    BY <1>1, <1>4, <1>5, SettledStep DEF Abandon, caches

LEMMA ImportEndsNames == ASSUME Batch, NamesInv, StoreInv', AddCover \/ AddTrack PROVE NamesInv'
  <1>1. pc \in {"cover", "refs"}
    BY DEF AddCover, AddTrack
  <1>2. loaded
    BY <1>1, ImportFacts, NamesSound
  <1>3. obj' = obj /\ Settled
    BY DEF AddCover, AddTrack, device, Settled, Stays, Placed, SameObject, InUse
  <1>4. \/ pc' \in {"refs", "cmd"} /\ UNCHANGED <<loaded, roots, artists, snap>>
        \/ Abandon
    BY DEF AddCover, AddTrack, Goto, CommandDone, caches
  <1> QED
    BY <1>2, <1>3, <1>4, SettledStep DEF Abandon

LEMMA PlaylistNames ==
    ASSUME Batch, NamesInv, StoreInv', ZunePlaylist \/ InitDone
    PROVE  NamesInv'
  <1>1. loaded /\ pc = "cmd"
    BY DEF ZunePlaylist, InitDone, CreatePlaylist, ClearPlaylist, AddToPlaylist, NotOnDevice,
       AddingToPlaylist, Running
  <1>2. CASE CreatePlaylist
    <2> DEFINE o == Object("Playlist", Root, Command.list)
    <2>1. o \in Objects /\ o.format = "Playlist"
      <3>1. Command.list \in Playlists
        BY <1>2, ListFacts, NamesSound DEF CreatePlaylist
      <3> QED
        BY <3>1 DEF Object, Objects, Labels
    <2>2. PICK id \in ObjectIds :
              /\ Create(id, o)
              /\ (Goto("cmd") /\ UNCHANGED <<loc, loaded, roots, artists, albums, snap, unread>>) \/ Abandon
      BY <1>2 DEF CreatePlaylist
    <2> HIDE DEF o
    <2>3. Settled
      BY <2>1, <2>2, CreateSettled, NamesSound
    <2> QED
      BY <1>1, <2>2, <2>3, SettledStep DEF Goto, Abandon
  <1>3. CASE ClearPlaylist \/ AddToPlaylist \/ NotOnDevice \/ InitDone
    <2>1. obj' = obj
      BY <1>3 DEF ClearPlaylist, AddToPlaylist, NotOnDevice, InitDone, WritePlaylistRefs, device
    <2>2. Settled
      BY <2>1 DEF Settled, Stays, Placed, SameObject, InUse
    <2>3. \/ pc' = "cmd" /\ UNCHANGED <<loaded, roots, artists, snap>>
          \/ \E pl : AbandonWith(pl)
      BY <1>3 DEF ClearPlaylist, AddToPlaylist, NotOnDevice, InitDone, WritePlaylistRefs, CommandDone,
         caches
    <2> QED
      BY <1>1, <2>2, <2>3, SettledStep
  <1> QED
    BY <1>2, <1>3 DEF ZunePlaylist

-----------------------------------------------------------------------------
(* The ends of a process, and what happens between two *)

LEMMA EndNames == ASSUME Batch, NamesInv, StoreInv', Finish \/ Fail PROVE NamesInv'
  <1>1. UNCHANGED device /\ ((\E how : Exit(how)) \/ Abandon)
    BY DEF Finish, Fail
  <1>2. DeviceNames'
    BY <1>1, QuietSettled, SettledNames, NamesSound
  <1> QED
    BY <1>1, <1>2, ExitNames, AbandonNames DEF Abandon

LEMMA StartNames ==
    ASSUME NamesInv, StoreInv', NEW line \in CommandLines, Start(line)
    PROVE  NamesInv'
  <1>1. DeviceNames'
    BY QuietSettled, SettledNames, NamesSound DEF Start
  <1>2. EmptyCaches'
    BY OffEmpty DEF Start, EmptyCaches, caches
  <1> QED
    BY <1>1, <1>2, EmptyNamedNext DEF NamesInv

\* What the user deletes makes no two things alike.
LEMMA RemoveNames ==
    ASSUME NamesInv, StoreInv', NEW id \in ObjectIds, pc = "off", Remove(id),
           UNCHANGED <<process, caches>>
    PROVE  NamesInv'
  <1>1. obj'[id].format = "None" /\ \A i \in ObjectIds : i # id => obj'[i] = obj[i]
    BY NamesSound DEF Remove, DeviceTypeOK, NoObject, Object
  <1>2. DeviceNames'
    BY <1>1, NamesSound DEF DeviceNames, FoldersUnique, ArtistsUnique, OfFormat
  <1>3. EmptyCaches'
    BY OffEmpty DEF EmptyCaches, caches, process
  <1> QED
    BY <1>2, <1>3, EmptyNamedNext DEF NamesInv

LEMMA InitNames == Init => NamesInv
  <1> SUFFICES ASSUME Init PROVE NamesInv
    OBVIOUS
  <1>1. \A i \in ObjectIds : obj[i].format = "None"
    BY DEF Init, NoObject, Object
  <1>2. DeviceNames
    BY <1>1 DEF DeviceNames, FoldersUnique, ArtistsUnique, OfFormat
  <1>3. EmptyCaches
    BY DEF Init, EmptyCaches
  <1> QED
    BY <1>2, <1>3, InitStore, EmptyNamed DEF NamesInv

LEMMA StutterNames == ASSUME NamesInv, StoreInv', UNCHANGED vars PROVE NamesInv'
  BY DEF vars, NamesInv, DeviceNames, CachesNamed, FoldersUnique, ArtistsUnique, NothingKnown,
     RootsKnown, ArtistsInPlace, ArtistsKnown, NewArtist, LoadingAlbums, ListingsHold, AlbumsListed,
     AlbumsUnread, Asked, OfFormat, FoldersIn, FoldersNamed, HasArtist, HasAlbum

LEMMA NextNames ==
    ASSUME Batch, NamesInv, [Next]_vars
    PROVE  NamesInv'
  <1>0. StoreInv'
    BY NextStore, NamesSound
  <1>1. CASE Construct
    BY <1>0, <1>1, BeginInitNames, CreateRootNames, QueryArtistsNames, LoadArtistNames,
       QueryAlbumsNames, LoadAlbumArtistNames, LoadAlbumNames, LoadPlaylistsNames DEF Construct
  <1>2. CASE CreateArtist
    BY <1>0, <1>2, ArtistFolderNames, ArtistObjectNames DEF CreateArtist
  <1>3. CASE ZuneImport
    BY <1>0, <1>3, NeedArtistNames, AlbumFolderNames, SkipTrackNames, CreateTrackNames,
       AlbumObjectNames, SendObjectNames, ImportEndsNames DEF ZuneImport
  <1>4. CASE ZunePlaylist \/ InitDone
    BY <1>0, <1>4, PlaylistNames
  <1>5. CASE Finish \/ Fail
    BY <1>0, <1>5, EndNames
  <1>6. CASE \E line \in CommandLines : Start(line)
    BY <1>0, <1>6, StartNames
  <1>7. CASE \E id \in ObjectIds : UserDeletes(id) \/ DropIncomplete(id)
    BY <1>0, <1>7, RemoveNames DEF UserDeletes, DropIncomplete
  <1>8. CASE UNCHANGED vars
    BY <1>0, <1>8, StutterNames
  <1> QED
    BY <1>1, <1>2, <1>3, <1>4, <1>5, <1>6, <1>7, <1>8 DEF Next, ProcessStep

LEMMA NamesAreUnique == ASSUME NamesInv PROVE NamesUnique
  <1>1. /\ FoldersUnique /\ ArtistsUnique /\ AlbumsUnique /\ PlaylistsUnique
    BY DEF NamesInv, DeviceNames, StoreInv
  <1> QED
    BY <1>1 DEF NamesUnique, FoldersUnique, ArtistsUnique, AlbumsUnique, PlaylistsUnique, InUse, OfFormat

\* GetOrCreate, the loops of the constructor, which look things up in listings that grow
\* stale, and the caches make no two folders of one name in one place, and no two objects
\* for one artist, album or playlist, whatever failed or was deleted before.
THEOREM NamesAlwaysUnique ==
    ASSUME Batch
    PROVE  Spec => []NamesUnique
  <1>1. NamesInv /\ [Next]_vars => NamesInv'
    BY NextNames
  <1>2. NamesInv => NamesUnique
    BY NamesAreUnique
  <1> QED
    BY <1>1, <1>2, InitNames, PTL DEF Spec
=============================================================================
