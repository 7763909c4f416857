------------------------------- MODULE ZuneCli -------------------------------
(***************************************************************************)
(* One aft-mtp-cli process working on the music library of a Zune: the     *)
(* zune-* commands of cli/Session.cpp on top of mtp/metadata/Library.cpp,  *)
(* run from the command line (cli/cli.cpp, the first failure ends the      *)
(* process) or from the prompt (a failure ends the command only).          *)
(*                                                                         *)
(* The device is a set of objects that changes by one MTP transaction at a *)
(* time; every transaction that writes is an action here, and each may     *)
(* fail before it takes effect, or take effect with its answer lost.       *)
(* Transactions that only read are part of the action that uses what they  *)
(* read: nobody else changes the device while a session is open.           *)
(***************************************************************************)
EXTENDS Naturals, Sequences

CONSTANTS
    Files,               \* local files zune-import is given
    Meta,                \* Meta[f]: tags of f, or NoMeta if they are unreadable
    NoMeta,
    Names,               \* names of artists, albums, tracks and folders
    Playlists,           \* playlist names
    ObjectIds,           \* object handles the device may hand out
    FreshIds(_),         \* FreshIds(S): candidates for a new handle, S in use
    Root,                \* Session::Root, the parent of the top folders
    NoId,                \* ObjectId()
    TrackModulus,        \* the Track property is that wide: 2^16
    ArtistSupported,     \* device capabilities read by the constructor
    PlaylistsSupported,
    AlbumCoverSupported,
    UserDeletable,       \* the formats a user deletes on the device
    Interactive,         \* commands come from the prompt
    CommandLines         \* the command sequences a process may be given

Commands ==
    [op: {"zune-import"}, file: Files]
      \cup [op: {"zune-playlist-clear"}, list: Playlists]
      \cup [op: {"zune-playlist-add-id"}, list: Playlists, id: ObjectIds]
      \cup [op: {"zune-playlist-add"}, list: Playlists, file: Files]
      \cup [op: {"zune-init"}]

RootFolders == {"Artists", "Albums", "Music"}

Tags == [artist: Names \cup {""}, album: Names \cup {""}, title: Names,
         index: Nat, cover: BOOLEAN]

ASSUME NamesAssumption ==
    /\ RootFolders \cup {"UknownArtist", "UknownAlbum"} \subseteq Names
    /\ "" \notin Names
ASSUME MetaAssumption == Meta \in [Files -> Tags \cup {NoMeta}] /\ NoMeta \notin Tags
ASSUME IdAssumption ==
    /\ Root \notin ObjectIds /\ NoId \notin ObjectIds /\ Root # NoId
    /\ \A S \in SUBSET ObjectIds : FreshIds(S) \subseteq ObjectIds \ S
ASSUME ModulusAssumption == TrackModulus \in Nat \ {0}
ASSUME SwitchAssumption ==
    {ArtistSupported, PlaylistsSupported, AlbumCoverSupported, Interactive}
        \subseteq BOOLEAN
ASSUME CommandAssumption == CommandLines \subseteq Seq(Commands)

VARIABLES
    \* the device
    obj,       \* obj[id]: the object with handle id
    refs,      \* refs[a]: references of album object a
    lists,     \* lists[p]: references of playlist object p
    unnamed,   \* history: names of playlists some process could not read the name of
    \* the process
    pc,        \* "off", or what the process does next
    cmds,      \* commands left, the current one first
    status,    \* how the process ended
    out,       \* the import results it printed
    loc,       \* locals of the command being run
    \* Session::_library and its caches
    loaded,    \* _library is set
    roots,     \* _artistsFolder, _albumsFolder, _musicFolder
    artists,   \* _artists, by name; folder = NoId where there is no entry
    albums,    \* _albums, by artist and name; id = NoId where there is none
    plists,    \* _playlists, by name; id = NoId where there is none
    snap,      \* folder listings the constructor works from
    unread     \* objects the constructor's loop has yet to visit

device == <<obj, refs, lists, unnamed>>
process == <<pc, cmds, status, out, loc>>
caches == <<loaded, roots, artists, albums, plists, snap, unread>>
vars == <<obj, refs, lists, unnamed, pc, cmds, status, out, loc,
          loaded, roots, artists, albums, plists, snap, unread>>

MaybeId == ObjectIds \cup {NoId}
Labels == Names \cup Playlists \cup {""}
NotListed == {NoId}
AlbumKeys == Names \X Names
TrackKeys == [title: Labels, index: Nat, id: ObjectIds]

-----------------------------------------------------------------------------
(* The device (external: the Zune's MTP responder)                         *)

Objects == [format: {"None", "Association", "Artist", "Album", "Track", "Playlist"},
            name: Labels, parent: MaybeId \cup {Root},
            artist: Names \cup {""}, index: Nat, complete: BOOLEAN]

Object(format, parent, name) ==
    [format |-> format, name |-> name, parent |-> parent,
     artist |-> "", index |-> 0, complete |-> FALSE]
NoObject == Object("None", NoId, "")
Folder(parent, name) == Object("Association", parent, name)

OfFormat(format) == {id \in ObjectIds : obj[id].format = format}
InUse == {id \in ObjectIds : obj[id].format # "None"}
FoldersIn(parent) == {id \in OfFormat("Association") : obj[id].parent = parent}
FoldersNamed(parent, name) == {id \in FoldersIn(parent) : obj[id].name = name}

\* SendObjectPropList and CreateDirectory: the device picks the handle.
Create(id, o) ==
    /\ id \in FreshIds(InUse)
    /\ obj' = [obj EXCEPT ![id] = o]
    /\ UNCHANGED <<refs, lists, unnamed>>

\* A sequence without x, which it holds at most once.
Without(s, x) ==
    IF \E n \in 1 .. Len(s) : s[n] = x
    THEN LET n == CHOOSE m \in 1 .. Len(s) : s[m] = x
         IN  SubSeq(s, 1, n - 1) \o SubSeq(s, n + 1, Len(s))
    ELSE s

\* The references an album or a playlist has to an object go with the object.
Remove(id) ==
    /\ obj' = [obj EXCEPT ![id] = NoObject]
    /\ refs' = [a \in ObjectIds |-> IF a = id THEN {} ELSE refs[a] \ {id}]
    /\ lists' = [p \in ObjectIds |->
                    IF p = id THEN <<>>
                    ELSE Without(lists[p], id)]
    /\ UNCHANGED unnamed

-----------------------------------------------------------------------------
(* Tags of a file, as the library keys them                                *)

Known(name, default) == IF name = "" THEN default ELSE name
ArtistOf(f) == Known(Meta[f].artist, "UknownArtist")
AlbumOf(f) == Known(Meta[f].album, "UknownAlbum")
KeyOf(f) == <<ArtistOf(f), AlbumOf(f)>>

NoArtist == [id |-> NoId, folder |-> NoId]
CachedAlbum(id, folder) ==
    [id |-> id, folder |-> folder, refs |-> {}, tracks |-> {}, loaded |-> FALSE]
NoAlbum == CachedAlbum(NoId, NoId)
NoPlaylist == [id |-> NoId, tracks |-> <<>>, whole |-> TRUE]
NoLocals == [artist |-> "", folder |-> NoId, song |-> NoId, item |-> NoId]

NoRoots == [n \in RootFolders |-> NoId]
NoArtists == [n \in Names |-> NoArtist]
NoAlbums == [k \in AlbumKeys |-> NoAlbum]
NoPlaylists == [p \in Playlists |-> NoPlaylist]
NothingListed == [p \in ObjectIds |-> NotListed]

DropCaches ==
    /\ loaded' = FALSE /\ roots' = NoRoots /\ artists' = NoArtists /\ albums' = NoAlbums
    /\ plists' = NoPlaylists /\ snap' = NothingListed /\ unread' = {}

HasArtist(n) == artists[n].folder # NoId
HasAlbum(k) == albums[k].id # NoId

\* unordered_map::insert leaves an entry that is already there alone.
WithArtist(n, id, folder) ==
    IF HasArtist(n) THEN artists
    ELSE [artists EXCEPT ![n] = [id |-> id, folder |-> folder]]
WithAlbum(k, id, folder) ==
    IF HasAlbum(k) THEN albums
    ELSE [albums EXCEPT ![k] = CachedAlbum(id, folder)]

\* Mutant: the references are taken for loaded without being read.
RefsOfUnread(k) == albums[k]

\* LoadRefs: the references of the album and the tracks they stand for.
RefsOf(k) ==
    LET al == albums[k]
        ids == refs[al.id]
    IN  IF al.loaded THEN al
        ELSE [id |-> al.id, folder |-> al.folder, loaded |-> TRUE, refs |-> al.refs \cup ids,
              tracks |-> al.tracks \cup {[title |-> obj[t].name, index |-> obj[t].index,
                                          id |-> t] : t \in ids}]

\* Mutant: no track of the album is ever recognised.
MatchingNever(f, tracks) == {}

\* GetTrackId: the cached tracks with the title and the number of the file.
Matching(f, tracks) ==
    {t \in tracks : t.title = Meta[f].title /\ t.index = Meta[f].index}

-----------------------------------------------------------------------------
(* Process control                                                         *)

Command == Head(cmds)
Running(op) == /\ pc = "cmd" /\ loaded /\ cmds # <<>>
               /\ Command.op = op

Goto(l) == /\ pc' = l
           /\ UNCHANGED <<cmds, status, out>>

\* Mutant: a command that is done is run again after the others.
CommandRequeued(results) ==
    /\ pc' = "cmd" /\ loc' = NoLocals
    /\ cmds' = Append(Tail(cmds), Command)
    /\ out' = out \cup results
    /\ UNCHANGED status

CommandDone(results) ==
    /\ pc' = "cmd" /\ cmds' = Tail(cmds) /\ loc' = NoLocals
    /\ out' = out \cup results
    /\ UNCHANGED status

Exit(how) ==
    /\ pc' = "off" /\ status' = how /\ cmds' = <<>> /\ loc' = NoLocals
    /\ UNCHANGED out
    /\ DropCaches

\* An exception unwinds the command, or the caller kills the process.  Prompt
\* sessions survive exceptions and keep a library that was fully constructed.
AbandonWith(pl) ==
    \/ \E how \in {"failed", "killed"} : (Interactive => how = "killed") /\ Exit(how)
    \/ /\ Interactive
       /\ CommandDone({})
       /\ \/ /\ loaded /\ plists' = pl
             /\ UNCHANGED <<loaded, roots, artists, albums, snap, unread>>
          \/ ~loaded /\ DropCaches

Abandon == AbandonWith(plists)

Start(line) ==
    /\ pc = "off"
    /\ pc' = "cmd" /\ cmds' = line /\ status' = "running" /\ out' = {} /\ loc' = NoLocals
    /\ UNCHANGED <<device, caches>>

Finish ==
    /\ pc = "cmd" /\ cmds = <<>>
    /\ Exit("ok")
    /\ UNCHANGED device

\* Any transaction may fail without effect, tags may be unreadable, and the
\* process may be killed at any time.
Fail ==
    /\ pc # "off" /\ cmds # <<>>
    /\ Abandon
    /\ UNCHANGED device

-----------------------------------------------------------------------------
(* Library::Library                                                        *)

\* ZuneInit: the folders found in the root.
FoundRoot(n) == IF FoldersNamed(Root, n) = {} THEN {NoId} ELSE FoldersNamed(Root, n)

BeginInit ==
    /\ pc = "cmd" /\ ~loaded /\ cmds # <<>>
    /\ \E r \in FoundRoot("Artists"), b \in FoundRoot("Albums"), m \in FoundRoot("Music") :
            roots' = [n \in RootFolders |-> CASE n = "Artists" -> r
                                              [] n = "Albums" -> b
                                              [] n = "Music" -> m]
    /\ Goto("roots")
    /\ UNCHANGED <<device, loc, loaded, artists, albums, plists, snap, unread>>

MissingRoots ==
    {n \in RootFolders : roots[n] = NoId /\ (n = "Artists" => ArtistSupported)}

\* Missing folders are created in this order: Artists, Albums, Music.
FirstMissing(n) ==
    /\ n \in MissingRoots
    /\ n = "Albums" => "Artists" \notin MissingRoots
    /\ n = "Music" => MissingRoots = {"Music"}

CreateRoot(n) ==
    /\ pc = "roots" /\ FirstMissing(n)
    /\ \E id \in ObjectIds :
        /\ Create(id, Folder(Root, n))
        /\ \/ /\ roots' = [roots EXCEPT ![n] = id]
              /\ Goto("roots")
              /\ UNCHANGED <<loc, loaded, artists, albums, plists, snap, unread>>
           \/ Abandon

\* Mutant: the artists the device has are not queried.
QueryNoArtists ==
    /\ pc = "roots" /\ MissingRoots = {}
    /\ snap' = [snap EXCEPT ![roots["Music"]] = FoldersIn(roots["Music"])]
    /\ Goto("artists")
    /\ UNCHANGED <<device, loc, loaded, roots, artists, albums, plists, unread>>

QueryArtists ==
    /\ pc = "roots" /\ MissingRoots = {}
    /\ snap' = [snap EXCEPT ![roots["Music"]] = FoldersIn(roots["Music"])]
    /\ unread' = IF ArtistSupported THEN OfFormat("Artist") ELSE {}
    /\ Goto("artists")
    /\ UNCHANGED <<device, loc, loaded, roots, artists, albums, plists>>

Listed(parent, name) ==
    {id \in (IF snap[parent] = NotListed THEN FoldersIn(parent) ELSE snap[parent]) :
        obj[id].name = name}

LoadArtist(id) ==
    LET name == obj[id].name
        music == roots["Music"]
        Insert(folder) ==
            /\ artists' = WithArtist(name, id, folder)
            /\ unread' = unread \ {id}
            /\ Goto("artists")
            /\ UNCHANGED <<loc, loaded, roots, albums, plists, snap>>
    IN  /\ pc = "artists" /\ id \in unread
        /\ \/ /\ UNCHANGED device
              /\ \E folder \in Listed(music, name) : Insert(folder)
           \/ /\ Listed(music, name) = {}
              /\ \E folder \in ObjectIds :
                    Create(folder, Folder(music, name)) /\ (Insert(folder) \/ Abandon)

QueryAlbums ==
    /\ pc = "artists" /\ unread = {}
    /\ unread' = OfFormat("Album")
    /\ Goto("albums")
    /\ UNCHANGED <<device, loc, loaded, roots, artists, albums, plists, snap>>

\* The next album of the list; its artist is created first if it is unknown.
NextAlbum(id) ==
    /\ pc = "albums" /\ id \in unread
    /\ loc.item \in {NoId, id}

LoadAlbumArtist(id) ==
    LET name == Known(obj[id].artist, "UknownArtist") IN
    /\ NextAlbum(id) /\ ~HasArtist(name)
    /\ loc' = [artist |-> name, folder |-> NoId, song |-> NoId, item |-> id]
    /\ Goto("artistFolder")
    /\ UNCHANGED <<device, caches>>

\* The listing of an artist's folder is taken once and not updated.
LoadAlbum(id) ==
    LET name == obj[id].name
        artist == Known(obj[id].artist, "UknownArtist")
        parent == artists[artist].folder
        Insert(folder) ==
            /\ albums' = WithAlbum(<<artist, name>>, id, folder)
            /\ unread' = unread \ {id}
            /\ snap' = IF snap[parent] # NotListed THEN snap
                       ELSE [snap EXCEPT ![parent] = FoldersIn(parent)]
            /\ loc' = NoLocals
            /\ Goto("albums")
            /\ UNCHANGED <<loaded, roots, artists, plists>>
    IN  /\ NextAlbum(id) /\ HasArtist(artist)
        /\ \/ /\ UNCHANGED device
              /\ \E folder \in Listed(parent, name) : Insert(folder)
           \/ /\ Listed(parent, name) = {}
              /\ \E folder \in ObjectIds :
                    Create(folder, Folder(parent, name)) /\ (Insert(folder) \/ Abandon)

\* Mutant: the references are read and not taken over.
CachedPlaylistBare(i, whole) == [id |-> i, tracks |-> <<>>, whole |-> whole]

\* A playlist whose references cannot be read is taken for empty.
CachedPlaylist(i, whole) ==
    [id |-> i, tracks |-> IF whole THEN lists[i] ELSE <<>>, whole |-> whole]

\* A playlist whose name cannot be read is left out.
LoadPlaylists ==
    /\ pc = "albums" /\ unread = {}
    /\ \E named \in SUBSET OfFormat("Playlist") :
        /\ plists' \in [Playlists ->
                {NoPlaylist} \cup {CachedPlaylist(i, whole) : i \in named, whole \in BOOLEAN}]
        /\ \A p \in Playlists :
                LET here == {i \in named : PlaylistsSupported /\ obj[i].name = p}
                IN  IF here = {} THEN plists'[p] = NoPlaylist ELSE plists'[p].id \in here
        /\ unnamed' = unnamed \cup {obj[i].name : i \in OfFormat("Playlist") \ named}
    /\ loaded' = TRUE
    /\ snap' = NothingListed
    /\ Goto("cmd")
    /\ UNCHANGED <<obj, refs, lists, loc, roots, artists, albums, unread>>

-----------------------------------------------------------------------------
(* CreateArtist, from the constructor or from ZuneImport                   *)

CreatedArtist(id, folder) ==
    /\ artists' = WithArtist(loc.artist, id, folder)
    /\ loc' = [NoLocals EXCEPT !.item = loc.item]
    /\ Goto(IF loaded THEN "cmd" ELSE "albums")
    /\ UNCHANGED <<loaded, roots, albums, plists, snap, unread>>

GotArtistFolder(folder) ==
    \/ /\ ArtistSupported
       /\ loc' = [loc EXCEPT !.folder = folder]
       /\ Goto("artistObject")
       /\ UNCHANGED caches
    \/ ~ArtistSupported /\ CreatedArtist(NoId, folder)

\* GetOrCreate(_musicFolder, name)
ArtistFolder ==
    LET found == FoldersNamed(roots["Music"], loc.artist) IN
    /\ pc = "artistFolder"
    /\ \/ /\ UNCHANGED device
          /\ \E folder \in found : GotArtistFolder(folder)
       \/ /\ found = {}
          /\ \E folder \in ObjectIds :
                /\ Create(folder, Folder(roots["Music"], loc.artist))
                /\ GotArtistFolder(folder) \/ Abandon

ArtistObject ==
    /\ pc = "artistObject"
    /\ \E id \in ObjectIds :
        /\ Create(id, Object("Artist", roots["Artists"], loc.artist))
        /\ CreatedArtist(id, loc.folder) \/ Abandon

-----------------------------------------------------------------------------
(* ZuneImport                                                              *)

\* An import whose tags could be read.
Importing(f) == /\ Running("zune-import")
                /\ f = Command.file /\ Meta[f] # NoMeta

NeedArtist(f) ==
    /\ Importing(f) /\ ~HasArtist(ArtistOf(f))
    /\ loc' = [loc EXCEPT !.artist = ArtistOf(f)]
    /\ Goto("artistFolder")
    /\ UNCHANGED <<device, caches>>

GotAlbumFolder(folder) ==
    /\ loc' = [loc EXCEPT !.folder = folder]
    /\ Goto("albumObject")
    /\ UNCHANGED caches

\* CreateAlbum, first half: GetOrCreate(artist->MusicFolderId, name)
AlbumFolder(f) ==
    LET parent == artists[ArtistOf(f)].folder
        found == FoldersNamed(parent, AlbumOf(f))
    IN  /\ Importing(f) /\ HasArtist(ArtistOf(f)) /\ ~HasAlbum(KeyOf(f))
        /\ \/ /\ UNCHANGED device
              /\ \E folder \in found : GotAlbumFolder(folder)
           \/ /\ found = {}
              /\ \E folder \in ObjectIds :
                    /\ Create(folder, Folder(parent, AlbumOf(f)))
                    /\ GotAlbumFolder(folder) \/ Abandon

\* CreateAlbum, second half.
AlbumObject ==
    LET f == Command.file IN
    /\ pc = "albumObject"
    /\ \E id \in ObjectIds :
        /\ Create(id, [Object("Album", roots["Albums"], AlbumOf(f))
                            EXCEPT !.artist = ArtistOf(f)])
        /\ \/ /\ albums' = WithAlbum(KeyOf(f), id, loc.folder)
              /\ loc' = NoLocals
              /\ Goto("cmd")
              /\ UNCHANGED <<loaded, roots, artists, plists, snap, unread>>
           \/ Abandon

SkipTrack(f) ==
    LET al == RefsOf(KeyOf(f)) IN
    /\ Importing(f) /\ HasArtist(ArtistOf(f)) /\ HasAlbum(KeyOf(f))
    /\ \E t \in Matching(f, al.tracks) :
            CommandDone({[file |-> f, result |-> "skipped", id |-> t.id]})
    /\ albums' = [albums EXCEPT ![KeyOf(f)] = al]
    /\ UNCHANGED <<device, loaded, roots, artists, plists, snap, unread>>

\* What CreateTrack announces; the number is cut to 16 bits.
TrackObject(f) ==
    [Object("Track", albums[KeyOf(f)].folder, Meta[f].title)
        EXCEPT !.index = Meta[f].index % TrackModulus]

CreateTrack(f) ==
    LET al == RefsOf(KeyOf(f)) IN
    /\ Importing(f) /\ HasArtist(ArtistOf(f)) /\ HasAlbum(KeyOf(f))
    /\ Matching(f, al.tracks) = {}
    /\ \E id \in ObjectIds :
        /\ Create(id, TrackObject(f))
        /\ \/ /\ loc' = [loc EXCEPT !.song = id]
              /\ albums' = [albums EXCEPT ![KeyOf(f)] = al]
              /\ Goto("data")
              /\ UNCHANGED <<loaded, roots, artists, plists, snap, unread>>
           \/ Abandon

\* Mutant: a file that could not be sent is referenced all the same.
SendObjectUnchecked ==
    /\ pc = "data"
    /\ Goto("refs")
    /\ UNCHANGED <<device, loc, caches>>

\* Session::SendObject: the file's contents arrive.
SendObject ==
    LET f == Command.file IN
    /\ pc = "data"
    /\ obj' = [obj EXCEPT ![loc.song] = [@ EXCEPT !.complete = TRUE]]
    /\ UNCHANGED <<refs, lists, unnamed>>
    /\ \/ /\ Goto(IF Meta[f].cover /\ AlbumCoverSupported THEN "cover" ELSE "refs")
          /\ UNCHANGED <<loc, caches>>
       \/ Abandon

\* AddCover writes a property of the album that the model does not keep.
AddCover ==
    /\ pc = "cover"
    /\ Goto("refs")
    /\ UNCHANGED <<device, loc, caches>>

\* Mutant: the cache does not learn of the new reference.
WithTrackForgotten(al, t) ==
    [id |-> al.id, folder |-> al.folder, loaded |-> TRUE,
     refs |-> al.refs, tracks |-> al.tracks \cup {t}]

\* The cached album once its new track is referenced.
WithTrack(al, t) ==
    [id |-> al.id, folder |-> al.folder, loaded |-> TRUE,
     refs |-> al.refs \cup {t.id}, tracks |-> al.tracks \cup {t}]

\* SetObjectReferences replaces the references by the cached ones and the new.
AddTrack ==
    LET f == Command.file
        al == RefsOf(KeyOf(f))
        newRefs == al.refs \cup {loc.song}
        newTrack == [title |-> Meta[f].title, index |-> Meta[f].index, id |-> loc.song]
    IN  /\ pc = "refs"
        /\ refs' = [refs EXCEPT ![al.id] = newRefs]
        /\ UNCHANGED <<obj, lists, unnamed>>
        /\ \/ /\ albums' = [albums EXCEPT ![KeyOf(f)] = WithTrack(al, newTrack)]
              /\ CommandDone({[file |-> f, result |-> "imported", id |-> loc.song]})
              /\ UNCHANGED <<loaded, roots, artists, plists, snap, unread>>
           \/ Abandon

-----------------------------------------------------------------------------
(* Playlist commands                                                       *)

\* The track a playlist command is about, where there is one: zune-playlist-add
\* looks the tags of its file up among the cached albums.
TrackIds ==
    IF Command.op = "zune-playlist-add-id" THEN {Command.id}
    ELSE LET f == Command.file
         IN  IF HasArtist(ArtistOf(f)) /\ HasAlbum(KeyOf(f))
             THEN {t.id : t \in Matching(f, RefsOf(KeyOf(f)).tracks)}
             ELSE {}

AddingToPlaylist ==
    \/ Running("zune-playlist-add-id")
    \/ Running("zune-playlist-add") /\ Meta[Command.file] # NoMeta

NotOnDevice ==
    /\ AddingToPlaylist /\ TrackIds = {}
    /\ CommandDone({})
    /\ UNCHANGED <<device, caches>>

\* Each playlist command begins with CreatePlaylist, which returns the cached
\* playlist when there is one and fails if the device has no playlists.
CreatePlaylist ==
    /\ \/ Running("zune-playlist-clear")
       \/ AddingToPlaylist /\ TrackIds # {}
    /\ PlaylistsSupported /\ plists[Command.list].id = NoId
    /\ \E id \in ObjectIds :
        /\ Create(id, Object("Playlist", Root, Command.list))
        /\ \/ /\ plists' = [plists EXCEPT ![Command.list] = [@ EXCEPT !.id = id]]
              /\ Goto("cmd")
              /\ UNCHANGED <<loc, loaded, roots, artists, albums, snap, unread>>
           \/ Abandon

\* WritePlaylistRefs, after the cache has been changed: the cache keeps the
\* change when the transaction fails.
WritePlaylistRefs(tracks) ==
    LET p == Command.list
        new == [plists EXCEPT ![p] = [@ EXCEPT !.tracks = tracks]]
        Write == lists' = [lists EXCEPT ![plists[p].id] = tracks]
    IN  /\ UNCHANGED <<obj, refs, unnamed>>
        /\ \/ /\ Write
              /\ CommandDone({})
              /\ plists' = [new EXCEPT ![p] = [@ EXCEPT !.whole = TRUE]]
              /\ UNCHANGED <<loaded, roots, artists, albums, snap, unread>>
           \/ Write /\ AbandonWith(new)
           \/ UNCHANGED lists /\ AbandonWith(new)

ClearPlaylist ==
    /\ Running("zune-playlist-clear") /\ plists[Command.list].id # NoId
    /\ WritePlaylistRefs(<<>>)

Contains(seq, t) == \E n \in 1 .. Len(seq) : seq[n] = t

AddToPlaylist ==
    LET tracks == plists[Command.list].tracks IN
    /\ AddingToPlaylist /\ plists[Command.list].id # NoId
    /\ \E t \in TrackIds :
        \/ /\ Contains(tracks, t)
           /\ CommandDone({})
           /\ UNCHANGED <<device, caches>>
        \/ /\ ~Contains(tracks, t)
           /\ WritePlaylistRefs(Append(tracks, t))

\* zune-init has nothing more to do once the library is there.
InitDone ==
    /\ Running("zune-init")
    /\ CommandDone({})
    /\ UNCHANGED <<device, caches>>

-----------------------------------------------------------------------------
(* The device between two sessions (external)                              *)

\* The user deletes a track, or something empty, on the device.
Deletable(id) ==
    /\ id \in InUse /\ obj[id].format \in UserDeletable
    /\ refs[id] = {}
    /\ \A i \in InUse : obj[i].parent # id
    /\ obj[id].format = "Artist" =>
            \A a \in OfFormat("Album") : obj[a].artist # obj[id].name

UserDeletes(id) == pc = "off" /\ Deletable(id) /\ Remove(id)
                   /\ UNCHANGED <<process, caches>>

\* A device may give up on a track whose contents never arrived.
DropIncomplete(id) ==
    /\ pc = "off"
    /\ id \in OfFormat("Track") /\ ~obj[id].complete
    /\ Remove(id)
    /\ UNCHANGED <<process, caches>>

-----------------------------------------------------------------------------
Init ==
    /\ obj = [id \in ObjectIds |-> NoObject]
    /\ refs = [id \in ObjectIds |-> {}]
    /\ lists = [id \in ObjectIds |-> <<>>]
    /\ unnamed = {}
    /\ pc = "off" /\ cmds = <<>> /\ status = "ok" /\ out = {} /\ loc = NoLocals
    /\ loaded = FALSE /\ roots = NoRoots /\ artists = NoArtists /\ albums = NoAlbums
    /\ plists = NoPlaylists /\ snap = NothingListed /\ unread = {}

Construct ==
    \/ BeginInit
    \/ \E n \in RootFolders : CreateRoot(n)
    \/ QueryArtists
    \/ \E id \in ObjectIds : LoadArtist(id)
    \/ QueryAlbums
    \/ \E id \in ObjectIds : LoadAlbumArtist(id) \/ LoadAlbum(id)
    \/ LoadPlaylists

CreateArtist == ArtistFolder \/ ArtistObject

ZuneImport ==
    \/ \E f \in Files : NeedArtist(f) \/ AlbumFolder(f) \/ SkipTrack(f) \/ CreateTrack(f)
    \/ AlbumObject \/ SendObject \/ AddCover \/ AddTrack

ZunePlaylist == CreatePlaylist \/ ClearPlaylist \/ AddToPlaylist \/ NotOnDevice

ProcessStep ==
    Construct \/ CreateArtist \/ ZuneImport \/ ZunePlaylist \/ InitDone \/ Finish \/ Fail

Next ==
    \/ ProcessStep
    \/ \E line \in CommandLines : Start(line)
    \/ \E id \in ObjectIds : UserDeletes(id) \/ DropIncomplete(id)

Spec == Init /\ [][Next]_vars

\* Every transaction is answered or times out, so a process never just stops.
FairSpec == Spec /\ WF_vars(ProcessStep)

-----------------------------------------------------------------------------
(* Correctness                                                             *)

PCs == {"off", "cmd", "roots", "artists", "albums", "artistFolder", "artistObject",
        "albumObject", "data", "cover", "refs"}
Results == [file: Files, result: {"imported", "skipped"}, id: ObjectIds]
Locals == [artist: Names \cup {""}, folder: MaybeId, song: MaybeId, item: MaybeId]

DeviceTypeOK ==
    /\ obj \in [ObjectIds -> Objects]
    /\ refs \in [ObjectIds -> SUBSET ObjectIds]
    /\ lists \in [ObjectIds -> Seq(ObjectIds)]
    /\ unnamed \subseteq Labels

ProcessTypeOK ==
    /\ pc \in PCs /\ cmds \in Seq(Commands)
    /\ status \in {"running", "ok", "failed", "killed"}
    /\ out \subseteq Results
    /\ loc \in Locals

ArtistEntries == [id: MaybeId, folder: MaybeId]
AlbumEntries == [id: MaybeId, folder: MaybeId, refs: SUBSET ObjectIds,
                 tracks: SUBSET TrackKeys, loaded: BOOLEAN]
PlaylistEntries == [id: MaybeId, tracks: Seq(ObjectIds), whole: BOOLEAN]

CacheTypeOK ==
    /\ loaded \in BOOLEAN
    /\ roots \in [RootFolders -> MaybeId]
    /\ artists \in [Names -> ArtistEntries]
    /\ albums \in [AlbumKeys -> AlbumEntries]
    /\ plists \in [Playlists -> PlaylistEntries]
    /\ snap \in [ObjectIds -> SUBSET MaybeId]
    /\ unread \subseteq ObjectIds

\* Every variable has the type its declaration comment gives it.
TypeOK == DeviceTypeOK /\ ProcessTypeOK /\ CacheTypeOK

\* What an album references was sent completely: whatever step of zune-import
\* fails or loses its answer, and however the import is repeated, no album ever
\* shows a track that is missing, still empty, or not a track.
RefsComplete ==
    \A a \in ObjectIds : \A t \in refs[a] :
        obj[a].format = "Album" /\ obj[t].format = "Track" /\ obj[t].complete

CompleteTrack(t) == obj[t].format = "Track" /\ obj[t].complete

\* Cached albums are albums, and what they are believed to reference is complete.
CachesComplete ==
    \A k \in AlbumKeys :
        /\ albums[k].id # NoId => obj[albums[k].id].format = "Album"
        /\ \A t \in albums[k].refs : CompleteTrack(t)

\* No caches without a process.
NoProcessNoCaches == pc = "off" => albums = NoAlbums

\* The constructor's second loop visits album objects.
UnreadAreAlbums ==
    pc = "albums" \/ (pc \in {"artistFolder", "artistObject"} /\ ~loaded)
        => unread \subseteq OfFormat("Album")

\* Between CreateTrack and AddTrack the new object is there, and its contents
\* are once SendObject has been answered.
SongSent ==
    pc \in {"data", "cover", "refs"} =>
        /\ loc.song \in ObjectIds /\ obj[loc.song].format = "Track"
        /\ pc # "data" => obj[loc.song].complete

\* Those steps belong to an import whose tags were read and whose album exists.
ImportUnderWay ==
    pc \in {"albumObject", "data", "cover", "refs"} =>
        /\ loaded /\ cmds # <<>> /\ Command.op = "zune-import"
        /\ Meta[Command.file] # NoMeta
        /\ pc # "albumObject" => HasAlbum(KeyOf(Command.file))

\* The constructor runs for a command; it has found the Music folder before it
\* looks artists' folders up in it.
ConstructorUnderWay ==
    /\ pc \notin {"off", "cmd"} => cmds # <<>>
    /\ pc = "artists" => roots["Music"] # NoId

\* RefsComplete with what makes it inductive: what is about to be referenced is
\* complete as well, in the caches and in the locals of the import.
RefsInv ==
    /\ TypeOK /\ RefsComplete /\ CachesComplete /\ NoProcessNoCaches
    /\ UnreadAreAlbums /\ SongSent /\ ImportUnderWay /\ ConstructorUnderWay

\* Whatever artist is unknown has a name.
AlbumsHaveArtists == \A a \in OfFormat("Album") : obj[a].artist # ""

\* A cached album is the one of that artist and name; what it is believed to show
\* it shows, and cached tracks are among that, under their titles.
CachedIsListed ==
    \A k \in AlbumKeys : HasAlbum(k) =>
        /\ obj[albums[k].id].artist = k[1] /\ obj[albums[k].id].name = k[2]
        /\ albums[k].refs \subseteq refs[albums[k].id]
        /\ \A t \in albums[k].tracks : t.id \in albums[k].refs /\ obj[t.id].name = t.title

\* What is written back leaves nothing out.  At the prompt this is not so: when the
\* answer to SetObjectReferences is lost, the device knows a track the cache does not.
LoadedIsWhole ==
    ~Interactive => \A k \in AlbumKeys :
        HasAlbum(k) /\ albums[k].loaded => refs[albums[k].id] \subseteq albums[k].refs

\* The new track has the title of its file.
SongNamed == pc \in {"data", "cover", "refs"} => obj[loc.song].name = Meta[Command.file].title

\* What was printed is in the cache, from where no later import can drop it.
PrintedIsCached ==
    pc # "off" => \A r \in out :
        /\ loaded /\ Meta[r.file] # NoMeta /\ HasAlbum(KeyOf(r.file))
        /\ r.id \in albums[KeyOf(r.file)].refs /\ obj[r.id].name = Meta[r.file].title

\* PrintedIsOnDevice and ProcessOnlyAdds with what makes them inductive: caches and
\* device agree as far as the next SetObjectReferences needs it.
CachesInv ==
    /\ RefsInv /\ AlbumsHaveArtists /\ CachedIsListed /\ LoadedIsWhole /\ SongNamed
    /\ PrintedIsCached

\* GetOrCreate, the constructor and the caches never make two of a kind: two
\* folders of one name in one place, two objects for one artist, album or
\* playlist, across failures, restarts and deletions on the device.  A playlist
\* may get a double once LoadPlaylists could not read its name, and only then.
NamesUnique ==
    \A i, j \in InUse :
        /\ obj[i].format = obj[j].format /\ obj[i].name = obj[j].name
        /\ \/ obj[i].format = "Association" /\ obj[i].parent = obj[j].parent
           \/ obj[i].format = "Album" /\ obj[i].artist = obj[j].artist
           \/ obj[i].format = "Artist"
           \/ obj[i].format = "Playlist" /\ obj[i].name \notin unnamed
        => i = j

\* No matter what failed before, a file is on the device at most once: the claim
\* of tools/jellyfin-sync/jellyfin_sync/state.py that nothing is duplicated.
NoDuplicateTracks ==
    \A i, j \in OfFormat("Track") :
        /\ obj[i].name = obj[j].name /\ obj[i].index = obj[j].index
        /\ obj[i].parent = obj[j].parent
        => i = j

\* A line zune-import printed tells the truth for the rest of the process: the
\* id is a complete track with the title of that file, shown by its album.
PrintedIsOnDevice ==
    pc # "off" => \A r \in out :
        /\ obj[r.id].format = "Track" /\ obj[r.id].complete
        /\ obj[r.id].name = Meta[r.file].title
        /\ \E a \in OfFormat("Album") :
            /\ obj[a].artist = ArtistOf(r.file) /\ obj[a].name = AlbumOf(r.file)
            /\ r.id \in refs[a]

\* A running process only adds: no object disappears and no album loses a track,
\* although SetObjectReferences replaces the whole list from the cache.
ProcessOnlyAdds ==
    [][pc # "off" => /\ InUse \subseteq InUse'
                     /\ \A a \in ObjectIds : refs[a] \subseteq refs'[a]]_vars

IsPrefix(s, t) == Len(s) <= Len(t) /\ \A n \in 1 .. Len(s) : s[n] = t[n]

\* zune-playlist-add and -add-id add: whatever any playlist held stays there, with
\* one exception, a failure LoadPlaylists swallows.  The playlist added to loses what
\* it held if this process could not read its references when it started.
AddKeepsEntries ==
    [][AddingToPlaylist =>
        \A i \in ObjectIds :
            \/ IsPrefix(lists[i], lists'[i])
            \/ i = plists[Command.list].id /\ ~plists[Command.list].whole]_vars

\* A process comes to an end.
Terminates == (pc # "off") ~> (pc = "off")

-----------------------------------------------------------------------------
(* What the device shows, and the promise about it                         *)

Shown ==
    UNION {{[key |-> <<obj[a].artist, obj[a].name, obj[t].name, obj[t].index>>,
             id |-> t] : t \in refs[a]} : a \in OfFormat("Album")}

\* Of a playlist that may have a double nothing is promised.
ListShown ==
    [p \in Playlists |->
        LET here == {i \in OfFormat("Playlist") : obj[i].name = p}
        IN  IF here = {} \/ p \in unnamed THEN <<>> ELSE lists[CHOOSE i \in here : TRUE]]

Misread == {p \in Playlists : p \in unnamed \/ ~plists[p].whole}

\* What the library shows an imported file as.
ShownKey(f) ==
    <<ArtistOf(f), AlbumOf(f), Meta[f].title, Meta[f].index % TrackModulus>>

Store == INSTANCE ZuneStore
            WITH Keys <- {ShownKey(f) : f \in {g \in Files : Meta[g] # NoMeta}},
                 library <- Shown, playlist <- ListShown, misread <- Misread

\* The commands implement the abstract store: an import shows its track in one
\* step, never a second time, and a playlist changes by one entry at a time, unless
\* LoadPlaylists could not read its name, ever, or its references, in this process.
ImplementsStore == Store!StoreSpec
=============================================================================
