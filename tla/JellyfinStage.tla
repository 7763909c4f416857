----------------------------- MODULE JellyfinStage -----------------------------
(***************************************************************************)
(* The first half of a jellyfin-sync run: Syncer.collect walks the         *)
(* selected lists of the Jellyfin server page by page (jellyfin.py), and   *)
(* Syncer.prepare makes of each track a tagged file the Zune can play      *)
(* (sync.py, formats.py, metadata.py).  What happens to the files then is  *)
(* the matter of JellyfinSync.                                             *)
(*                                                                         *)
(* The server's lists may change between two requests, requests fail,      *)
(* downloads break off and the process may be killed.  MusicBrainz answers *)
(* in an order of its own, and not always.                                 *)
(***************************************************************************)
EXTENDS Naturals, FiniteSets, SequencesExt, TLC

CONSTANTS
    Tracks, Lists,      \* Jellyfin ids: audio items; playlists, albums, artists
    Label(_),           \* the name of a list, letter case folded
    Info,               \* Info[t]: what Jellyfin and the file say of track t
    Hits, Fingerprint,  \* MusicBrainz' search hits and AcoustID's best match for t
    Recording, Release, \* the MusicBrainz entries, by id
    PageSize,           \* PAGE_SIZE
    SearchLimit,        \* search_recordings(limit=5)
    None,
    Scenes,             \* the configurations and the libraries to begin with
    MaxChanges,         \* bound: changes of the library
    MaxFaults           \* bound: failed requests, broken downloads, kills

TagFields == {"title", "artist", "albumartist", "album", "number", "year", "genre"}
FileFields == TagFields \cup {"cover"}
TagSets == [TagFields -> STRING]
Codecs == {"mp3", "mp3float", "aac", "wmav2", "wmapro", "flac"}
Containers == {"mp3", "m4a", "aac", "wma", "flac", "mkv"}

\* The lists the queries of jellyfin.py walk, besides the tracks of one list.
Queries == {"Playlists", "Favorites", "FavoriteAlbums", "FavoriteArtists", "Artists", "Albums"}

\* The other items a playlist may hold: videos, say.
NotAudio == "video"

ASSUME BoundAssumption == PageSize \in Nat \ {0} /\ SearchLimit \in Nat \ {0}
                            /\ MaxChanges \in Nat /\ MaxFaults \in Nat
ASSUME TrackAssumption ==
    \A t \in Tracks :
        /\ Info[t].item \in TagSets /\ Info[t].own \in [FileFields -> STRING]
        /\ Info[t].codec \in Codecs /\ Info[t].container \in Containers
        /\ \A h \in Hits[t] \cup {Fingerprint[t]} : h.score \in 0 .. 100

\* config.load refuses a configuration that selects nothing.
Accepted(c) == c.playlists # <<>> \/ c.favorites \/ c.artists # <<>> \/ c.albums # <<>>
ASSUME SceneAssumption == \A s \in Scenes : Accepted(s) /\ s.passthrough \subseteq {"mp3", "aac", "wma"}

VARIABLES
    scene,     \* the configuration
    library,   \* library[q]: the entries of query or list q, in the server's order
    phase,     \* "off", "user", "collect" or "prepare"
    mode,      \* "sync", "force" (--force) or "prepare" (--prepare-only)
    agenda,    \* queries to come, the one being walked first
    walked,    \* entries of that one received so far
    start,     \* StartIndex of its next page
    merged,    \* tracks collected, with the playlists they came by
    todo,      \* tracks to prepare
    download,  \* download[t]: the file in download_dir: None, "whole" or "cut"
    staged,    \* staged[p]: the file in staged_dir
    prepared,  \* by_path: prepared[p], the track and the tags it was given
    synced,    \* tracks the state file records
    began,     \* what was selected when the collection began, see Selected
    ever,      \* and at any time since
    disturbed, \* entries were removed or a list was refused since then
    given,     \* given[t]: tags found for t when all lookups were answered
    changes, faults

serverVars == <<scene, library>>
walkVars == <<agenda, walked, start, merged>>
historyVars == <<began, ever, disturbed>>
vars == <<scene, library, phase, mode, agenda, walked, start, merged, todo, download, staged,
          prepared, synced, began, ever, disturbed, given, changes, faults>>

Fault == faults < MaxFaults /\ faults' = faults + 1
Min2(a, b) == IF a < b THEN a ELSE b

-----------------------------------------------------------------------------
(* Selecting: the queries of Syncer.collect                                *)

Query(kind, list, name, label, caught) ==
    [kind |-> kind, list |-> list, name |-> name, label |-> label, caught |-> caught]

\* The tracks of a list; a playlist leaves its name on them.
TracksOf(list, label, caught) == Query("tracks", list, None, label, caught)

\* favorite_tracks: starred tracks, and those of starred albums and artists.
FavoriteQueries ==
    <<TracksOf("Favorites", {}, FALSE),
      Query("expand", "FavoriteAlbums", None, {}, FALSE),
      Query("expand", "FavoriteArtists", None, {}, FALSE)>>

Agenda(c) ==
    LET Each(names, kind, list) ==
            [n \in 1 .. Len(names) |-> Query(kind, list, names[n], {}, TRUE)]
    IN  Each(c.playlists, "playlist", "Playlists")
          \o (IF c.favorites THEN FavoriteQueries ELSE <<>>)
          \o Each(c.artists, "search", "Artists")
          \o Each(c.albums, "search", "Albums")

\* next(... lower() == name.lower()): the first of that name; searches settle for
\* their first hit.
Match(q, found) ==
    LET named == SelectSeq(found, LAMBDA l : Label(l) = q.name)
    IN  IF named # <<>> THEN Head(named)
        ELSE IF q.kind = "search" /\ found # <<>> THEN Head(found) ELSE None

\* What remains to be asked once all pages of query q are there.
Expanded(q, found) ==
    CASE q.kind = "tracks" -> <<>>
      [] q.kind = "expand" -> [n \in 1 .. Len(found) |-> TracksOf(found[n], {}, FALSE)]
      [] OTHER ->
            LET l == Match(q, found)
            IN  IF l = None THEN <<>>
                ELSE <<TracksOf(l, IF q.kind = "playlist" THEN {Label(l)} ELSE {}, TRUE)>>

\* absorb: merged by Jellyfin id, the playlists united.
Absorb(m, t, label) ==
    LET at == {n \in DOMAIN m : m[n].id = t}
    IN  IF at = {} THEN Append(m, [id |-> t, lists |-> label])
        ELSE [n \in DOMAIN m |-> IF n \in at THEN [m[n] EXCEPT !.lists = @ \cup label] ELSE m[n]]

Absorbed(q, found) ==
    IF q.kind # "tracks" THEN merged
    ELSE FoldLeft(LAMBDA m, t : IF t \in Tracks THEN Absorb(m, t, q.label) ELSE m, merged, found)

\* What a configuration selects in a library: for each track the playlists it
\* is wanted for, and "other" for the remaining ways.
Selected(c, lib) ==
    LET First(name, q) ==
            LET named == SelectSeq(lib[q], LAMBDA l : Label(l) = name)
            IN  IF named # <<>> THEN {Head(named)}
                ELSE IF q = "Playlists" \/ lib[q] = <<>> THEN {} ELSE {Head(lib[q])}
        lists == UNION {First(n, "Playlists") : n \in Range(c.playlists)}
        others == UNION {First(n, "Artists") : n \in Range(c.artists)}
                    \cup UNION {First(n, "Albums") : n \in Range(c.albums)}
                    \cup (IF c.favorites THEN Range(lib["FavoriteAlbums"])
                              \cup Range(lib["FavoriteArtists"]) \cup {"Favorites"} ELSE {})
    IN  [t \in Tracks |-> {Label(l) : l \in {l \in lists : t \in Range(lib[l])}}
                            \cup {o \in {"other"} : \E l \in others : t \in Range(lib[l])}]

-----------------------------------------------------------------------------
(* A run up to the files: Syncer.run                                       *)

WalkOver == agenda' = <<>> /\ walked' = <<>> /\ start' = 0 /\ merged' = <<>>

End ==
    /\ phase' = "off" /\ mode' = "sync" /\ todo' = <<>>
    /\ prepared' = [p \in DOMAIN prepared |-> None]
    /\ WalkOver
    /\ began' = [t \in Tracks |-> {}] /\ ever' = began' /\ disturbed' = FALSE

Begin ==
    /\ phase = "off"
    /\ phase' = "user"
    /\ mode' \in {"sync", "force", "prepare"}
    /\ began' = Selected(scene, library) /\ ever' = began' /\ disturbed' = FALSE
    /\ UNCHANGED <<serverVars, walkVars, todo, download, staged, prepared, synced, given,
                   changes, faults>>

\* resolve_user: the user of that name, or the only one there is.
ResolveUser ==
    /\ phase = "user"
    /\ IF (scene.user = "" /\ Len(scene.users) = 1) \/ Contains(scene.users, scene.user)
       THEN /\ phase' = "collect"
            /\ agenda' = Agenda(scene) /\ walked' = <<>> /\ start' = 0 /\ merged' = <<>>
            /\ UNCHANGED <<mode, todo, prepared, historyVars>>
       ELSE End
    /\ UNCHANGED <<serverVars, download, staged, synced, given, changes, faults>>

-----------------------------------------------------------------------------
(* _paged_items                                                            *)

\* Mutant: only the server's count ends the walk.
OverByCount(items, next, all) == scene.counts /\ next >= Len(all)

\* Mutant: off by one.
OverEarly(items, next, all) == items = <<>> \/ next + 1 >= Len(all)

\* An empty page ends it, or the TotalRecordCount where the server gives one.
Over(items, next, all) == items = <<>> \/ (scene.counts /\ next >= Len(all))

\* One request: the server answers with the list as it is now.  The search for
\* artists is not paged.
Page ==
    LET q == Head(agenda)
        all == library[q.list]
        size == IF q.list = "Artists" THEN Len(all) ELSE PageSize
        items == SubSeq(all, start + 1, Min2(start + size, Len(all)))
        next == start + Len(items)
        found == walked \o items
    IN  /\ phase = "collect" /\ agenda # <<>>
        /\ IF q.list = "Artists" \/ Over(items, next, all)
           THEN /\ merged' = Absorbed(q, found)
                /\ agenda' = Expanded(q, found) \o Tail(agenda)
                /\ walked' = <<>> /\ start' = 0
           ELSE /\ walked' = found /\ start' = next
                /\ UNCHANGED <<agenda, merged>>
        /\ UNCHANGED <<serverVars, phase, mode, todo, download, staged, prepared, synced,
                       historyVars, given, changes, faults>>

\* JellyfinError (a refused key) costs the playlist, artist or album being
\* asked for; every other error, and any during the favourites, the run.
PageFails ==
    /\ phase = "collect" /\ agenda # <<>> /\ Fault
    /\ \/ /\ Head(agenda).caught
          /\ agenda' = Tail(agenda) /\ walked' = <<>> /\ start' = 0
          /\ disturbed' = TRUE
          /\ UNCHANGED <<phase, mode, merged, todo, prepared, began, ever>>
       \/ End
    /\ UNCHANGED <<serverVars, download, staged, synced, given, changes>>

\* What is pending of what was collected.
Collected ==
    LET ids == [n \in 1 .. Len(merged) |-> merged[n].id]
        pending == SelectSeq(ids, LAMBDA t : mode # "sync" \/ t \notin synced)
    IN  /\ phase = "collect" /\ agenda = <<>>
        /\ IF pending = <<>>
           THEN End
           ELSE /\ phase' = "prepare" /\ todo' = pending
                /\ WalkOver
                /\ began' = [t \in Tracks |-> {}] /\ ever' = began' /\ disturbed' = FALSE
                /\ UNCHANGED <<mode, prepared>>
        /\ UNCHANGED <<serverVars, download, staged, synced, given, changes, faults>>

\* External: somebody edits the library.
LibraryGrows ==
    \E q \in DOMAIN scene.arrivals : \E e \in scene.arrivals[q], n \in 1 .. Len(library[q]) + 1 :
        /\ e \notin Range(library[q])
        /\ library' = [library EXCEPT ![q] = InsertAt(@, n, e)]
        /\ UNCHANGED disturbed

LibraryShrinks ==
    \E q \in DOMAIN scene.arrivals : \E n \in DOMAIN library[q] :
        /\ library' = [library EXCEPT ![q] = RemoveAt(@, n)]
        /\ disturbed' = (phase # "off" \/ disturbed)

LibraryChanges ==
    /\ phase = "collect" /\ changes < MaxChanges /\ changes' = changes + 1
    /\ LibraryGrows \/ LibraryShrinks
    /\ ever' = [t \in Tracks |-> ever[t] \cup Selected(scene, library')[t]]
    /\ UNCHANGED <<scene, phase, mode, walkVars, todo, download, staged, prepared, synced,
                   began, given, faults>>

-----------------------------------------------------------------------------
(* MusicBrainzResolver: each operator gives the answers there may be; whole *)
(* says that no lookup failed on the way                                   *)

Some(a, b) == IF a # "" THEN a ELSE b

\* TagSet.from_track
Fallback(t) ==
    LET i == Info[t].item
        artist == Some(i.artist, i.albumartist)
    IN  [i EXCEPT !.artist = artist, !.albumartist = Some(@, artist)]

\* The search returns its best hits, ties cut off anywhere.
Answers(hits) ==
    {S \in SUBSET hits :
        /\ Cardinality(S) = Min2(SearchLimit, Cardinality(hits))
        /\ \A h \in hits \ S, g \in S : h.score <= g.score}

\* min by (-score, id) of the candidates of 90 or more.
Best(answer) ==
    LET good == {h \in answer : h.score >= 90}
    IN  IF good = {} THEN {None}
        ELSE {h.id : h \in {h \in good : \A g \in good :
                                g.score < h.score \/ (g.score = h.score /\ h.id <= g.id)}}

\* _recording_id: Jellyfin's own id, the fingerprint, the text search, which
\* needs an artist.
RecordingIds(t) ==
    LET searched ==
            IF Fallback(t).artist = "" THEN {[id |-> None, whole |-> TRUE]}
            ELSE [id: UNION {Best(S) : S \in Answers(Hits[t])}, whole: {TRUE}]
                    \cup {[id |-> None, whole |-> FALSE]}
    IN  IF Info[t].mbTrack # None THEN {[id |-> Info[t].mbTrack, whole |-> TRUE]}
        ELSE IF scene.acoustid /\ Fingerprint[t].score >= 85
        THEN {[id |-> Fingerprint[t].id, whole |-> TRUE]}
                \cup {[r EXCEPT !.whole = FALSE] : r \in searched}
        ELSE searched

\* Mutant: the earliest release, but as the list has it.
PickFirst(releases, t) == Head(releases)

\* _pick_release: by id, by title, or the earliest, undated ones last.
PickRelease(releases, t) ==
    LET byId == SelectSeq(releases, LAMBDA l : l = Info[t].mbAlbum)
        byTitle == SelectSeq(releases, LAMBDA l : Release[l].title = Info[t].item.album)
        Date(l) == IF Release[l].date = 0 THEN 9999 ELSE Release[l].date
    IN  IF byId # <<>> THEN Head(byId)
        ELSE IF Info[t].item.album # "" /\ byTitle # <<>> THEN Head(byTitle)
        ELSE CHOOSE l \in Range(releases) : \A k \in Range(releases) :
                Date(l) < Date(k) \/ (Date(l) = Date(k) /\ l <= k)

Year(date, otherwise) == IF date = 0 THEN otherwise ELSE ToString(date)

\* _apply_release: what the list said of release l, and then its full entry,
\* which may not be had.
WithRelease(tags, l) ==
    [tags EXCEPT !.album = Some(Release[l].title, @), !.year = Year(Release[l].date, @)]

WithFullRelease(tags, l, r) ==
    [WithRelease(tags, l) EXCEPT
        !.year = Year(Release[l].first, @),
        !.albumartist = Some(Release[l].credit, @),
        !.number = IF r \in DOMAIN Release[l].position THEN Release[l].position[r] ELSE @]

\* _top_tag: one of the tags counted most often.
TopTags(r) ==
    {g.name : g \in {g \in Recording[r].tags : \A h \in Recording[r].tags : h.count <= g.count}}
      \cup {n \in {""} : Recording[r].tags = {}}

\* The tags resolve() makes of recording r.
FromRecording(t, r) ==
    LET base(genre) ==
            [Fallback(t) EXCEPT !.title = Some(Recording[r].title, @),
                                !.artist = Some(Recording[r].credit, @),
                                !.genre = Some(genre, @)]
        listings == SetToSeqs(Recording[r].releases)
    IN  IF Recording[r].releases = {} THEN [tags: {base(g) : g \in TopTags(r)}, whole: {TRUE}]
        ELSE UNION {LET l == PickRelease(s, t) IN
                    {[tags |-> WithFullRelease(base(g), l, r), whole |-> TRUE],
                     [tags |-> WithRelease(base(g), l), whole |-> FALSE]}
                    : s \in listings, g \in TopTags(r)}

\* resolve: any miss falls back to Jellyfin's metadata.
Resolved(t) ==
    LET fallback(whole) == [tags |-> Fallback(t), whole |-> whole, found |-> FALSE]
        from(r) ==
            IF r.id = None THEN {fallback(r.whole)}
            ELSE {[tags |-> f.tags, whole |-> f.whole /\ r.whole, found |-> TRUE]
                    : f \in FromRecording(t, r.id)} \cup {fallback(FALSE)}
    IN  IF scene.resolver THEN UNION {from(r) : r \in RecordingIds(t)} ELSE {fallback(TRUE)}

-----------------------------------------------------------------------------
(* Syncer.prepare                                                          *)

Extension(container) ==
    CASE container = "m4a" -> ".m4a" [] container = "aac" -> ".m4a" [] container = "mp3" -> ".mp3"
      [] container = "wma" -> ".wma" [] container = "flac" -> ".flac" [] OTHER -> "." \o container

\* CODEC_ALIASES
Family(codec) ==
    CASE codec = "wmav2" -> "wma" [] codec = "mp3float" -> "mp3" [] OTHER -> codec

NeedsTranscode(codec) ==
    IF scene.forceMp3 THEN codec # "mp3" ELSE codec \notin scene.passthrough

\* What a container holds that mutagen's writer for the extension can open.
Opens(extension, container) ==
    CASE extension = ".mp3" -> TRUE
      [] extension \in {".m4a", ".mp4", ".aac"} -> container = "m4a"
      [] extension = ".wma" -> container = "wma"
      [] OTHER -> TRUE

\* write_tags: fields without a value are left as they are, or empty after
\* replace; WMA files take no cover and are never emptied, and files of other
\* kinds are left alone.
WriteTags(file, tags, cover, replace, extension) ==
    LET kept(f) == IF replace /\ extension # ".wma" THEN "" ELSE file[f]
        set(f) == IF f # "cover" THEN tags[f] ELSE IF extension # ".wma" THEN cover ELSE ""
    IN  IF extension \notin {".mp3", ".m4a", ".mp4", ".aac", ".wma"} THEN file
        ELSE [f \in FileFields |-> Some(set(f), kept(f))]

\* Only clear the file's own tags when there is something to put in their place.
Replace(transcode, found) == transcode \/ (found /\ scene.overwrite)

\* album_art: any miss means no cover.
Covers == IF scene.art THEN {"", "jellyfin"} ELSE {""}

PathOf(t, extension) == <<Info[t].stem, extension>>

\* Mutant: a download that breaks off stays where it was to go.
BrokenInPlace(t) == [download EXCEPT ![t] = "cut"]

\* Jellyfin.download writes to a .part file and renames it.
Broken(t) == download

Download ==
    LET t == Head(todo) IN
    /\ phase = "prepare" /\ todo # <<>> /\ download[t] = None
    /\ \/ /\ download' = [download EXCEPT ![t] = "whole"]
          /\ UNCHANGED <<phase, mode, todo, prepared, walkVars, historyVars, faults>>
       \/ /\ Fault
          /\ download' = Broken(t)
          /\ \/ todo' = Tail(todo) /\ UNCHANGED <<phase, mode, prepared, walkVars, historyVars>>
             \/ End
    /\ UNCHANGED <<serverVars, staged, synced, given, changes>>

\* The staged file of track t before it is tagged.
Raw(t, transcode) ==
    [track |-> t, audio |-> download[t],
     codec |-> IF transcode THEN "mp3" ELSE Info[t].codec,
     tags |-> IF transcode THEN [f \in FileFields |-> ""] ELSE Info[t].own]

\* prepare, once the download is there: an exception skips the track, before the
\* staged file is overwritten or after.
Prepare ==
    LET t == Head(todo)
        codec == Family(Info[t].codec)
        transcode == NeedsTranscode(codec)
        extension == IF transcode THEN ".mp3" ELSE Extension(Info[t].container)
        path == PathOf(t, extension)
        opens == transcode \/ Opens(extension, Info[t].container)
    IN  /\ phase = "prepare" /\ todo # <<>> /\ download[t] # None
        /\ todo' = Tail(todo)
        /\ \/ \E r \in Resolved(t), cover \in Covers :
                /\ given' = IF r.whole THEN [given EXCEPT ![t] = @ \cup {r.tags}] ELSE given
                /\ IF opens
                   THEN /\ staged' = [staged EXCEPT ![path] =
                                [Raw(t, transcode) EXCEPT !.tags = WriteTags(@, r.tags, cover,
                                    Replace(transcode, r.found), extension)]]
                        /\ prepared' = [prepared EXCEPT ![path] =
                                [track |-> t, found |-> r.found, transcoded |-> transcode]]
                   ELSE staged' = [staged EXCEPT ![path] = Raw(t, transcode)] /\ UNCHANGED prepared
                /\ UNCHANGED faults
           \/ /\ Fault
              /\ staged' \in {staged} \cup
                    (IF transcode THEN {} ELSE {[staged EXCEPT ![path] = Raw(t, transcode)]})
              /\ UNCHANGED <<prepared, given>>
    /\ UNCHANGED <<serverVars, phase, mode, walkVars, download, synced, historyVars, changes>>

\* The files go to the device, which takes some of them: those are recorded, and
\* removed unless they are to be kept.  --prepare-only ends before that.
HandOver ==
    /\ phase = "prepare" /\ todo = <<>>
    /\ \E taken \in SUBSET {p \in DOMAIN prepared : prepared[p] # None} :
        /\ mode = "prepare" => taken = {}
        /\ synced' = synced \cup {prepared[p].track : p \in taken}
        /\ staged' = [p \in DOMAIN staged |->
                        IF p \in taken /\ ~scene.keepStaged THEN None ELSE staged[p]]
    /\ End
    /\ UNCHANGED <<serverVars, download, given, changes, faults>>

\* Ctrl-C, or the process is killed.
Interrupt ==
    /\ phase # "off" /\ Fault
    /\ End
    /\ UNCHANGED <<serverVars, download, staged, synced, given, changes>>

-----------------------------------------------------------------------------
Stems == {Info[t].stem : t \in Tracks}
Extensions == {".mp3"} \cup {Extension(c) : c \in Containers}
Paths == Stems \X Extensions

Init ==
    /\ \E s \in Scenes : scene = s /\ library = s.library
    /\ phase = "off" /\ mode = "sync"
    /\ agenda = <<>> /\ walked = <<>> /\ start = 0 /\ merged = <<>> /\ todo = <<>>
    /\ download = [t \in Tracks |-> None]
    /\ staged = [p \in Paths |-> None] /\ prepared = [p \in Paths |-> None]
    /\ synced = {}
    /\ began = [t \in Tracks |-> {}] /\ ever = began /\ disturbed = FALSE
    /\ given = [t \in Tracks |-> {}]
    /\ changes = 0 /\ faults = 0

RunStep ==
    ResolveUser \/ Page \/ PageFails \/ Collected \/ Download \/ Prepare \/ HandOver

Next == Begin \/ RunStep \/ LibraryChanges \/ Interrupt

Spec == Init /\ [][Next]_vars

\* A run that was begun goes on: requests and tools answer or time out.
FairSpec == Spec /\ WF_vars(RunStep)

-----------------------------------------------------------------------------
(* Correctness                                                             *)

Staged == [track: Tracks, audio: {"whole", "cut"}, codec: Codecs, tags: [FileFields -> STRING]]

\* Every variable has the type its declaration comment gives it.
TypeOK ==
    /\ scene \in Scenes
    /\ library \in [Lists \cup Queries -> Seq(Tracks \cup Lists \cup {NotAudio})]
    /\ phase \in {"off", "user", "collect", "prepare"}
    /\ mode \in {"sync", "force", "prepare"}
    /\ \A n \in DOMAIN agenda : agenda[n].list \in Lists \cup Queries
    /\ walked \in Seq(Tracks \cup Lists \cup {NotAudio}) /\ start \in Nat
    /\ \A n \in DOMAIN merged : merged[n].id \in Tracks
    /\ todo \in Seq(Tracks)
    /\ download \in [Tracks -> {None, "whole", "cut"}]
    /\ \A p \in Paths : staged[p] # None => staged[p] \in Staged
    /\ \A p \in Paths : prepared[p] # None => prepared[p].track \in Tracks
    /\ synced \subseteq Tracks
    /\ DOMAIN began = Tracks /\ DOMAIN ever = Tracks /\ disturbed \in BOOLEAN
    /\ \A t \in Tracks : given[t] \subseteq TagSets
    /\ changes \in 0 .. MaxChanges /\ faults \in 0 .. MaxFaults

AllCollected == phase = "collect" /\ agenda = <<>>

\* A collection that nothing was removed from meanwhile, and no list refused to,
\* has every track that was selected when it began, however many pages it took
\* and whatever was added between two of them; and none that never was.
CollectsSelection ==
    AllCollected =>
        \A t \in Tracks :
            /\ began[t] # {} /\ ~disturbed => \E n \in DOMAIN merged : merged[n].id = t
            /\ (\E n \in DOMAIN merged : merged[n].id = t) => ever[t] # {}

\* A track selected in several ways is there once, with all its playlists.
PlaylistsUnited ==
    AllCollected =>
        \A n \in DOMAIN merged :
            /\ \A m \in DOMAIN merged : merged[m].id = merged[n].id => m = n
            /\ merged[n].lists \subseteq ever[merged[n].id]
            /\ ~disturbed => began[merged[n].id] \ {"other"} \subseteq merged[n].lists

\* A collection ends, also on a server that counts nothing.
CollectionEnds == (phase = "collect") ~> (phase # "collect")

AllPrepared == phase = "prepare" /\ todo = <<>>

\* What is handed over was downloaded completely, although downloads left by
\* earlier runs, killed ones included, are used again.
WholeAudio ==
    AllPrepared => \A p \in Paths : prepared[p] # None => staged[p].audio = "whole"

\* And is something the Zune can play.
PlaysOnZune ==
    AllPrepared => \A p \in Paths :
        prepared[p] # None => staged[p].codec \in {"mp3", "mp3float", "aac", "wmav2"}

\* A file passed through for which MusicBrainz had nothing loses none of its own
\* tags, nor its cover.
OwnTagsKept ==
    AllPrepared => \A p \in Paths :
        LET t == prepared[p].track IN
        prepared[p] # None /\ ~prepared[p].found /\ ~prepared[p].transcoded /\ staged[p].track = t =>
            \A f \in FileFields : Info[t].own[f] # "" => staged[p].tags[f] # ""

\* The recordings track t may be taken for.
Candidates(t) == {h.id : h \in Hits[t]} \cup ({Fingerprint[t].id, Info[t].mbTrack} \ {None})

\* A track that names no album gets the same tags in every run whose lookups are all
\* answered, whatever the order of the answers: its release is the earliest by date and
\* id (_pick_release).  Not so where the search cuts ties off or MusicBrainz tags tie.
UntitledStable ==
    \A t \in Tracks :
        /\ Info[t].item.album = "" /\ Cardinality(Hits[t]) <= SearchLimit
        /\ \A r \in Candidates(t) : Cardinality(TopTags(r)) = 1
        => Cardinality(given[t]) <= 1

\* The collection is the selection, once, with its playlists (Syncer.collect).
CollectionRight == CollectsSelection /\ PlaylistsUnited

\* The files handed over are whole, playable and tagged as well as can be, and the
\* same in every run (Syncer.prepare, metadata.py, formats.py).
FilesRight == TypeOK /\ WholeAudio /\ PlaysOnZune /\ OwnTagsKept /\ UntitledStable
=============================================================================
