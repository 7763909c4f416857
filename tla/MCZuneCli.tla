------------------------------ MODULE MCZuneCli ------------------------------
(* Small instances of ZuneCli: two or three files, one or two playlists.     *)
EXTENDS ZuneCli, FiniteSetsExt

CONSTANTS Capacity,  \* Capacity[u]: how many objects the device of user u can hold
          Users      \* what a user may be after, one of the names below

\* Two tracks of one album, the second without a cover; files without artist
\* or album tags, and one whose tags cannot be read.
MCFiles == {"f1", "f2", "f3", "f4", "f5"}
MCMeta == [f \in MCFiles |->
    CASE f = "f1" -> [artist |-> "Ann", album |-> "Hits", title |-> "One",
                      index |-> 1, cover |-> TRUE]
      [] f = "f2" -> [artist |-> "Ann", album |-> "Hits", title |-> "Two",
                      index |-> 2, cover |-> FALSE]
      [] f = "f3" -> [artist |-> "", album |-> "", title |-> "One",
                      index |-> 0, cover |-> FALSE]
      [] f = "f4" -> NoMeta
      [] f = "f5" -> [artist |-> "", album |-> "Hits", title |-> "Two",
                      index |-> 2, cover |-> FALSE]]
MCNames == {"Ann", "Hits", "One", "Two"} \cup {"Artists", "Albums", "Music"}
             \cup {"UknownArtist", "UknownAlbum"}
MCIds == 1 .. Max({Capacity[u] : u \in Users})

\* The device hands out its lowest free handle: handles of deleted objects and
\* of lost answers come back as early as possible.
MCFreshIds(used) == IF MCIds \subseteq used THEN {} ELSE {Min(MCIds \ used)}

Import(f) == [op |-> "zune-import", file |-> f]
Clear(p) == [op |-> "zune-playlist-clear", list |-> p]
AddId(p, id) == [op |-> "zune-playlist-add-id", list |-> p, id |-> id]
Add(p, f) == [op |-> "zune-playlist-add", list |-> p, file |-> f]

\* The command lines of one user, who repeats them until they succeed: albums
\* are imported, or a playlist is filled from the track object 8.
LinesOf(who) ==
    CASE who = "album" -> {<<Import("f1"), Import("f2")>>, <<Import("f2"), Import("f4")>>}
      [] who = "untagged" -> {<<Import("f3"), Import("f5")>>}
      [] who = "again" -> {<<Import("f1"), Import("f2")>>}
      [] who = "playlist" -> {<<Import("f1")>>, <<Clear("mix"), AddId("mix", 8)>>,
                               <<[op |-> "zune-init"], Add("mix", "f1"), Add("mix", "f4")>>}
MCCapacity == [u \in Users |-> CASE u = "album" -> 11 [] u = "again" -> 8 [] OTHER -> 9]
MCCommandLines == UNION {LinesOf(who) : who \in Users}

\* What a user deletes on the device: folders, artists and albums matter to imports.
DeletedBy(who) == IF who = "playlist" THEN {"Track", "Playlist"} ELSE UserDeletable

VARIABLE user   \* whose device it is

MCInit == user \in Users /\ Init

\* The device of this user has room for what is on it, and for two playlists.
Fits ==
    /\ UNCHANGED user
    /\ \A id \in InUse' : id <= Capacity[user]
    /\ Cardinality(OfFormat("Playlist")') <= 2

MCNext ==
    \/ ProcessStep /\ Fits
    \/ \E line \in LinesOf(user) : Start(line) /\ Fits
    \/ \E id \in ObjectIds :
        /\ (obj[id].format \in DeletedBy(user) /\ UserDeletes(id)) \/ DropIncomplete(id)
        /\ Fits

MCSpec == MCInit /\ [][MCNext]_<<vars, user>> /\ WF_vars(ProcessStep /\ Fits)
=============================================================================
