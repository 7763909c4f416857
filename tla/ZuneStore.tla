------------------------------ MODULE ZuneStore ------------------------------
(***************************************************************************)
(* What the zune-* commands of aft-mtp-cli promise about the music library *)
(* of the device.  Only what the device shows is kept: the tracks its      *)
(* albums reference and the contents of its playlists.  Folders, artist    *)
(* and album objects, half-sent files, library caches, processes and lost  *)
(* replies are the business of ZuneCli, which implements this module.      *)
(***************************************************************************)
EXTENDS Naturals, Sequences

CONSTANTS
    Keys,        \* what identifies a track: artist, album, title, track number
    ObjectIds,   \* the MTP object handles of the device
    Playlists    \* playlist names

VARIABLES
    library,     \* the tracks the albums show: a set of [key, id]
    playlist,    \* playlist[p] is the sequence of track ids in p
    misread      \* playlists a process has failed to read, unnoticed

storeVars == <<library, playlist, misread>>

Entries == [key: Keys, id: ObjectIds]

StoreInit ==
    /\ library = {}
    /\ playlist = [p \in Playlists |-> <<>>]
    /\ misread = {}

\* A zune-import becomes visible in one step, and only when the library does
\* not show that track yet.
Publish(k, id) ==
    /\ \A e \in library : e.key # k /\ e.id # id
    /\ library' = library \cup {[key |-> k, id |-> id]}
    /\ UNCHANGED playlist

\* A sequence without x, which it holds at most once.
Without(s, x) ==
    IF \E n \in 1 .. Len(s) : s[n] = x
    THEN LET n == CHOOSE m \in 1 .. Len(s) : s[m] = x
         IN  SubSeq(s, 1, n - 1) \o SubSeq(s, n + 1, Len(s))
    ELSE s

\* The user deletes a track on the device: albums and playlists forget it.
Withdraw(id) ==
    /\ library' = {e \in library : e.id # id}
    /\ playlist' = [p \in Playlists |-> Without(playlist[p], id)]

\* The user deletes playlist p, which is object id: it is empty then, and playlists
\* that had it as an entry forget it.
DropList(p, id) ==
    /\ \A e \in library : e.id # id
    /\ playlist' = [q \in Playlists |-> IF q = p THEN <<>> ELSE Without(playlist[q], id)]
    /\ UNCHANGED library

\* zune-playlist-clear.
ClearList(p) ==
    /\ playlist' = [playlist EXCEPT ![p] = <<>>]
    /\ UNCHANGED library

\* zune-playlist-add and zune-playlist-add-id: at the end, and never twice.
ExtendList(p, id) ==
    /\ \A n \in 1 .. Len(playlist[p]) : playlist[p][n] # id
    /\ playlist' = [playlist EXCEPT ![p] = Append(@, id)]
    /\ UNCHANGED library

\* The same, to a playlist taken for empty: what it held is lost.
ReplaceList(p, id) ==
    /\ p \in misread
    /\ playlist' = [playlist EXCEPT ![p] = <<id>>]
    /\ UNCHANGED library

\* Playlists whose names are not read: another may come to stand for one of them.
LoseLists(P) ==
    /\ P \subseteq misread'
    /\ playlist' = [p \in Playlists |-> IF p \in P THEN <<>> ELSE playlist[p]]
    /\ UNCHANGED library

\* Playlists are read, or not, when a process starts.  A track that appears is
\* published; the rest is tried for every id.
StoreNext ==
    /\ misread' \subseteq Playlists
    /\ \/ \E e \in (library' \ library) \cap Entries : Publish(e.key, e.id)
       \/ \E id \in ObjectIds : Withdraw(id)
       \/ \E p \in Playlists : ClearList(p)
       \/ \E p \in Playlists, id \in ObjectIds :
              DropList(p, id) \/ ExtendList(p, id) \/ ReplaceList(p, id)
       \/ \E P \in SUBSET Playlists : LoseLists(P)

StoreSpec == StoreInit /\ [][StoreNext]_storeVars
=============================================================================
