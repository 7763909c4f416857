---------------------------- MODULE MCJellyfinStage ----------------------------
(* Small instances of JellyfinStage: four tracks, pages of two entries.      *)
EXTENDS JellyfinStage

MCTracks == {"t1", "t2", "t3", "t4"}
MCLists == {"P1", "P2", "P3", "A1", "R1"}
MCLabel(l) == CASE l \in {"P1", "P3"} -> "mix" [] l = "P2" -> "rock"
                [] l = "A1" -> "hits" [] OTHER -> "ann"

Tagged(title, artist, album, number) ==
    [title |-> title, artist |-> artist, albumartist |-> "", album |-> album,
     number |-> number, year |-> "", genre |-> ""]
Own(tags, cover) == [f \in FileFields |-> IF f = "cover" THEN cover ELSE tags[f]]

\* t1 is played as it is, with thin metadata on the server; t2 is converted and
\* names its album; t3 is AAC without a container, t4 is WMA Pro.
MCInfo == [t \in MCTracks |->
    CASE t = "t1" -> [stem |-> "00 Ann - One", container |-> "mp3", codec |-> "mp3float",
                      item |-> Tagged("One", "Ann", "", ""), mbTrack |-> None, mbAlbum |-> None,
                      own |-> Own(Tagged("One", "Ann", "Hits", "1"), "own")]
      [] t = "t2" -> [stem |-> "02 Ann - Two", container |-> "flac", codec |-> "flac",
                      item |-> Tagged("Two", "Ann", "Hits", "2"), mbTrack |-> 1, mbAlbum |-> None,
                      own |-> Own(Tagged("Two", "Ann", "Hits", "2"), "own")]
      [] t = "t3" -> [stem |-> "03 Bob - Three", container |-> "aac", codec |-> "aac",
                      item |-> Tagged("Three", "", "", ""), mbTrack |-> None, mbAlbum |-> None,
                      own |-> Own(Tagged("", "", "", ""), "")]
      [] t = "t4" -> [stem |-> "04 Bob - Four", container |-> "wma", codec |-> "wmapro",
                      item |-> Tagged("Four", "Bob", "Hits", "4"), mbTrack |-> None, mbAlbum |-> 2,
                      own |-> Own(Tagged("Four", "Bob", "Hits", "4"), "")]]

MCHits == [t \in MCTracks |->
    CASE t = "t1" -> {[id |-> 1, score |-> 95], [id |-> 2, score |-> 95], [id |-> 3, score |-> 80]}
      [] OTHER -> {}]
MCFingerprint == [t \in MCTracks |->
    IF t = "t4" THEN [id |-> 2, score |-> 90] ELSE [id |-> None, score |-> 0]]

MCRecording == [r \in 1 .. 3 |->
    CASE r = 1 -> [title |-> "One", credit |-> "Ann", tags |-> {[name |-> "Pop", count |-> 2]},
                   releases |-> {1, 2, 3}]
      [] r = 2 -> [title |-> "One (live)", credit |-> "", releases |-> {2},
                   tags |-> {[name |-> "Pop", count |-> 2], [name |-> "Live", count |-> 1]}]
      [] r = 3 -> [title |-> "Three", credit |-> "Bob", tags |-> {}, releases |-> {}]]

\* Two releases of one title and one date, and one without a date.
MCRelease == [l \in 1 .. 3 |->
    CASE l = 1 -> [title |-> "Hits", date |-> 2004, first |-> 1999, credit |-> "Ann",
                   position |-> [r \in {1} |-> "3"]]
      [] l = 2 -> [title |-> "Hits", date |-> 2004, first |-> 0, credit |-> "Various",
                   position |-> [r \in {1, 2} |-> "7"]]
      [] l = 3 -> [title |-> "Once", date |-> 0, first |-> 0, credit |-> "",
                   position |-> [r \in {} |-> ""]]]

Nothing == [q \in MCLists \cup Queries |-> <<>>]
Scene(lib) ==
    [library |-> lib, arrivals |-> [q \in {} |-> {}], counts |-> TRUE,
     playlists |-> <<"mix">>, favorites |-> FALSE, artists |-> <<>>, albums |-> <<>>,
     user |-> "", users |-> <<"ann">>, resolver |-> FALSE, acoustid |-> FALSE,
     passthrough |-> {"mp3", "aac", "wma"}, forceMp3 |-> FALSE, overwrite |-> TRUE,
     art |-> FALSE, keepStaged |-> FALSE]

\* Lists that overlap, and change while they are walked.
Walked ==
    [Scene([Nothing EXCEPT !["Playlists"] = <<"P1", "P2", "P3">>,
                           !["P1"] = <<"t1", NotAudio, "t2", "t1">>, !["P2"] = <<"t2">>,
                           !["P3"] = <<"t4">>, !["Favorites"] = <<"t2">>,
                           !["FavoriteAlbums"] = <<"A1">>, !["A1"] = <<"t1">>])
        EXCEPT !.playlists = <<"mix", "rock">>, !.favorites = TRUE,
               !.arrivals = [q \in {"P1", "A1"} |-> {"t3"}]]
Uncounted ==
    [Scene([Nothing EXCEPT !["Artists"] = <<"R1">>, !["R1"] = <<"t1", "t2">>,
                           !["Albums"] = <<"P2", "A1">>, !["A1"] = <<"t2", "t3", "t4">>])
        EXCEPT !.counts = FALSE, !.playlists = <<"mix", "gone">>, !.artists = <<"an">>,
               !.albums = <<"hits">>, !.users = <<"bob", "ann">>, !.user = "ann"]
NoUser == [Uncounted EXCEPT !.user = ""]
TagsOf(tracks) ==
    [Scene([Nothing EXCEPT !["Playlists"] = <<"P1">>, !["P1"] = tracks])
        EXCEPT !.resolver = TRUE, !.art = TRUE, !.acoustid = TRUE, !.keepStaged = TRUE]

MCScenes ==
    {Walked, Uncounted, NoUser, TagsOf(<<"t1", "t4">>), TagsOf(<<"t2", "t3">>),
     [TagsOf(<<"t3", "t1">>) EXCEPT !.forceMp3 = TRUE, !.overwrite = FALSE]}
=============================================================================
