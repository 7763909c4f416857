---------------------------- MODULE MCJellyfinSync ----------------------------
(* Small instances of JellyfinSync: three tracks, one playlist, batches of two. *)
EXTENDS JellyfinSync, FiniteSetsExt

CONSTANT Handles    \* how many object ids a device hands out

MCTracks == {"t1", "t2", "t3"}
MCOrder == <<"t1", "t2", "t3">>
MCPlaylists == {"mix"}
MCMember == [p \in MCPlaylists |-> {"t2", "t3"}]

MCPaths == {"01_One", "02_Two", "03_Three", "01_Error", "01_Slow", "101_One"}
Named(a, b, c) == [t \in MCTracks |-> CASE t = "t1" -> a [] t = "t2" -> b [] t = "t3" -> c]
MCPath == Named("01_One", "02_Two", "03_Three")

Scene(path, limit) == [path |-> path, limit |-> limit, forced |-> FALSE, deletes |-> FALSE]
MCScenes ==
    {Scene(MCPath, 2), [Scene(MCPath, 3) EXCEPT !.forced = TRUE],
     \* The first song is called "Error"; or is one aft-mtp-cli does not come back from.
     Scene(Named("01_Error", "02_Two", "03_Three"), 1),
     Scene(Named("01_Slow", "02_Two", "03_Three"), 3),
     \* The name of the second file is part of that of the first.
     Scene(Named("101_One", "01_One", "03_Three"), 3),
     \* "Ann - One" of two albums, and a user who deletes tracks.
     [Scene(Named("01_One", "01_One", "03_Three"), 3) EXCEPT !.deletes = TRUE]}

MCKey == [t \in MCTracks |-> CASE t = "t1" -> "k1" [] t = "t2" -> "k2" [] t = "t3" -> "k3"]
MCRawKey == [t \in MCTracks |-> CASE t = "t1" -> "r1" [] t = "t2" -> "r2" [] t = "t3" -> "r3"]
MCMentions == [p \in MCPaths |-> {p} \cup (IF p = "01_One" THEN {"101_One"} ELSE {})]

MCIds == 1 .. Handles
MCFreshIds(used) == IF MCIds \subseteq used THEN {} ELSE {Min(MCIds \ used)}
=============================================================================
