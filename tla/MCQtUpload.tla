----------------------------- MODULE MCQtUpload -----------------------------
(* A folder within a folder, a file to overwrite, and names that recur. *)
EXTENDS QtUpload

MCWorlds ==
    LET dir(n, p) == [name |-> n, parent |-> p, dir |-> TRUE]
        file(n, p) == [name |-> n, parent |-> p, dir |-> FALSE]
    IN  {<<dir("A", 0), dir("B", 1), file("f", 1)>>,
         <<dir("B", 0), file("f", 1), file("f", 0)>>}

send(p) == [op |-> "send", path |-> p]
mkdir(p) == [op |-> "mkdir", path |-> p]
\* What a file is is for the properties only.
import(p, is, ext, mime, words) ==
    [op |-> "import", path |-> p, album |-> "m", picture |-> TRUE, tagged |-> TRUE,
     file |-> [is |-> is, ext |-> ext, mime |-> mime, words |-> words]]
MCLonger == {<<"M", "MM">>}
upload(cmds) == [kind |-> "upload", cmds |-> cmds]
\* A track comes twice in a selection for an import, and a folder holds one of its own
\* name.
MCJobs ==
    {<<upload(<<send(<<"f">>), mkdir(<<"X", "D">>), send(<<"X", "D", "g">>)>>)>>,
     <<upload(<<mkdir(<<"A">>), send(<<"A", "f">>), mkdir(<<"A", "B">>)>>)>>,
     <<upload(<<mkdir(<<"A">>), mkdir(<<"A", "B">>), send(<<"A", "B", "f">>), send(<<"A", "f">>)>>)>>,
     <<upload(<<mkdir(<<"A">>), mkdir(<<"A", "A">>), send(<<"A", "A", "f">>)>>)>>,
     <<[kind |-> "album", name |-> "B", cover |-> TRUE, cmds |-> <<send(<<"B", "f">>)>>],
       [kind |-> "album", name |-> "A", cover |-> FALSE, cmds |-> <<send(<<"A", "f">>)>>]>>,
     <<[kind |-> "import", cmds |-> <<import(<<"M", "t">>, "music", "wav", "", {}),
                                      import(<<"MM", "c">>, "image", "png", "", {"folder"})>>],
       [kind |-> "import", cmds |-> <<import(<<"M", "c">>, "image", "jpg", "image/jpeg", {"art", "1"}),
                                      import(<<"M", "t">>, "music", "wav", "audio/x-wav", {}),
                                      import(<<"M", "d">>, "image", "", "image/png", {"cover", "01", "1"}),
                                      import(<<"M", "v">>, "music", "m4a", "audio/mp4", {})>>]>>,
     <<[kind |-> "download", cmds |-> <<[op |-> "get", path |-> <<"f">>]>>]>>}

ASSUME KindsApartHere == KindsApart
ASSUME FilesHere == ListedInOrder /\ FilesToldApart
=============================================================================
