---------------------------- MODULE MCFuseCache ----------------------------
(* A storage with an empty directory in it; requests about names, about    *)
(* the content of one file, and about directories within directories, the  *)
(* latter two with more faults.                                            *)
EXTENDS FuseCache

Folder == <<[name |-> "a", parent |-> Top, dir |-> TRUE, size |-> 0, rev |-> 0]>>

MCLoads ==
  {[requests |-> {"lookup", "readdir", "create", "mkdir", "unlink", "rename", "statfs"},
    names |-> {"a", "b"}, faults |-> 1],
   [requests |-> {"lookup", "getattr", "create", "unlink", "read", "write", "truncate",
                  "release", "open"},
    names |-> {"a"}, faults |-> 2],
   [requests |-> {"lookup", "readdir", "create", "mkdir", "unlink"},
    names |-> {"a"}, faults |-> 2]}

=============================================================================
