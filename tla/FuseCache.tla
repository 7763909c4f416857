----------------------------- MODULE FuseCache -----------------------------
(***************************************************************************)
(* The caches of the FUSE file system (fuse/fuse.cpp).  The wrapper keeps  *)
(* directory listings, attributes, serialised directories and open edit    *)
(* sessions, and never asks the device again for what it has cached; every *)
(* handler must therefore carry its own change into each of them.          *)
(*                                                                         *)
(* One request is served at a time (_mutex).  An action is one call on the *)
(* MTP session together with the bookkeeping that follows it, so a fault   *)
(* can strike between any two of them: the device refuses the call, it     *)
(* carries it out and the answer is lost, or it goes away.                 *)
(*                                                                         *)
(* The storage is directory Top.  Inode and object handle are the same     *)
(* number.  A file's content is its size and the number of writes it saw.  *)
(* Nothing but this mount changes the device.                              *)
(***************************************************************************)
EXTENDS Naturals, FiniteSets, Functions

CONSTANTS
  Loads,          \* what the mount is asked for: the kinds of its requests, the file
                  \* names they have, and the faults it meets (a bound)
  Stored,         \* the objects of the device at the start
  MaxObjects,     \* handles the device hands out: 1..MaxObjects
  MaxSize,        \* the largest file
  MaxWrites,      \* writes to one file
  PropertyList    \* _getObjectPropertyListSupported

Top == 0
Names == UNION {l.names : l \in Loads} \cup {Stored[i].name : i \in DOMAIN Stored}

ASSUME LoadsAssumption == \A l \in Loads : l.names # {} /\ l.faults \in Nat

ASSUME BoundsAssumption ==
  /\ MaxObjects \in Nat /\ MaxSize \in Nat /\ MaxWrites \in Nat
  /\ PropertyList \in BOOLEAN

ASSUME StoredIsTree ==
  /\ \E n \in 0..MaxObjects : DOMAIN Stored = 1..n
  /\ \A i \in DOMAIN Stored :
       /\ Stored[i] \in [name : Names, parent : {Top} \cup DOMAIN Stored, dir : BOOLEAN,
                         size : 0..MaxSize, rev : 0..MaxWrites]
       /\ Stored[i].parent = Top \/ Stored[Stored[i].parent].dir

VARIABLES
  load,      \* one of Loads
  dev,       \* the device's objects: handle -> [name, parent, dir, size, rev]
  draft,     \* its open edit sessions: handle -> [size, rev]
  last,      \* the last handle it gave
  files,     \* _files: directory -> name -> handle
  attrs,     \* _objectAttrs: handle -> [dir, size]
  edits,     \* _openedFiles
  dirCache,  \* _directoryCache: directory -> name -> handle
  op,        \* the request being served
  known,     \* the inodes the kernel holds: inode -> "dir" or "file"
  mounted,   \* the process runs
  faults,    \* faults so far
  doubted    \* the directories and files a fault left in doubt

device == <<dev, draft, last>>
caches == <<files, attrs, edits, dirCache>>
vars == <<load, device, caches, op, known, mounted, faults, doubted>>

----------------------------------------------------------------------------
(* The device *)

Children(d) == {i \in DOMAIN dev : dev[i].parent = d}

(* An object and everything below it: the least set with the object and    *)
(* the children of its members.                                            *)
Below(i) == {j \in DOMAIN dev : \A S \in SUBSET DOMAIN dev :
               (i \in S /\ \A k \in S : Children(k) \subseteq S) => j \in S}

Exists(i) == i = Top \/ i \in DOMAIN dev

Without(f, S) == Restrict(f, DOMAIN f \ S)

(* f, and g where f is not defined; f with y for x.                        *)
Over(f, g) == [x \in DOMAIN f \cup DOMAIN g |-> IF x \in DOMAIN f THEN f[x] ELSE g[x]]

Put(f, x, y) == Over([z \in {x} |-> y], f)

(* What a file holds, the edits of its open session included. *)
Content(i) == IF i \in DOMAIN draft THEN draft[i]
              ELSE [size |-> dev[i].size, rev |-> dev[i].rev]

(* EndEditObject makes the edits of a session the content of the file. *)
Commit(i) ==
  /\ dev' = [dev EXCEPT ![i].size = draft[i].size, ![i].rev = draft[i].rev]
  /\ draft' = Without(draft, {i})

----------------------------------------------------------------------------
(* Requests, and how they end *)

Idle == [kind |-> "idle", dir |-> Top, name |-> CHOOSE n \in Names : TRUE,
         to |-> CHOOSE n \in Names : TRUE, obj |-> Top, size |-> 0,
         at |-> "start", retried |-> FALSE]

At(kind, stage) == op.kind = kind /\ op.at = stage

Goto(stage) == op' = [op EXCEPT !.at = stage]

Done == op' = Idle

(* The handler's exception is EIO to the caller. *)
Error == Done /\ UNCHANGED <<known, mounted>>

Forget == /\ files' = <<>> /\ attrs' = <<>> /\ dirCache' = <<>> /\ edits' = {}

(* std::terminate, with everything the process knew.                       *)
Dies == /\ Forget
        /\ known' = <<>> /\ mounted' = FALSE
        /\ Done

(* WRAP_EX on DeviceNotFoundException: connect again and serve the request *)
(* once more from its start.  A second exception leaves the handler, and   *)
(* so does one of Connect itself: of a device that is not back, or of      *)
(* EndEditObject in the destructor of an edit session being cleared.       *)
Reconnects == /\ edits = {} /\ ~op.retried
              /\ Forget
              /\ op' = [op EXCEPT !.at = "start", !.retried = TRUE]
              /\ UNCHANGED <<known, mounted>>

DeviceGone == Reconnects \/ Dies

Fault(S) == /\ faults < load.faults /\ UNCHANGED load
            /\ faults' = faults + 1
            /\ doubted' = doubted \cup S

(* A call that is not carried out, and one that is and whose answer is    *)
(* lost; S is what the handler leaves in doubt.  Edit sessions that lose   *)
(* their connection are the device's to end.                               *)
Lost(S) == \/ ~op.retried /\ Fault(S) /\ Error /\ UNCHANGED caches
           \/ Fault(S \cup edits) /\ DeviceGone

Refused(S) == Lost(S) /\ UNCHANGED device

Answered == UNCHANGED <<load, faults, doubted>>

(* The end of a request that changes nothing: a reply from the caches.     *)
Answers == Error /\ Answered /\ UNCHANGED <<device, caches>>

(* The exception of a handle that the device or the caches do not know.    *)
Throws(S) == /\ \/ /\ ~op.retried /\ Error /\ UNCHANGED caches
                   /\ doubted' = doubted \cup S
                \/ op.retried /\ Dies /\ doubted' = doubted \cup S \cup edits
             /\ UNCHANGED <<load, faults, device>>

(* EndEditObject in ~ObjectEditSession: an exception of it ends the        *)
(* process.  The device may accept it for an object that is gone.          *)
EndEdit(i) ==
  \/ /\ IF i \in DOMAIN draft THEN Commit(i) ELSE UNCHANGED <<dev, draft>>
     /\ UNCHANGED last
     /\ edits' = edits \ {i}
     /\ Answered /\ UNCHANGED <<files, attrs, dirCache, known, mounted>>
  \/ Fault(edits) /\ Dies /\ UNCHANGED device

----------------------------------------------------------------------------
(* GetChildren: a directory is listed once and kept *)

Listed(d) == d \in DOMAIN files

(* One handle per name: emplace keeps the first of several of one name.    *)
Listings(S) ==
  {f \in [{dev[i].name : i \in S} -> S] : \A n \in DOMAIN f : dev[f[n]].name = n}

AttrsOf(S) == [i \in S |-> [dir |-> dev[i].dir, size |-> dev[i].size]]

Cache(d, listing, found) ==
  /\ files' = Put(files, d, listing)
  /\ attrs' = Over(found, attrs)
  /\ UNCHANGED <<edits, dirCache>>

List(d) ==
  /\ Exists(d)
  /\ \E listing \in Listings(Children(d)) :
       Cache(d, listing, AttrsOf(Children(d)))
  /\ Answered /\ UNCHANGED <<device, op, known, mounted>>

(* Objects are asked for one by one at the top, and everywhere if the      *)
(* device has no property lists; an object that cannot be read is skipped. *)
ListSkipping(d) ==
  /\ d = Top \/ ~PropertyList
  /\ \E i \in Children(d) :
       \E listing \in Listings(Children(d) \ {i}) :
         Cache(d, listing, AttrsOf(Children(d) \ {i}))
  /\ Fault({d}) /\ UNCHANGED <<device, op, known, mounted>>

(* The entry of the directory is made before the queries, and stays with   *)
(* what they brought when one of them fails: nothing, the names, or the    *)
(* names and the kinds.                                                    *)
Partial(d) ==
  \/ Cache(d, <<>>, <<>>)
  \/ /\ PropertyList /\ d # Top
     /\ \E listing \in Listings(Children(d)) :
          \E found \in {<<>>, [i \in Children(d) |->
                                 [dir |-> dev[i].dir, size |-> 0]]} :
            Cache(d, listing, found)

ListInterrupted(d, S) ==
  /\ UNCHANGED device
  /\ \/ Exists(d) /\ ~op.retried /\ Fault(S \cup {d}) /\ Partial(d) /\ Error
     \/ Exists(d) /\ Fault(S \cup {d} \cup edits) /\ DeviceGone
     \/ /\ ~Exists(d) /\ ~op.retried
        /\ doubted' = doubted \cup S /\ UNCHANGED <<load, faults>>
        /\ Cache(d, <<>>, <<>>) /\ Error
     \/ ~Exists(d) /\ op.retried /\ Throws(S)

(* S is what the handler leaves in doubt if it ends here.                  *)
GetChildrenOr(d, S) == List(d) \/ ListSkipping(d) \/ ListInterrupted(d, S)

GetChildren(d) == GetChildrenOr(d, {})

----------------------------------------------------------------------------
(* GetObjectAttr: attributes that are not cached come with the listing of  *)
(* the parent, unless that is cached and does not have them                *)

HasAttr(i) == i = Top \/ i \in DOMAIN attrs

NoAttr(i) ==
  /\ ~HasAttr(i)
  /\ Exists(i) => Listed(dev[i].parent)

AttrListing(i, S) ==
  /\ ~HasAttr(i)
  /\ \/ Exists(i) /\ ~Listed(dev[i].parent) /\ GetChildrenOr(dev[i].parent, S)
     \/ Refused(S)     \* GetObjectParent

ListParent(i) == AttrListing(i, {})

Entry(d, n) == files[d][n]

HasEntry(d, n) == n \in DOMAIN files[d]

(* The directory whose listing the request begins with.                    *)
NeedsListing == op.kind \in {"lookup", "unlink", "rename"} /\ op.at = "start"

ListDir == NeedsListing /\ ~Listed(op.dir) /\ GetChildren(op.dir)

----------------------------------------------------------------------------
(* The handlers.  Lookup, GetAttr, Open, StatFS and ReadDir only read.     *)

Request(r) ==
  /\ op = Idle /\ mounted /\ r.kind \in load.requests
  /\ op' = Over(r, Idle)
  /\ UNCHANGED <<load, device, caches, known, mounted, faults, doubted>>

KnownDirs == {Top} \cup {i \in DOMAIN known : known[i] = "dir"}
KnownFiles == {i \in DOMAIN known : known[i] = "file"}

(* The kernel learns of an object with its attributes.                     *)
Known(i) == Put(known, i, IF attrs[i].dir THEN "dir" ELSE "file")

LookupRequest(d, n) == Request([kind |-> "lookup", dir |-> d, name |-> n])

Lookup ==
  /\ At("lookup", "start") /\ Listed(op.dir)
  /\ known' = IF HasEntry(op.dir, op.name) /\ HasAttr(Entry(op.dir, op.name))
              THEN Known(Entry(op.dir, op.name)) ELSE known
  /\ Done
  /\ Answered /\ UNCHANGED <<device, caches, mounted>>

GetAttrRequest(i) == Request([kind |-> "getattr", obj |-> i])

(* FillEntry swallows every exception: the object is not there.            *)
EntryListing ==
  /\ op.kind \in {"getattr", "truncate"} /\ op.at = "start"
  /\ ~HasAttr(op.obj) /\ Exists(op.obj) /\ ~Listed(dev[op.obj].parent)
  /\ LET parent == dev[op.obj].parent IN
       \/ List(parent)
       \/ ListSkipping(parent)
       \/ /\ Fault({parent})
          /\ Partial(parent) \/ UNCHANGED caches
          /\ Error /\ UNCHANGED device

GetAttr ==
  /\ At("getattr", "start")
  /\ HasAttr(op.obj) \/ NoAttr(op.obj)
  /\ Answers

OpenRequest(i) == Request([kind |-> "open", obj |-> i])

(* Open asks whether it is a file; whatever goes wrong, the connection     *)
(* included, the file is not there.                                        *)
Open ==
  /\ At("open", "start")
  /\ \/ Answers
     \/ Fault({}) /\ Error /\ UNCHANGED <<device, caches>>

StatFSRequest(i) == Request([kind |-> "statfs", obj |-> i])

StatFS == At("statfs", "start") /\ (Answers \/ Refused({}))

ReadDirRequest(d) == Request([kind |-> "readdir", dir |-> d])

(* The attributes of the directory, then its listing.                      *)
ReadDirListing ==
  /\ At("readdir", "start") /\ op.dir \notin DOMAIN dirCache
  /\ \/ ListParent(op.dir)
     \/ HasAttr(op.dir) /\ ~Listed(op.dir) /\ GetChildren(op.dir)

ReadDirNoAttr == At("readdir", "start") /\ NoAttr(op.dir) /\ Throws({})

(* The serialised directory is cached before it is filled ...              *)
ReadDirMiss ==
  /\ At("readdir", "start") /\ op.dir \notin DOMAIN dirCache
  /\ HasAttr(op.dir) /\ Listed(op.dir)
  /\ dirCache' = Put(dirCache, op.dir, <<>>)
  /\ Goto("filling")
  /\ Answered /\ UNCHANGED <<device, files, attrs, edits, known, mounted>>

(* ... with "..", whose attributes may have to be listed first, ...         *)
ReadDirParent ==
  /\ At("readdir", "filling") /\ op.dir \in DOMAIN dev
  /\ LET parent == dev[op.dir].parent IN
       \/ AttrListing(parent, {op.dir})
       \/ NoAttr(parent) /\ Throws({op.dir})
       \/ Refused({op.dir})

(* ... and the entries up to the first without attributes.                 *)
ReadDirFill ==
  /\ At("readdir", "filling")
  /\ op.dir = Top \/ (op.dir \in DOMAIN dev /\ HasAttr(dev[op.dir].parent))
  /\ LET all == files[op.dir]
         good == {n \in DOMAIN all : HasAttr(all[n])}
     IN \/ /\ good = DOMAIN all
           /\ dirCache' = [dirCache EXCEPT ![op.dir] = all]
           /\ Done
           /\ Answered /\ UNCHANGED <<files, attrs, edits, known, mounted>>
        \/ /\ good # DOMAIN all /\ ~op.retried
           /\ \E shown \in SUBSET good :
                dirCache' = [dirCache EXCEPT ![op.dir] = Restrict(all, shown)]
           /\ doubted' = doubted \cup {op.dir}
           /\ Error /\ UNCHANGED <<load, files, attrs, edits, faults>>
        \/ good # DOMAIN all /\ op.retried /\ Throws({op.dir})
        \/ good # DOMAIN all /\ Refused({op.dir})
  /\ UNCHANGED device

ReadDirOrphan ==
  /\ At("readdir", "filling") /\ ~Exists(op.dir)
  /\ Throws({})

ReadDirHit ==
  /\ At("readdir", "start") /\ HasAttr(op.dir) /\ op.dir \in DOMAIN dirCache
  /\ Answers

----------------------------------------------------------------------------
(* Create, MakeNode and MakeDir.  The kernel has looked the name up and    *)
(* been told that there is none. *)

CreateRequest(d, n, kind) ==
  /\ Listed(d) /\ ~HasEntry(d, n)
  /\ last + (IF faults < load.faults THEN 2 ELSE 1) <= MaxObjects   \* bound
  /\ Request([kind |-> kind, dir |-> d, name |-> n])

Creating(stage) == At("create", stage) \/ At("mkdir", stage)

(* SendObjectInfo or CreateDirectory.                                      *)
CreateObject ==
  /\ Creating("start")
  /\ \/ /\ Exists(op.dir)
        /\ last' = last + 1
        /\ dev' = Put(dev, last + 1, [name |-> op.name, parent |-> op.dir,
                                      dir |-> op.kind = "mkdir", size |-> 0, rev |-> 0])
        /\ UNCHANGED draft
        /\ \/ /\ op' = [op EXCEPT !.obj = last + 1,
                          !.at = IF op.kind = "mkdir" THEN "made" ELSE "sent"]
              /\ Answered /\ UNCHANGED <<caches, known, mounted>>
           \/ Lost({op.dir})
     \/ Refused({})
     \/ ~Exists(op.dir) /\ Throws({})

(* SendObject, of an empty file.                                           *)
CreateSend ==
  /\ At("create", "sent")
  /\ \/ /\ Goto("made")
        /\ Answered /\ UNCHANGED <<device, caches, known, mounted>>
     \/ Refused({op.dir})

(* Mutant: a new object stays out of the serialised directory.             *)
CreatedUnserialised ==
  /\ files' = IF Listed(op.dir)
              THEN [files EXCEPT ![op.dir] = Over(@, [n \in {op.name} |-> op.obj])] ELSE files
  /\ attrs' = Over(AttrsOf({op.obj}), attrs)
  /\ UNCHANGED <<edits, dirCache>>

(* The object enters the listing of its directory, if there is one, and    *)
(* the serialised directory goes.                                          *)
Created ==
  /\ files' = IF Listed(op.dir)
              THEN [files EXCEPT ![op.dir] = Over(@, [n \in {op.name} |-> op.obj])] ELSE files
  /\ attrs' = IF Listed(op.dir) THEN Over(AttrsOf({op.obj}), attrs) ELSE attrs
  /\ dirCache' = Without(dirCache, {op.dir})
  /\ UNCHANGED edits

CreateCached ==
  /\ Creating("made")
  /\ \/ /\ Created /\ Goto("cached")
        /\ Answered /\ UNCHANGED <<device, known, mounted>>
     \/ Listed(op.dir) /\ Refused({op.dir})     \* GetObjectInfo

CreateListing == Creating("cached") /\ ListParent(op.obj)

CreateReply ==
  /\ Creating("cached")
  /\ \/ /\ HasAttr(op.obj)
        /\ known' = Known(op.obj)
        /\ Done /\ Answered /\ UNCHANGED <<device, caches, mounted>>
     \/ NoAttr(op.obj) /\ Throws({})

----------------------------------------------------------------------------
(* Unlink and RemoveDir *)

UnlinkRequest(d, n) == Request([kind |-> "unlink", dir |-> d, name |-> n])

Child == Entry(op.dir, op.name)

(* The next step of an unlink is for an entry found in the listing.        *)
Unlinking == At("unlink", "start") /\ Listed(op.dir) /\ HasEntry(op.dir, op.name)

NoEntry ==
  /\ op.kind \in {"unlink", "rename"} /\ op.at = "start"
  /\ Listed(op.dir) /\ ~HasEntry(op.dir, op.name)
  /\ Answers

UnlinkListing ==
  /\ Unlinking
  /\ \/ ListParent(Child)
     \/ HasAttr(Child) /\ attrs[Child].dir /\ ~Listed(Child) /\ GetChildren(Child)

NotEmpty ==
  /\ Unlinking
  /\ \/ NoAttr(Child) /\ Throws({})
     \/ HasAttr(Child) /\ attrs[Child].dir /\ Listed(Child) /\ files[Child] # <<>> /\ Answers

(* Mutant: the listing is made and not looked at.                          *)
DeletableListed(i) == HasAttr(i) /\ (attrs[i].dir => Listed(i))

Deletable(i) ==
  HasAttr(i) /\ (attrs[i].dir => Listed(i) /\ files[i] = <<>>)

(* UnlinkImpl: DeleteObject, which takes what is below along; the edit     *)
(* session and the attributes of the object go.                            *)
DeleteObject(i) ==
  /\ dev' = Without(dev, Below(i))
  /\ draft' = Without(draft, Below(i))
  /\ UNCHANGED last

Deleted(i) ==
  /\ attrs' = Without(attrs, {i})
  /\ edits' = edits \ {i}
  /\ Answered /\ UNCHANGED <<known, mounted>>

DeleteFails(i) ==
  \/ Lost({op.dir})
  \/ i \in edits /\ Fault({op.dir} \cup edits) /\ Dies

Unlink ==
  /\ Unlinking /\ Deletable(Child)
  /\ \/ /\ Exists(Child) /\ DeleteObject(Child)
        /\ \/ /\ Deleted(Child)
              /\ files' = [files EXCEPT ![op.dir] = Without(@, {op.name})]
              /\ dirCache' = Without(dirCache, {op.dir})
              /\ Done
           \/ DeleteFails(Child)
     \/ Refused({})
     \/ ~Exists(Child) /\ Throws({})

----------------------------------------------------------------------------
(* Rename, within a directory.  What has the new name is deleted first.    *)

RenameRequest(d, n, m) ==
  n # m /\ Request([kind |-> "rename", dir |-> d, name |-> n, to |-> m])

Renaming == op.kind = "rename" /\ Listed(op.dir) /\ HasEntry(op.dir, op.name)

Target == Entry(op.dir, op.to)

RenameTarget ==
  /\ Renaming /\ op.at = "start" /\ HasEntry(op.dir, op.to)
  /\ \/ /\ Exists(Target) /\ DeleteObject(Target)
        /\ \/ /\ Deleted(Target)
              /\ files' = [files EXCEPT ![op.dir] = Without(@, {op.to})]
              /\ UNCHANGED dirCache
              /\ Goto("cleared")
           \/ DeleteFails(Target)
     \/ Refused({})
     \/ ~Exists(Target) /\ Throws({})

(* A failure after the target has gone leaves it in the serialised         *)
(* directory.                                                              *)
RenameObject ==
  /\ Renaming /\ ~HasEntry(op.dir, op.to)
  /\ \/ /\ Exists(Child)
        /\ dev' = [dev EXCEPT ![Child].name = op.to]
        /\ UNCHANGED <<draft, last>>
        /\ \/ /\ files' = [files EXCEPT ![op.dir] =
                             Put(Without(@, {op.name}), op.to, Child)]
              /\ dirCache' = Without(dirCache, {op.dir})
              /\ Done /\ Answered /\ UNCHANGED <<attrs, edits, known, mounted>>
           \/ Lost({op.dir})
     \/ Refused(IF op.at = "cleared" THEN {op.dir} ELSE {})
     \/ ~Exists(Child) /\ Throws(IF op.at = "cleared" THEN {op.dir} ELSE {})

----------------------------------------------------------------------------
(* Write, SetAttr of the size, Read and Release *)

WriteRequest(i, s) ==
  /\ i \in DOMAIN dev => Content(i).rev < MaxWrites
  /\ Request([kind |-> "write", obj |-> i, size |-> s])

TruncateRequest(i, s) == Request([kind |-> "truncate", obj |-> i, size |-> s])

Editing == op.kind \in {"write", "truncate"} /\ HasAttr(op.obj)

(* GetTransaction: an edit session is begun once and kept.                 *)
BeginEdit ==
  /\ Editing /\ op.obj \notin edits
  /\ \/ /\ Exists(op.obj)
        /\ draft' = Put(draft, op.obj, Content(op.obj))
        /\ UNCHANGED <<dev, last>>
        /\ \/ /\ edits' = edits \cup {op.obj}
              /\ Answered
              /\ UNCHANGED <<files, attrs, dirCache, op, known, mounted>>
           \/ Lost({op.obj})
     \/ Refused({})
     \/ ~Exists(op.obj) /\ Throws({})

InSession == op.obj \in edits /\ op.obj \in DOMAIN draft

SessionGone == Editing /\ op.obj \in edits \ DOMAIN draft /\ Throws({})

(* TruncateObject, for a write behind the end of the file and for SetAttr. *)
Truncate ==
  /\ Editing /\ InSession
  /\ op.kind = "truncate" \/ op.size > attrs[op.obj].size
  /\ \/ /\ draft' = [draft EXCEPT ![op.obj].size = op.size]
        /\ UNCHANGED <<dev, last>>
        /\ \/ /\ attrs' = [attrs EXCEPT ![op.obj].size = op.size]
              /\ IF op.kind = "truncate" THEN Done ELSE UNCHANGED op
              /\ Answered
              /\ UNCHANGED <<files, edits, dirCache, known, mounted>>
           \/ Lost({op.obj})
     \/ Refused({})

Send ==
  /\ Editing /\ InSession
  /\ op.kind = "write" /\ op.size <= attrs[op.obj].size
  /\ \/ /\ draft' = [draft EXCEPT ![op.obj].rev = @ + 1]
        /\ UNCHANGED <<dev, last>>
        /\ \/ Done /\ Answered /\ UNCHANGED <<caches, known, mounted>>
           \/ Lost({op.obj})
     \/ Refused({})

ReadRequest(i) == Request([kind |-> "read", obj |-> i])

(* The edits of the file are ended before it is read ...                   *)
ReadEndsEdit ==
  /\ At("read", "start") /\ op.obj \in edits
  /\ EndEdit(op.obj)
  /\ op' = IF mounted' THEN op ELSE Idle

FileListing ==
  /\ At("write", "start") \/ (At("read", "start") /\ op.obj \notin edits)
  /\ ListParent(op.obj)

(* ... up to the size of its attributes.                                   *)
Data(i) ==
  [size |-> IF attrs[i].size < dev[i].size THEN attrs[i].size ELSE dev[i].size,
   rev |-> dev[i].rev]

(* Mutant: the edit session stays open.                                    *)
ReadsInSession(i) == At("read", "start") /\ op.obj = i /\ HasAttr(i)

Reads(i) == At("read", "start") /\ op.obj = i /\ i \notin edits /\ HasAttr(i)

Read ==
  /\ Reads(op.obj)
  /\ Answers \/ Refused({})

FileGone ==
  /\ NoAttr(op.obj)
  /\ \/ op.kind = "truncate" /\ Answers
     \/ op.kind = "write" /\ Throws({})
     \/ op.kind = "read" /\ op.obj \notin edits /\ Throws({})

ReleaseRequest(i) == Request([kind |-> "release", obj |-> i])

Release ==
  /\ op.kind = "release"
  /\ IF op.obj \in edits THEN EndEdit(op.obj) /\ Done ELSE Answers

----------------------------------------------------------------------------

Init ==
  /\ load \in Loads
  /\ dev = Stored /\ draft = <<>> /\ last = Cardinality(DOMAIN Stored)
  /\ files = <<>> /\ attrs = <<>> /\ edits = {} /\ dirCache = <<>>
  /\ op = Idle /\ known = <<>> /\ mounted = TRUE
  /\ faults = 0 /\ doubted = {}

(* The file system is mounted again.                                       *)
Mount == /\ ~mounted /\ mounted' = TRUE
         /\ UNCHANGED <<load, device, caches, op, known, faults, doubted>>

(* The device ends an edit session nobody will end, keeping its edits or   *)
(* not.                                                                    *)
DeviceEndsEdit ==
  /\ \E i \in DOMAIN draft \ edits :
       Commit(i) \/ (draft' = Without(draft, {i}) /\ UNCHANGED dev)
  /\ UNCHANGED <<load, last, caches, op, known, mounted, faults, doubted>>

Submit ==
  \/ \E d \in KnownDirs :
       \/ ReadDirRequest(d)
       \/ \E n \in load.names :
            \/ LookupRequest(d, n) \/ UnlinkRequest(d, n)
            \/ CreateRequest(d, n, "create") \/ CreateRequest(d, n, "mkdir")
            \/ \E m \in load.names : RenameRequest(d, n, m)
  \/ \E i \in DOMAIN known : GetAttrRequest(i)
  \/ \E i \in {Top} \cup DOMAIN known : StatFSRequest(i)
  \/ \E i \in KnownFiles :
       \/ OpenRequest(i) \/ ReadRequest(i) \/ ReleaseRequest(i)
       \/ \E s \in 1..MaxSize : WriteRequest(i, s)
       \/ \E s \in 0..MaxSize : TruncateRequest(i, s)

Serve ==
  \/ ListDir \/ Lookup \/ EntryListing \/ GetAttr \/ Open \/ StatFS
  \/ ReadDirListing \/ ReadDirNoAttr \/ ReadDirMiss \/ ReadDirParent
  \/ ReadDirFill \/ ReadDirOrphan \/ ReadDirHit
  \/ CreateObject \/ CreateSend \/ CreateCached \/ CreateListing \/ CreateReply
  \/ NoEntry \/ UnlinkListing \/ NotEmpty \/ Unlink
  \/ RenameTarget \/ RenameObject
  \/ BeginEdit \/ SessionGone \/ Truncate \/ Send
  \/ ReadEndsEdit \/ FileListing \/ Read \/ FileGone \/ Release

Next == Submit \/ Serve \/ Mount \/ DeviceEndsEdit

Spec == Init /\ [][Next]_vars

----------------------------------------------------------------------------
(* Properties *)

PartialFns(D, R) == UNION {[S -> R] : S \in SUBSET D}

(* Every cache holds directories and objects of the handles given so far.  *)
TypeOK ==
  /\ load \in Loads
  /\ last \in 0..MaxObjects
  /\ DOMAIN dev \subseteq 1..last
  /\ \A i \in DOMAIN dev : dev[i] \in [name : Names, parent : 0..last, dir : BOOLEAN,
                                      size : 0..MaxSize, rev : 0..MaxWrites]
  /\ draft \in PartialFns(DOMAIN dev, [size : 0..MaxSize, rev : 0..MaxWrites])
  /\ DOMAIN files \subseteq 0..last
  /\ \A d \in DOMAIN files : files[d] \in PartialFns(Names, 1..last)
  /\ attrs \in PartialFns(1..last, [dir : BOOLEAN, size : 0..MaxSize])
  /\ edits \subseteq 1..last
  /\ DOMAIN dirCache \subseteq DOMAIN files
  /\ \A d \in DOMAIN dirCache : dirCache[d] \in PartialFns(Names, 1..last)
  /\ DOMAIN known \subseteq 1..last
  /\ mounted \in BOOLEAN /\ faults \in 0..load.faults /\ doubted \subseteq 0..last
  /\ ~mounted => op = Idle /\ files = <<>> /\ edits = {}

(* Between requests, the cached listing of a directory names exactly the   *)
(* objects the device has in it, as long as no call on the directory went  *)
(* wrong: each handler that changes a directory (CreateObject, Unlink,     *)
(* Rename) carries the change into _files, after a reconnection too.       *)
Mirror ==
  op = Idle => \A d \in DOMAIN files \ doubted :
    Exists(d) =>
      /\ \A i \in Children(d) : dev[i].name \in DOMAIN files[d] /\ files[d][dev[i].name] = i
      /\ \A n \in DOMAIN files[d] : files[d][n] \in Children(d)

(* A serialised directory shows what its listing shows: whatever changes   *)
(* the one drops the other.                                                *)
DirCacheCurrent ==
  op = Idle => \A d \in DOMAIN dirCache \ doubted :
    Exists(d) => dirCache[d] = files[d]

Trusted(i) == i \notin doubted /\ dev[i].parent \notin doubted

(* A read returns everything that was written and acknowledged before, to  *)
(* the full size: Read ends the open edit session of the file first, and   *)
(* Write and SetAttr keep the cached size, to which Read cuts, up to date. *)
ReadsCurrent ==
  [][\A i \in DOMAIN dev : Read /\ Reads(i) /\ Trusted(i) =>
       /\ Data(i).size = Content(i).size
       /\ Data(i).size > 0 => Data(i).rev = Content(i).rev]_vars

(* rmdir deletes a directory only if the device has nothing in it, unless  *)
(* the listing it was judged by is in doubt: DeleteObject is recursive,    *)
(* and what is deleted along with such a directory is below it.            *)
RmdirOnlyEmpty ==
  [][op.kind = "unlink" =>
       \A i \in DOMAIN dev \ DOMAIN dev' :
         \/ Children(i) = {} \/ i \in doubted
         \/ dev[i].parent \in DOMAIN dev \ DOMAIN dev']_vars

\* What the file system has cached of a directory no fault struck is what is there:
\* the listing is the device's, the serialised directory is the listing (_files and
\* _directoryCache of fuse.cpp).
CachesMirror == TypeOK /\ Mirror /\ DirCacheCurrent
=============================================================================
