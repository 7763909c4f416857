------------------------------ MODULE CliFiles ------------------------------
(***************************************************************************)
(* The commands of aft-mtp-cli that work on files (cli/Session.cpp, on the *)
(* requests of mtp/ptp/Session.cpp): cd, pwd, ls, get, put, mkdir, mkpath, *)
(* rm, rename and storage.                                                 *)
(*                                                                         *)
(* A command is a stack of steps, and an action is the step on top of it:  *)
(* a request to the device and what is done with its answer.  An exception *)
(* drops the steps up to the handler that catches it.  At any step the     *)
(* device can refuse the request, carry it out and lose the answer, or its *)
(* owner can delete an object.  The path of a command is relative to the   *)
(* current directory or absolute; names cross the wire as Wire says.       *)
(***************************************************************************)
EXTENDS Wire, CliText, Functions, FiniteSets, TLC

CONSTANTS
    Devices,      \* devices: [operations, manufacturer, refuses]
    Worlds,       \* what they have at the start: handle -> object
    Local,        \* the files of the computer: path -> [name, dir, readable, size, children]
    Lines,        \* command lines
    Typed,        \* lines in which the tab key is pressed
    Storages,     \* the storages of the device, a sequence of [description, label]
    TransferSize, \* bytes of one bulk transfer
    MaxCommands, MaxObjects, MaxFaults   \* bounds

Root == -1
Device == 0
AllStorages == -1
AnyStorage == 0
Association == 12289
Up == <<46, 46>>
All == <<42>>
Microsoft == <<77, 83>>
Dot == <<46>>

ASSUME WorldsAreTrees ==
    \A w \in Worlds : \A i \in DOMAIN w : w[i].parent = Root \/ w[w[i].parent].dir

VARIABLES
    able, dev, last,   \* what the device supports, its objects, the last handle it gave
    cs, cd,            \* Session::_cs, _cd: storage and directory
    cmd, prog, val,    \* the command, its steps, and the object found last
    failed,            \* it ended with an exception
    out, got,          \* what it printed, and the files it wrote
    clean, before,     \* nothing has gone wrong since it began, and the device then
    gone,              \* history: what the owner has deleted since it began
    issued, faults

device == <<able, dev, last>>
place == <<cs, cd>>
results == <<out, got>>
bounds == <<cmd, issued, before>>
vars == <<device, place, bounds, prog, val, failed, results, clean, gone, faults>>

-----------------------------------------------------------------------------
(* Steps *)

At(step) == prog # <<>> /\ Head(prog).do = step
Step == Head(prog)
Then(steps) == prog' = steps \o Tail(prog) /\ UNCHANGED failed

\* Put(src, dst) alone catches what its steps throw.
Raise ==
    IF \E n \in DOMAIN prog : prog[n].do = "else"
    THEN /\ prog' = SubSeq(prog, CHOOSE k \in DOMAIN prog : prog[k].do = "else", Len(prog))
         /\ UNCHANGED failed
    ELSE prog' = <<>> /\ failed' = TRUE

Well == UNCHANGED <<clean, gone, faults>>
OneFault == faults < MaxFaults /\ faults' = faults + 1 /\ clean' = FALSE
Fault == OneFault /\ UNCHANGED gone

-----------------------------------------------------------------------------
(* The device, and the requests *)

\* Session::Session: from the device's information.
Supports(info, code) == Contains(Field(DeviceInfo, info, "OperationsSupported"), code)
Opened(d) ==
    LET info == StandardDevice(d)
    IN  [propValue |-> Supports(info, 38915), listing |-> Supports(info, 38917),
         propList |-> Supports(info, 38920), rename |-> Supports(info, 38916),
         separate |-> Field(DeviceInfo, info, "Manufacturer") = Microsoft, refuses |-> d.refuses]

Exists(i) == i = Root \/ i \in DOMAIN dev
IsFolder(i) == i = Root \/ (i \in DOMAIN dev /\ dev[i].dir)
Below(i) ==
    LET f[n \in 0 .. MaxObjects] ==
            IF n = 0 THEN {i}
            ELSE LET S == f[n - 1] IN S \cup {j \in DOMAIN dev : dev[j].parent \in S}
    IN  f[MaxObjects]
Without(S) == Restrict(dev, DOMAIN dev \ S)
Children(p) == {i \in DOMAIN dev : dev[i].parent = p}
Shown(i) == cs \in {AllStorages, dev[i].storage}

GetObjectHandles(parent) ==
    Field(ObjectHandles,
          StandardHandles(SetToSortSeq({i \in Children(parent) : Shown(i)}, <)), "ObjectHandles")

InfoOf(i) ==
    StandardInfo([name |-> dev[i].name, storage |-> dev[i].storage, size |-> dev[i].size,
                  format |-> IF dev[i].dir THEN Association ELSE 0,
                  parent |-> IF dev[i].parent = Root THEN Device ELSE dev[i].parent])

\* GetObjectStringProperty, GetObjectIntegerProperty.
FilenameOf(i) ==
    IF able.propValue THEN ReadString(StringOf(dev[i].name), 0)
    ELSE Field(ObjectInfo, InfoOf(i), "Filename")
FormatOf(i) ==
    IF able.propValue THEN Read16(Write16(IF dev[i].dir THEN Association ELSE 0), 0)
    ELSE Field(ObjectInfo, InfoOf(i), "ObjectFormat")
GetObject(i) == dev[i].src
ParentOf(i) ==
    IF able.propValue THEN Read32(Write32(IF dev[i].parent = Root THEN Device ELSE dev[i].parent), 0)
    ELSE Field(ObjectInfo, InfoOf(i), "ParentObject")

\* The name of a new object as the device understands it.
NameSent(name) ==
    IF able.propList THEN NameOf(FilenameProperty(name), 12)
    ELSE LET d == WriteObjectInfo([NewObject EXCEPT !.Filename = name])
         IN  NameOf(d, Offset(StandardObjectInfo, d, 16))

\* CreateDirectory, SendObjectInfo: object o.
StoragesFor(folder) == {AnyStorage} \cup (IF folder = Root THEN DOMAIN Storages ELSE {dev[folder].storage})
UploadStorage == IF cs = AllStorages THEN AnyStorage ELSE cs
StorageFor(folder, asked) ==
    IF asked # AnyStorage THEN asked ELSE IF folder = Root THEN 1 ELSE dev[folder].storage
Taken(folder, storage, name) ==
    able.refuses /\ \E i \in Children(folder) : dev[i].name = name /\ dev[i].storage = storage

Create(name, parent, o) ==
    LET request == Command(IF able.propList THEN 38920 ELSE 4108, 1, <<UploadStorage, parent>>)
        asked == Parameter(request, 1)
        folder == Parameter(request, 2)
        new == [name |-> NameSent(name), parent |-> folder, storage |-> StorageFor(folder, asked)] @@ o
    IN  /\ IsFolder(folder) /\ last < MaxObjects
        /\ asked \in StoragesFor(folder)
        /\ ~Taken(folder, new.storage, new.name)
        /\ last' = last + 1
        /\ dev' = (last + 1 :> new) @@ dev
        /\ UNCHANGED able

CannotCreate(name, parent) ==
    \/ ~IsFolder(parent) \/ last = MaxObjects
    \/ /\ IsFolder(parent)
       /\ \/ UploadStorage \notin StoragesFor(parent)
          \/ Taken(parent, StorageFor(parent, UploadStorage), NameSent(name))

NewFolder == [dir |-> TRUE, size |-> 0, src |-> "none", whole |-> TRUE]
NewFile(src) == [dir |-> FALSE, size |-> 0, src |-> src, whole |-> FALSE]

\* What a command may do to prog and its results while the device only answers.
Reads == UNCHANGED <<device, place, bounds>>
Refused == Fault /\ Raise /\ UNCHANGED <<device, place, bounds, val, results>>
Missing == Well /\ Raise /\ UNCHANGED <<device, place, bounds, val, results>>

-----------------------------------------------------------------------------
(* ProcessCommand: the command of that name and number of arguments *)

\* The commands modelled, in the order they are added, and their arguments.
Commands ==
    LET command(name, text, kinds) == [name |-> name, text |-> text, kinds |-> kinds]
        ls == <<108, 115>>
        put == <<112, 117, 116>>
    IN  <<command("ls", ls, <<>>), command("ls", ls, <<"path">>),
          command("put", put, <<"local", "path">>), command("put", put, <<"local">>),
          command("get", <<103, 101, 116>>, <<"path">>), command("cd", <<99, 100>>, <<"path">>),
          command("storage", <<115, 116, 111, 114, 97, 103, 101>>, <<"storage">>),
          command("pwd", <<112, 119, 100>>, <<>>), command("rm", <<114, 109>>, <<"path">>),
          command("rm-id", <<114, 109, 45, 105, 100>>, <<"u32">>),
          command("mkdir", <<109, 107, 100, 105, 114>>, <<"path">>),
          command("mkpath", <<109, 107, 112, 97, 116, 104>>, <<"path">>),
          command("rename", <<114, 101, 110, 97, 109, 101>>, <<"path", "string">>)>>

Resolve(path, create) ==
    <<[do |-> "start", abs |-> path.abs], [do |-> "resolve", parts |-> path.parts, create |-> create]>>
\* Everything before the last slash; a path without one is in the current directory.
ResolvePath(path) ==
    IF Len(path.parts) = 1 THEN <<[do |-> "start", abs |-> FALSE]>>
    ELSE Resolve([path EXCEPT !.parts = Front(@)], FALSE)
Here == [abs |-> FALSE, parts |-> <<>>]
PutStep(src, target, at) == [do |-> "put", src |-> src, target |-> target, at |-> at]

Program(name, args) ==
    CASE name = "cd" -> Resolve(args[1], FALSE) \o <<[do |-> "cd"]>>
      [] name = "pwd" -> <<[do |-> "pwd", id |-> cd, path |-> <<>>]>>
      [] name = "ls" -> Resolve(IF args = <<>> THEN Here ELSE args[1], FALSE) \o <<[do |-> "list"]>>
      [] name = "get" -> Resolve(args[1], FALSE) \o <<[do |-> "getinfo", dir |-> <<>>, id |-> Device]>>
      [] name = "put" ->
            IF Len(args) = 1 THEN Resolve(Here, FALSE) \o <<PutStep(args[1], <<>>, Device)>>
            ELSE (IF Local[args[1]].dir THEN <<>>
                  ELSE ResolvePath(args[2])
                       \o <<[do |-> "probe", src |-> args[1], name |-> Last(args[2].parts)]>>)
                 \o <<[do |-> "else", src |-> args[1], path |-> args[2], target |-> <<>>]>>
      [] name = "mkdir" -> ResolvePath(args[1]) \o <<[do |-> "mkdir", name |-> Last(args[1].parts)]>>
      [] name = "mkpath" -> Resolve(args[1], TRUE)
      [] name = "rm-id" -> <<[do |-> "id", id |-> Convert(args[1])], [do |-> "delete"]>>
      [] name = "rm" -> Resolve(args[1], FALSE) \o <<[do |-> "delete"]>>
      [] name = "rename" -> Resolve(args[1], FALSE) \o <<[do |-> "rename", name |-> args[2]]>>
      [] name = "storage" -> <<[do |-> "storage", path |-> args[1]]>>

Execute(line) ==
    IF \E n \in DOMAIN Commands :
          Commands[n].name = line.name /\ Len(Commands[n].kinds) = Len(line.args)
    THEN prog' = Program(line.name, line.args) /\ failed' = FALSE
    ELSE prog' = <<>> /\ failed' = TRUE

Begin(line) ==
    /\ prog = <<>> /\ issued < MaxCommands
    /\ cmd' = line /\ issued' = issued + 1 /\ before' = dev
    /\ got' = <<>> /\ clean' = TRUE /\ gone' = {} /\ val' = Root
    /\ UNCHANGED <<device, place, faults>>

\* A turn of the prompt, or an argument of the process.  At the prompt an
\* exception is printed, and the next line is read.
ProcessCommand(line) == Begin(line) /\ Execute(line) /\ out' = {}

\* The storage a session begins in.
SetFirstStorage == 1

\* Outside the prompt the process ends with a command that fails; another one
\* begins at the root of the first storage.
NewProcess ==
    /\ prog = <<>> /\ place # <<SetFirstStorage, Root>>
    /\ cd' = Root /\ cs' = SetFirstStorage /\ failed' = TRUE /\ before' = dev
    /\ UNCHANGED <<device, cmd, issued, prog, val, results, clean, gone, faults>>

-----------------------------------------------------------------------------
(* Paths *)

Start ==
    /\ At("start")
    /\ val' = IF Step.abs THEN Root ELSE cd
    /\ Then(<<>>) /\ Well /\ Reads /\ UNCHANGED results

\* Mutant: a name that begins so will do.
ChildrenNamedLoosely(parent, name) ==
    SelectSeq(GetObjectHandles(parent), LAMBDA i : BeginsWith(FilenameOf(i), name))

\* ResolveObjectChild: the first object of that name.
ChildrenNamed(parent, name) ==
    SelectSeq(GetObjectHandles(parent), LAMBDA i : FilenameOf(i) = name)
HasChild(parent, name) == Exists(parent) /\ ChildrenNamed(parent, name) # <<>>
Child(parent, name) == ChildrenNamed(parent, name)[1]

ResolveStep == At("resolve") /\ Step.parts # <<>>
Entity == Head(Step.parts)
RestOfPath == [Step EXCEPT !.parts = Tail(@)]

Resolved ==
    /\ At("resolve") /\ Step.parts = <<>>
    /\ Then(<<>>) /\ Well /\ Reads /\ UNCHANGED <<val, results>>

ResolveDot ==
    /\ ResolveStep /\ Entity = Dot
    /\ Then(<<RestOfPath>>) /\ Well /\ Reads /\ UNCHANGED <<val, results>>

\* Mutant: the parent of what is in the root is taken for an object.
UpFromRaw(i) == ParentOf(i)

UpFrom(i) == IF ParentOf(i) = Device THEN Root ELSE ParentOf(i)

ResolveUp ==
    /\ ResolveStep /\ Entity = Up
    /\ \/ /\ val \in DOMAIN dev
          /\ val' = UpFrom(val)
          /\ Then(<<RestOfPath>>) /\ Well /\ Reads /\ UNCHANGED results
       \/ Refused
       \/ val \notin DOMAIN dev /\ Missing

ResolveChild ==
    /\ ResolveStep /\ Entity \notin {Dot, Up}
    /\ IF HasChild(val, Entity)
       THEN /\ val' = Child(val, Entity)
            /\ Then(<<RestOfPath>>) /\ Well
       ELSE /\ UNCHANGED val /\ Well
            /\ IF Step.create THEN Then(<<[do |-> "mkdir", name |-> Entity], RestOfPath>>) ELSE Raise
    /\ Reads /\ UNCHANGED results

\* With create, any exception of the lookup is taken for "not there".
ResolveFails ==
    /\ ResolveStep /\ Entity \notin {Dot, Up}
    /\ Fault
    /\ IF Step.create THEN Then(<<[do |-> "mkdir", name |-> Entity], RestOfPath>>) ELSE Raise
    /\ Reads /\ UNCHANGED <<val, results>>

\* MakeDirectory: in the current directory, whatever the parent.
MakeDirectory ==
    /\ At("mkdir")
    /\ \/ /\ Create(Step.name, cd, NewFolder)
          /\ \/ val' = last' /\ Then(<<>>) /\ Well
             \/ UNCHANGED val /\ Raise /\ Fault
          /\ UNCHANGED <<place, bounds, results>>
       \/ Refused
       \/ CannotCreate(Step.name, cd) /\ Missing

ChangeDirectory ==
    /\ At("cd")
    /\ cd' = val /\ Then(<<>>) /\ Well
    /\ UNCHANGED <<device, cs, bounds, val, results>>

\* GetStorageByPath: the first storage of that number, description or label.
CalledBy(id) ==
    LET d == StandardStorage(Storages[id])
    IN  {<<48 + id>>, Field(StorageInfo, d, "StorageDescription"), Field(StorageInfo, d, "VolumeLabel")}
StorageByPath(path) ==
    LET ids == {id \in DOMAIN Storages : path \in CalledBy(id)}
    IN  {id \in ids : \A other \in ids : id <= other}

ChangeStorage ==
    /\ At("storage")
    /\ \/ /\ IF Step.path = All THEN cs' = AllStorages ELSE cs' \in StorageByPath(Step.path)
          /\ Then(<<>>) /\ Well /\ UNCHANGED <<device, cd, bounds, val, results>>
       \/ Refused
       \/ Step.path # All /\ StorageByPath(Step.path) = {} /\ Missing

PathWith(name, path) == <<name>> \o path

CurrentDirectory ==
    /\ At("pwd")
    /\ \/ /\ Step.id \in {Device, Root}
          /\ out' = {Step.path} /\ UNCHANGED got
          /\ Then(<<>>) /\ Well
       \/ /\ Step.id \in DOMAIN dev
          /\ Then(<<[do |-> "pwd", id |-> ParentOf(Step.id),
                     path |-> PathWith(FilenameOf(Step.id), Step.path)]>>)
          /\ Well /\ UNCHANGED results
    /\ Reads /\ UNCHANGED val

CurrentDirectoryFails ==
    /\ At("pwd") /\ Step.id \notin {Device, Root}
    /\ Refused \/ (Step.id \notin DOMAIN dev /\ Missing)

\* One request for all names if it can be had for all storages; else the objects
\* one by one, and one that cannot be read is left out.
ByPropertyList == able.listing /\ cs = AllStorages
Names(S) == {FilenameOf(i) : i \in S}
List ==
    /\ At("list")
    /\ LET handles == GetObjectHandles(val)
           listed == NameList(SetToSortSeq(Children(val), <), [i \in Children(val) |-> dev[i].name])
       IN  \/ /\ Exists(val)
              /\ out' = IF ByPropertyList THEN {e.name : e \in Range(ParseNames(listed))}
                        ELSE Names(Range(handles))
              /\ Then(<<>>) /\ Well
           \/ /\ Exists(val) /\ ~ByPropertyList
              /\ \E i \in Range(handles) : out' = Names(Range(handles) \ {i})
              /\ Then(<<>>) /\ Fault
    /\ Reads /\ UNCHANGED <<val, got>>

ListFails == At("list") /\ (Refused \/ (~Exists(val) /\ Missing))

-----------------------------------------------------------------------------
(* The tab key *)

\* The kind of the argument that is completed: that of the first command of the
\* name with so many arguments.
Argument(tokens) ==
    LET n == Len(tokens) - 1
        can == SelectSeq(Commands, LAMBDA c : c.text = tokens[1] /\ Len(c.kinds) >= n)
    IN  IF can = <<>> THEN "none" ELSE Head(can).kinds[n]

CompleteCommand(tokens) ==
    {Commands[n].text : n \in {k \in DOMAIN Commands :
                                  tokens = <<>> \/ BeginsWith(Commands[k].text, Last(tokens))}}

Completer(kind, word) ==
    CASE kind = "path" ->
            (IF Contains(word, Slash) THEN Resolve(ToPath(GetDirname(word)), FALSE)
             ELSE <<[do |-> "start", abs |-> FALSE]>>)
            \o <<[do |-> "complete", dir |-> GetDirname(word), prefix |-> GetFilename(word)]>>
      [] kind = "storage" -> <<[do |-> "completestorage", prefix |-> word]>>
      [] OTHER -> <<>>

CompletionCallback(text) ==
    /\ Begin([name |-> "tab", args |-> <<text>>])
    /\ LET tokens == Tokens(text)
       IN  IF Len(tokens) < 2
           THEN out' = CompleteCommand(tokens) /\ prog' = <<>>
           ELSE out' = {} /\ prog' = Completer(Argument(tokens), Word(text))
    /\ failed' = FALSE

\* An exception is printed, and nothing offered.
NothingOffered == Refused \/ (~Exists(val) /\ Missing)

\* What is offered for an object.
Offer(i, dir) ==
    EscapePath((IF dir = <<>> THEN <<>> ELSE Append(dir, Slash)) \o FilenameOf(i)
               \o (IF FormatOf(i) = Association THEN <<Slash>> ELSE <<>>))

CompletePath ==
    /\ At("complete")
    /\ \/ /\ Exists(val)
          /\ out' = {Offer(i, Step.dir) : i \in {j \in Range(GetObjectHandles(val)) :
                                                   BeginsWith(FilenameOf(j), Step.prefix)}}
          /\ Then(<<>>) /\ Well /\ Reads /\ UNCHANGED <<val, got>>
       \/ NothingOffered

CompleteStoragePath ==
    /\ At("completestorage")
    /\ \/ /\ out' = {EscapePath(name) : name \in {c \in UNION {CalledBy(id) : id \in DOMAIN Storages} :
                                                      BeginsWith(c, Step.prefix)}}
          /\ Then(<<>>) /\ Well /\ Reads /\ UNCHANGED <<val, got>>
       \/ NothingOffered

-----------------------------------------------------------------------------
(* get *)

GetInfo ==
    /\ At("getinfo")
    /\ LET id == IF Step.id = Device THEN val ELSE Step.id
       IN  \/ /\ id \in DOMAIN dev
              /\ Then(<<[do |-> "get", id |-> id,
                         to |-> Append(Step.dir, Field(ObjectInfo, InfoOf(id), "Filename"))]>>)
              /\ Well /\ Reads /\ UNCHANGED <<val, results>>
           \/ Refused
           \/ id \notin DOMAIN dev /\ Missing

GetFails == At("get") /\ (Refused \/ (Step.id \notin DOMAIN dev /\ Missing))

\* Mutant: the files of a folder are written beside it.
ChildPathBeside(to) == Front(to)

ChildPath(to) == to

GetFolder ==
    /\ At("get") /\ Step.id \in DOMAIN dev /\ FormatOf(Step.id) = Association
    /\ got' = (Step.to :> "folder") @@ got
    /\ LET handles == GetObjectHandles(Step.id)
       IN  \/ /\ Then([n \in DOMAIN handles |->
                        [do |-> "getinfo", dir |-> ChildPath(Step.to), id |-> handles[n]]])
              /\ Well
           \/ Raise /\ Fault
    /\ Reads /\ UNCHANGED <<val, out>>

\* The file is there before its first byte.
GetFile ==
    /\ At("get") /\ Step.id \in DOMAIN dev /\ FormatOf(Step.id) # Association
    /\ \/ got' = (Step.to :> GetObject(Step.id)) @@ got /\ Then(<<>>) /\ Well
       \/ got' = (Step.to :> "part") @@ got /\ Raise /\ Fault
    /\ Reads /\ UNCHANGED <<val, out>>

-----------------------------------------------------------------------------
(* put *)

Parent == IF Step.at = Device THEN val ELSE Step.at
PutFrames(src, target, at) ==
    LET name == IF target = <<>> THEN Local[src].name ELSE target
    IN  <<[do |-> "replace", at |-> at, name |-> name], [do |-> "open", src |-> src],
          [do |-> "info", at |-> at, name |-> name, src |-> src], [do |-> "send", src |-> src]>>

PutFile ==
    /\ At("put") /\ ~Local[Step.src].dir
    /\ Then(PutFrames(Step.src, Step.target, Parent))
    /\ Well /\ Reads /\ UNCHANGED <<val, results>>

\* A file that is in the way of a folder is deleted, and the exception about it
\* caught at once.
PutDirectory ==
    /\ At("put") /\ Local[Step.src].dir
    /\ LET name == Local[Step.src].name
           fill == [do |-> "fill", src |-> Step.src]
           make == <<[do |-> "mkdir", name |-> name], fill>>
       IN  \/ /\ HasChild(Parent, name)
              /\ LET c == Child(Parent, name)
                 IN  IF FormatOf(c) = Association
                     THEN val' = c /\ Then(<<fill>>) /\ UNCHANGED device /\ Well
                     ELSE /\ dev' = Without(Below(c)) /\ UNCHANGED <<able, last>>
                          /\ Then(make) /\ UNCHANGED val
                          /\ (Well \/ Fault)
           \/ ~HasChild(Parent, name) /\ Then(make) /\ Well /\ UNCHANGED <<device, val>>
           \/ Then(make) /\ Fault /\ UNCHANGED <<device, val>>
    /\ UNCHANGED <<place, bounds, results>>

\* A folder that cannot be listed is an empty one.
FillDirectory ==
    /\ At("fill")
    /\ LET files == IF Local[Step.src].readable THEN Local[Step.src].children ELSE <<>>
       IN  Then([n \in DOMAIN files |-> PutStep(files[n], <<>>, val)])
    /\ Well /\ Reads /\ UNCHANGED <<val, results>>

\* Mutant: the object to replace is looked for in the current directory.
InTheWayHere(at, name) == IF HasChild(cd, name) THEN {Child(cd, name)} ELSE {}
InTheWay(at, name) == IF HasChild(at, name) THEN {Child(at, name)} ELSE {}

\* Whatever has the name is deleted; an exception means there is nothing.
Replace ==
    /\ At("replace") /\ Then(<<>>)
    /\ \/ dev' = Without(UNION {Below(i) : i \in InTheWay(Step.at, Step.name)}) /\ (Well \/ Fault)
       \/ UNCHANGED dev /\ Fault
    /\ UNCHANGED <<able, last, place, bounds, val, results>>

\* What was in the way is gone by now.
OpenLocal ==
    /\ At("open")
    /\ IF Local[Step.src].readable THEN Then(<<>>) ELSE Raise
    /\ Well /\ Reads /\ UNCHANGED <<val, results>>

SendObjectInfo ==
    /\ At("info")
    /\ \/ /\ Create(Step.name, Step.at, NewFile(Step.src))
          /\ \/ val' = last' /\ Then(<<>>) /\ Well
             \/ UNCHANGED val /\ Raise /\ Fault
          /\ UNCHANGED <<place, bounds, results>>
       \/ Refused
       \/ CannotCreate(Step.name, Step.at) /\ Missing

\* The data phase is a header and the file, in one write or in two.
BytesSent(length) ==
    IF able.separate
    THEN Transferred(HeaderSize, 0, TransferSize) + Transferred(0, length, TransferSize) - HeaderSize
    ELSE Transferred(HeaderSize, length, TransferSize) - HeaderSize
SendObject ==
    /\ At("send")
    /\ \/ /\ val \in DOMAIN dev
          /\ dev' = [dev EXCEPT ![val] = [@ EXCEPT
                            !.size = BytesSent(Local[Step.src].size), !.whole = TRUE]]
          /\ (Then(<<>>) /\ Well) \/ (Raise /\ Fault)
          /\ UNCHANGED <<able, last, place, bounds, val, results>>
       \/ Refused
       \/ val \notin DOMAIN dev /\ Missing

\* Put(src, dst): dst is the name of a file unless it is that of a folder.
PutProbe ==
    /\ At("probe")
    /\ LET file == <<PutStep(Step.src, Step.name, val), [do |-> "leave"]>>
           to(name) == SubSeq(prog, 2, Len(prog) - 1) \o <<[Last(prog) EXCEPT !.target = name]>>
           folder == HasChild(val, Step.name) /\ FormatOf(Child(val, Step.name)) = Association
       IN  \/ folder /\ prog' = to(<<>>) /\ Well
           \/ ~folder /\ prog' = file \o to(Step.name) /\ Well
           \/ prog' = file \o to(Step.name) /\ Fault
    /\ Reads /\ UNCHANGED <<val, failed, results>>

PutDone ==
    /\ At("leave") /\ prog' = <<>>
    /\ Well /\ Reads /\ UNCHANGED <<val, failed, results>>

\* What the first attempt threw is forgotten.
PutElse ==
    /\ At("else")
    /\ Then(Resolve(Step.path, TRUE) \o <<PutStep(Step.src, Step.target, Device)>>)
    /\ Well /\ Reads /\ UNCHANGED <<val, results>>

-----------------------------------------------------------------------------
(* rm, rename *)

ById ==
    /\ At("id") /\ val' = Step.id /\ Then(<<>>)
    /\ Well /\ Reads /\ UNCHANGED results

\* Root is all objects.
Delete ==
    /\ At("delete")
    /\ \/ /\ Exists(val)
          /\ dev' = Without(Below(val))
          /\ (Then(<<>>) /\ Well) \/ (Raise /\ Fault)
          /\ UNCHANGED <<able, last, place, bounds, val, results>>
       \/ Refused
       \/ ~Exists(val) /\ Missing

\* The property carries the name as a string of its own.
Rename ==
    /\ At("rename")
    /\ LET name == NameOf(WriteString(Step.name), 0)
           taken == /\ val \in DOMAIN dev /\ dev[val].name # name
                    /\ Taken(dev[val].parent, dev[val].storage, name)
           can == able.rename /\ val \in DOMAIN dev /\ ~taken
       IN  \/ /\ can
              /\ dev' = [dev EXCEPT ![val].name = name]
              /\ (Then(<<>>) /\ Well) \/ (Raise /\ Fault)
              /\ UNCHANGED <<able, last, place, bounds, val, results>>
           \/ Refused
           \/ ~can /\ Missing

\* The owner of the device deletes an object on it.
OwnerDeletes(i) ==
    /\ prog # <<>> /\ OneFault
    /\ dev' = Without(Below(i)) /\ gone' = gone \cup Below(i)
    /\ UNCHANGED <<able, last, place, bounds, prog, val, failed, results>>

-----------------------------------------------------------------------------
Init ==
    /\ able \in {Opened(d) : d \in Devices} /\ dev \in Worlds
    /\ last = Cardinality(DOMAIN dev) /\ before = dev
    /\ cs = SetFirstStorage /\ cd = Root
    /\ cmd = [name |-> "pwd", args |-> <<>>] /\ prog = <<>> /\ val = Root
    /\ failed = TRUE /\ out = {} /\ got = <<>> /\ clean = TRUE /\ gone = {}
    /\ issued = 0 /\ faults = 0

Next ==
    \/ \E line \in Lines : ProcessCommand(line)
    \/ \E text \in Typed : CompletionCallback(text)
    \/ NewProcess
    \/ Start \/ Resolved \/ ResolveDot \/ ResolveUp \/ ResolveChild \/ ResolveFails
    \/ MakeDirectory \/ ChangeDirectory \/ ChangeStorage
    \/ CurrentDirectory \/ CurrentDirectoryFails \/ List \/ ListFails
    \/ GetInfo \/ GetFails \/ GetFolder \/ GetFile
    \/ PutFile \/ PutDirectory \/ FillDirectory \/ Replace \/ OpenLocal \/ SendObjectInfo \/ SendObject
    \/ PutProbe \/ PutDone \/ PutElse
    \/ CompletePath \/ CompleteStoragePath
    \/ ById \/ Delete \/ Rename
    \/ \E i \in DOMAIN dev : OwnerDeletes(i)

Spec == Init /\ [][Next]_vars

-----------------------------------------------------------------------------
(* Properties *)

Printed(units) == FlattenSeq([n \in DOMAIN units |-> Utf8(units[n])])

\* The objects a path means, on a device with these objects.
Meant(objects, path) ==
    LET f[n \in 0 .. Len(path.parts)] ==
            IF n = 0 THEN {IF path.abs THEN Root ELSE cd} \cap ({Root} \cup DOMAIN objects)
            ELSE LET S == f[n - 1]
                     part == path.parts[n]
                 IN  CASE part = Dot -> S
                       [] part = Up -> {objects[i].parent : i \in S \ {Root}}
                       [] OTHER -> {i \in DOMAIN objects :
                                       objects[i].parent \in S /\ Printed(objects[i].name) = part}
    IN  f[Len(path.parts)]

Ended(name) == prog = <<>> /\ ~failed /\ clean /\ cmd.name = name
Seen(objects, S) == {i \in S : cs \in {AllStorages, objects[i].storage}}
Visible == Restrict(before, Seen(before, DOMAIN before))
Folders(S) == {i \in S : i = Root \/ before[i].dir}

\* Where a put of one file must put it: folder and name.  Where a file and a folder
\* share the name, either may be the one that is meant.
Destination == cmd.args[2]
Aim ==
    LET src == Local[cmd.args[1]]
    IN  IF Len(cmd.args) = 1 THEN {cd} \X {src.name}
        ELSE LET meant == Meant(Visible, Destination)
                 above == [Destination EXCEPT !.parts = Front(@)]
             IN  (Folders(meant) \X {src.name})
                 \cup IF meant # {} /\ meant = Folders(meant) THEN {}
                      ELSE Folders(Meant(Visible, above)) \X {Last(Destination.parts)}

\* Two objects that can be seen in one folder have the same name.
Ambiguous ==
    \E i, j \in DOMAIN Visible :
        i # j /\ before[i].parent = before[j].parent /\ before[i].name = before[j].name

\* The names it may take once a request has failed: those of the file and of the
\* path, in the folder that is meant and in the one it is in.
Strays ==
    IF Len(cmd.args) = 1 THEN {}
    ELSE LET above == [Destination EXCEPT !.parts = Front(@)]
         IN  Folders(Meant(Visible, Destination) \cup Meant(Visible, above))
             \X {Local[cmd.args[1]].name, Last(Destination.parts)}

PutEnds == prog = <<>> /\ cmd.name = "put" /\ issued > 0
FilePut == PutEnds /\ ~Local[cmd.args[1]].dir
PutOfFile == Ended("put") /\ ~Local[cmd.args[1]].dir
NamedIn(objects, aim) ==
    {i \in Seen(objects, DOMAIN objects) : objects[i].parent = aim[1] /\ Printed(objects[i].name) = aim[2]}

TypeOK ==
    /\ last \in 0 .. MaxObjects
    /\ DOMAIN dev \subseteq 1 .. last
    /\ \A i \in DOMAIN dev : IsFolder(dev[i].parent)
    /\ cs \in DOMAIN Storages \cup {AllStorages} /\ cd \in {Root} \cup 1 .. last
    /\ val \in {Root, Device} \cup 1 .. last
    /\ {failed, clean} \subseteq BOOLEAN
    /\ issued \in 0 .. MaxCommands /\ faults \in 0 .. MaxFaults

\* The object of that folder and name is the whole file, every byte of it counted.  A
\* name with a character of four bytes arrives with question marks in its place.
Arrived(src, aim) ==
    \E i \in Seen(dev, DOMAIN dev) :
        LET name == Printed(dev[i].name)
        IN  /\ dev[i].parent = aim[1] /\ dev[i].src = src
            /\ dev[i].whole /\ dev[i].size = Local[src].size
            /\ IF Max(Range(aim[2])) < 240 THEN name = aim[2] ELSE 63 \in Range(name)

\* A put that reports success has put the whole file where the path says, whatever
\* the size of the last transfer and the script of the name.  A path that leads
\* nowhere or to two objects, or a request that failed, is covered up by the second
\* attempt, whose new folders all appear in the current directory (Put(src, dst),
\* MakeDirectory): then the file need only be in a folder of the path's last name, or
\* where it might have been.
FileLands ==
    FilePut /\ ~failed /\ gone = {} =>
        \/ \E aim \in Aim : Arrived(cmd.args[1], aim)
        \/ /\ Len(cmd.args) = 2 /\ (~clean \/ Aim = {} \/ Ambiguous)
           /\ LET there == {i \in DOMAIN dev : dev[i].dir /\ Printed(dev[i].name) = Last(Destination.parts)}
                  names == {Local[cmd.args[1]].name, Last(Destination.parts)}
              IN  \E aim \in Strays \cup (there \X names) : Arrived(cmd.args[1], aim)

\* A put of a folder that reports success has put each file of it, whole, into one
\* folder of its name, wherever that is, whatever request failed: unless the folder
\* cannot be listed (Put, opendir).
FolderLands ==
    PutEnds /\ Local[cmd.args[1]].dir /\ ~failed /\ gone = {} =>
        LET src == Local[cmd.args[1]]
        IN  \E i \in DOMAIN dev :
               /\ dev[i].dir /\ Printed(dev[i].name) = src.name
               /\ src.readable => \A file \in Range(src.children) : Arrived(file, <<i, Local[file].name>>)

\* Putting a file again replaces it: a put that reports success, and met no failure on
\* the way, never leaves more objects of the name than there were, beyond the one it
\* makes (Session::Put looks the name up as the device returns it).  A name that did not
\* arrive as it was is not found again.
PutOnce ==
    PutOfFile =>
        \A aim \in Aim :
            Cardinality(NamedIn(dev, aim)) <= (IF Cardinality(NamedIn(before, aim)) > 1
                                               THEN Cardinality(NamedIn(before, aim)) ELSE 1)

\* However a put of a file ends, with its second attempt or without, it has deleted only
\* what had the name of the new file, and what was in it: also when the file cannot be
\* opened after the deletion.  Once a request has failed that may be the folder the path
\* means, which is then taken for a file (Put(src, dst), Session::Put).
PutKeeps ==
    FilePut =>
        \A i \in DOMAIN before \ (DOMAIN dev \cup gone) :
            LET above[n \in 0 .. MaxObjects] ==
                    IF n = 0 THEN {i}
                    ELSE LET S == above[n - 1] IN S \cup {before[j].parent : j \in S \ {Root}}
            IN  \E aim \in Aim \cup (IF clean THEN {} ELSE Strays) :
                    above[MaxObjects] \cap NamedIn(before, aim) # {}

\* A get that reports success has written a file or folder for every object below
\* the one it names, at the path it has on the device, and nothing else; with
\* two of one name, the content is that of one of them (Session::Get).
GetMirrors ==
    Ended("get") =>
        LET top == val
            path[i \in DOMAIN dev, n \in 0 .. MaxObjects] ==
                IF i = top \/ n = 0 THEN <<Printed(dev[i].name)>>
                ELSE Append(path[dev[i].parent, n - 1], Printed(dev[i].name))
            reached[n \in 0 .. MaxObjects] ==
                IF n = 0 THEN {top}
                ELSE LET S == reached[n - 1]
                     IN  S \cup Seen(dev, {i \in DOMAIN dev : dev[i].parent \in S})
            below == reached[MaxObjects]
        IN  /\ DOMAIN got = {path[i, MaxObjects] : i \in below}
            /\ \A p \in DOMAIN got : \E i \in below :
                  path[i, MaxObjects] = p /\ got[p] = (IF dev[i].dir THEN "folder" ELSE dev[i].src)

\* ls prints the names of what is in the folder, as they were given, by whichever
\* request the device supports (Session::List).
LsTruth ==
    Ended("ls") =>
        out = {Printed(dev[i].name) : i \in Seen(dev, {j \in DOMAIN dev : dev[j].parent = val})}

\* The path pwd prints leads back to the current directory, as long as no storage is
\* selected that hides it (CurrentDirectory).
PwdResolves ==
    Ended("pwd") => \A path \in out : cd \in Meant(dev, [abs |-> TRUE, parts |-> path])

\* What the tab key offers for a path is what the path can go on as: each offer,
\* put into the line, is one argument that leads to a visible object, and every
\* object of the folder with such a name is offered; what it offers for a storage
\* selects one (Session::CompletePath, CompleteStoragePath, EscapePath).  This holds
\* where the word that readline completes is the last argument: it is not after a
\* space, after an escaped space or behind a space in quotes, and then the offers are
\* for something else.  Nor does it hold of an offer in quotes where the line has an
\* open quote already, which it closes: EscapePath does not look at the line.
TabNames ==
    Ended("tab") =>
        LET text == cmd.args[1]
            word == Word(text)
            tokens == Tokens(text)
            with(offer) == Tokens(SubSeq(text, 1, Len(text) - Len(word)) \o offer)
            folder == IF Contains(word, Slash) THEN ToPath(GetDirname(word)) ELSE Here
            quoted == Contains(text, Quote)
            fit == {i \in DOMAIN Visible :
                       /\ before[i].parent \in Meant(Visible, folder)
                       /\ BeginsWith(Printed(before[i].name), GetFilename(word))
                       /\ quoted => ~Contains(before[i].name, Space)}
            offers == {offer \in out : quoted => ~Contains(offer, Quote)}
        IN  Len(tokens) > 1 /\ Last(tokens) = word =>
                /\ \A offer \in offers : Len(with(offer)) = Len(tokens)
                /\ Argument(tokens) = "storage" =>
                        \A offer \in offers : StorageByPath(Last(with(offer))) # {}
                /\ Argument(tokens) = "path" =>
                        UNION {Meant(Visible, ToPath(Last(with(offer)))) : offer \in offers} = fit

\* Whatever the name of a file or of a playlist, the line that jellyfin-sync makes of
\* it is read by aft-mtp-cli as the command and that one name (quote in
\* jellyfin_sync/device.py, Tokenizer).  It says nothing of the device: the initial
\* states are enough.
QuotedWhole == issued = 0 =>
    \A name \in UNION {[1 .. n -> {97, 110, Space, Quote, Backslash, Slash}] : n \in 1 .. 4} :
        Tokens(<<122, Space>> \o QuoteFor(name)) = <<<<122>>, name>>

\* A deletion that reports success has deleted the object it was given, by path or
\* by id, with all that was in it, and nothing else (Session::Delete).
DeletesThat ==
    (Ended("rm") \/ Ended("rm-id")) =>
        LET top == IF cmd.name = "rm" THEN Meant(Visible, cmd.args[1])
                   ELSE {i \in DOMAIN before : cmd.args[1] = <<48 + i>>}
            tree[n \in 0 .. MaxObjects, i \in top] ==
                IF n = 0 THEN {i}
                ELSE LET S == tree[n - 1, i] IN S \cup {j \in DOMAIN before : before[j].parent \in S}
        IN  \E i \in top : DOMAIN before \ DOMAIN dev = tree[MaxObjects, i] \ {Root}

\* What a put says it has sent has arrived.
PutLands == FileLands /\ FolderLands

\* A put takes the place of what had its name, and of nothing else.
PutReplaces == PutOnce /\ PutKeeps

\* What get, ls and pwd say of the device is so.
ReadsTrue == GetMirrors /\ LsTruth /\ PwdResolves

\* Names come through the command line as they are: those the tab key offers outside
\* quotes, and those jellyfin-sync quotes.
NamesSurvive == TabNames /\ QuotedWhole
=============================================================================
