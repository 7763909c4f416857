----------------------------- MODULE DeviceOpen -----------------------------
(***************************************************************************)
(* How a player is found and opened: the scan of the bus                   *)
(* (backend/linux/usb/Context.cpp), Device::Open and FindFirst             *)
(* (mtp/ptp/Device.cpp), their three callers - aft-mtp-cli, its            *)
(* --device-list (cli/cli.cpp) and the device dialog of the Qt application *)
(* (qt/devicesdialog.cpp) - and the search for the processes that keep a   *)
(* device busy (mtp/usb/DeviceBusyException.cpp).                          *)
(*                                                                         *)
(* External: the kernel, which lets one process at a time hold an          *)
(* interface, other processes, which open and close devices as they like,  *)
(* and the owner who unplugs a device.                                     *)
(***************************************************************************)
EXTENDS Integers, Sequences, SequencesExt, FiniteSets

CONSTANTS Bus,         \* the devices, in the order in which sysfs lists them
          Worlds,      \* what the devices are: see World
          Processes,   \* other processes
          NoDevice,
          MaxFaults    \* bound: failed requests, unplugged devices, lost races

Devs == Range(Bus)
Nobody == "nobody"

\* What a probe finds of an interface.
Kinds == {"mtp",      \* its name, or the compatible id of the device, says MTP
          "ptp",      \* another name, class 6, subclass 1
          "other",
          "unnamed",  \* no language table or no name: not looked at any further
          "broken"}   \* says MTP but lacks an endpoint

World == [ifaces : [Devs -> Seq(Kinds)],   \* the interfaces of each device
          vendor : [Devs -> BOOLEAN],      \* does -d vendor:product name it?
          info : [Devs -> BOOLEAN],        \* does -d name match its DeviceInfo?
          claims : [Devs -> {Nobody} \cup Processes],  \* who has claimed it at first
          opens : [Devs -> SUBSET Processes],         \* and who has its node open
          readable : SUBSET Processes,     \* whose descriptors may be read
          mode : {"find", "list", "dialog"},  \* aft-mtp-cli, its -l, or Qt
          filter : {"none", "vendor", "name"}]

ASSUME BusAssumption == Bus \in Seq(Devs) /\ NoDevice \notin Devs
ASSUME WorldAssumption ==
    /\ \A w \in Worlds : w \in World
    /\ \A w \in Worlds, d \in Devs : w.claims[d] \in {Nobody} \cup w.opens[d]
ASSUME ProcessesAssumption == Processes \cap {"us", Nobody} = {}
ASSUME FaultsAssumption == MaxFaults \in Nat

VARIABLES world,
          mode,       \* who searches
          present,    \* devices on the bus
          holders,    \* [device]: who claimed its interface: "us", a process, or nobody
          users,      \* [device]: the processes that have its node open
          early, ever, \* history: those of them that had it open ever since the list was
                      \* begun, and all that have had it open since then
          todo,       \* the places on the bus of the devices of the scan not yet tried
          cur,        \* the device being opened
          iface,      \* the index of the interface being probed
          at,         \* what comes next
          rows,       \* DevicesDialog::_devices
          result,     \* the device that was chosen
          blamed,     \* Processes of the last DeviceBusyException
          unread,     \* the processes it has not looked at yet
          raced,      \* processes whose descriptors changed while they were read
          killed,     \* processes killed
          faulty,     \* devices that met a fault
          faults
vars == <<world, mode, present, holders, users, early, ever, todo, cur, iface, at, rows,
          result, blamed, unread, raced, killed, faulty, faults>>

Ours == {d \in Devs : holders[d] = "us"}
Held == {rows[i].dev : i \in {j \in DOMAIN rows : rows[j].open}}

TypeOK ==
    /\ world \in Worlds /\ mode \in {"find", "list", "dialog"}
    /\ present \subseteq Devs
    /\ holders \in [Devs -> {"us", Nobody} \cup Processes]
    /\ {users, early, ever} \subseteq [Devs -> SUBSET Processes] /\ unread \subseteq Processes
    /\ todo \subseteq DOMAIN Bus /\ cur \in Devs \cup {NoDevice} /\ result \in Devs \cup {NoDevice}
    /\ at \in {"scan", "next", "probe", "claim", "pipe", "info", "busy", "sort", "rowinfo",
               "exec", "opened", "none", "thrown"}
    /\ rows \in Seq([dev : Devs, open : BOOLEAN, procs : SUBSET Processes])
    /\ blamed \subseteq Processes /\ raced \subseteq Processes /\ killed \subseteq Processes
    /\ faulty \subseteq Devs /\ faults \in 0 .. MaxFaults

Init == /\ world \in Worlds /\ mode = world.mode
        /\ present = Devs
        /\ holders = world.claims /\ users = world.opens /\ early = users /\ ever = users
        /\ todo = {} /\ cur = NoDevice /\ iface = 0 /\ at = "scan" /\ rows = <<>>
        /\ result = NoDevice /\ blamed = {} /\ unread = {} /\ raced = {} /\ killed = {}
        /\ faulty = {} /\ faults = 0

world_ == <<world, mode, users, early, ever>>
search_ == <<blamed, unread, raced, killed>>
-----------------------------------------------------------------------------
(* Leaving a device *)

\* The last reference to a device goes: its InterfaceToken releases the claim.
Released(devs) == [d \in Devs |-> IF d \in devs /\ holders[d] = "us" THEN Nobody ELSE holders[d]]

\* Mutant: the claim outlives the exception.
DropClaimed == cur' = NoDevice /\ at' = "next" /\ UNCHANGED holders

\* Open returned nothing, or threw, or the caller drops what it got.
Drop == holders' = Released({cur}) /\ cur' = NoDevice /\ at' = "next"

\* A request to the device fails and the exception reaches the loop over the devices.
RequestFails ==
    /\ at \in {"probe", "info"} /\ faults < MaxFaults
    /\ faults' = faults + 1 /\ faulty' = faulty \cup {cur}
    /\ Drop
    /\ UNCHANGED <<world_, present, todo, iface, rows, result, search_>>

Unplug(d) ==
    /\ faults < MaxFaults /\ d \in present
    /\ present' = present \ {d} /\ faulty' = faulty \cup {d} /\ faults' = faults + 1
    /\ holders' = [holders EXCEPT ![d] = IF @ = "us" THEN @ ELSE Nobody]
    /\ users' = [users EXCEPT ![d] = {}] /\ early' = [early EXCEPT ![d] = {}]
    /\ UNCHANGED <<world, mode, ever, todo, cur, iface, at, rows, result, search_>>

\* Another process opens a device, and may claim it.
OtherOpens(p, d) ==
    /\ faults < MaxFaults /\ faults' = faults + 1
    /\ d \in present /\ p \notin users[d] \cup killed
    /\ users' = [users EXCEPT ![d] = @ \cup {p}] /\ ever' = [ever EXCEPT ![d] = @ \cup {p}]
    /\ holders' \in {holders, [holders EXCEPT ![d] = IF @ = Nobody THEN p ELSE @]}
    /\ UNCHANGED <<world, mode, present, early, todo, cur, iface, at, rows, result, search_, faulty>>

\* Another process closes a device.  One that held it lets it go too late for a search
\* that has been refused it already.
OtherCloses(p, d) ==
    /\ faults < MaxFaults /\ faults' = faults + 1
    /\ p \in users[d]
    /\ users' = [users EXCEPT ![d] = @ \ {p}] /\ early' = [early EXCEPT ![d] = @ \ {p}]
    /\ holders' = [holders EXCEPT ![d] = IF @ = p THEN Nobody ELSE @]
    /\ faulty' = IF holders[d] = p THEN faulty \cup {d} ELSE faulty
    /\ UNCHANGED <<world, mode, present, ever, todo, cur, iface, at, rows, result, search_>>
-----------------------------------------------------------------------------
(* Context::Context, FindFirst, Device::Open *)

Scan == /\ at = "scan"
        /\ todo' = {i \in DOMAIN Bus : Bus[i] \in present}
        /\ at' = "next" /\ early' = users /\ ever' = users
        /\ UNCHANGED <<world, mode, users, present, holders, cur, iface, rows, result, search_,
                       faulty, faults>>

\* FindFirst compares vendor and product before it opens anything.
Skipped(d) == mode = "find" /\ world.filter = "vendor" /\ ~world.vendor[d]

\* Mutant: a device is tried until it opens.
NextDeviceAgain ==
    /\ at = "next"
    /\ \E i \in todo : (\A j \in todo : i <= j) /\ cur' = Bus[i]
    /\ iface' = 1 /\ at' = "probe"
    /\ UNCHANGED <<world_, present, holders, todo, rows, result, search_, faulty, faults>>

NextDevice ==
    /\ at = "next"
    /\ \E i \in todo :
          /\ \A j \in todo : i <= j
          /\ todo' = todo \ {i}
          /\ IF Skipped(Bus[i]) \/ Bus[i] \notin present  \* TryOpen returns nothing
             THEN UNCHANGED <<cur, iface, at>>
             ELSE cur' = Bus[i] /\ iface' = 1 /\ at' = "probe"
    /\ UNCHANGED <<world_, present, holders, rows, result, search_, faulty, faults>>

\* The device is no longer there: every request fails, and after a reset (-R)
\* it cannot be opened again.
DeviceGone ==
    /\ at \in {"probe", "info"} /\ cur \notin present
    /\ Drop
    /\ UNCHANGED <<world_, present, todo, iface, rows, result, search_, faulty, faults>>

\* Mutant: only the first interface is looked at.
ProbeFirstInterface ==
    /\ at = "probe" /\ cur \in present
    /\ IF iface > Len(world.ifaces[cur]) \/ world.ifaces[cur][iface] \notin {"mtp", "ptp", "broken"}
       THEN Drop ELSE at' = "claim" /\ UNCHANGED <<cur, holders>>
    /\ UNCHANGED <<world_, present, todo, iface, rows, result, search_, faulty, faults>>

\* The interfaces in turn.  One that has no name is passed over before its
\* class is looked at.
ProbeInterface ==
    /\ at = "probe" /\ cur \in present
    /\ IF iface > Len(world.ifaces[cur]) THEN Drop /\ UNCHANGED iface
       ELSE /\ UNCHANGED <<cur, holders>>
            /\ IF world.ifaces[cur][iface] \in {"mtp", "ptp", "broken"}
               THEN at' = "claim" /\ UNCHANGED iface
               ELSE iface' = iface + 1 /\ UNCHANGED at
    /\ UNCHANGED <<world_, present, todo, rows, result, search_, faulty, faults>>

\* InterfaceToken: the kernel hands the interface over, or says it is busy.
ClaimInterface ==
    /\ at = "claim" /\ cur \in present
    /\ holders' = [holders EXCEPT ![cur] = "us"]
    /\ at' = "pipe"
    /\ UNCHANGED <<world_, present, todo, cur, iface, rows, result, search_, faulty, faults>>

\* Mutant: what was found of another device is not forgotten.
ClaimFailsKeeping ==
    /\ at = "claim"
    /\ \/ cur \notin present /\ Drop /\ UNCHANGED <<blamed, unread>>
       \/ /\ cur \in present /\ holders[cur] \in Processes
          /\ at' = "busy" /\ unread' = Processes /\ UNCHANGED <<holders, cur, blamed>>
    /\ UNCHANGED <<world_, present, todo, iface, rows, result, raced, killed, faulty, faults>>

ClaimFails ==
    /\ at = "claim"
    /\ \/ cur \notin present /\ Drop /\ UNCHANGED <<blamed, unread>>
       \/ /\ cur \in present /\ holders[cur] \in Processes
          /\ at' = "busy" /\ blamed' = {} /\ unread' = Processes /\ UNCHANGED <<holders, cur>>
    /\ UNCHANGED <<world_, present, todo, iface, rows, result, raced, killed, faulty, faults>>

\* BulkPipe::Create wants a bulk endpoint each way and an interrupt endpoint;
\* when it throws, the token goes.
CreatePipe ==
    /\ at = "pipe"
    /\ IF world.ifaces[cur][iface] = "broken" THEN Drop /\ UNCHANGED rows
       ELSE IF mode = "dialog"
       THEN /\ rows' = Append(rows, [dev |-> cur, open |-> TRUE, procs |-> {}])
            /\ cur' = NoDevice /\ at' = "next" /\ UNCHANGED holders
       ELSE at' = "info" /\ UNCHANGED <<cur, holders, rows>>
    /\ UNCHANGED <<world_, present, todo, iface, result, search_, faulty, faults>>

\* Matches asks for the DeviceInfo unless there is no filter or the filter was
\* vendor:product; --device-list asks always, prints and goes on.
Matches(d) == world.filter # "name" \/ world.info[d]

CheckInfo ==
    /\ at = "info" /\ cur \in present
    /\ IF mode = "find" /\ Matches(cur)
       THEN result' = cur /\ cur' = NoDevice /\ at' = "opened" /\ UNCHANGED holders
       ELSE Drop /\ UNCHANGED result
    /\ UNCHANGED <<world_, present, todo, iface, rows, search_, faulty, faults>>

\* Nothing found: aft-mtp-cli says so and exits with 1.
ScanEnds ==
    /\ at = "next" /\ todo = {}
    /\ at' = IF mode = "dialog" THEN "sort" ELSE "none"
    /\ UNCHANGED <<world_, present, holders, todo, cur, iface, rows, result, search_, faulty, faults>>
-----------------------------------------------------------------------------
(* DeviceBusyException *)

\* The next process in /proc: it is blamed if one of its descriptors is for the node of
\* the device, whether it is what has claimed it or not, and if they may be read.
FindUser(p) ==
    /\ at = "busy" /\ p \in unread
    /\ unread' = unread \ {p}
    /\ blamed' = blamed \cup ({p} \cap users[cur] \cap world.readable)
    /\ UNCHANGED <<world_, present, holders, todo, cur, iface, at, rows, result, raced, killed,
                   faulty, faults>>

\* A descriptor is closed between readdir and readlink: ReadLink returns its
\* uninitialised buffer, where the path of the device may be left over.
FindRaced(p) ==
    /\ at = "busy" /\ p \in unread \cap world.readable /\ faults < MaxFaults
    /\ raced' = raced \cup {p} /\ faults' = faults + 1
    /\ blamed' \in {blamed, blamed \cup {p}}
    /\ UNCHANGED <<world_, present, holders, todo, cur, iface, at, rows, result, unread, killed,
                   faulty>>

\* The exception is complete.  The dialog keeps the device only if it knows a user.
BusyThrown ==
    /\ at = "busy" /\ unread = {}
    /\ rows' = IF mode = "dialog" /\ blamed # {}
               THEN Append(rows, [dev |-> cur, open |-> FALSE, procs |-> blamed]) ELSE rows
    /\ Drop
    /\ UNCHANGED <<world_, present, todo, iface, result, search_, faulty, faults>>
-----------------------------------------------------------------------------
(* DevicesDialog *)

\* p lists the rows as stable_sort leaves them: those that could be opened first,
\* in the order of their addresses, the others as they were.
Sorted(p) == \A i, j \in DOMAIN rows :
                 i < j => /\ rows[p[j]].open => rows[p[i]].open
                          /\ ~rows[p[i]].open => p[i] < p[j]

SortRows ==
    /\ at = "sort"
    /\ \E p \in SetToSeqs(DOMAIN rows) :
          Sorted(p) /\ rows' = [i \in DOMAIN rows |-> rows[p[i]]]
    /\ at' = "rowinfo" /\ iface' = 1
    /\ UNCHANGED <<world_, present, holders, todo, cur, result, search_, faulty, faults>>

\* The names in the list are asked from the open devices.
RowInfo ==
    /\ at = "rowinfo"
    /\ IF iface > Len(rows) THEN at' = "exec" /\ UNCHANGED iface
       ELSE /\ rows[iface].open => rows[iface].dev \in present
            /\ iface' = iface + 1 /\ UNCHANGED at
    /\ UNCHANGED <<world_, present, holders, todo, cur, rows, result, search_, faulty, faults>>

\* There is no handler around GetInfo: the exception leaves scan, and with it
\* everything the dialog holds.
RowInfoThrows ==
    /\ at = "rowinfo" /\ iface <= Len(rows) /\ rows[iface].open
    /\ rows[iface].dev \notin present
    /\ holders' = Released(Held) /\ rows' = <<>> /\ at' = "thrown"
    /\ UNCHANGED <<world_, present, todo, cur, iface, result, search_, faulty, faults>>

\* exec: a single device that is open is taken at once; the first row is the
\* current one.  What is not taken is released with the dialog.
Take(i) == /\ result' = IF rows[i].open THEN rows[i].dev ELSE NoDevice
           /\ holders' = Released(Held \ {result'})
           /\ rows' = <<>>
           /\ at' = IF rows[i].open THEN "opened" ELSE "none"

Execute ==
    /\ at = "exec"
    /\ \/ rows = <<>> /\ at' = "none" /\ UNCHANGED <<holders, rows, result>>
       \/ Len(rows) = 1 /\ rows[1].open /\ Take(1)
       \/ /\ rows # <<>> /\ ~(Len(rows) = 1 /\ rows[1].open)
          /\ \E i \in DOMAIN rows : Take(i)
    /\ UNCHANGED <<world_, present, todo, cur, iface, search_, faulty, faults>>

\* kill: SIGTERM, then SIGKILL, to the users of the row, whatever they have open by
\* now; then a new scan, which begins by dropping all devices.
KillUsers ==
    /\ at = "exec"
    /\ \E i \in DOMAIN rows :
          /\ rows[i].procs # {}
          /\ killed' = killed \cup rows[i].procs
          /\ users' = [d \in Devs |-> users[d] \ rows[i].procs]
          /\ holders' = [d \in Devs |-> IF holders[d] \in rows[i].procs THEN Nobody
                                        ELSE Released(Held)[d]]
    /\ rows' = <<>> /\ at' = "scan"
    /\ UNCHANGED <<world, mode, early, ever, present, todo, cur, iface, result, blamed, unread,
                   raced, faulty, faults>>

Done == at \in {"opened", "none", "thrown"} /\ UNCHANGED vars

Steps == \/ Scan \/ NextDevice \/ DeviceGone \/ ProbeInterface
         \/ ClaimInterface \/ ClaimFails \/ CreatePipe \/ CheckInfo \/ ScanEnds
         \/ \E p \in Processes : FindUser(p)
         \/ BusyThrown \/ SortRows \/ RowInfo \/ RowInfoThrows \/ Execute

Next == \/ Steps \/ RequestFails \/ KillUsers \/ Done
        \/ \E d \in Devs : Unplug(d)
        \/ \E p \in Processes : FindRaced(p)
        \/ \E p \in Processes, d \in Devs : OtherOpens(p, d) \/ OtherCloses(p, d)

Spec == Init /\ [][Next]_vars /\ WF_vars(Steps)
-----------------------------------------------------------------------------
(* Properties *)

Over == at \in {"opened", "none", "thrown"}

\* However the search goes on or breaks off, the interfaces this process holds
\* are those of the device being opened, of the rows of the dialog, and in the
\* end of the device that was chosen: no exception leaves a claim behind.
ClaimsAccounted ==
    /\ ~Over => Ours \subseteq Held \cup ({cur} \cap Devs)
    /\ Over => Ours \subseteq {result}

\* A device that can be used: an interface says MTP or is PTP, and nothing
\* before it in the list stops the probe.
Usable(d) == LET k == world.ifaces[d]
             IN  \E i \in DOMAIN k : /\ k[i] \in {"mtp", "ptp"}
                                     /\ \A j \in 1 .. i - 1 : k[j] # "broken"
Wanted(d) == /\ mode = "find" /\ world.filter = "vendor" => world.vendor[d]
             /\ mode = "find" /\ world.filter = "name" => world.info[d]

\* What is opened is what the filter asks for.
OpenedIsWanted == at = "opened" => Wanted(result) /\ Usable(result)

\* A device that fails, is busy or is of no use never hides another one: when
\* the search ends without a device, every usable one that the filter names
\* has met a fault of its own, or is or was held by another process.
NoneIsNone ==
    (at = "none" /\ mode = "find") =>
        \A d \in Devs : Wanted(d) /\ Usable(d) => d \in faulty \/ holders[d] \in Processes

\* The users that the dialog shows of a busy device, and kills, are those of that device:
\* every process that has had it open since the list was begun and may be read, and none
\* that has not had it open since then, unless it closed a descriptor just while its
\* descriptors were read (FindRaced).
UsersNamed ==
    \A i \in DOMAIN rows : ~rows[i].open =>
        /\ early[rows[i].dev] \cap world.readable \subseteq rows[i].procs
        /\ rows[i].procs \subseteq ever[rows[i].dev] \cup raced

\* Every search ends.
SearchEnds == (at = "scan") ~> (Over \/ at = "exec")

\* A search opens a device that is wanted, and finds one if there is one
\* (Device::FindFirst, Device::Open, the loop of cli.cpp).
SearchFinds == TypeOK /\ OpenedIsWanted /\ NoneIsNone
=============================================================================
