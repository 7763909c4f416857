--------------------------- MODULE DeviceOpenProofs ---------------------------
(* A search loses no claim, hides no device and names the users of a busy one: *)
(* for any bus, any devices on it, any processes, and any number of faults.    *)
EXTENDS DeviceOpen, FiniteSetTheorems, TLAPS

\* Where a device is being opened, and how far its interfaces have been looked at:
\* nothing before the current one stops the probe.
Opening == at \in {"probe", "claim", "pipe", "info", "busy"}
Stopping == {"mtp", "ptp", "broken"}

ProbeSound ==
    /\ Opening <=> cur # NoDevice
    /\ at \in {"probe", "rowinfo"} => iface \in Nat \ {0}
    /\ Opening => LET k == world.ifaces[cur]
                  IN  /\ \A j \in 1 .. iface - 1 : k[j] \notin Stopping
                      /\ at = "probe" => iface \in 1 .. Len(k) + 1
                      /\ at # "probe" => iface \in 1 .. Len(k) /\ k[iface] \in Stopping
                      /\ at = "info" => k[iface] # "broken"
    /\ Opening /\ mode = "find" /\ world.filter = "vendor" => world.vendor[cur]
    /\ at = "info" => mode # "dialog"
    /\ at \in {"sort", "rowinfo", "exec", "thrown"} => mode = "dialog"

\* The rows are the dialog's, and what is open in them can be used.
RowsSound ==
    /\ mode # "dialog" \/ at = "scan" \/ Over => rows = <<>>
    /\ \A i \in DOMAIN rows : rows[i].open => Usable(rows[i].dev)

\* What the history says of the users, and what the search for them has found so far:
\* whoever it has looked at and has had the device open all along, and nobody who has not
\* had it open at all.
BlameSound ==
    /\ \A d \in Devs : /\ users[d] \subseteq ever[d]
                       /\ at # "scan" => early[d] \subseteq users[d]
    /\ at = "busy" => /\ (early[cur] \cap world.readable) \ unread \subseteq blamed
                      /\ blamed \subseteq ever[cur] \cup raced
    /\ UsersNamed

\* Every device that is wanted and can be used is still to come, is being
\* opened, or had its chance.
Spoilt(d) == d \in faulty \/ holders[d] \in Processes
Searched ==
    /\ Devs \ present \subseteq faulty
    /\ at = "busy" => Spoilt(cur)
    /\ at \in {"sort", "rowinfo", "exec", "none"} => todo = {}
    /\ mode = "find" /\ at \notin {"scan", "opened"} =>
          \A d \in Devs : Wanted(d) /\ Usable(d) =>
              Spoilt(d) \/ d = cur \/ \E i \in todo : Bus[i] = d

\* The inductive invariant: nothing in the properties says what a probe or a
\* list has already passed, which is what they follow from.
SearchInv == /\ TypeOK /\ ProbeSound /\ RowsSound /\ BlameSound /\ Searched
             /\ ClaimsAccounted /\ OpenedIsWanted

-----------------------------------------------------------------------------
(* Types *)

\* What the assumptions say of the devices and of the world.
LEMMA Places ==
    /\ \A i \in DOMAIN Bus : Bus[i] \in Devs
    /\ NoDevice \notin Devs
    /\ \A d \in Devs : \E i \in DOMAIN Bus : Bus[i] = d
  BY BusAssumption DEF Devs, Range

\* What a world is.
LEMMA WorldType ==
    ASSUME TypeOK
    PROVE  /\ world \in World
           /\ \A d \in Devs : world.ifaces[d] \in Seq(Kinds) /\ Len(world.ifaces[d]) \in Nat
           /\ world.claims \in [Devs -> {Nobody} \cup Processes]
           /\ world.opens \in [Devs -> SUBSET Processes]
  BY WorldAssumption DEF TypeOK, World

\* What Released leaves.
LEMMA ReleasedIs ==
    ASSUME NEW H, holders \in [Devs -> H], Nobody \in H, NEW devs
    PROVE  /\ Released(devs) \in [Devs -> H]
           /\ \A d \in Devs : Released(devs)[d]
                  = IF d \in devs /\ holders[d] = "us" THEN Nobody ELSE holders[d]
  BY DEF Released

\* The same of every state.
LEMMA ReleasedType ==
    ASSUME TypeOK, NEW devs
    PROVE  /\ Released(devs) \in [Devs -> {"us", Nobody} \cup Processes]
           /\ \A d \in Devs : Released(devs)[d]
                  = IF d \in devs /\ holders[d] = "us" THEN Nobody ELSE holders[d]
  BY ReleasedIs DEF TypeOK

\* A device is being opened.
LEMMA CurIs ==
    ASSUME TypeOK, ProbeSound, Opening
    PROVE  cur \in Devs
  BY DEF TypeOK, ProbeSound

RowSet == [dev : Devs, open : BOOLEAN, procs : SUBSET Processes]

\* The rows in another order are the same rows.
LEMMA SortedRows ==
    ASSUME NEW T, rows \in Seq(T), SortRows
    PROVE  /\ rows' \in Seq(T)
           /\ DOMAIN rows' = DOMAIN rows
           /\ \A i \in DOMAIN rows' : \E j \in DOMAIN rows : rows'[i] = rows[j]
           /\ \A j \in DOMAIN rows : \E i \in DOMAIN rows' : rows'[i] = rows[j]
  <1> DEFINE D == DOMAIN rows
  <1>1. PICK p \in SetToSeqs(D) : rows' = [i \in D |-> rows[p[i]]]
    BY DEF SortRows
  <1>2. D = 1 .. Len(rows) /\ Len(rows) \in Nat
    OBVIOUS
  <1>3. IsFiniteSet(D) /\ Cardinality(D) = Len(rows)
    BY <1>2, FS_Interval
  <1>4. p \in [D -> D] /\ \A i, j \in D : i # j => p[i] # p[j]
    BY <1>1, <1>2, <1>3 DEF SetToSeqs
  <1>5. \A j \in D : \E i \in D : p[i] = j
    <2>1. p \in Injection(D, D)
      BY <1>4 DEF Injection, IsInjective
    <2>2. p \in Surjection(D, D)
      BY <2>1, <1>3, FS_Injection
    <2> QED
      BY <2>2 DEF Surjection
  <1>6. rows' \in Seq(T) /\ DOMAIN rows' = D
    BY <1>1, <1>2, <1>4
  <1>7. \A i \in D : rows'[i] = rows[p[i]] /\ p[i] \in D
    BY <1>1, <1>4
  <1>8. \A i \in DOMAIN rows' : \E j \in DOMAIN rows : rows'[i] = rows[j]
    BY <1>6, <1>7
  <1>9. \A j \in DOMAIN rows : \E i \in DOMAIN rows' : rows'[i] = rows[j]
    <2> TAKE j \in DOMAIN rows
    <2>1. PICK i \in D : p[i] = j
      BY <1>5
    <2> QED
      BY <2>1, <1>6, <1>7
  <1> QED
    BY <1>6, <1>8, <1>9

\* A row that is added.
LEMMA AppendRow ==
    ASSUME NEW T, rows \in Seq(T), NEW r \in T, NEW s, s = Append(rows, r)
    PROVE  /\ s \in Seq(T)
           /\ \A i \in DOMAIN s : (i \in DOMAIN rows /\ s[i] = rows[i]) \/ s[i] = r
           /\ \A i \in DOMAIN rows : i \in DOMAIN s /\ s[i] = rows[i]
           /\ \E i \in DOMAIN s : s[i] = r
  <1>1. Len(rows) \in Nat /\ DOMAIN rows = 1 .. Len(rows) /\ DOMAIN s = 1 .. Len(rows) + 1
    OBVIOUS
  <1>2. s[Len(rows) + 1] = r
    OBVIOUS
  <1> QED
    BY <1>1, <1>2

\* What a row is.
LEMMA RowIs ==
    ASSUME TypeOK, NEW i \in DOMAIN rows
    PROVE  /\ rows[i] \in RowSet
           /\ rows[i].dev \in Devs /\ rows[i].open \in BOOLEAN /\ rows[i].procs \subseteq Processes
  <1>1. rows \in Seq(RowSet)
    BY DEF TypeOK, RowSet
  <1>2. rows[i] \in RowSet
    BY <1>1
  <1> QED
    BY <1>2 DEF RowSet

\* Giving devices back takes them, and no others, from ours.
LEMMA OursReleased ==
    ASSUME TypeOK, NEW devs, holders' = Released(devs)
    PROVE  Ours' = Ours \ devs
  BY ReleasedType DEF Ours, Nobody

\* What is held by the rows goes with them, and comes with them.
LEMMA HeldRows ==
    /\ rows' = rows => Held' = Held
    /\ rows = <<>> => Held = {}
    /\ rows' = <<>> => Held' = {}
  BY DEF Held

\* A row that is added takes none away, and holds its device if it is open.
LEMMA HeldMore ==
    ASSUME TypeOK, cur \in Devs, NEW open \in BOOLEAN, NEW procs \in SUBSET Processes,
           rows' = Append(rows, [dev |-> cur, open |-> open, procs |-> procs])
    PROVE  Held \subseteq Held' /\ (open => cur \in Held')
  <1> DEFINE r == [dev |-> cur, open |-> open, procs |-> procs]
  <1>1. r \in RowSet /\ rows \in Seq(RowSet) /\ r.open = open /\ r.dev = cur /\ rows' = Append(rows, r)
    BY DEF TypeOK, RowSet
  <1> HIDE DEF r
  <1>2. /\ \A i \in DOMAIN rows : i \in DOMAIN rows' /\ rows'[i] = rows[i]
        /\ \E i \in DOMAIN rows' : rows'[i] = r
    BY <1>1, AppendRow
  <1> QED
    BY <1>1, <1>2 DEF Held

\* No device is open between two of them.
LEMMA BetweenDevices ==
    ASSUME ProbeSound, ClaimsAccounted, ~Opening, ~Over
    PROVE  Ours \subseteq Held
  BY Places DEF ProbeSound, ClaimsAccounted

\* A device that is dropped is not ours any more.
LEMMA Dropped ==
    ASSUME TypeOK, ClaimsAccounted, Opening, Drop
    PROVE  Ours' \subseteq Held /\ ~Over'
  <1>1. Ours \subseteq Held \cup {cur}
    BY DEF ClaimsAccounted, Opening, Over
  <1>2. Ours' = Ours \ {cur}
    BY OursReleased DEF Drop
  <1> QED
    BY <1>1, <1>2 DEF Drop, Over

\* Every step keeps the types.
LEMMA TypeStep ==
    ASSUME TypeOK, ProbeSound, [Next]_vars
    PROVE  TypeOK'
  <1> USE DEF world_, search_, vars
  <1>1. CASE Scan
    BY <1>1, WorldType, Places DEF TypeOK, Scan
  <1>2. CASE NextDevice
    BY <1>2, WorldType, Places DEF TypeOK, NextDevice
  <1>3. CASE DeviceGone
    BY <1>3, WorldType, Places, ReleasedType DEF TypeOK, DeviceGone, Drop
  <1>4. CASE ProbeInterface
    BY <1>4, WorldType, Places, ReleasedType DEF TypeOK, ProbeInterface, Drop
  <1>5. CASE ClaimInterface
    BY <1>5, WorldType, Places DEF TypeOK, ClaimInterface
  <1>6. CASE ClaimFails
    BY <1>6, WorldType, Places, ReleasedType DEF TypeOK, ClaimFails, Drop
  <1>7. CASE CreatePipe
    <2>1. cur \in Devs
      BY <1>7, CurIs DEF CreatePipe, Opening
    <2>2. rows' \in Seq(RowSet)
      <3>1. rows \in Seq(RowSet)
        BY DEF TypeOK, RowSet
      <3>2. \A open \in BOOLEAN, procs \in SUBSET Processes :
                Append(rows, [dev |-> cur, open |-> open, procs |-> procs]) \in Seq(RowSet)
        BY <2>1, <3>1 DEF RowSet
      <3> QED
        BY <1>7, <3>1, <3>2 DEF TypeOK, CreatePipe, Drop
    <2> QED
      BY <1>7, <2>2, ReleasedType DEF TypeOK, CreatePipe, Drop, RowSet
  <1>8. CASE CheckInfo
    BY <1>8, WorldType, Places, ReleasedType DEF TypeOK, CheckInfo, Drop
  <1>9. CASE ScanEnds
    BY <1>9, WorldType, Places DEF TypeOK, ScanEnds
  <1>10. ASSUME NEW p \in Processes, FindUser(p) PROVE TypeOK'
    BY <1>10, WorldType, Places DEF TypeOK, FindUser
  <1>11. CASE BusyThrown
    <2>1. cur \in Devs
      BY <1>11, CurIs DEF BusyThrown, Opening
    <2>2. rows' \in Seq(RowSet)
      <3>1. rows \in Seq(RowSet)
        BY DEF TypeOK, RowSet
      <3>2. \A open \in BOOLEAN, procs \in SUBSET Processes :
                Append(rows, [dev |-> cur, open |-> open, procs |-> procs]) \in Seq(RowSet)
        BY <2>1, <3>1 DEF RowSet
      <3> QED
        BY <1>11, <3>1, <3>2 DEF TypeOK, BusyThrown, Drop
    <2> QED
      BY <1>11, <2>2, ReleasedType DEF TypeOK, BusyThrown, Drop, RowSet
  <1>12. CASE SortRows
    <2>1. rows' \in Seq(RowSet)
      BY <1>12, SortedRows DEF TypeOK, RowSet
    <2> QED
      BY <1>12, <2>1 DEF TypeOK, SortRows, RowSet
  <1>13. CASE RowInfo
    BY <1>13, WorldType, Places DEF TypeOK, RowInfo
  <1>14. CASE RowInfoThrows
    BY <1>14, WorldType, Places, ReleasedType DEF TypeOK, RowInfoThrows
  <1>15. CASE Execute
    <2>1. CASE rows = <<>> /\ at' = "none" /\ UNCHANGED <<holders, rows, result>>
      BY <1>15, <2>1 DEF TypeOK, Execute
    <2>2. ASSUME NEW i \in DOMAIN rows, Take(i)
          PROVE  TypeOK'
      <3>1. result' \in Devs \cup {NoDevice} /\ at' \in {"opened", "none"} /\ rows' = <<>>
        BY <2>2, RowIs DEF Take
      <3>2. holders' \in [Devs -> {"us", Nobody} \cup Processes]
        BY <2>2, ReleasedType DEF Take
      <3> QED
        BY <1>15, <3>1, <3>2 DEF TypeOK, Execute
    <2>3. 1 \in DOMAIN rows \/ Len(rows) # 1
      BY DEF TypeOK
    <2> QED
      BY <1>15, <2>1, <2>2, <2>3 DEF Execute
  <1>16. CASE RequestFails
    <2>1. faults' \in 0 .. MaxFaults
      BY <1>16, FaultsAssumption DEF TypeOK, RequestFails
    <2> QED
      BY <1>16, <2>1, CurIs, ReleasedType DEF TypeOK, RequestFails, Drop, Opening
  <1>17. CASE KillUsers
    <2>1. killed' \subseteq Processes
      BY <1>17, RowIs DEF TypeOK, KillUsers
    <2>2. holders' \in [Devs -> {"us", Nobody} \cup Processes]
      BY <1>17, ReleasedType DEF TypeOK, KillUsers
    <2> QED
      BY <1>17, <2>1, <2>2 DEF TypeOK, KillUsers
  <1>18. CASE Done
    BY <1>18, WorldType, Places DEF TypeOK, Done
  <1>19. ASSUME NEW d \in Devs, Unplug(d) PROVE TypeOK'
    <2>1. faults' \in 0 .. MaxFaults
      BY <1>19, FaultsAssumption DEF TypeOK, Unplug
    <2> QED
      BY <1>19, <2>1 DEF TypeOK, Unplug
  <1>20. ASSUME NEW p \in Processes, FindRaced(p) PROVE TypeOK'
    <2>1. faults' \in 0 .. MaxFaults
      BY <1>20, FaultsAssumption DEF TypeOK, FindRaced
    <2> QED
      BY <1>20, <2>1 DEF TypeOK, FindRaced
  <1>21. ASSUME NEW p \in Processes, NEW d \in Devs, OtherOpens(p, d) PROVE TypeOK'
    <2>1. faults' \in 0 .. MaxFaults
      BY <1>21, FaultsAssumption DEF TypeOK, OtherOpens
    <2> QED
      BY <1>21, <2>1 DEF TypeOK, OtherOpens
  <1>22. ASSUME NEW p \in Processes, NEW d \in Devs, OtherCloses(p, d) PROVE TypeOK'
    <2>1. faults' \in 0 .. MaxFaults
      BY <1>22, FaultsAssumption DEF TypeOK, OtherCloses
    <2> QED
      BY <1>22, <2>1 DEF TypeOK, OtherCloses
  <1>23. CASE UNCHANGED vars
    BY <1>23 DEF TypeOK
  <1> QED
    BY <1>1, <1>2, <1>3, <1>4, <1>5, <1>6, <1>7, <1>8, <1>9, <1>10, <1>11, <1>12, <1>13, <1>14, <1>15, <1>16, <1>17, <1>18, <1>19, <1>20, <1>21, <1>22, <1>23 DEF Next, Steps

\* A probe goes through the interfaces in turn.
LEMMA ProbeStep ==
    ASSUME TypeOK, ProbeSound, [Next]_vars
    PROVE  ProbeSound'
  <1> USE DEF world_, search_, vars
  <1>1. CASE Scan
    BY <1>1, WorldType, Places DEF ProbeSound, Opening, Scan
  <1>2. CASE NextDevice
    <2>1. PICK i \in todo : IF Skipped(Bus[i]) \/ Bus[i] \notin present
                            THEN UNCHANGED <<cur, iface, at>>
                            ELSE cur' = Bus[i] /\ iface' = 1 /\ at' = "probe"
      BY <1>2 DEF NextDevice
    <2>2. Bus[i] \in Devs /\ at = "next" /\ UNCHANGED <<world, mode>>
      BY <1>2, Places DEF NextDevice, TypeOK
    <2>3. CASE UNCHANGED <<cur, iface, at>>
      BY <2>2, <2>3 DEF ProbeSound, Opening
    <2>4. CASE ~Skipped(Bus[i]) /\ cur' = Bus[i] /\ iface' = 1 /\ at' = "probe"
      <3>1. world.ifaces[Bus[i]] \in Seq(Kinds) /\ cur' # NoDevice
        BY <2>2, <2>4, WorldType, Places
      <3> QED
        BY <2>2, <2>4, <3>1 DEF ProbeSound, Opening, Skipped
    <2> QED
      BY <2>1, <2>3, <2>4
  <1>3. CASE DeviceGone
    BY <1>3, WorldType, Places, CurIs DEF ProbeSound, Opening, DeviceGone, Drop
  <1>4. CASE ProbeInterface
    <2> DEFINE k == world.ifaces[cur]
    <2>1. Opening /\ at = "probe" /\ iface \in 1 .. Len(k) + 1 /\ Len(k) \in Nat /\ cur \in Devs
      BY <1>4, CurIs, WorldType DEF ProbeSound, Opening, ProbeInterface
    <2>2. CASE iface > Len(k)
      BY <1>4, <2>1, <2>2, Places DEF ProbeSound, Opening, ProbeInterface, Drop
    <2>3. CASE iface <= Len(k) /\ k[iface] \in Stopping
      BY <1>4, <2>1, <2>3 DEF ProbeSound, Opening, ProbeInterface, Stopping
    <2>4. CASE iface <= Len(k) /\ k[iface] \notin Stopping
      <3>1. iface' = iface + 1 /\ UNCHANGED <<cur, at, world, mode>>
        BY <1>4, <2>1, <2>4 DEF ProbeInterface, Stopping
      <3>2. \A j \in 1 .. iface' - 1 : j \in 1 .. iface - 1 \/ j = iface
        BY <3>1, <2>1
      <3> QED
        BY <2>1, <2>4, <3>1, <3>2 DEF ProbeSound, Opening
    <2> QED
      BY <2>1, <2>2, <2>3, <2>4
  <1>5. CASE ClaimInterface
    BY <1>5, WorldType, Places, CurIs DEF ProbeSound, Opening, ClaimInterface
  <1>6. CASE ClaimFails
    BY <1>6, WorldType, Places, CurIs DEF ProbeSound, Opening, ClaimFails, Drop
  <1>7. CASE CreatePipe
    BY <1>7, WorldType, Places, CurIs DEF ProbeSound, Opening, CreatePipe, Drop
  <1>8. CASE CheckInfo
    BY <1>8, WorldType, Places, CurIs DEF ProbeSound, Opening, CheckInfo, Drop
  <1>9. CASE ScanEnds
    BY <1>9, WorldType, Places DEF ProbeSound, Opening, ScanEnds
  <1>10. ASSUME NEW p \in Processes, FindUser(p) PROVE ProbeSound'
    BY <1>10, WorldType, Places, CurIs DEF ProbeSound, Opening, FindUser
  <1>11. CASE BusyThrown
    BY <1>11, WorldType, Places, CurIs DEF ProbeSound, Opening, BusyThrown, Drop
  <1>12. CASE SortRows
    BY <1>12, WorldType, Places DEF ProbeSound, Opening, SortRows
  <1>13. CASE RowInfo
    BY <1>13, WorldType, Places DEF ProbeSound, Opening, RowInfo
  <1>14. CASE RowInfoThrows
    BY <1>14, WorldType, Places DEF ProbeSound, Opening, RowInfoThrows
  <1>15. CASE Execute
    BY <1>15, WorldType, Places DEF ProbeSound, Opening, Execute, Take
  <1>16. CASE RequestFails
    BY <1>16, WorldType, Places DEF ProbeSound, Opening, RequestFails, Drop
  <1>17. CASE KillUsers
    BY <1>17, WorldType, Places DEF ProbeSound, Opening, KillUsers
  <1>18. CASE Done
    BY <1>18, WorldType, Places DEF ProbeSound, Opening, Done
  <1>19. ASSUME NEW d \in Devs, Unplug(d) PROVE ProbeSound'
    BY <1>19, WorldType, Places, CurIs DEF ProbeSound, Opening, Unplug
  <1>20. ASSUME NEW p \in Processes, FindRaced(p) PROVE ProbeSound'
    BY <1>20, WorldType, Places, CurIs DEF ProbeSound, Opening, FindRaced
  <1>21. ASSUME NEW p \in Processes, NEW d \in Devs, OtherOpens(p, d) PROVE ProbeSound'
    BY <1>21, WorldType, Places, CurIs DEF ProbeSound, Opening, OtherOpens
  <1>22. ASSUME NEW p \in Processes, NEW d \in Devs, OtherCloses(p, d) PROVE ProbeSound'
    BY <1>22, WorldType, Places, CurIs DEF ProbeSound, Opening, OtherCloses
  <1>23. CASE UNCHANGED vars
    BY <1>23 DEF ProbeSound, Opening
  <1> QED
    BY <1>1, <1>2, <1>3, <1>4, <1>5, <1>6, <1>7, <1>8, <1>9, <1>10, <1>11, <1>12, <1>13, <1>14, <1>15, <1>16, <1>17, <1>18, <1>19, <1>20, <1>21, <1>22, <1>23 DEF Next, Steps

\* What is open in the rows can be used.
LEMMA RowsStep ==
    ASSUME TypeOK, ProbeSound, RowsSound, [Next]_vars
    PROVE  RowsSound'
  <1> USE DEF world_, search_, vars
  <1>1. CASE Scan
    BY <1>1, WorldType DEF RowsSound, Over, Scan, Usable
  <1>2. CASE NextDevice
    <2>1. UNCHANGED <<rows, world, mode>> /\ at = "next" /\ at' \in {"next", "probe"}
      BY <1>2 DEF NextDevice
    <2> QED
      BY <2>1 DEF RowsSound, Over, Usable
  <1>3. CASE DeviceGone
    BY <1>3, WorldType DEF RowsSound, Over, DeviceGone, Drop, Usable
  <1>4. CASE ProbeInterface
    BY <1>4, WorldType DEF RowsSound, Over, ProbeInterface, Drop, Usable
  <1>5. CASE ClaimInterface
    BY <1>5, WorldType DEF RowsSound, Over, ClaimInterface, Usable
  <1>6. CASE ClaimFails
    BY <1>6, WorldType DEF RowsSound, Over, ClaimFails, Drop, Usable
  <1>7. CASE CreatePipe
    <2> DEFINE k == world.ifaces[cur]
    <2>1. cur \in Devs /\ Opening
      BY <1>7, CurIs DEF CreatePipe, Opening
    <2>2. CASE k[iface] = "broken" \/ mode # "dialog"
      BY <1>7, <2>2 DEF RowsSound, Over, Usable, CreatePipe, Drop
    <2>3. CASE k[iface] # "broken" /\ mode = "dialog"
      <3>1. Usable(cur)
        <4>1. iface \in DOMAIN k /\ k[iface] \in {"mtp", "ptp"}
          BY <1>7, <2>1, <2>3, WorldType DEF ProbeSound, CreatePipe, Stopping
        <4>2. \A j \in 1 .. iface - 1 : k[j] # "broken"
          BY <2>1 DEF ProbeSound, Stopping
        <4> QED
          BY <4>1, <4>2 DEF Usable
      <3>2. rows' = Append(rows, [dev |-> cur, open |-> TRUE, procs |-> {}]) /\ at' = "next"
             /\ UNCHANGED <<world, mode>>
        BY <1>7, <2>3 DEF CreatePipe
      <3>3. \A i \in DOMAIN rows' : (i \in DOMAIN rows /\ rows'[i] = rows[i]) \/ rows'[i].dev = cur
        <4> DEFINE r == [dev |-> cur, open |-> TRUE, procs |-> {}]
        <4>1. r \in RowSet /\ rows \in Seq(RowSet) /\ r.dev = cur
          BY <2>1 DEF TypeOK, RowSet
        <4>2. rows' = Append(rows, r)
          BY <3>2
        <4> HIDE DEF r
        <4> QED
          BY <4>1, <4>2, AppendRow
      <3> QED
        BY <2>3, <3>1, <3>2, <3>3 DEF RowsSound, Over, Usable
    <2> QED
      BY <2>2, <2>3
  <1>8. CASE CheckInfo
    BY <1>8, WorldType DEF RowsSound, Over, CheckInfo, Drop, Usable
  <1>9. CASE ScanEnds
    BY <1>9, WorldType DEF RowsSound, Over, ScanEnds, Usable
  <1>10. ASSUME NEW p \in Processes, FindUser(p) PROVE RowsSound'
    BY <1>10, WorldType DEF RowsSound, Over, FindUser, Usable
  <1>11. CASE BusyThrown
    <2>1. cur \in Devs /\ at' = "next" /\ UNCHANGED <<world, mode>>
      BY <1>11, CurIs DEF BusyThrown, Opening, Drop
    <2>2. CASE ~(mode = "dialog" /\ blamed # {})
      BY <1>11, <2>1, <2>2 DEF RowsSound, Over, Usable, BusyThrown
    <2>3. CASE mode = "dialog" /\ blamed # {}
      <3>1. rows' = Append(rows, [dev |-> cur, open |-> FALSE, procs |-> blamed])
        BY <1>11, <2>3 DEF BusyThrown
      <3>2. \A i \in DOMAIN rows' : (i \in DOMAIN rows /\ rows'[i] = rows[i]) \/ ~rows'[i].open
        <4> DEFINE r == [dev |-> cur, open |-> FALSE, procs |-> blamed]
        <4>1. r \in RowSet /\ rows \in Seq(RowSet) /\ ~r.open /\ rows' = Append(rows, r)
          BY <2>1, <3>1 DEF TypeOK, RowSet
        <4> HIDE DEF r
        <4> QED
          BY <4>1, AppendRow
      <3>3. \A i \in DOMAIN rows : rows[i].open => Usable(rows[i].dev)
        BY DEF RowsSound
      <3>4. \A i \in DOMAIN rows' : rows'[i].open => i \in DOMAIN rows /\ rows'[i] = rows[i]
        BY <3>2
      <3>5. \A i \in DOMAIN rows' : rows'[i].open => Usable(rows'[i].dev)
        BY <3>3, <3>4
      <3> QED
        BY <2>1, <2>3, <3>5 DEF RowsSound, Over, Usable
    <2> QED
      BY <2>2, <2>3
  <1>12. CASE SortRows
    <2>1. rows \in Seq(RowSet)
      BY DEF TypeOK, RowSet
    <2>2. \A i \in DOMAIN rows' : \E j \in DOMAIN rows : rows'[i] = rows[j]
      BY <1>12, <2>1, SortedRows
    <2>3. at' = "rowinfo" /\ at = "sort" /\ UNCHANGED <<world, mode>>
      BY <1>12 DEF SortRows
    <2>4. mode = "dialog"
      BY <2>3 DEF ProbeSound
    <2> QED
      BY <2>2, <2>3, <2>4 DEF RowsSound, Over, Usable
  <1>13. CASE RowInfo
    BY <1>13, WorldType DEF RowsSound, Over, RowInfo, Usable
  <1>14. CASE RowInfoThrows
    BY <1>14, WorldType DEF RowsSound, Over, RowInfoThrows, Usable
  <1>15. CASE Execute
    <2>1. rows' = <<>> /\ UNCHANGED <<world, mode>>
      BY <1>15 DEF Execute, Take
    <2> QED
      BY <2>1 DEF RowsSound
  <1>16. CASE RequestFails
    BY <1>16, WorldType DEF RowsSound, Over, RequestFails, Drop, Usable
  <1>17. CASE KillUsers
    BY <1>17, WorldType DEF RowsSound, Over, KillUsers, Usable
  <1>18. CASE Done
    BY <1>18, WorldType DEF RowsSound, Over, Done, Usable
  <1>19. ASSUME NEW d \in Devs, Unplug(d) PROVE RowsSound'
    BY <1>19, WorldType DEF RowsSound, Over, Unplug, Usable
  <1>20. ASSUME NEW p \in Processes, FindRaced(p) PROVE RowsSound'
    BY <1>20, WorldType DEF RowsSound, Over, FindRaced, Usable
  <1>21. ASSUME NEW p \in Processes, NEW d \in Devs, OtherOpens(p, d) PROVE RowsSound'
    BY <1>21, WorldType DEF RowsSound, Over, OtherOpens, Usable
  <1>22. ASSUME NEW p \in Processes, NEW d \in Devs, OtherCloses(p, d) PROVE RowsSound'
    BY <1>22, WorldType DEF RowsSound, Over, OtherCloses, Usable
  <1>23. CASE UNCHANGED vars
    BY <1>23 DEF RowsSound, Over, Usable
  <1> QED
    BY <1>1, <1>2, <1>3, <1>4, <1>5, <1>6, <1>7, <1>8, <1>9, <1>10, <1>11, <1>12, <1>13, <1>14, <1>15, <1>16, <1>17, <1>18, <1>19, <1>20, <1>21, <1>22, <1>23 DEF Next, Steps

\* Rows that are kept name the users they named.
LEMMA RowsNamed ==
    ASSUME TypeOK, UsersNamed, rows' = rows, world' = world, raced \subseteq raced',
           \A d \in Devs : early'[d] \subseteq early[d] /\ ever[d] \subseteq ever'[d]
    PROVE  UsersNamed'
  BY RowIs DEF UsersNamed

\* A row is added: it names its own users.
LEMMA RowNamed ==
    ASSUME TypeOK, UsersNamed, cur \in Devs, NEW open \in BOOLEAN, NEW procs \in SUBSET Processes,
           rows' = Append(rows, [dev |-> cur, open |-> open, procs |-> procs]),
           UNCHANGED <<world, early, ever, raced>>,
           ~open => /\ early[cur] \cap world.readable \subseteq procs
                    /\ procs \subseteq ever[cur] \cup raced
    PROVE  UsersNamed'
  <1> DEFINE r == [dev |-> cur, open |-> open, procs |-> procs]
  <1>1. /\ r \in RowSet /\ rows \in Seq(RowSet) /\ rows' = Append(rows, r)
        /\ r.open = open /\ r.dev = cur /\ r.procs = procs
    BY DEF TypeOK, RowSet
  <1> HIDE DEF r
  <1>2. \A i \in DOMAIN rows' : (i \in DOMAIN rows /\ rows'[i] = rows[i]) \/ rows'[i] = r
    BY <1>1, AppendRow
  <1> QED
    BY <1>1, <1>2 DEF UsersNamed

\* Every step keeps to the users.
LEMMA BlameStep ==
    ASSUME TypeOK, ProbeSound, RowsSound, BlameSound, [Next]_vars
    PROVE  BlameSound'
  <1> USE DEF world_, search_, vars
  <1>1. CASE Scan
    <2>1. rows' = <<>>
      BY <1>1 DEF RowsSound, Scan
    <2> QED
      BY <1>1, <2>1 DEF BlameSound, UsersNamed, Scan
  <1>2. CASE NextDevice
    BY <1>2, RowsNamed DEF BlameSound, NextDevice, Drop
  <1>3. CASE DeviceGone
    BY <1>3, RowsNamed DEF BlameSound, DeviceGone, Drop
  <1>4. CASE ProbeInterface
    BY <1>4, RowsNamed DEF BlameSound, ProbeInterface, Drop
  <1>5. CASE ClaimInterface
    BY <1>5, RowsNamed DEF BlameSound, ClaimInterface, Drop
  <1>6. CASE ClaimFails
    <2>1. UsersNamed' /\ UNCHANGED <<world, users, early, ever, raced>> /\ at # "scan"
      BY <1>6, RowsNamed DEF BlameSound, ClaimFails
    <2>2. at' # "busy" \/ (at' = "busy" /\ unread' = Processes /\ blamed' = {} /\ cur' = cur)
      BY <1>6 DEF ClaimFails, Drop
    <2>3. cur \in Devs
      BY <1>6, CurIs DEF ClaimFails, Opening
    <2>4. early[cur] \subseteq Processes
      BY <2>3 DEF TypeOK
    <2> QED
      BY <2>1, <2>2, <2>3, <2>4 DEF BlameSound
  <1>7. CASE CreatePipe
    <2>1. /\ cur \in Devs /\ UNCHANGED <<world, users, early, ever, raced>>
          /\ at # "scan" /\ at' # "busy"
      BY <1>7, CurIs DEF CreatePipe, Opening, Drop
    <2>2. CASE rows' = rows
      BY <2>1, <2>2, RowsNamed DEF BlameSound
    <2>3. CASE rows' = Append(rows, [dev |-> cur, open |-> TRUE, procs |-> {}])
      <3>1. TRUE \in BOOLEAN /\ {} \in SUBSET Processes
        OBVIOUS
      <3>2. UsersNamed'
        BY <2>1, <2>3, <3>1, RowNamed DEF BlameSound
      <3> QED
        BY <2>1, <3>2 DEF BlameSound
    <2> QED
      BY <1>7, <2>2, <2>3 DEF CreatePipe
  <1>8. CASE CheckInfo
    BY <1>8, RowsNamed DEF BlameSound, CheckInfo, Drop
  <1>9. CASE ScanEnds
    BY <1>9, RowsNamed DEF BlameSound, ScanEnds, Drop
  <1>10. ASSUME NEW p \in Processes, FindUser(p) PROVE BlameSound'
    <2>1. /\ UNCHANGED <<world, users, early, ever, raced, rows, at, cur>> /\ at = "busy"
          /\ unread' = unread \ {p}
          /\ blamed' = blamed \cup ({p} \cap users[cur] \cap world.readable)
      BY <1>10 DEF FindUser
    <2>2. cur \in Devs
      BY <2>1, CurIs DEF Opening
    <2>3. early[cur] \subseteq users[cur] /\ users[cur] \subseteq ever[cur]
      BY <2>1, <2>2 DEF BlameSound
    <2>4. (early[cur] \cap world.readable) \ unread' \subseteq blamed'
      BY <2>1, <2>3 DEF BlameSound
    <2>5. blamed' \subseteq ever[cur] \cup raced
      BY <2>1, <2>3 DEF BlameSound
    <2>6. UsersNamed'
      BY <2>1, RowsNamed DEF BlameSound
    <2> QED
      BY <2>1, <2>4, <2>5, <2>6 DEF BlameSound
  <1>11. CASE BusyThrown
    <2>1. /\ cur \in Devs /\ UNCHANGED <<world, users, early, ever, raced>>
          /\ at # "scan" /\ at' # "busy"
      BY <1>11, CurIs DEF BusyThrown, Opening, Drop
    <2>2. CASE rows' = rows
      BY <2>1, <2>2, RowsNamed DEF BlameSound
    <2>3. CASE rows' = Append(rows, [dev |-> cur, open |-> FALSE, procs |-> blamed])
      <3>1. FALSE \in BOOLEAN /\ blamed \in SUBSET Processes
        BY DEF TypeOK
      <3>2. early[cur] \cap world.readable \subseteq blamed /\ blamed \subseteq ever[cur] \cup raced
        BY <1>11 DEF BusyThrown, BlameSound
      <3>3. UsersNamed'
        BY <2>1, <2>3, <3>1, <3>2, RowNamed DEF BlameSound
      <3> QED
        BY <2>1, <3>3 DEF BlameSound
    <2> QED
      BY <1>11, <2>2, <2>3 DEF BusyThrown
  <1>12. CASE SortRows
    <2>1. rows \in Seq(RowSet)
      BY DEF TypeOK, RowSet
    <2>2. \A i \in DOMAIN rows' : \E j \in DOMAIN rows : rows'[i] = rows[j]
      BY <1>12, <2>1, SortedRows
    <2>3. UNCHANGED <<world, users, early, ever, raced>> /\ at = "sort" /\ at' = "rowinfo"
      BY <1>12 DEF SortRows
    <2>4. UsersNamed'
      BY <2>2, <2>3 DEF BlameSound, UsersNamed
    <2> QED
      BY <2>3, <2>4 DEF BlameSound
  <1>13. CASE RowInfo
    BY <1>13, RowsNamed DEF BlameSound, RowInfo, Drop
  <1>14. CASE RowInfoThrows
    BY <1>14 DEF BlameSound, UsersNamed, RowInfoThrows
  <1>15. CASE Execute
    <2>1. rows' = <<>> /\ UNCHANGED <<world, users, early, ever, raced>> /\ at = "exec" /\ at' # "busy"
      BY <1>15 DEF Execute, Take
    <2> QED
      BY <2>1 DEF BlameSound, UsersNamed
  <1>16. CASE RequestFails
    BY <1>16, RowsNamed DEF BlameSound, RequestFails, Drop
  <1>17. CASE KillUsers
    <2>1. rows' = <<>> /\ at' = "scan" /\ UNCHANGED ever
      BY <1>17 DEF KillUsers
    <2>2. \A d \in Devs : users'[d] \subseteq users[d]
      BY <1>17 DEF KillUsers
    <2> QED
      BY <2>1, <2>2 DEF BlameSound, UsersNamed
  <1>18. CASE Done
    BY <1>18, RowsNamed DEF BlameSound, Done, Drop
  <1>19. ASSUME NEW d \in Devs, Unplug(d) PROVE BlameSound'
    <2>1. UNCHANGED <<world, ever, raced, rows, at, cur, blamed, unread>>
      BY <1>19 DEF Unplug
    <2>2. \A e \in Devs : /\ users'[e] \subseteq users[e] /\ early'[e] \subseteq early[e]
                          /\ early[e] \subseteq users[e] => early'[e] \subseteq users'[e]
      BY <1>19 DEF Unplug, TypeOK
    <2>3. \A e \in Devs : /\ users'[e] \subseteq ever'[e]
                          /\ at' # "scan" => early'[e] \subseteq users'[e]
      BY <2>1, <2>2 DEF BlameSound
    <2>4. \A e \in Devs : early'[e] \subseteq early[e] /\ ever[e] \subseteq ever'[e]
      BY <2>1, <2>2
    <2>5. UsersNamed'
      <3>1. rows' = rows /\ world' = world /\ raced \subseteq raced' /\ UsersNamed
        BY <2>1 DEF BlameSound
      <3> QED
        BY ONLY <2>4, <3>1, TypeOK, RowsNamed
    <2>6. at' = "busy" => /\ (early'[cur'] \cap world'.readable) \ unread' \subseteq blamed'
                          /\ blamed' \subseteq ever'[cur'] \cup raced'
      <3>1. at = "busy" => cur \in Devs
        BY CurIs DEF Opening
      <3> QED
        BY <2>1, <2>4, <3>1 DEF BlameSound
    <2> QED
      BY <2>3, <2>5, <2>6 DEF BlameSound
  <1>20. ASSUME NEW p \in Processes, FindRaced(p) PROVE BlameSound'
    <2>1. /\ UNCHANGED <<world, users, early, ever, rows, at, cur, unread>> /\ at = "busy"
          /\ raced' = raced \cup {p} /\ blamed \subseteq blamed' /\ blamed' \subseteq blamed \cup {p}
      BY <1>20 DEF FindRaced
    <2>2. UsersNamed'
      BY <2>1, RowsNamed DEF BlameSound
    <2> QED
      BY <2>1, <2>2 DEF BlameSound
  <1>21. ASSUME NEW p \in Processes, NEW d \in Devs, OtherOpens(p, d) PROVE BlameSound'
    <2>1. UNCHANGED <<world, early, raced, rows, at, cur, blamed, unread>>
      BY <1>21 DEF OtherOpens
    <2>2. \A e \in Devs : /\ users[e] \subseteq users'[e] /\ ever[e] \subseteq ever'[e]
                          /\ users'[e] \subseteq users[e] \cup {p} \/ users'[e] = users[e]
                          /\ users'[e] = users[e] \/ p \in ever'[e]
      BY <1>21 DEF OtherOpens, TypeOK
    <2>3. \A e \in Devs : /\ users'[e] \subseteq ever'[e]
                          /\ at' # "scan" => early'[e] \subseteq users'[e]
      BY <2>1, <2>2 DEF BlameSound
    <2>4. \A e \in Devs : early'[e] \subseteq early[e] /\ ever[e] \subseteq ever'[e]
      BY <2>1, <2>2
    <2>5. UsersNamed'
      <3>1. rows' = rows /\ world' = world /\ raced \subseteq raced' /\ UsersNamed
        BY <2>1 DEF BlameSound
      <3> QED
        BY ONLY <2>4, <3>1, TypeOK, RowsNamed
    <2>6. at' = "busy" => /\ (early'[cur'] \cap world'.readable) \ unread' \subseteq blamed'
                          /\ blamed' \subseteq ever'[cur'] \cup raced'
      <3>1. at = "busy" => cur \in Devs
        BY CurIs DEF Opening
      <3> QED
        BY <2>1, <2>4, <3>1 DEF BlameSound
    <2> QED
      BY <2>3, <2>5, <2>6 DEF BlameSound
  <1>22. ASSUME NEW p \in Processes, NEW d \in Devs, OtherCloses(p, d) PROVE BlameSound'
    <2>1. UNCHANGED <<world, ever, raced, rows, at, cur, blamed, unread>>
      BY <1>22 DEF OtherCloses
    <2>2. \A e \in Devs : /\ users'[e] \subseteq users[e] /\ early'[e] \subseteq early[e]
                          /\ early[e] \subseteq users[e] => early'[e] \subseteq users'[e]
      BY <1>22 DEF OtherCloses, TypeOK
    <2>3. \A e \in Devs : /\ users'[e] \subseteq ever'[e]
                          /\ at' # "scan" => early'[e] \subseteq users'[e]
      BY <2>1, <2>2 DEF BlameSound
    <2>4. \A e \in Devs : early'[e] \subseteq early[e] /\ ever[e] \subseteq ever'[e]
      BY <2>1, <2>2
    <2>5. UsersNamed'
      <3>1. rows' = rows /\ world' = world /\ raced \subseteq raced' /\ UsersNamed
        BY <2>1 DEF BlameSound
      <3> QED
        BY ONLY <2>4, <3>1, TypeOK, RowsNamed
    <2>6. at' = "busy" => /\ (early'[cur'] \cap world'.readable) \ unread' \subseteq blamed'
                          /\ blamed' \subseteq ever'[cur'] \cup raced'
      <3>1. at = "busy" => cur \in Devs
        BY CurIs DEF Opening
      <3> QED
        BY <2>1, <2>4, <3>1 DEF BlameSound
    <2> QED
      BY <2>3, <2>5, <2>6 DEF BlameSound
  <1>23. CASE UNCHANGED vars
    BY <1>23, RowsNamed DEF BlameSound
  <1> QED
    BY <1>1, <1>2, <1>3, <1>4, <1>5, <1>6, <1>7, <1>8, <1>9, <1>10, <1>11, <1>12, <1>13, <1>14, <1>15, <1>16, <1>17, <1>18, <1>19, <1>20, <1>21, <1>22, <1>23 DEF Next, Steps

\* No device is forgotten.
LEMMA SearchedStep ==
    ASSUME TypeOK, ProbeSound, RowsSound, Searched, [Next]_vars
    PROVE  Searched'
  <1> USE DEF world_, search_, vars
  <1>1. CASE Scan
    BY <1>1, WorldType, Places, ProcessesAssumption DEF Searched, Spoilt, Wanted, Usable, Scan
  <1>2. CASE NextDevice
    <2>1. PICK i \in todo : /\ todo' = todo \ {i}
                            /\ IF Skipped(Bus[i]) \/ Bus[i] \notin present
                               THEN UNCHANGED <<cur, iface, at>>
                               ELSE cur' = Bus[i] /\ iface' = 1 /\ at' = "probe"
      BY <1>2 DEF NextDevice
    <2>2. /\ UNCHANGED <<world, mode, present, holders, faulty>> /\ at = "next"
          /\ at' \in {"next", "probe"}
      BY <1>2, <2>1 DEF NextDevice
    <2>3. cur \notin Devs
      BY <2>2, Places DEF ProbeSound, Opening
    <2>4. ASSUME mode = "find", NEW d \in Devs, Wanted(d), Usable(d)
          PROVE  Spoilt(d) \/ d = cur' \/ \E n \in todo' : Bus[n] = d
      <3>1. Spoilt(d) \/ \E n \in todo : Bus[n] = d
        BY <2>2, <2>3, <2>4 DEF Searched
      <3>2. CASE d = Bus[i]
        <4>1. ~Skipped(d)
          BY <2>4 DEF Skipped, Wanted
        <4>2. d \notin present => d \in faulty
          BY DEF Searched
        <4> QED
          BY <2>1, <3>2, <4>1, <4>2 DEF Spoilt
      <3> QED
        BY <2>1, <3>1, <3>2
    <2> QED
      BY <2>2, <2>4 DEF Searched, Spoilt, Wanted, Usable
  <1>3. CASE DeviceGone
    BY <1>3, WorldType, Places, ProcessesAssumption, ReleasedType DEF Searched, Spoilt, Wanted, Usable, DeviceGone, Drop
  <1>4. CASE ProbeInterface
    <2> DEFINE k == world.ifaces[cur]
    <2>1. /\ Opening /\ at = "probe" /\ cur \in Devs /\ k \in Seq(Kinds)
          /\ UNCHANGED <<world, mode, present, faulty, todo>>
      BY <1>4, CurIs, WorldType DEF ProbeSound, Opening, ProbeInterface
    <2>2. CASE Drop
      <3>1. iface = Len(k) + 1 \/ UNCHANGED cur
        BY <1>4, <2>1 DEF ProbeInterface, ProbeSound, Opening
      <3>2. iface > Len(k)
        BY <1>4, <2>1, <2>2, Places DEF ProbeInterface, Drop
      <3>3. ~Usable(cur)
        BY <2>1, <3>2 DEF ProbeSound, Opening, Stopping, Usable
      <3> QED
        BY <2>1, <2>2, <3>3, ReleasedType, ProcessesAssumption DEF Searched, Spoilt, Wanted, Usable, Drop
    <2>3. CASE UNCHANGED <<holders, cur>> /\ at' \in {"probe", "claim"}
      BY <2>1, <2>3 DEF Searched, Spoilt, Wanted, Usable
    <2> QED
      BY <1>4, <2>1, <2>2, <2>3 DEF ProbeInterface
  <1>5. CASE ClaimInterface
    BY <1>5, WorldType, Places, ProcessesAssumption DEF Searched, Spoilt, Wanted, Usable, ClaimInterface
  <1>6. CASE ClaimFails
    BY <1>6, WorldType, Places, ProcessesAssumption, ReleasedType DEF Searched, Spoilt, Wanted, Usable, ClaimFails, Drop
  <1>7. CASE CreatePipe
    <2> DEFINE k == world.ifaces[cur]
    <2>1. /\ Opening /\ at = "pipe" /\ cur \in Devs /\ k \in Seq(Kinds)
          /\ UNCHANGED <<world, mode, present, faulty, todo>>
      BY <1>7, CurIs, WorldType DEF ProbeSound, Opening, CreatePipe
    <2>2. CASE k[iface] = "broken" /\ Drop
      <3>1. ~Usable(cur)
        BY <2>1, <2>2 DEF ProbeSound, Opening, Stopping, Usable
      <3> QED
        BY <2>1, <2>2, <3>1, ReleasedType, ProcessesAssumption DEF Searched, Spoilt, Wanted, Usable, Drop
    <2>3. CASE mode = "dialog" /\ at' = "next"
      BY <2>1, <2>3 DEF Searched
    <2>4. CASE UNCHANGED <<holders, cur>> /\ at' = "info"
      BY <2>1, <2>4 DEF Searched, Spoilt, Wanted, Usable
    <2> QED
      BY <1>7, <2>2, <2>3, <2>4 DEF CreatePipe
  <1>8. CASE CheckInfo
    BY <1>8, WorldType, Places, ProcessesAssumption, ReleasedType DEF Searched, Spoilt, Wanted, Usable, CheckInfo, Drop, Matches
  <1>9. CASE ScanEnds
    BY <1>9, WorldType, Places, ProcessesAssumption DEF Searched, Spoilt, Wanted, Usable, ScanEnds
  <1>10. ASSUME NEW p \in Processes, FindUser(p) PROVE Searched'
    BY <1>10, WorldType, Places, ProcessesAssumption DEF Searched, Spoilt, Wanted, Usable, FindUser
  <1>11. CASE BusyThrown
    BY <1>11, WorldType, Places, ProcessesAssumption, ReleasedType DEF Searched, Spoilt, Wanted, Usable, BusyThrown, Drop
  <1>12. CASE SortRows
    BY <1>12, WorldType, Places, ProcessesAssumption DEF Searched, Spoilt, Wanted, Usable, SortRows
  <1>13. CASE RowInfo
    BY <1>13, WorldType, Places, ProcessesAssumption DEF Searched, Spoilt, Wanted, Usable, RowInfo
  <1>14. CASE RowInfoThrows
    BY <1>14, WorldType, Places, ProcessesAssumption, ReleasedType DEF Searched, Spoilt, Wanted, Usable, RowInfoThrows
  <1>15. CASE Execute
    BY <1>15, WorldType, Places, ProcessesAssumption, ReleasedType DEF Searched, Spoilt, Wanted, Usable, Execute, Take
  <1>16. CASE RequestFails
    BY <1>16, WorldType, Places, ProcessesAssumption, ReleasedType DEF Searched, Spoilt, Wanted, Usable, RequestFails, Drop
  <1>17. CASE KillUsers
    BY <1>17, WorldType, Places, ProcessesAssumption, ReleasedType DEF Searched, Spoilt, Wanted, Usable, KillUsers
  <1>18. CASE Done
    BY <1>18, WorldType, Places, ProcessesAssumption DEF Searched, Spoilt, Wanted, Usable, Done
  <1>19. ASSUME NEW d \in Devs, Unplug(d) PROVE Searched'
    BY <1>19, WorldType, Places, ProcessesAssumption DEF Searched, Spoilt, Wanted, Usable, Unplug
  <1>20. ASSUME NEW p \in Processes, FindRaced(p) PROVE Searched'
    BY <1>20, WorldType, Places, ProcessesAssumption DEF Searched, Spoilt, Wanted, Usable, FindRaced
  <1>21. ASSUME NEW p \in Processes, NEW d \in Devs, OtherOpens(p, d) PROVE Searched'
    <2>1. UNCHANGED <<world, mode, present, todo, cur, at, faulty>>
      BY <1>21 DEF OtherOpens
    <2>2. \A e \in Devs : Spoilt(e) => Spoilt(e)'
      BY <1>21, ProcessesAssumption DEF OtherOpens, Spoilt, TypeOK
    <2>3. at = "busy" => cur \in Devs
      BY CurIs DEF Opening
    <2> QED
      BY <2>1, <2>2, <2>3 DEF Searched, Wanted, Usable
  <1>22. ASSUME NEW p \in Processes, NEW d \in Devs, OtherCloses(p, d) PROVE Searched'
    <2>1. /\ UNCHANGED <<world, mode, present, todo, cur, at>>
          /\ faulty \subseteq faulty'
      BY <1>22 DEF OtherCloses
    <2>2. \A e \in Devs : Spoilt(e) => Spoilt(e)'
      BY <1>22 DEF OtherCloses, Spoilt, TypeOK
    <2>3. at = "busy" => cur \in Devs
      BY CurIs DEF Opening
    <2> QED
      BY <2>1, <2>2, <2>3 DEF Searched, Wanted, Usable
  <1>23. CASE UNCHANGED vars
    BY <1>23 DEF Searched, Spoilt, Wanted, Usable, Wanted, Usable
  <1> QED
    BY <1>1, <1>2, <1>3, <1>4, <1>5, <1>6, <1>7, <1>8, <1>9, <1>10, <1>11, <1>12, <1>13, <1>14, <1>15, <1>16, <1>17, <1>18, <1>19, <1>20, <1>21, <1>22, <1>23 DEF Next, Steps

\* No claim is left behind.
LEMMA ClaimsStep ==
    ASSUME TypeOK, ProbeSound, RowsSound, ClaimsAccounted, [Next]_vars
    PROVE  ClaimsAccounted'
  <1> USE DEF world_, search_, vars
  <1>1. CASE Scan
    BY <1>1, Places DEF ClaimsAccounted, Ours, Held, Over, Scan
  <1>2. CASE NextDevice
    <2>1. Ours' = Ours /\ Held' = Held /\ ~Over'
      BY <1>2, HeldRows DEF NextDevice, Ours, Over
    <2>2. Ours \subseteq Held
      BY <1>2, BetweenDevices DEF NextDevice, Opening, Over
    <2> QED
      BY <2>1, <2>2 DEF ClaimsAccounted
  <1>3. CASE DeviceGone
    <2>1. Opening /\ (UNCHANGED rows)
      BY <1>3 DEF DeviceGone, Opening
    <2>2. CASE Drop
      BY <2>1, <2>2, Dropped, HeldRows DEF ClaimsAccounted
    <2>3. CASE UNCHANGED holders /\ UNCHANGED cur /\ ~Over'
      BY <2>1, <2>3, HeldRows DEF ClaimsAccounted, Ours, Opening, Over
    <2> QED
      BY <1>3, <2>2, <2>3 DEF DeviceGone, Over
  <1>4. CASE ProbeInterface
    <2>1. Opening /\ (UNCHANGED rows)
      BY <1>4 DEF ProbeInterface, Opening
    <2>2. CASE Drop
      BY <2>1, <2>2, Dropped, HeldRows DEF ClaimsAccounted
    <2>3. CASE UNCHANGED holders /\ UNCHANGED cur /\ ~Over'
      BY <2>1, <2>3, HeldRows DEF ClaimsAccounted, Ours, Opening, Over
    <2> QED
      BY <1>4, <2>2, <2>3 DEF ProbeInterface, Over
  <1>5. CASE ClaimInterface
    BY <1>5, Places DEF ClaimsAccounted, Ours, Held, Over, ClaimInterface
  <1>6. CASE ClaimFails
    <2>1. Opening /\ (UNCHANGED rows)
      BY <1>6 DEF ClaimFails, Opening
    <2>2. CASE Drop
      BY <2>1, <2>2, Dropped, HeldRows DEF ClaimsAccounted
    <2>3. CASE UNCHANGED holders /\ UNCHANGED cur /\ ~Over'
      BY <2>1, <2>3, HeldRows DEF ClaimsAccounted, Ours, Opening, Over
    <2> QED
      BY <1>6, <2>2, <2>3 DEF ClaimFails, Over
  <1>7. CASE CreatePipe
    <2>1. Opening /\ cur \in Devs
      BY <1>7, CurIs DEF CreatePipe, Opening
    <2>2. CASE Drop /\ UNCHANGED rows
      BY <2>1, <2>2, Dropped, HeldRows DEF ClaimsAccounted
    <2>3. CASE UNCHANGED holders /\ UNCHANGED cur /\ UNCHANGED rows /\ at' = "info"
      BY <2>1, <2>3, HeldRows DEF ClaimsAccounted, Ours, Opening, Over
    <2>4. CASE /\ rows' = Append(rows, [dev |-> cur, open |-> TRUE, procs |-> {}])
               /\ at' = "next" /\ UNCHANGED holders
      <3>1. Held \subseteq Held' /\ cur \in Held'
        <4>1. TRUE \in BOOLEAN /\ {} \in SUBSET Processes
          OBVIOUS
        <4> QED
          BY <2>1, <2>4, <4>1, HeldMore
      <3>2. Ours' = Ours /\ Ours \subseteq Held \cup {cur} /\ ~Over'
        BY <2>1, <2>4 DEF ClaimsAccounted, Opening, Over, Ours
      <3> QED
        BY <3>1, <3>2 DEF ClaimsAccounted
    <2> QED
      BY <1>7, <2>2, <2>3, <2>4 DEF CreatePipe
  <1>8. CASE CheckInfo
    <2>1. Opening /\ (UNCHANGED rows) /\ rows = <<>> /\ cur \in Devs
      BY <1>8, CurIs DEF CheckInfo, Opening, ProbeSound, RowsSound
    <2>2. CASE Drop
      BY <2>1, <2>2, Dropped, HeldRows DEF ClaimsAccounted
    <2>3. CASE result' = cur /\ at' = "opened" /\ UNCHANGED holders
      <3>1. Ours' = Ours /\ Ours \subseteq {cur} /\ Over'
        BY <2>1, <2>3, HeldRows DEF ClaimsAccounted, Ours, Opening, Over
      <3> QED
        BY <2>3, <3>1 DEF ClaimsAccounted
    <2> QED
      BY <1>8, <2>2, <2>3 DEF CheckInfo
  <1>9. CASE ScanEnds
    <2>1. Ours' = Ours /\ Held' = Held
      BY <1>9, HeldRows DEF ScanEnds, Ours
    <2>2. Ours \subseteq Held
      BY <1>9, BetweenDevices DEF ScanEnds, Opening, Over
    <2>3. mode # "dialog" => Held = {}
      BY HeldRows DEF RowsSound
    <2>4. Over' => mode # "dialog"
      BY <1>9 DEF ScanEnds, Over
    <2> QED
      BY <2>1, <2>2, <2>3, <2>4 DEF ClaimsAccounted
  <1>10. ASSUME NEW p \in Processes, FindUser(p) PROVE ClaimsAccounted'
    BY <1>10, Places DEF ClaimsAccounted, Ours, Held, Over, FindUser
  <1>11. CASE BusyThrown
    <2>1. Opening /\ cur \in Devs /\ Drop
      BY <1>11, CurIs DEF BusyThrown, Opening
    <2>2. Held \subseteq Held'
      BY <1>11, <2>1, HeldMore, HeldRows DEF BusyThrown, TypeOK
    <2> QED
      BY <2>1, <2>2, Dropped DEF ClaimsAccounted
  <1>12. CASE SortRows
    <2>1. rows \in Seq(RowSet)
      BY DEF TypeOK, RowSet
    <2>2. \A j \in DOMAIN rows : \E i \in DOMAIN rows' : rows'[i] = rows[j]
      BY <1>12, <2>1, SortedRows
    <2>3. Held \subseteq Held'
      BY <2>2 DEF Held
    <2>4. Ours' = Ours /\ ~Over' /\ ~Over /\ UNCHANGED cur
      BY <1>12 DEF SortRows, Ours, Over
    <2> QED
      BY <2>3, <2>4 DEF ClaimsAccounted
  <1>13. CASE RowInfo
    BY <1>13, Places DEF ClaimsAccounted, Ours, Held, Over, RowInfo
  <1>14. CASE RowInfoThrows
    <2>1. Ours' = Ours \ Held
      BY <1>14, OursReleased DEF RowInfoThrows
    <2>2. Ours \subseteq Held
      BY <1>14, BetweenDevices DEF RowInfoThrows, Opening, Over
    <2>3. Over'
      BY <1>14 DEF RowInfoThrows, Over
    <2> QED
      BY <2>1, <2>2, <2>3 DEF ClaimsAccounted
  <1>15. CASE Execute
    <2>1. Ours \subseteq Held
      BY <1>15, BetweenDevices DEF Execute, Opening, Over
    <2>2. CASE rows = <<>> /\ at' = "none" /\ UNCHANGED <<holders, rows, result>>
      <3>1. Ours' = Ours /\ Held = {} /\ Over'
        BY <2>2, HeldRows DEF Ours, Over
      <3> QED
        BY <2>1, <3>1 DEF ClaimsAccounted
    <2>3. ASSUME NEW i \in DOMAIN rows, Take(i)
          PROVE  ClaimsAccounted'
      <3>1. Over' /\ Ours' = Ours \ (Held \ {result'})
        BY <2>3, OursReleased DEF Take, Over
      <3> QED
        BY <2>1, <3>1 DEF ClaimsAccounted
    <2>4. 1 \in DOMAIN rows \/ Len(rows) # 1
      BY DEF TypeOK
    <2> QED
      BY <1>15, <2>2, <2>3, <2>4 DEF Execute
  <1>16. CASE RequestFails
    <2>1. Opening /\ (UNCHANGED rows)
      BY <1>16 DEF RequestFails, Opening
    <2>2. CASE Drop
      BY <2>1, <2>2, Dropped, HeldRows DEF ClaimsAccounted
    <2>3. CASE UNCHANGED holders /\ UNCHANGED cur /\ ~Over'
      BY <2>1, <2>3, HeldRows DEF ClaimsAccounted, Ours, Opening, Over
    <2> QED
      BY <1>16, <2>2, <2>3 DEF RequestFails, Over
  <1>17. CASE KillUsers
    <2>1. Ours \subseteq Held
      BY <1>17, BetweenDevices DEF KillUsers, Opening, Over
    <2>2. \A d \in Devs : holders'[d] # "us"
      BY <1>17, <2>1, ReleasedType DEF KillUsers, Ours, Nobody
    <2>3. Ours' = {} /\ ~Over'
      BY <1>17, <2>2 DEF KillUsers, Ours, Over
    <2> QED
      BY <2>3 DEF ClaimsAccounted
  <1>18. CASE Done
    BY <1>18, Places DEF ClaimsAccounted, Ours, Held, Over, Done
  <1>19. ASSUME NEW d \in Devs, Unplug(d) PROVE ClaimsAccounted'
    <2>1. Ours' = Ours /\ Held' = Held /\ (Over' <=> Over) /\ UNCHANGED <<cur, result>>
      BY <1>19, HeldRows DEF Unplug, Ours, Nobody, Over, TypeOK
    <2> QED
      BY <2>1 DEF ClaimsAccounted
  <1>20. ASSUME NEW p \in Processes, FindRaced(p) PROVE ClaimsAccounted'
    BY <1>20, Places DEF ClaimsAccounted, Ours, Held, Over, FindRaced
  <1>21. ASSUME NEW p \in Processes, NEW d \in Devs, OtherOpens(p, d) PROVE ClaimsAccounted'
    <2>1. \A e \in Devs : holders'[e] = "us" <=> holders[e] = "us"
      BY <1>21, ProcessesAssumption DEF OtherOpens, Nobody, TypeOK
    <2>2. Ours' = Ours /\ Held' = Held /\ (Over' <=> Over) /\ UNCHANGED <<cur, result>>
      BY <1>21, <2>1, HeldRows DEF OtherOpens, Ours, Over
    <2> QED
      BY <2>2 DEF ClaimsAccounted
  <1>22. ASSUME NEW p \in Processes, NEW d \in Devs, OtherCloses(p, d) PROVE ClaimsAccounted'
    <2>1. \A e \in Devs : holders'[e] = "us" <=> holders[e] = "us"
      BY <1>22, ProcessesAssumption DEF OtherCloses, Nobody, TypeOK
    <2>2. Ours' = Ours /\ Held' = Held /\ (Over' <=> Over) /\ UNCHANGED <<cur, result>>
      BY <1>22, <2>1, HeldRows DEF OtherCloses, Ours, Over
    <2> QED
      BY <2>2 DEF ClaimsAccounted
  <1>23. CASE UNCHANGED vars
    BY <1>23 DEF ClaimsAccounted, Ours, Held, Over
  <1> QED
    BY <1>1, <1>2, <1>3, <1>4, <1>5, <1>6, <1>7, <1>8, <1>9, <1>10, <1>11, <1>12, <1>13, <1>14, <1>15, <1>16, <1>17, <1>18, <1>19, <1>20, <1>21, <1>22, <1>23 DEF Next, Steps

\* What is opened is wanted.
LEMMA OpenedStep ==
    ASSUME TypeOK, ProbeSound, RowsSound, OpenedIsWanted, [Next]_vars
    PROVE  OpenedIsWanted'
  <1> USE DEF world_, search_, vars
  <1>1. CASE Scan
    BY <1>1, WorldType DEF OpenedIsWanted, Usable, Wanted, Scan
  <1>2. CASE NextDevice
    BY <1>2, WorldType DEF OpenedIsWanted, Usable, Wanted, NextDevice
  <1>3. CASE DeviceGone
    BY <1>3, WorldType DEF OpenedIsWanted, Usable, Wanted, DeviceGone, Drop
  <1>4. CASE ProbeInterface
    BY <1>4, WorldType DEF OpenedIsWanted, Usable, Wanted, ProbeInterface, Drop
  <1>5. CASE ClaimInterface
    BY <1>5, WorldType DEF OpenedIsWanted, Usable, Wanted, ClaimInterface
  <1>6. CASE ClaimFails
    BY <1>6, WorldType DEF OpenedIsWanted, Usable, Wanted, ClaimFails, Drop
  <1>7. CASE CreatePipe
    BY <1>7, WorldType DEF OpenedIsWanted, Usable, Wanted, CreatePipe, Drop
  <1>8. CASE CheckInfo
    BY <1>8, WorldType, CurIs DEF OpenedIsWanted, Usable, Wanted, CheckInfo, Drop, ProbeSound, Opening, Stopping, Matches
  <1>9. CASE ScanEnds
    BY <1>9, WorldType DEF OpenedIsWanted, Usable, Wanted, ScanEnds
  <1>10. ASSUME NEW p \in Processes, FindUser(p) PROVE OpenedIsWanted'
    BY <1>10, WorldType DEF OpenedIsWanted, Usable, Wanted, FindUser
  <1>11. CASE BusyThrown
    BY <1>11, WorldType DEF OpenedIsWanted, Usable, Wanted, BusyThrown, Drop
  <1>12. CASE SortRows
    BY <1>12, WorldType DEF OpenedIsWanted, Usable, Wanted, SortRows
  <1>13. CASE RowInfo
    BY <1>13, WorldType DEF OpenedIsWanted, Usable, Wanted, RowInfo
  <1>14. CASE RowInfoThrows
    BY <1>14, WorldType DEF OpenedIsWanted, Usable, Wanted, RowInfoThrows
  <1>15. CASE Execute
    <2>1. UNCHANGED <<world, mode>> /\ mode = "dialog"
      BY <1>15 DEF Execute, ProbeSound
    <2>2. CASE at' = "none"
      BY <2>2 DEF OpenedIsWanted
    <2>3. ASSUME NEW i \in DOMAIN rows, Take(i)
          PROVE  OpenedIsWanted'
      <3>1. at' = "opened" => result' = rows[i].dev /\ Usable(rows[i].dev)
        BY <2>3 DEF Take, RowsSound
      <3> QED
        BY <2>1, <3>1 DEF OpenedIsWanted, Usable, Wanted
    <2>4. 1 \in DOMAIN rows \/ Len(rows) # 1
      BY DEF TypeOK
    <2> QED
      BY <1>15, <2>2, <2>3, <2>4 DEF Execute
  <1>16. CASE RequestFails
    BY <1>16, WorldType DEF OpenedIsWanted, Usable, Wanted, RequestFails, Drop
  <1>17. CASE KillUsers
    BY <1>17, WorldType DEF OpenedIsWanted, Usable, Wanted, KillUsers
  <1>18. CASE Done
    BY <1>18, WorldType DEF OpenedIsWanted, Usable, Wanted, Done
  <1>19. ASSUME NEW d \in Devs, Unplug(d) PROVE OpenedIsWanted'
    BY <1>19, WorldType DEF OpenedIsWanted, Usable, Wanted, Unplug
  <1>20. ASSUME NEW p \in Processes, FindRaced(p) PROVE OpenedIsWanted'
    BY <1>20, WorldType DEF OpenedIsWanted, Usable, Wanted, FindRaced
  <1>21. ASSUME NEW p \in Processes, NEW d \in Devs, OtherOpens(p, d) PROVE OpenedIsWanted'
    BY <1>21, WorldType DEF OpenedIsWanted, Usable, Wanted, OtherOpens
  <1>22. ASSUME NEW p \in Processes, NEW d \in Devs, OtherCloses(p, d) PROVE OpenedIsWanted'
    BY <1>22, WorldType DEF OpenedIsWanted, Usable, Wanted, OtherCloses
  <1>23. CASE UNCHANGED vars
    BY <1>23 DEF OpenedIsWanted, Usable, Wanted, Usable
  <1> QED
    BY <1>1, <1>2, <1>3, <1>4, <1>5, <1>6, <1>7, <1>8, <1>9, <1>10, <1>11, <1>12, <1>13, <1>14, <1>15, <1>16, <1>17, <1>18, <1>19, <1>20, <1>21, <1>22, <1>23 DEF Next, Steps

-----------------------------------------------------------------------------
(* The theorems *)

\* The search begins soundly.
LEMMA InitSound ==
    Init => SearchInv
  <1> SUFFICES ASSUME Init PROVE SearchInv
    OBVIOUS
  <1>1. TypeOK
    BY WorldAssumption, FaultsAssumption DEF Init, TypeOK, World
  <1>2. ProbeSound /\ RowsSound /\ OpenedIsWanted
    BY DEF Init, ProbeSound, RowsSound, OpenedIsWanted, Opening, Over
  <1>3. BlameSound
    BY <1>1 DEF Init, BlameSound, UsersNamed
  <1>4. Searched
    BY DEF Init, Searched
  <1>5. ClaimsAccounted
    BY <1>1, WorldType, ProcessesAssumption DEF Init, ClaimsAccounted, Ours, Over, Nobody
  <1> QED
    BY <1>1, <1>2, <1>3, <1>4, <1>5 DEF SearchInv

\* Each step keeps it sound.
LEMMA StepSound ==
    SearchInv /\ [Next]_vars => SearchInv'
  BY TypeStep, ProbeStep, RowsStep, BlameStep, SearchedStep, ClaimsStep, OpenedStep DEF SearchInv

\* What the probes and the list have passed is never needed again
\* (Device::FindFirst, Device::Open, DevicesDialog::scan).
THEOREM SearchIsSound == Spec => []SearchInv
  BY InitSound, StepSound, PTL DEF Spec

\* A search opens only what is wanted and can be used, and ends without a device
\* only when every such device failed or is held by another process.
THEOREM SearchAlwaysFinds == Spec => []SearchFinds
  <1>1. SearchInv => SearchFinds
    <2> SUFFICES ASSUME SearchInv PROVE NoneIsNone
      BY DEF SearchInv, SearchFinds
    <2>1. at = "none" => todo = {} /\ cur \notin Devs
      BY Places DEF SearchInv, Searched, ProbeSound, Opening
    <2> QED
      BY <2>1 DEF SearchInv, Searched, NoneIsNone, Spoilt
  <1> QED
    BY <1>1, SearchIsSound, PTL

\* Whatever exception leaves the loop, the dialog or a row, the interfaces still
\* claimed are those of the device being opened, of the rows, or of the device chosen.
THEOREM ClaimsAlwaysAccounted == Spec => []ClaimsAccounted
  <1>1. SearchInv => ClaimsAccounted
    BY DEF SearchInv
  <1> QED
    BY <1>1, SearchIsSound, PTL

\* The dialog names, of a busy device, whoever has had it open since the list was begun,
\* and nobody who has not: the list it kills from is the device's own.
THEOREM UsersAlwaysNamed == Spec => []UsersNamed
  <1>1. SearchInv => UsersNamed
    BY DEF SearchInv, BlameSound
  <1> QED
    BY <1>1, SearchIsSound, PTL
=============================================================================
