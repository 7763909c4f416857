--------------------------- MODULE UrbQueueProofs ---------------------------
(* For every size of a transfer, number of buffers, packets and faults:       *)
(* however transfers end, neither URBs nor buffers pile up, and packets come  *)
(* out in order, missing only where a transfer was given up.                  *)
EXTENDS UrbQueue, FiniteSetTheorems, SequenceTheorems, WellFoundedInduction, TLAPS

\* A sequence without the element at i.
LEMMA RemoveAtProperties ==
    ASSUME NEW S, NEW s \in Seq(S), NEW i \in 1 .. Len(s)
    PROVE  /\ RemoveAt(s, i) \in Seq(S)
           /\ Len(RemoveAt(s, i)) = Len(s) - 1
           /\ \A k \in 1 .. Len(s) - 1 :
                 RemoveAt(s, i)[k] = IF k < i THEN s[k] ELSE s[k + 1]
  <1> DEFINE left == SubSeq(s, 1, i - 1)
             right == SubSeq(s, i + 1, Len(s))
  <1>1. /\ left \in Seq(S) /\ Len(left) = i - 1
        /\ \A k \in 1 .. i - 1 : left[k] = s[k]
    BY SubSeqProperties
  <1>2. /\ right \in Seq(S) /\ Len(right) = Len(s) - i
        /\ \A k \in 1 .. Len(s) - i : right[k] = s[k + i]
    BY SubSeqProperties
  <1>3. /\ left \o right \in Seq(S) /\ Len(left \o right) = Len(left) + Len(right)
        /\ \A k \in 1 .. Len(left) + Len(right) :
              (left \o right)[k] = IF k <= Len(left) THEN left[k] ELSE right[k - Len(left)]
    BY <1>1, <1>2, ConcatProperties
  <1>4. RemoveAt(s, i) = left \o right
    BY DEF RemoveAt
  <1> HIDE DEF left, right
  <1>5. Len(left \o right) = Len(s) - 1
    BY <1>1, <1>2, <1>3
  <1>6. ASSUME NEW k \in 1 .. Len(s) - 1
        PROVE  (left \o right)[k] = IF k < i THEN s[k] ELSE s[k + 1]
    <2>1. CASE k < i
      BY <2>1, <1>1, <1>2, <1>3
    <2>2. CASE ~(k < i)
      <3>1. k - Len(left) \in 1 .. Len(s) - i /\ (k - Len(left)) + i = k + 1
        BY <2>2, <1>1
      <3>2. (left \o right)[k] = right[k - Len(left)]
        BY <2>2, <1>1, <1>2, <1>3
      <3> QED
        BY <2>2, <3>1, <3>2, <1>2
    <2> QED
      BY <2>1, <2>2
  <1> QED
    BY <1>3, <1>4, <1>5, <1>6

LEMMA UnfinishedAreUrbs == Unfinished \subseteq Urbs /\ Seq(Unfinished) \subseteq Seq(Urbs)
  <1>1. Unfinished \subseteq Urbs
    BY DEF Unfinished
  <1> QED
    BY <1>1, SeqMonotonic

\* A set of positions has a least one.
LEMMA LeastIndex ==
    ASSUME NEW s \in Seq(Urbs), NEW S \in SUBSET DOMAIN s, S # {}
    PROVE  (CHOOSE n \in S : \A m \in S : n <= m) \in S
           /\ \E n \in S : \A m \in S : n <= m
  <1>1. S \subseteq Nat
    BY LenProperties
  <1>2. PICK n \in S : \A m \in S : <<m, n>> \notin OpToRel(<, Nat)
    BY <1>1, NatLessThanWellFounded, WFMin
  <1>3. \A m \in S : ~(m < n)
    BY <1>1, <1>2 DEF OpToRel
  <1>4. \A m \in S : n <= m
    BY <1>1, <1>3
  <1> QED
    BY <1>4

\* The URB an endpoint works on is one of its own.
LEMMA FirstOfDirection ==
    ASSUME inflight \in Seq(Unfinished), NEW dir \in Dirs, Busy(dir)
    PROVE  /\ First(dir) \in DOMAIN inflight /\ inflight[First(dir)].dir = dir
           /\ \A k \in DOMAIN inflight : k < First(dir) => inflight[k].dir # dir
  <1> DEFINE S == {i \in DOMAIN inflight : inflight[i].dir = dir}
  <1>1. S \in SUBSET DOMAIN inflight /\ S # {} /\ inflight \in Seq(Urbs)
    BY UnfinishedAreUrbs DEF Busy
  <1>2. PICK n \in S : \A m \in S : n <= m
    <2> HIDE DEF S
    <2> QED
      BY <1>1, LeastIndex
  <1>3. n \in DOMAIN inflight /\ inflight[n].dir = dir
        /\ \A k \in 1 .. n - 1 : inflight[k].dir # dir
    BY <1>2, LenProperties
  <1>4. /\ First(dir) \in DOMAIN inflight /\ inflight[First(dir)].dir = dir
        /\ \A k \in 1 .. First(dir) - 1 : inflight[k].dir # dir
    BY <1>3 DEF First
  <1>5. DOMAIN inflight = 1 .. Len(inflight) /\ Len(inflight) \in Nat
    BY LenProperties
  <1> HIDE DEF S
  <1> QED
    BY <1>4, <1>5

LEMMA AddressTypes == \A dir \in Dirs : Frames[dir] \subseteq Addresses
  BY DEF Dirs, Frames, Addresses

\* What is submitted is unfinished, and one more.
LEMMA Submitted ==
    ASSUME inflight \in Seq(Unfinished), NEW u \in Unfinished,
           inflight' = Append(inflight, u)
    PROVE  inflight' \in Seq(Unfinished) /\ Len(inflight') = Len(inflight) + 1
  BY AppendProperties

\* What is reaped leaves one less.
LEMMA Reaped ==
    ASSUME reapable \in Seq(Urbs), reapable # <<>>, reapable' = Tail(reapable)
    PROVE  /\ Head(reapable) \in Urbs
           /\ reapable' \in Seq(Urbs) /\ Len(reapable') = Len(reapable) - 1
  BY HeadTailProperties

\* A URB that is done moves from one list of usbfs to the other.
LEMMA Moved ==
    ASSUME inflight \in Seq(Unfinished), reapable \in Seq(Urbs),
           NEW i \in DOMAIN inflight, NEW u \in Urbs,
           inflight' = RemoveAt(inflight, i), reapable' = Append(reapable, u)
    PROVE  /\ inflight' \in Seq(Unfinished) /\ reapable' \in Seq(Urbs)
           /\ Len(inflight') + Len(reapable') = Len(inflight) + Len(reapable)
           /\ Len(inflight') \in Nat /\ Len(reapable') \in Nat
  <1>1. i \in 1 .. Len(inflight)
    BY LenProperties
  <1>2. inflight' \in Seq(Unfinished) /\ Len(inflight') = Len(inflight) - 1
    BY <1>1, RemoveAtProperties
  <1>3. reapable' \in Seq(Urbs) /\ Len(reapable') = Len(reapable) + 1
    BY AppendProperties
  <1> QED
    BY <1>2, <1>3, LenProperties

LEMMA ProgressKeeps ==
    ASSUME inflight \in Seq(Unfinished), reapable \in Seq(Urbs),
           NEW i \in DOMAIN inflight, NEW u \in Urbs, NEW completed \in BOOLEAN,
           completed \/ u \in Unfinished, Progress(i, u, completed)
    PROVE  /\ inflight' \in Seq(Unfinished) /\ reapable' \in Seq(Urbs)
           /\ Len(inflight') + Len(reapable') = Len(inflight) + Len(reapable)
  <1>1. CASE completed
    BY <1>1, Moved DEF Progress
  <1>2. CASE ~completed
    <2>1. u \in Unfinished /\ inflight' = [inflight EXCEPT ![i] = u] /\ reapable' = reapable
      BY <1>2 DEF Progress
    <2>2. inflight' \in Seq(Unfinished) /\ Len(inflight') = Len(inflight)
      BY <2>1, ExceptSeq, LenProperties
    <2> QED
      BY <2>1, <2>2
  <1> QED
    BY <1>1, <1>2

-----------------------------------------------------------------------------
(* Types *)

\* A transfer has a direction, an address of that direction, and a buffer.
LEMMA TransferTypes ==
    ASSUME TypeOK, call # Idle
    PROVE  /\ call \in Transfers /\ call.addr \in Frames[call.dir]
           /\ call.dir \in Dirs /\ call.addr \in Addresses
           /\ call.index \in 0 .. Buffers - 1 /\ call.len \in 0 .. Size
           /\ call.at \in {"submit", "wait", "timedout"}
  BY DEF TypeOK, Transfers

LEMMA NotIdle ==
    ASSUME call.at # "idle"
    PROVE  call # Idle
  BY DEF Idle

LEMMA IdleAt == Idle.at = "idle" /\ Idle \notin Transfers
  <1>1. Idle.at = "idle"
    BY DEF Idle
  <1>2. \A c \in Transfers : c.at # "idle"
    BY DEF Transfers
  <1> QED
    BY <1>1, <1>2

\* The kernel puts packets into the buffer, or leaves it as it was.
LEMMA CopiedType ==
    ASSUME TypeOK, NEW u \in Urbs
    PROVE  Copied(u) \in [1 .. Size -> 0 .. MaxPackets]
  <1>1. u.data \in Seq(Packets) /\ buffer \in [1 .. Size -> 0 .. MaxPackets]
    BY DEF Urbs, TypeOK
  <1>2. ASSUME NEW i \in 1 .. Size, i <= Len(u.data)
        PROVE  u.data[i] \in 0 .. MaxPackets
    <2>1. i \in 1 .. Len(u.data)
      BY <1>1, <1>2, LenProperties, SizeAssumption
    <2>2. u.data[i] \in Packets
      BY <1>1, <2>1, ElementOfSeq
    <2> QED
      BY <2>2, BoundsAssumption DEF Packets
  <1> QED
    BY <1>1, <1>2 DEF Copied

\* What a read hands on are the packets of the URB that was reaped.
LEMMA ReceivedType ==
    ASSUME TypeOK, NEW u \in Urbs, u.dir = "in"
    PROVE  Received(u) \in Seq(Packets)
  <1>1. u.data \in Seq(Packets) /\ Len(u.data) \in Nat /\ Len(u.data) <= Size
    BY LenProperties DEF Urbs
  <1>2. ASSUME NEW i \in 1 .. Len(u.data)
        PROVE  Copied(u)[i] \in Packets
    <2>1. u.data[i] \in Packets
      BY <1>1, ElementOfSeq
    <2>2. i \in 1 .. Size /\ i <= Len(u.data)
      BY <1>1, SizeAssumption
    <2>3. Copied(u)[i] = u.data[i]
      BY <2>2 DEF Copied
    <2> QED
      BY <2>1, <2>3
  <1>3. SubSeq(Copied(u), 1, Len(u.data)) \in Seq(Packets)
    BY <1>1, <1>2, SubSeqProperties
  <1> QED
    BY <1>3 DEF Received

\* Reads and writes are told apart by their addresses.
LEMMA MineIsOfMyDirection ==
    ASSUME TypeOK, call # Idle, NEW u \in Urbs, Mine(u)
    PROVE  u.dir = call.dir
  <1>1. u.addr \in Frames[u.dir] /\ u.dir \in Dirs
    BY DEF Urbs
  <1>2. call.addr \in Frames[call.dir] /\ call.dir \in Dirs
    BY TransferTypes
  <1> QED
    BY <1>1, <1>2, SeparateFrames DEF Mine, Frames, Dirs

-----------------------------------------------------------------------------
(* The actions *)

LEMMA InitHolds ==
    ASSUME Init
    PROVE  NothingPilesUp
  <1>1. TypeOK
    BY SizeAssumption, BoundsAssumption DEF Init, TypeOK
  <1>2. LagBounded
    BY IdleAt DEF Init, LagBounded, Stale
  <1>3. BuffersReturned /\ GivenUpOnce
    BY IdleAt DEF Init, BuffersReturned, GivenUpOnce, GivenUp, Dirs
  <1> QED
    BY <1>1, <1>2, <1>3 DEF NothingPilesUp

LEMMA StutterKeeps ==
    ASSUME NothingPilesUp, UNCHANGED vars
    PROVE  NothingPilesUp'
  BY DEF NothingPilesUp, vars, TypeOK, LagBounded, Stale, BuffersReturned, GivenUpOnce, GivenUp

LEMMA BeginTransferKeeps ==
    ASSUME NothingPilesUp, NEW dir \in Dirs, BeginTransfer(dir)
    PROVE  NothingPilesUp'
  <1>1. PICK a \in Frames[dir], i \in 0 .. Buffers - 1 :
             /\ Allocate(i)
             /\ call' = [at |-> "submit", dir |-> dir, addr |-> a, index |-> i, len |-> 0]
    BY DEF BeginTransfer
  <1>2. call = Idle /\ UNCHANGED <<buffer, inflight, reapable, sent, seen, given, faults>>
    BY DEF BeginTransfer
  <1>3. call' \in Transfers /\ call'.addr \in Frames[call'.dir] /\ call'.at = "submit"
        /\ call'.index = i
    BY <1>1, SizeAssumption, AddressTypes DEF Transfers
  <1>4. TypeOK'
    BY <1>1, <1>2, <1>3 DEF NothingPilesUp, TypeOK, Allocate
  <1>5. LagBounded'
    BY <1>2, <1>3, IdleAt DEF NothingPilesUp, LagBounded, Stale
  <1>6. BuffersReturned'
    BY <1>1, <1>2, <1>3, IdleAt DEF NothingPilesUp, BuffersReturned, Allocate
  <1>7. GivenUpOnce'
    BY <1>2, <1>3, IdleAt DEF NothingPilesUp, GivenUpOnce, GivenUp
  <1> QED
    BY <1>4, <1>5, <1>6, <1>7 DEF NothingPilesUp

\* A transfer ends: it gives its buffer back and leaves the lists to usbfs.
LEMMA EndCallFrees ==
    ASSUME TypeOK, BuffersReturned, call # Idle, EndCall
    PROVE  /\ call' = Idle /\ call'.at = "idle" /\ allocated' = {} /\ BuffersReturned'
  BY IdleAt DEF EndCall, Free, BuffersReturned

LEMMA SubmitWriteKeeps ==
    ASSUME NothingPilesUp, NEW n \in 0 .. Size, SubmitWrite(n)
    PROVE  NothingPilesUp'
  <1> DEFINE data == [i \in 1 .. n |-> sent["out"] + i]
             u == [dir |-> "out", addr |-> call.addr, data |-> data, done |-> 0]
  <1>1. /\ TypeOK /\ call # Idle /\ call.at = "submit" /\ call.dir = "out"
        /\ sent["out"] + n <= MaxPackets
        /\ UNCHANGED <<allocated, reapable, seen, given, faults>>
    BY NotIdle DEF SubmitWrite, NothingPilesUp
  <1>2. sent["out"] \in 0 .. MaxPackets /\ n \in Nat
    BY <1>1, SizeAssumption DEF TypeOK, Dirs
  <1>3. data \in Seq(Packets) /\ Len(data) = n
    <2>1. \A i \in 1 .. n : data[i] \in Packets
      BY <1>1, <1>2, BoundsAssumption DEF Packets
    <2>2. data \in [1 .. n -> Packets]
      BY <2>1
    <2> QED
      BY <1>2, <2>2
  <1>4. u \in Unfinished
    <2>1. call.addr \in Frames["out"] /\ call.addr \in Addresses
      BY <1>1, TransferTypes
    <2>2. u.dir = "out" /\ u.addr = call.addr /\ u.data = data /\ u.done = 0
      OBVIOUS
    <2>3. u.data # <<>> => Len(u.data) > 0
      BY <1>3, <2>2, EmptySeq
    <2>4. u \in [dir : Dirs, addr : Addresses, data : Seq(Packets), done : Nat]
      BY <1>3, <2>1 DEF Dirs
    <2>5. u \in Urbs
      BY <1>3, <2>1, <2>2, <2>4 DEF Urbs
    <2> QED
      BY <2>2, <2>3, <2>5 DEF Unfinished
  <1>5. /\ inflight' = Append(inflight, u)
        /\ call' = [call EXCEPT !.at = "wait", !.len = n]
        /\ sent' = [sent EXCEPT !["out"] = @ + n]
        /\ buffer' = [i \in 1 .. Size |-> IF i <= n THEN data[i] ELSE buffer[i]]
    BY DEF SubmitWrite
  <1> HIDE DEF u, data
  <1>6. inflight' \in Seq(Unfinished) /\ Len(inflight') = Len(inflight) + 1
    BY <1>1, <1>4, <1>5, Submitted DEF TypeOK
  <1>7. /\ call' \in Transfers /\ call'.at = "wait" /\ call' # Idle
        /\ call'.addr \in Frames[call'.dir] /\ call'.index = call.index
    BY <1>1, <1>5, TransferTypes, IdleAt DEF Transfers
  <1>8. buffer' \in [1 .. Size -> 0 .. MaxPackets]
    <2>1. ASSUME NEW i \in 1 .. Size, i <= n
          PROVE  data[i] \in 0 .. MaxPackets
      <3>1. i \in 1 .. Len(data)
        BY <1>2, <1>3, <2>1, SizeAssumption
      <3>2. data[i] \in Packets
        BY <1>3, <3>1, ElementOfSeq
      <3> QED
        BY <3>2, BoundsAssumption DEF Packets
    <2> QED
      BY <1>1, <1>5, <2>1 DEF TypeOK
  <1>9. TypeOK'
    BY <1>1, <1>2, <1>5, <1>6, <1>7, <1>8, BoundsAssumption DEF TypeOK, Dirs
  <1>10. LagBounded' /\ GivenUpOnce'
    BY <1>1, <1>6, <1>7, LenProperties
    DEF NothingPilesUp, LagBounded, Stale, GivenUpOnce, GivenUp, TypeOK
  <1>11. BuffersReturned'
    BY <1>1, <1>7 DEF NothingPilesUp, BuffersReturned
  <1> QED
    BY <1>9, <1>10, <1>11 DEF NothingPilesUp

LEMMA SubmitReadKeeps ==
    ASSUME NothingPilesUp, SubmitRead
    PROVE  NothingPilesUp'
  <1> DEFINE u == [dir |-> "in", addr |-> call.addr, data |-> <<>>, done |-> 0]
  <1>1. /\ TypeOK /\ call # Idle /\ call.at = "submit" /\ call.dir = "in"
        /\ UNCHANGED <<allocated, buffer, reapable, sent, seen, given, faults>>
        /\ inflight' = Append(inflight, u) /\ call' = [call EXCEPT !.at = "wait"]
    BY NotIdle DEF SubmitRead, NothingPilesUp
  <1>2. u \in Unfinished
    <2>1. call.addr \in Frames["in"] /\ call.addr \in Addresses
      BY <1>1, TransferTypes
    <2>2. u.dir = "in" /\ u.addr = call.addr /\ u.data = <<>> /\ u.done = 0
      OBVIOUS
    <2>3. <<>> \in Seq(Packets) /\ Len(<<>>) = 0
      BY EmptySeq
    <2>4. u \in [dir : Dirs, addr : Addresses, data : Seq(Packets), done : Nat]
      BY <2>1, <2>3 DEF Dirs
    <2>5. u \in Urbs
      BY <2>1, <2>2, <2>3, <2>4, SizeAssumption DEF Urbs
    <2> QED
      BY <2>2, <2>3, <2>5, SizeAssumption DEF Unfinished
  <1> HIDE DEF u
  <1>3. inflight' \in Seq(Unfinished) /\ Len(inflight') = Len(inflight) + 1
    BY <1>1, <1>2, Submitted DEF TypeOK
  <1>4. /\ call' \in Transfers /\ call'.at = "wait" /\ call' # Idle
        /\ call'.addr \in Frames[call'.dir] /\ call'.index = call.index
    BY <1>1, TransferTypes, IdleAt DEF Transfers
  <1>5. TypeOK'
    BY <1>1, <1>3, <1>4 DEF TypeOK
  <1>6. LagBounded' /\ GivenUpOnce'
    BY <1>1, <1>3, <1>4, LenProperties
    DEF NothingPilesUp, LagBounded, Stale, GivenUpOnce, GivenUp, TypeOK
  <1>7. BuffersReturned'
    BY <1>1, <1>4 DEF NothingPilesUp, BuffersReturned
  <1> QED
    BY <1>5, <1>6, <1>7 DEF NothingPilesUp

LEMMA ThrowBeforeSubmitKeeps ==
    ASSUME NothingPilesUp, ThrowBeforeSubmit
    PROVE  NothingPilesUp'
  <1>1. /\ TypeOK /\ call # Idle /\ call.at = "submit" /\ EndCall
        /\ UNCHANGED <<buffer, inflight, reapable, sent, seen, given, faults>>
    BY NotIdle DEF ThrowBeforeSubmit, NothingPilesUp
  <1>2. call' = Idle /\ call'.at = "idle" /\ allocated' = {} /\ BuffersReturned'
    BY <1>1, EndCallFrees DEF NothingPilesUp
  <1>3. TypeOK'
    BY <1>1, <1>2 DEF TypeOK
  <1>4. LagBounded' /\ GivenUpOnce'
    BY <1>1, <1>2 DEF NothingPilesUp, LagBounded, Stale, GivenUpOnce, GivenUp
  <1> QED
    BY <1>2, <1>3, <1>4 DEF NothingPilesUp

LEMMA ReapUnknownKeeps ==
    ASSUME NothingPilesUp, ReapUnknown
    PROVE  NothingPilesUp'
  <1>1. /\ TypeOK /\ reapable # <<>> /\ reapable' = Tail(reapable)
        /\ buffer' = Copied(Head(reapable))
        /\ UNCHANGED <<call, allocated, inflight, sent, seen, given, faults>>
    BY DEF ReapUnknown, NothingPilesUp
  <1>2. /\ Head(reapable) \in Urbs
        /\ reapable' \in Seq(Urbs) /\ Len(reapable') = Len(reapable) - 1
    BY <1>1, Reaped DEF TypeOK
  <1>3. TypeOK'
    BY <1>1, <1>2, CopiedType DEF TypeOK
  <1>4. LagBounded' /\ GivenUpOnce' /\ BuffersReturned'
    BY <1>1, <1>2, LenProperties
    DEF NothingPilesUp, LagBounded, Stale, GivenUpOnce, GivenUp, BuffersReturned, TypeOK
  <1> QED
    BY <1>3, <1>4 DEF NothingPilesUp

LEMMA GivenUpType == (TypeOK => GivenUp \in Nat) /\ (TypeOK' => GivenUp' \in Nat)
  <1>1. given \in [Dirs -> Nat] => GivenUp \in Nat
    BY DEF GivenUp, Dirs
  <1>2. given' \in [Dirs -> Nat] => GivenUp' \in Nat
    BY DEF GivenUp, Dirs
  <1> QED
    BY <1>1, <1>2 DEF TypeOK

\* One more transfer is given up, for one more fault.
LEMMA OneMoreGivenUp ==
    ASSUME TypeOK, NEW dir \in Dirs, faults < MaxFaults, faults' = faults + 1,
           given' = [given EXCEPT ![dir] = @ + 1]
    PROVE  /\ given' \in [Dirs -> Nat] /\ faults' \in 0 .. MaxFaults /\ faults <= faults'
           /\ GivenUp' + faults <= GivenUp + faults'
  <1>1. given \in [Dirs -> Nat] /\ faults \in 0 .. MaxFaults
    BY DEF TypeOK
  <1>2. given' \in [Dirs -> Nat]
    BY <1>1
  <1>3. faults' \in 0 .. MaxFaults /\ faults <= faults'
    BY <1>1, BoundsAssumption
  <1>4. GivenUp' = GivenUp + 1
    <2>1. given["in"] \in Nat /\ given["out"] \in Nat
      BY <1>1 DEF Dirs
    <2>2. \/ given'["in"] = given["in"] + 1 /\ given'["out"] = given["out"]
          \/ given'["in"] = given["in"] /\ given'["out"] = given["out"] + 1
      BY <1>1 DEF Dirs
    <2> QED
      BY <2>1, <2>2 DEF GivenUp
  <1>5. GivenUp \in Nat
    BY GivenUpType
  <1>6. GivenUp' + faults <= GivenUp + faults'
    BY <1>1, <1>4, <1>5
  <1> QED
    BY <1>2, <1>3, <1>6

\* What was given up stays within the faults.
LEMMA StillAccounted ==
    ASSUME NEW a \in Nat, NEW b \in Nat, NEW late \in Nat, NEW x \in Int, NEW y \in Int,
           a + late <= x, b + x <= a + y
    PROVE  b + late <= y
  OBVIOUS

\* What every reaping of the call's own URB has in common.
LEMMA ReapMine ==
    ASSUME NothingPilesUp, call.at = "wait", reapable # <<>>, reapable' = Tail(reapable),
           buffer' = Copied(Head(reapable)),
           \/ call' = [call EXCEPT !.at = "submit"] /\ UNCHANGED allocated
           \/ EndCall,
           UNCHANGED <<inflight, sent>>,
           seen' \in [Dirs -> Seq(Packets)], given' \in [Dirs -> Nat],
           faults' \in 0 .. MaxFaults, faults <= faults',
           GivenUp' + faults <= GivenUp + faults'
    PROVE  NothingPilesUp'
  <1>1. TypeOK /\ call # Idle
    BY NotIdle DEF NothingPilesUp
  <1>2. /\ Head(reapable) \in Urbs
        /\ reapable' \in Seq(Urbs) /\ Len(reapable') = Len(reapable) - 1
    BY <1>1, Reaped DEF TypeOK
  <1>3. buffer' \in [1 .. Size -> 0 .. MaxPackets]
    BY <1>1, <1>2, CopiedType
  <1>4. /\ call' = Idle \/ (call' \in Transfers /\ call'.addr \in Frames[call'.dir])
        /\ call'.at \notin {"wait", "timedout"}
        /\ allocated' \subseteq 0 .. Buffers - 1 /\ BuffersReturned'
    <2>1. CASE EndCall
      BY <1>1, <2>1, EndCallFrees DEF NothingPilesUp
    <2>2. CASE call' = [call EXCEPT !.at = "submit"] /\ UNCHANGED allocated
      <3>1. /\ call' \in Transfers /\ call'.addr \in Frames[call'.dir]
            /\ call'.at = "submit" /\ call'.index = call.index /\ call' # Idle
        BY <1>1, <2>2, TransferTypes, IdleAt DEF Transfers
      <3> QED
        BY <1>1, <2>2, <3>1 DEF NothingPilesUp, BuffersReturned, TypeOK
    <2> QED
      BY <2>1, <2>2
  <1>5. TypeOK'
    BY <1>1, <1>2, <1>3, <1>4 DEF TypeOK
  <1>6. LagBounded'
    <2>1. Len(inflight) \in Nat /\ Len(reapable) \in Nat /\ faults \in Int /\ faults' \in Int
      BY <1>1, LenProperties DEF TypeOK
    <2>2. Len(inflight) + Len(reapable) - 1 <= faults
      BY DEF NothingPilesUp, LagBounded, Stale
    <2>3. Stale' = Len(inflight) + (Len(reapable) - 1)
      <3>1. call'.at # "wait" /\ inflight' = inflight
        BY <1>4
      <3>2. Stale' = Len(inflight) + Len(reapable') - 0
        BY <3>1 DEF Stale
      <3> QED
        BY <1>2, <2>1, <3>2
    <2> QED
      BY <2>1, <2>2, <2>3 DEF LagBounded
  <1>7. GivenUpOnce'
    <2>1. GivenUp \in Nat /\ GivenUp' \in Nat /\ faults \in Int /\ faults' \in Int
      BY <1>1, <1>5, GivenUpType DEF TypeOK
    <2>2. GivenUp + 0 <= faults
      BY DEF NothingPilesUp, GivenUpOnce
    <2>3. GivenUp' + 0 <= faults'
      BY <2>1, <2>2
    <2> QED
      BY <1>4, <2>3 DEF GivenUpOnce
  <1> QED
    BY <1>4, <1>5, <1>6, <1>7 DEF NothingPilesUp

LEMMA ReapReadKeeps ==
    ASSUME NothingPilesUp, ReapRead
    PROVE  NothingPilesUp'
  <1> DEFINE u == Head(reapable)
  <1>1. /\ TypeOK /\ call # Idle /\ call.at = "wait" /\ call.dir = "in" /\ reapable # <<>>
        /\ reapable' = Tail(reapable) /\ Mine(u) /\ buffer' = Copied(u)
        /\ seen' = [seen EXCEPT !["in"] = @ \o Received(u)]
        /\ UNCHANGED <<inflight, sent, given, faults>>
    BY NotIdle DEF ReapRead, NothingPilesUp
  <1>2. \/ call' = [call EXCEPT !.at = "submit"] /\ UNCHANGED allocated
        \/ EndCall
    BY DEF ReapRead
  <1>3. Received(u) \in Seq(Packets)
    BY <1>1, HeadTailProperties, MineIsOfMyDirection, ReceivedType DEF TypeOK
  <1>4. seen' \in [Dirs -> Seq(Packets)]
    <2>1. seen["in"] \o Received(u) \in Seq(Packets)
      BY <1>1, <1>3, ConcatProperties DEF TypeOK, Dirs
    <2> QED
      BY <1>1, <2>1 DEF TypeOK, Dirs
  <1>5. /\ given' \in [Dirs -> Nat] /\ faults' \in 0 .. MaxFaults /\ faults <= faults'
        /\ GivenUp' + faults <= GivenUp + faults'
    BY <1>1 DEF TypeOK, Dirs, GivenUp
  <1> HIDE DEF u
  <1> QED
    BY <1>1, <1>2, <1>4, <1>5, ReapMine DEF u

LEMMA ReapCancelledKeeps ==
    ASSUME NothingPilesUp, ReapCancelled
    PROVE  NothingPilesUp'
  <1>1. /\ TypeOK /\ call.at = "wait" /\ reapable # <<>> /\ faults < MaxFaults
        /\ reapable' = Tail(reapable) /\ buffer' = Copied(Head(reapable)) /\ EndCall
        /\ given' = [given EXCEPT !["in"] = @ + 1] /\ faults' = faults + 1
        /\ UNCHANGED <<inflight, sent, seen>>
    BY DEF ReapCancelled, NothingPilesUp
  <1>2. /\ seen' \in [Dirs -> Seq(Packets)] /\ given' \in [Dirs -> Nat]
        /\ faults' \in 0 .. MaxFaults /\ faults <= faults'
        /\ GivenUp' + faults <= GivenUp + faults'
    BY <1>1, OneMoreGivenUp DEF TypeOK, Dirs
  <1> QED
    BY <1>1, <1>2, ReapMine

LEMMA ReapWriteKeeps ==
    ASSUME NothingPilesUp, ReapWrite
    PROVE  NothingPilesUp'
  <1>1. /\ TypeOK /\ call.at = "wait" /\ reapable # <<>>
        /\ reapable' = Tail(reapable) /\ buffer' = Copied(Head(reapable))
        /\ UNCHANGED <<inflight, sent, seen, given, faults>>
    BY DEF ReapWrite, NothingPilesUp
  <1>2. \/ call' = [call EXCEPT !.at = "submit"] /\ UNCHANGED allocated
        \/ EndCall
    BY DEF ReapWrite
  <1>3. /\ seen' \in [Dirs -> Seq(Packets)] /\ given' \in [Dirs -> Nat]
        /\ faults' \in 0 .. MaxFaults /\ faults <= faults'
        /\ GivenUp' + faults <= GivenUp + faults'
    BY <1>1 DEF TypeOK, Dirs, GivenUp
  <1> QED
    BY <1>1, <1>2, <1>3, ReapMine

LEMMA ReapTimesOutKeeps ==
    ASSUME NothingPilesUp, ReapTimesOut
    PROVE  NothingPilesUp'
  <1>1. /\ TypeOK /\ call # Idle /\ call.at = "wait" /\ faults < MaxFaults
        /\ faults' = faults + 1 /\ call' = [call EXCEPT !.at = "timedout"]
        /\ UNCHANGED <<allocated, buffer, inflight, reapable, sent, seen, given>>
    BY NotIdle DEF ReapTimesOut, NothingPilesUp
  <1>2. /\ call' \in Transfers /\ call'.at = "timedout" /\ call' # Idle
        /\ call'.addr \in Frames[call'.dir] /\ call'.index = call.index
    BY <1>1, TransferTypes, IdleAt DEF Transfers
  <1>3. TypeOK'
    BY <1>1, <1>2, BoundsAssumption DEF TypeOK
  <1>4. /\ Len(inflight) \in Nat /\ Len(reapable) \in Nat /\ faults \in Int
        /\ GivenUp \in Nat /\ GivenUp' = GivenUp
    BY <1>1, LenProperties, GivenUpType DEF TypeOK, GivenUp
  <1>5. LagBounded' /\ GivenUpOnce'
    BY <1>1, <1>2, <1>4 DEF NothingPilesUp, LagBounded, Stale, GivenUpOnce
  <1>6. BuffersReturned'
    BY <1>1, <1>2 DEF NothingPilesUp, BuffersReturned
  <1> QED
    BY <1>3, <1>5, <1>6 DEF NothingPilesUp

LEMMA DiscardKeeps ==
    ASSUME NothingPilesUp, Discard
    PROVE  NothingPilesUp'
  <1> DEFINE pending == {i \in DOMAIN inflight : inflight[i].addr = call.addr}
             newest == CHOOSE j \in pending : \A k \in pending : j <= k
  <1>1. /\ TypeOK /\ call # Idle /\ call.at = "timedout" /\ EndCall
        /\ given' = [given EXCEPT ![call.dir] = @ + 1]
        /\ UNCHANGED <<buffer, sent, seen, faults>>
    BY NotIdle DEF Discard, NothingPilesUp
  <1>2. call' = Idle /\ call'.at = "idle" /\ allocated' = {} /\ BuffersReturned'
    BY <1>1, EndCallFrees DEF NothingPilesUp
  <1>3. /\ inflight' \in Seq(Unfinished) /\ reapable' \in Seq(Urbs)
        /\ Len(inflight') + Len(reapable') = Len(inflight) + Len(reapable)
    <2>1. CASE pending = {}
      BY <1>1, <2>1 DEF Discard, TypeOK
    <2>2. CASE pending # {}
      <3>1. newest \in DOMAIN inflight
        <4>1. inflight \in Seq(Urbs) /\ pending \in SUBSET DOMAIN inflight
          BY <1>1, UnfinishedAreUrbs DEF TypeOK
        <4> HIDE DEF pending
        <4>2. newest \in pending
          BY <2>2, <4>1, LeastIndex
        <4> QED
          BY <4>1, <4>2
      <3>2. inflight[newest] \in Urbs
        BY <1>1, <3>1, LenProperties, ElementOfSeq, UnfinishedAreUrbs DEF TypeOK
      <3>3. inflight' = RemoveAt(inflight, newest)
            /\ reapable' = Append(reapable, inflight[newest])
        BY <2>2 DEF Discard
      <3> QED
        BY <1>1, <3>1, <3>2, <3>3, Moved DEF TypeOK
    <2> QED
      BY <2>1, <2>2
  <1>4. TypeOK'
    <2>1. call.dir \in Dirs /\ given \in [Dirs -> Nat]
      BY <1>1, TransferTypes DEF TypeOK
    <2>2. given' \in [Dirs -> Nat]
      BY <1>1, <2>1
    <2> QED
      BY <1>1, <1>2, <1>3, <2>2 DEF TypeOK
  <1>5. LagBounded'
    BY <1>1, <1>2, <1>3 DEF NothingPilesUp, LagBounded, Stale
  <1>6. GivenUpOnce'
    BY <1>1, <1>2, TransferTypes DEF NothingPilesUp, GivenUpOnce, GivenUp, TypeOK, Dirs
  <1> QED
    BY <1>2, <1>4, <1>5, <1>6 DEF NothingPilesUp

\* Nothing is given up by a step that counts no fault.
LEMMA Unharmed ==
    ASSUME TypeOK, UNCHANGED <<given, faults>>
    PROVE  /\ given' \in [Dirs -> Nat] /\ faults' \in 0 .. MaxFaults /\ faults <= faults'
           /\ GivenUp' + faults <= GivenUp + faults'
  BY GivenUpType DEF TypeOK, GivenUp

\* What a step of the kernel leaves alone.
LEMMA KernelKeeps ==
    ASSUME NothingPilesUp, UNCHANGED <<call, allocated, buffer>>,
           inflight' \in Seq(Unfinished), reapable' \in Seq(Urbs),
           Len(inflight') + Len(reapable') = Len(inflight) + Len(reapable),
           sent' \in [Dirs -> 0 .. MaxPackets], seen' \in [Dirs -> Seq(Packets)],
           given' \in [Dirs -> Nat], faults' \in 0 .. MaxFaults, faults <= faults',
           GivenUp' + faults <= GivenUp + faults'
    PROVE  NothingPilesUp'
  <1>1. TypeOK
    BY DEF NothingPilesUp
  <1>2. /\ given["in"] \in Nat /\ given["out"] \in Nat /\ faults \in Int /\ faults' \in Int
        /\ given'["in"] \in Nat /\ given'["out"] \in Nat
        /\ Len(inflight) \in Nat /\ Len(reapable) \in Nat
        /\ Len(inflight') \in Nat /\ Len(reapable') \in Nat
    BY <1>1, LenProperties DEF TypeOK, Dirs
  <1>3. TypeOK'
    BY <1>1 DEF TypeOK
  <1>4. BuffersReturned'
    BY DEF NothingPilesUp, BuffersReturned
  <1>5. Stale' = Stale
    BY <1>2 DEF Stale
  <1>6. Stale \in Int
    BY <1>2 DEF Stale
  <1>7. LagBounded'
    BY <1>2, <1>5, <1>6 DEF NothingPilesUp, LagBounded
  <1>8. GivenUpOnce'
    <2> DEFINE late == IF call.at = "timedout" THEN 1 ELSE 0
    <2>1. late \in Nat /\ late' = late
      OBVIOUS
    <2>2. GivenUp + late <= faults
      BY DEF NothingPilesUp, GivenUpOnce
    <2>3. GivenUp \in Nat /\ GivenUp' \in Nat
      BY <1>1, <1>3, GivenUpType
    <2>4. GivenUp' + late' <= faults'
      <3> HIDE DEF late
      <3> QED
        BY <1>2, <2>1, <2>2, <2>3, StillAccounted
    <2> QED
      BY <2>4 DEF GivenUpOnce
  <1> QED
    BY <1>3, <1>4, <1>7, <1>8 DEF NothingPilesUp

LEMMA DeviceSendsKeeps ==
    ASSUME NothingPilesUp, NEW short \in BOOLEAN, DeviceSends(short)
    PROVE  NothingPilesUp'
  <1> DEFINE i == First("in")
             u == [inflight[i] EXCEPT !.data = Append(@, sent["in"] + 1)]
  <1>1. /\ TypeOK /\ Busy("in") /\ sent["in"] < MaxPackets
        /\ Progress(i, u, short \/ Len(u.data) = Size)
        /\ sent' = [sent EXCEPT !["in"] = @ + 1]
        /\ UNCHANGED <<call, allocated, buffer, seen, given, faults>>
    BY DEF DeviceSends, NothingPilesUp
  <1>2. i \in DOMAIN inflight /\ inflight[i].dir = "in" /\ inflight[i] \in Unfinished
    BY <1>1, FirstOfDirection, LenProperties, ElementOfSeq DEF TypeOK, Dirs
  <1>3. sent["in"] \in Nat /\ sent["in"] + 1 \in Packets
    BY <1>1, BoundsAssumption DEF TypeOK, Dirs, Packets
  <1> DEFINE old == inflight[i]
  <1> HIDE DEF i
  <1>4. u \in Urbs /\ (Len(u.data) = Size \/ u \in Unfinished)
    <2>1. /\ old \in [dir : Dirs, addr : Addresses, data : Seq(Packets), done : Nat]
          /\ old.addr \in Frames[old.dir] /\ Len(old.data) < Size
          /\ old.done = 0 /\ old.dir = "in"
      BY <1>2 DEF Unfinished, Urbs
    <2> HIDE DEF old
    <2>2. /\ Append(old.data, sent["in"] + 1) \in Seq(Packets)
          /\ Len(Append(old.data, sent["in"] + 1)) = Len(old.data) + 1
          /\ Len(old.data) \in Nat
      BY <1>3, <2>1, AppendProperties, LenProperties
    <2>3. u = [old EXCEPT !.data = Append(old.data, sent["in"] + 1)]
      BY DEF old
    <2>4. /\ u \in [dir : Dirs, addr : Addresses, data : Seq(Packets), done : Nat]
          /\ u.dir = old.dir /\ u.addr = old.addr /\ u.done = old.done
          /\ u.data = Append(old.data, sent["in"] + 1)
      BY <2>1, <2>2, <2>3
    <2> HIDE DEF u
    <2>5. u \in Urbs /\ Len(u.data) <= Size
      BY <2>1, <2>2, <2>4, SizeAssumption DEF Urbs
    <2>6. u.done = 0 /\ u.dir = "in" /\ Len(u.data) > 0
      BY <2>1, <2>2, <2>4
    <2>7. Len(u.data) # Size => u \in Unfinished
      BY <2>2, <2>4, <2>5, <2>6, SizeAssumption DEF Unfinished
    <2> QED
      BY <2>5, <2>7
  <1> HIDE DEF u, old
  <1>5. /\ inflight' \in Seq(Unfinished) /\ reapable' \in Seq(Urbs)
        /\ Len(inflight') + Len(reapable') = Len(inflight) + Len(reapable)
    <2> DEFINE completed == short \/ Len(u.data) = Size
    <2>1. completed \in BOOLEAN /\ (completed \/ u \in Unfinished) /\ u \in Urbs
      BY <1>4
    <2>2. Progress(i, u, completed)
      BY <1>1 DEF i, u
    <2> HIDE DEF completed
    <2> QED
      BY <1>1, <1>2, <2>1, <2>2, ProgressKeeps DEF TypeOK
  <1>6. sent' \in [Dirs -> 0 .. MaxPackets]
    BY <1>1, <1>3, BoundsAssumption DEF TypeOK, Dirs
  <1> QED
    BY <1>1, <1>5, <1>6, Unharmed, KernelKeeps DEF TypeOK

LEMMA DeviceEndsEmptyKeeps ==
    ASSUME NothingPilesUp, DeviceEndsEmpty
    PROVE  NothingPilesUp'
  <1>1. /\ TypeOK /\ Busy("in")
        /\ Progress(First("in"), inflight[First("in")], TRUE)
        /\ UNCHANGED <<call, allocated, buffer, sent, seen, given, faults>>
    BY DEF DeviceEndsEmpty, NothingPilesUp
  <1>2. First("in") \in DOMAIN inflight /\ inflight[First("in")] \in Urbs
    BY <1>1, FirstOfDirection, LenProperties, ElementOfSeq, UnfinishedAreUrbs DEF TypeOK, Dirs
  <1>3. /\ inflight' \in Seq(Unfinished) /\ reapable' \in Seq(Urbs)
        /\ Len(inflight') + Len(reapable') = Len(inflight) + Len(reapable)
    BY <1>1, <1>2, ProgressKeeps DEF TypeOK
  <1> QED
    BY <1>1, <1>3, Unharmed, KernelKeeps DEF TypeOK

LEMMA UrbFailsKeeps ==
    ASSUME NothingPilesUp, NEW dir \in Dirs, UrbFails(dir)
    PROVE  NothingPilesUp'
  <1>1. /\ TypeOK /\ Busy(dir) /\ faults < MaxFaults
        /\ Progress(First(dir), inflight[First(dir)], TRUE)
        /\ given' = [given EXCEPT ![dir] = @ + 1] /\ faults' = faults + 1
        /\ UNCHANGED <<call, allocated, buffer, sent, seen>>
    BY DEF UrbFails, NothingPilesUp
  <1>2. First(dir) \in DOMAIN inflight /\ inflight[First(dir)] \in Urbs
    BY <1>1, FirstOfDirection, LenProperties, ElementOfSeq, UnfinishedAreUrbs DEF TypeOK
  <1>3. /\ inflight' \in Seq(Unfinished) /\ reapable' \in Seq(Urbs)
        /\ Len(inflight') + Len(reapable') = Len(inflight) + Len(reapable)
    BY <1>1, <1>2, ProgressKeeps DEF TypeOK
  <1>4. /\ given' \in [Dirs -> Nat] /\ faults' \in 0 .. MaxFaults /\ faults <= faults'
        /\ GivenUp' + faults <= GivenUp + faults'
    BY <1>1, OneMoreGivenUp
  <1> QED
    BY <1>1, <1>3, <1>4, KernelKeeps DEF TypeOK

LEMMA DeviceTakesKeeps ==
    ASSUME NothingPilesUp, DeviceTakes
    PROVE  NothingPilesUp'
  <1> DEFINE i == First("out")
             u == inflight[i]
             taken == [u EXCEPT !.done = @ + 1]
  <1>1. /\ TypeOK /\ Busy("out")
        /\ UNCHANGED <<call, allocated, buffer, sent, given, faults>>
        /\ \/ Progress(i, u, TRUE) /\ UNCHANGED seen
           \/ /\ u.data # <<>>
              /\ seen' = [seen EXCEPT !["out"] = Append(@, u.data[u.done + 1])]
              /\ Progress(i, taken, u.done + 1 = Len(u.data))
    BY DEF DeviceTakes, NothingPilesUp
  <1>2. i \in DOMAIN inflight /\ u \in Unfinished /\ u \in Urbs /\ u.dir = "out"
    BY <1>1, FirstOfDirection, LenProperties, ElementOfSeq, UnfinishedAreUrbs DEF TypeOK, Dirs
  <1> HIDE DEF i, u
  <1>3. CASE Progress(i, u, TRUE) /\ UNCHANGED seen
    <2>1. /\ inflight' \in Seq(Unfinished) /\ reapable' \in Seq(Urbs)
          /\ Len(inflight') + Len(reapable') = Len(inflight) + Len(reapable)
      BY <1>1, <1>2, <1>3, ProgressKeeps DEF TypeOK
    <2> QED
      BY <1>1, <1>3, <2>1, Unharmed, KernelKeeps DEF TypeOK
  <1>4. CASE /\ u.data # <<>>
             /\ seen' = [seen EXCEPT !["out"] = Append(@, u.data[u.done + 1])]
             /\ Progress(i, taken, u.done + 1 = Len(u.data))
    <2>1. /\ u \in [dir : Dirs, addr : Addresses, data : Seq(Packets), done : Nat]
          /\ u.addr \in Frames[u.dir] /\ Len(u.data) <= Size /\ u.done < Len(u.data)
          /\ u.data \in Seq(Packets) /\ Len(u.data) \in Nat /\ u.done \in Nat
      BY <1>2, <1>4, LenProperties DEF Unfinished, Urbs
    <2>2. /\ taken \in [dir : Dirs, addr : Addresses, data : Seq(Packets), done : Nat]
          /\ taken.dir = u.dir /\ taken.addr = u.addr /\ taken.data = u.data
          /\ taken.done = u.done + 1
      BY <2>1
    <2> HIDE DEF taken
    <2>3. taken \in Urbs
      BY <2>1, <2>2 DEF Urbs
    <2>4. u.done + 1 = Len(u.data) \/ taken \in Unfinished
      BY <1>2, <2>1, <2>2, <2>3 DEF Unfinished
    <2> DEFINE completed == u.done + 1 = Len(u.data)
    <2>5. completed \in BOOLEAN /\ (completed \/ taken \in Unfinished)
          /\ Progress(i, taken, completed)
      BY <1>4, <2>4 DEF taken
    <2> HIDE DEF completed
    <2>6. /\ inflight' \in Seq(Unfinished) /\ reapable' \in Seq(Urbs)
          /\ Len(inflight') + Len(reapable') = Len(inflight) + Len(reapable)
      BY <1>1, <1>2, <2>3, <2>5, ProgressKeeps DEF TypeOK
    <2>7. seen' \in [Dirs -> Seq(Packets)]
      <3>1. u.data[u.done + 1] \in Packets
        BY <2>1, ElementOfSeq
      <3>2. Append(seen["out"], u.data[u.done + 1]) \in Seq(Packets)
        BY <1>1, <3>1, AppendProperties DEF TypeOK, Dirs
      <3> QED
        BY <1>1, <1>4, <3>2 DEF TypeOK, Dirs
    <2> QED
      BY <1>1, <2>6, <2>7, Unharmed, KernelKeeps DEF TypeOK
  <1> QED
    BY <1>1, <1>3, <1>4

-----------------------------------------------------------------------------

LEMMA NextKeeps ==
    ASSUME NothingPilesUp, Next
    PROVE  NothingPilesUp'
  BY BeginTransferKeeps, UrbFailsKeeps, SubmitWriteKeeps, SubmitReadKeeps,
     ThrowBeforeSubmitKeeps, ReapUnknownKeeps, ReapReadKeeps, ReapCancelledKeeps,
     ReapWriteKeeps, ReapTimesOutKeeps, DiscardKeeps, DeviceSendsKeeps,
     DeviceEndsEmptyKeeps, DeviceTakesKeeps
  DEF Next

\* Whatever the number of buffers, packets and faults: the state has its type, a
\* transfer that ended has given its buffer back (the destructor of Urb), and usbfs
\* holds no more URBs of transfers that ended than there were faults.
THEOREM NothingEverPilesUp == Spec => []NothingPilesUp
  <1>1. Init => NothingPilesUp
    BY InitHolds
  <1>2. NothingPilesUp /\ [Next]_vars => NothingPilesUp'
    BY NextKeeps, StutterKeeps
  <1> QED
    BY <1>1, <1>2, PTL DEF Spec
-----------------------------------------------------------------------------
(* The order of packets.  Packets that went in are seen, still to come, or  *)
(* lost; the lost ones form runs, and each run was paid for by a transfer    *)
(* that was given up.  A read nobody waits for will be dropped with what it  *)
(* holds by a later transfer: it counts as a run that is paid already.       *)

\* The packets of a URB that have not come out of the pipe.
Load(u) == {u.data[k] : k \in {k \in DOMAIN u.data : u.dir = "out" => k > u.done}}
Held(urbs, dir) == UNION {Load(urbs[i]) : i \in {i \in DOMAIN urbs : urbs[i].dir = dir}}
Coming(dir) == Held(inflight, dir) \cup IF dir = "in" THEN Held(reapable, dir) ELSE {}

\* Packets that went in and will not come out, and the last ones of each run of them.
Lost(n, s, coming) == (1 .. n) \ (Range(s) \cup coming)
Ends(lost) == {p \in lost : p + 1 \notin lost}

\* Packets come out in order, before those that are still to come.
Passing(n, s, coming) ==
    /\ s \in Seq(1 .. n) /\ coming \subseteq 1 .. n
    /\ \A i, j \in DOMAIN s : i < j => s[i] < s[j]
    /\ \A i \in DOMAIN s, p \in coming : s[i] < p

Passes(dir) == Passing(sent[dir], seen[dir], Coming(dir))

\* A URB holds packets in a row, and URBs hold them in the order they are served in.
Row(data) == \A k \in DOMAIN data : data[k] = data[1] + k - 1
Ordered(urbs, dir) ==
    \A i, j \in DOMAIN urbs : i < j /\ urbs[i].dir = dir /\ urbs[j].dir = dir =>
        \A p \in Load(urbs[i]), q \in Load(urbs[j]) : p < q
RowsOrdered ==
    /\ \A i \in DOMAIN inflight : Row(inflight[i].data)
    /\ \A i \in DOMAIN reapable : Row(reapable[i].data)
    /\ Ordered(inflight, "out") /\ Ordered(reapable, "in")
    /\ \A p \in Held(reapable, "in"), q \in Held(inflight, "in") : p < q

\* An endpoint fills one URB at a time, with what was sent last.
FillsFirst ==
    \A i \in DOMAIN inflight : inflight[i].dir = "in" /\ inflight[i].data # <<>> =>
        /\ \A j \in DOMAIN inflight : j < i => inflight[j].dir # "in"
        /\ inflight[i].data[Len(inflight[i].data)] = sent["in"]

\* The URB a transfer waits for, or the one it is taken for, is still with usbfs.
Waiting == call.at \in {"wait", "timedout"}
OwnIsThere == Waiting => \/ \E i \in DOMAIN inflight : inflight[i].addr = call.addr
                         \/ \E i \in DOMAIN reapable : reapable[i].addr = call.addr

\* Reads whose completion nobody waits for: each can be dropped, with what it holds.
Number(urbs, dir) == Cardinality({i \in DOMAIN urbs : urbs[i].dir = dir})
Left == (Number(inflight, "in") + Number(reapable, "in"))
        - (IF Waiting /\ call.dir = "in" THEN 1 ELSE 0)

\* What is missing was given up, one run for a transfer.
Missing(dir) == Cardinality(Ends(Lost(sent[dir], seen[dir], Coming(dir))))
LossesPaid == Missing("in") + Left <= given["in"] /\ Missing("out") <= given["out"]

OrderInv ==
    /\ NothingPilesUp /\ RowsOrdered /\ FillsFirst /\ OwnIsThere /\ LossesPaid
    /\ \A dir \in Dirs : Passes(dir)

-----------------------------------------------------------------------------
(* Runs of packets *)

LEMMA PartOfInterval ==
    ASSUME NEW n \in Nat, NEW S, S \subseteq 1 .. n
    PROVE  IsFiniteSet(S)
  <1>1. IsFiniteSet(1 .. n)
    BY FS_Interval
  <1> QED
    BY <1>1, FS_Subset

LEMMA LostType ==
    ASSUME NEW n \in Nat, NEW s, NEW coming
    PROVE  /\ Lost(n, s, coming) \subseteq 1 .. n
           /\ IsFiniteSet(Ends(Lost(n, s, coming)))
           /\ Cardinality(Ends(Lost(n, s, coming))) \in Nat
  <1>1. Lost(n, s, coming) \subseteq 1 .. n /\ Ends(Lost(n, s, coming)) \subseteq 1 .. n
    BY DEF Lost, Ends
  <1>2. IsFiniteSet(Ends(Lost(n, s, coming)))
    BY <1>1, PartOfInterval
  <1> QED
    BY <1>1, <1>2, FS_CardinalityType

\* A row that is lost adds at most one run.
LEMMA EndsOfMore ==
    ASSUME NEW n \in Nat, NEW lost \in SUBSET (1 .. n), NEW a \in Nat, NEW b \in Nat
    PROVE  Cardinality(Ends(lost \cup (a .. b))) <= Cardinality(Ends(lost)) + 1
  <1>1. Ends(lost) \subseteq 1 .. n
    BY DEF Ends
  <1>2. IsFiniteSet(Ends(lost)) /\ Cardinality(Ends(lost)) \in Nat
    BY <1>1, PartOfInterval, FS_CardinalityType
  <1>3. Ends(lost \cup (a .. b)) \subseteq Ends(lost) \cup {b}
    <2> SUFFICES ASSUME NEW p \in lost \cup (a .. b), p + 1 \notin lost \cup (a .. b),
                        p \notin lost
                 PROVE  p = b
      BY DEF Ends
    <2>1. p \in a .. b /\ p + 1 \notin a .. b
      OBVIOUS
    <2> QED
      BY <2>1
  <1>4. /\ IsFiniteSet(Ends(lost) \cup {b})
        /\ Cardinality(Ends(lost) \cup {b}) <= Cardinality(Ends(lost)) + 1
    <2>1. IsFiniteSet(Ends(lost) \cup {b})
      BY <1>2, FS_AddElement
    <2>2. Cardinality(Ends(lost) \cup {b})
            = IF b \in Ends(lost) THEN Cardinality(Ends(lost)) ELSE Cardinality(Ends(lost)) + 1
      BY <1>2, FS_AddElement
    <2> QED
      BY <1>2, <2>1, <2>2
  <1>5. Cardinality(Ends(lost \cup (a .. b))) <= Cardinality(Ends(lost) \cup {b})
    BY <1>3, <1>4, FS_Subset
  <1>6. /\ Cardinality(Ends(lost \cup (a .. b))) \in Nat /\ Cardinality(Ends(lost)) \in Nat
        /\ Cardinality(Ends(lost) \cup {b}) \in Nat
    BY <1>2, <1>3, <1>4, FS_Subset, FS_CardinalityType
  <1> QED
    BY <1>4, <1>5, <1>6

Jumps(s) == {i \in DOMAIN s : s[i] # (IF i = 1 THEN 1 ELSE s[i - 1] + 1)}

LEMMA JumpsType ==
    ASSUME NEW S, NEW s \in Seq(S)
    PROVE  /\ Jumps(s) \subseteq 1 .. Len(s) /\ IsFiniteSet(Jumps(s))
           /\ Gaps(s) = Cardinality(Jumps(s)) /\ Gaps(s) \in Nat
  <1>1. Jumps(s) \subseteq 1 .. Len(s) /\ Len(s) \in Nat
    BY LenProperties DEF Jumps
  <1>2. IsFiniteSet(Jumps(s))
    BY <1>1, PartOfInterval
  <1>3. Gaps(s) = Cardinality(Jumps(s))
    BY DEF Gaps, Jumps
  <1> QED
    BY <1>1, <1>2, <1>3, FS_CardinalityType

\* Before every jump in what came out, a run of packets is lost.
LEMMA GapsAreLosses ==
    ASSUME NEW n \in Nat, NEW s, NEW coming, Passing(n, s, coming)
    PROVE  Gaps(s) <= Cardinality(Ends(Lost(n, s, coming)))
  <1> DEFINE lost == Lost(n, s, coming)
             before == [i \in Jumps(s) |-> s[i] - 1]
  <1>1. /\ s \in Seq(1 .. n) /\ DOMAIN s = 1 .. Len(s) /\ Len(s) \in Nat
        /\ \A i \in 1 .. Len(s) : s[i] \in 1 .. n
        /\ \A i, j \in 1 .. Len(s) : i < j => s[i] < s[j]
        /\ \A i \in 1 .. Len(s), p \in coming : s[i] < p
    BY LenProperties, ElementOfSeq DEF Passing
  <1>2. ASSUME NEW i \in Jumps(s)
        PROVE  /\ i \in 1 .. Len(s) /\ s[i] - 1 \in 1 .. n
               /\ \A j \in 1 .. Len(s) : s[j] # s[i] - 1
    <2>1. i \in 1 .. Len(s) /\ s[i] # (IF i = 1 THEN 1 ELSE s[i - 1] + 1)
      BY <1>1 DEF Jumps
    <2>2. CASE i = 1
      <3>1. s[i] \in 1 .. n /\ s[i] # 1
        BY <1>1, <2>1, <2>2
      <3>2. ASSUME NEW j \in 1 .. Len(s)
            PROVE  s[j] # s[i] - 1
        <4>1. j = i \/ i < j
          BY <2>2
        <4>2. s[j] \in Nat /\ s[i] <= s[j]
          BY <1>1, <2>1, <4>1
        <4> QED
          BY <3>1, <4>2
      <3> QED
        BY <2>1, <3>1, <3>2
    <2>3. CASE i # 1
      <3>1. i - 1 \in 1 .. Len(s) /\ s[i] # s[i - 1] + 1
        BY <1>1, <2>1, <2>3
      <3>2. s[i] \in 1 .. n /\ s[i - 1] \in 1 .. n /\ s[i - 1] < s[i]
        BY <1>1, <2>1, <3>1
      <3>3. ASSUME NEW j \in 1 .. Len(s)
            PROVE  s[j] # s[i] - 1
        <4>1. j = i \/ i < j \/ j = i - 1 \/ j < i - 1
          BY <2>1
        <4>2. s[j] \in Nat /\ s[i] \in Nat /\ s[i - 1] \in Nat
          BY <1>1, <3>2
        <4>3. CASE j = i \/ j = i - 1
          BY <3>1, <3>2, <4>2, <4>3
        <4>4. CASE i < j
          <5>1. s[i] < s[j]
            BY <1>1, <2>1, <4>4
          <5> QED
            BY <4>2, <5>1
        <4>5. CASE j < i - 1
          <5>1. s[j] < s[i - 1]
            BY <1>1, <3>1, <4>5
          <5> QED
            BY <3>2, <4>2, <5>1
        <4> QED
          BY <4>1, <4>3, <4>4, <4>5
      <3> QED
        BY <2>1, <3>1, <3>2, <3>3
    <2> QED
      BY <2>2, <2>3
  <1>3. ASSUME NEW i \in Jumps(s)
        PROVE  s[i] - 1 \in Ends(lost)
    <2>1. s[i] - 1 \notin Range(s)
      BY <1>1, <1>2 DEF Range
    <2>2. s[i] - 1 \notin coming
      <3>1. i \in 1 .. Len(s) /\ s[i] \in Nat
        BY <1>1, <1>2
      <3>2. ~(s[i] < s[i] - 1)
        BY <3>1
      <3> QED
        BY <1>1, <3>1, <3>2
    <2>3. (s[i] - 1) + 1 \in Range(s)
      <3>1. i \in DOMAIN s /\ s[i] \in Nat
        BY <1>1, <1>2
      <3> QED
        BY <3>1 DEF Range
    <2> QED
      BY <1>2, <2>1, <2>2, <2>3 DEF Lost, Ends
  <1>4. before \in Injection(Jumps(s), Ends(lost))
    <2>1. before \in [Jumps(s) -> Ends(lost)]
      BY <1>3
    <2>2. ASSUME NEW i \in Jumps(s), NEW j \in Jumps(s), before[i] = before[j]
          PROVE  i = j
      <3>1. /\ i \in 1 .. Len(s) /\ j \in 1 .. Len(s) /\ s[i] - 1 = s[j] - 1
            /\ s[i] \in Nat /\ s[j] \in Nat
        BY <1>1, <1>2, <2>2
      <3>2. s[i] = s[j]
        BY <3>1
      <3>3. ~(i < j) /\ ~(j < i)
        BY <1>1, <3>1, <3>2
      <3> QED
        BY <3>1, <3>3
    <2> QED
      BY <2>1, <2>2 DEF Injection, IsInjective
  <1>5. IsFiniteSet(Ends(lost))
    BY LostType
  <1>6. Cardinality(Jumps(s)) <= Cardinality(Ends(lost))
    <2> HIDE DEF before, lost
    <2> QED
      BY <1>4, <1>5, FS_Injection
  <1> QED
    BY <1>1, <1>6, JumpsType

LastOf(s) == IF s = <<>> THEN 0 ELSE s[Len(s)]
Run(a, b) == [i \in 1 .. b - a + 1 |-> a + i - 1]

LEMMA RunType ==
    ASSUME NEW a \in Nat, NEW b \in Nat, a <= b, NEW S, a .. b \subseteq S
    PROVE  /\ Run(a, b) \in Seq(S) /\ Len(Run(a, b)) = b - a + 1
           /\ \A i \in 1 .. b - a + 1 : Run(a, b)[i] = a + i - 1
  <1> DEFINE m == b - a + 1
  <1>1. m \in Nat /\ \A i \in 1 .. m : a + i - 1 \in S
    OBVIOUS
  <1>2. Run(a, b) = [i \in 1 .. m |-> a + i - 1]
    BY DEF Run
  <1> HIDE DEF m
  <1>3. Run(a, b) \in [1 .. m -> S]
    BY <1>1, <1>2
  <1>4. Run(a, b) \in Seq(S) /\ Len(Run(a, b)) = m
    BY <1>1, <1>3
  <1> QED
    BY <1>2, <1>4 DEF m

\* A row that comes out adds a gap where it does not go on from the last packet.
LEMMA GapsOfMore ==
    ASSUME NEW s \in Seq(Nat), NEW a \in Nat \ {0}, NEW b \in Nat, a <= b
    PROVE  Gaps(s \o Run(a, b)) = Gaps(s) + (IF a = LastOf(s) + 1 THEN 0 ELSE 1)
  <1> DEFINE run == Run(a, b)
             t == s \o run
             n == Len(s)
  <1>1. /\ run \in Seq(Nat) /\ Len(run) = b - a + 1
        /\ \A i \in 1 .. b - a + 1 : run[i] = a + i - 1
    <2>1. a .. b \subseteq Nat
      OBVIOUS
    <2> QED
      BY <2>1, RunType
  <1> HIDE DEF run
  <1>2. /\ t \in Seq(Nat) /\ n \in Nat /\ Len(t) = n + (b - a + 1)
        /\ DOMAIN t = 1 .. Len(t) /\ DOMAIN s = 1 .. n
        /\ \A i \in 1 .. Len(t) : t[i] = IF i <= n THEN s[i] ELSE run[i - n]
    <2>1. n \in Nat /\ DOMAIN s = 1 .. n
      BY LenProperties
    <2>2. t \in Seq(Nat) /\ Len(t) = n + (b - a + 1)
      <3>1. s \o run \in Seq(Nat) /\ Len(s \o run) = Len(s) + Len(run)
        BY <1>1, ConcatProperties
      <3> QED
        BY <1>1, <3>1
    <2>3. \A i \in 1 .. n + (b - a + 1) : t[i] = IF i <= n THEN s[i] ELSE run[i - n]
      <3>1. \A i \in 1 .. Len(s) + Len(run) :
              (s \o run)[i] = IF i <= Len(s) THEN s[i] ELSE run[i - Len(s)]
        BY <1>1, ConcatProperties
      <3> QED
        BY <1>1, <3>1
    <2>4. DOMAIN t = 1 .. Len(t)
      BY <2>2, LenProperties
    <2> HIDE DEF t, n
    <2> QED
      BY <2>1, <2>2, <2>3, <2>4
  <1> HIDE DEF t, n
  <1>3. ASSUME NEW i \in 1 .. n
        PROVE  i \in Jumps(t) <=> i \in Jumps(s)
    <2>1. i \in 1 .. Len(t) /\ i <= n
      BY <1>2
    <2>2. t[i] = s[i]
      BY <1>2, <2>1
    <2>3. i # 1 => i - 1 \in 1 .. Len(t) /\ i - 1 <= n
      BY <1>2, <2>1
    <2>4. i # 1 => t[i - 1] = s[i - 1]
      BY <1>2, <2>3
    <2> QED
      BY <1>2, <2>1, <2>2, <2>4 DEF Jumps
  <1>4. n + 1 \in Jumps(t) <=> a # LastOf(s) + 1
    <2>1. n + 1 \in 1 .. Len(t) /\ t[n + 1] = a
      <3>1. n + 1 \in 1 .. Len(t) /\ ~(n + 1 <= n) /\ (n + 1) - n = 1 /\ 1 \in 1 .. b - a + 1
        BY <1>2
      <3>2. run[1] = a
        BY <1>1, <3>1
      <3> QED
        BY <1>2, <3>1, <3>2
    <2>2. CASE n = 0
      <3>1. s = <<>>
        BY <2>2, EmptySeq DEF n
      <3> QED
        BY <1>2, <2>1, <2>2, <3>1 DEF Jumps, LastOf
    <2>3. CASE n # 0
      <3>1. s # <<>> /\ LastOf(s) = s[n]
        BY <2>3, EmptySeq DEF n, LastOf
      <3>2. n + 1 # 1 /\ (n + 1) - 1 = n /\ n \in 1 .. Len(t) /\ n <= n
        BY <1>2, <2>3
      <3>3. t[n] = s[n]
        BY <1>2, <3>2
      <3> QED
        BY <1>2, <2>1, <3>1, <3>2, <3>3 DEF Jumps
    <2> QED
      BY <2>2, <2>3
  <1>5. ASSUME NEW i \in 1 .. Len(t), n + 1 < i
        PROVE  i \notin Jumps(t)
    <2>1. /\ i - n \in 1 .. b - a + 1 /\ (i - 1) - n \in 1 .. b - a + 1
          /\ i - 1 \in 1 .. Len(t) /\ ~(i <= n) /\ ~(i - 1 <= n)
      <3>1. n \in Nat /\ i \in Nat /\ i <= n + (b - a + 1) /\ Len(t) = n + (b - a + 1)
        BY <1>2
      <3> QED
        BY <1>5, <3>1
    <2>2. t[i] = run[i - n] /\ t[i - 1] = run[(i - 1) - n]
      BY <1>2, <2>1
    <2>3. t[i] = a + (i - n) - 1 /\ t[i - 1] = a + ((i - 1) - n) - 1
      BY <1>1, <2>1, <2>2
    <2>4. t[i] = t[i - 1] + 1 /\ i # 1
      BY <1>2, <1>5, <2>3
    <2> QED
      BY <2>4 DEF Jumps
  <1>6. Jumps(t) = Jumps(s) \cup (IF a = LastOf(s) + 1 THEN {} ELSE {n + 1})
    <2>1. Jumps(t) \subseteq 1 .. Len(t) /\ Jumps(s) \subseteq 1 .. n
      BY <1>2 DEF Jumps
    <2>2. \A i \in 1 .. Len(t) : i \in 1 .. n \/ i = n + 1 \/ n + 1 < i
      BY <1>2
    <2>3. n + 1 \notin 1 .. n
      BY <1>2
    <2> QED
      BY <1>3, <1>4, <1>5, <2>1, <2>2, <2>3
  <1>7. IsFiniteSet(Jumps(s)) /\ Gaps(s) = Cardinality(Jumps(s)) /\ Gaps(t) = Cardinality(Jumps(t))
        /\ n + 1 \notin Jumps(s) /\ Gaps(s) \in Nat
    <2>1. n + 1 \notin 1 .. n
      BY <1>2
    <2> QED
      BY <1>2, <2>1, JumpsType
  <1>8. CASE a = LastOf(s) + 1
    BY <1>6, <1>7, <1>8 DEF t, run
  <1>9. CASE a # LastOf(s) + 1
    <2>1. Jumps(t) = Jumps(s) \cup {n + 1}
      BY <1>6, <1>9
    <2>2. Cardinality(Jumps(t)) = Cardinality(Jumps(s)) + 1
      BY <1>7, <2>1, FS_AddElement
    <2> QED
      BY <1>7, <1>9, <2>2 DEF t, run
  <1> QED
    BY <1>8, <1>9

\* What the channel of a direction is seen to do.
Stays(dir) == UNCHANGED <<sent[dir], seen[dir], Unused(dir)>>
Sends(dir) == /\ sent'[dir] \in Nat /\ sent[dir] <= sent'[dir]
              /\ UNCHANGED <<seen[dir], Unused(dir)>>
GivesUp(dir) == Unused(dir)' = Unused(dir) + 1 /\ UNCHANGED <<sent[dir], seen[dir]>>
Delivers(dir) ==
    \E a \in LastOf(seen[dir]) + 1 .. sent[dir] : \E b \in a .. sent[dir] :
        LET gap == IF a = LastOf(seen[dir]) + 1 THEN 0 ELSE 1
        IN  /\ gap <= Unused(dir) /\ Unused(dir)' = Unused(dir) - gap
            /\ seen'[dir] = seen[dir] \o Run(a, b)
            /\ UNCHANGED sent[dir]
ChannelStep(dir) == Stays(dir) \/ Sends(dir) \/ GivesUp(dir) \/ Delivers(dir)

LEMMA DirTypes ==
    ASSUME TypeOK, NEW dir \in Dirs
    PROVE  /\ sent[dir] \in Nat /\ seen[dir] \in Seq(Packets) /\ given[dir] \in Nat
           /\ Missing(dir) \in Nat /\ Unused(dir) \in Int
  <1>1. sent[dir] \in Nat /\ seen[dir] \in Seq(Packets) /\ given[dir] \in Nat
    BY BoundsAssumption DEF TypeOK
  <1> QED
    BY <1>1, LostType, JumpsType DEF Missing, Unused

\* A step that neither sends nor loses nor delivers.
LEMMA NothingPasses ==
    ASSUME TypeOK, NEW dir \in Dirs, Passes(dir), UNCHANGED <<sent[dir], seen[dir]>>,
           Coming(dir)' = Coming(dir)
    PROVE  /\ Passes(dir)' /\ Missing(dir)' = Missing(dir)
           /\ given'[dir] = given[dir] => Stays(dir)
           /\ given'[dir] = given[dir] + 1 => GivesUp(dir)
  <1>1. Passes(dir)' /\ Missing(dir)' = Missing(dir)
    BY DEF Passes, Missing
  <1>2. given[dir] \in Nat /\ Gaps(seen[dir]) \in Nat /\ seen'[dir] = seen[dir]
    BY DirTypes, JumpsType
  <1>3. Unused(dir) = given[dir] - Gaps(seen[dir]) /\ Unused(dir)' = given'[dir] - Gaps(seen[dir])
    BY <1>2 DEF Unused
  <1> QED
    BY <1>1, <1>2, <1>3 DEF Stays, GivesUp

\* New packets go in behind all others.
LEMMA MorePass ==
    ASSUME TypeOK, NEW dir \in Dirs, Passes(dir), NEW m \in Nat,
           sent'[dir] = sent[dir] + m, UNCHANGED <<seen[dir], given[dir]>>,
           Coming(dir)' = Coming(dir) \cup (sent[dir] + 1 .. sent[dir] + m)
    PROVE  Passes(dir)' /\ Missing(dir)' = Missing(dir) /\ Sends(dir)
  <1> DEFINE n == sent[dir]
             s == seen[dir]
             c == Coming(dir)
  <1>1. n \in Nat /\ s \in Seq(Packets)
    BY DirTypes
  <1>2. Passing(n, s, c)
    BY DEF Passes
  <1> HIDE DEF n, s, c
  <1>3. /\ s \in Seq(1 .. n) /\ DOMAIN s = 1 .. Len(s) /\ \A i \in DOMAIN s : s[i] \in 1 .. n
        /\ Range(s) \subseteq 1 .. n /\ c \subseteq 1 .. n
    <2>1. s \in Seq(1 .. n) /\ c \subseteq 1 .. n
      BY <1>2 DEF Passing
    <2>2. DOMAIN s = 1 .. Len(s) /\ \A i \in 1 .. Len(s) : s[i] \in 1 .. n
      BY <2>1, LenProperties, ElementOfSeq
    <2> QED
      BY <2>1, <2>2 DEF Range
  <1>4. Passing(n + m, s, c \cup (n + 1 .. n + m))
    <2>1. s \in Seq(1 .. n + m)
      <3>1. 1 .. n \subseteq 1 .. n + m
        BY <1>1
      <3> QED
        BY <1>3, <3>1, SeqMonotonic
    <2>2. c \cup (n + 1 .. n + m) \subseteq 1 .. n + m
      BY <1>1, <1>3
    <2>3. \A i \in DOMAIN s, p \in n + 1 .. n + m : s[i] < p
      BY <1>1, <1>3
    <2> QED
      BY <1>2, <2>1, <2>2, <2>3 DEF Passing
  <1>5. Lost(n + m, s, c \cup (n + 1 .. n + m)) = Lost(n, s, c)
    <2>1. 1 .. n + m = (1 .. n) \cup (n + 1 .. n + m)
      BY <1>1
    <2>2. (1 .. n) \cap (n + 1 .. n + m) = {}
      BY <1>1
    <2> QED
      BY <1>3, <2>1, <2>2 DEF Lost
  <1>6. Passes(dir)' /\ Missing(dir)' = Missing(dir)
    BY <1>4, <1>5 DEF Passes, Missing, n, s, c
  <1>7. sent'[dir] \in Nat /\ sent[dir] <= sent'[dir]
    BY <1>1 DEF n
  <1>8. Unused(dir)' = Unused(dir)
    BY DEF Unused
  <1> QED
    BY <1>6, <1>7, <1>8 DEF Sends

\* A row of packets is lost on the way.
LEMMA SomeAreLost ==
    ASSUME TypeOK, NEW dir \in Dirs, Passes(dir), UNCHANGED <<sent[dir], seen[dir]>>,
           NEW a \in Nat, NEW b \in Nat, a .. b \subseteq Coming(dir),
           Coming(dir)' = Coming(dir) \ (a .. b)
    PROVE  /\ Passes(dir)' /\ Missing(dir)' <= Missing(dir) + 1 /\ Missing(dir)' \in Nat
           /\ given'[dir] = given[dir] => Stays(dir)
           /\ given'[dir] = given[dir] + 1 => GivesUp(dir)
  <1> DEFINE n == sent[dir]
             s == seen[dir]
             c == Coming(dir)
  <1>1. n \in Nat /\ s \in Seq(Packets)
    BY DirTypes
  <1>2. Passing(n, s, c) /\ a .. b \subseteq c
    BY DEF Passes
  <1> HIDE DEF n, s, c
  <1>3. Passing(n, s, c \ (a .. b))
    BY <1>2 DEF Passing
  <1>4. Range(s) \cap c = {} /\ c \subseteq 1 .. n
    <2>1. \A i \in DOMAIN s, p \in c : s[i] \in Nat /\ p \in Nat /\ s[i] < p
      <3>1. DOMAIN s = 1 .. Len(s) /\ \A i \in 1 .. Len(s) : s[i] \in Packets
        BY <1>1, LenProperties, ElementOfSeq
      <3>2. c \subseteq Nat /\ Packets \subseteq Nat
        BY <1>2, BoundsAssumption DEF Passing, Packets
      <3> QED
        BY <1>2, <3>1, <3>2 DEF Passing
    <2>2. \A i \in DOMAIN s, p \in c : s[i] # p
      BY <2>1
    <2> QED
      BY <1>2, <2>2 DEF Range, Passing
  <1>5. Lost(n, s, c \ (a .. b)) = Lost(n, s, c) \cup (a .. b)
    BY <1>2, <1>4 DEF Lost
  <1>6. Cardinality(Ends(Lost(n, s, c \ (a .. b)))) <= Cardinality(Ends(Lost(n, s, c))) + 1
    BY <1>1, <1>5, LostType, EndsOfMore
  <1>7. Cardinality(Ends(Lost(n, s, c \ (a .. b)))) \in Nat
    BY <1>1, LostType
  <1>8. Passes(dir)' /\ Missing(dir)' <= Missing(dir) + 1 /\ Missing(dir)' \in Nat
    BY <1>3, <1>6, <1>7 DEF Passes, Missing, n, s, c
  <1>9. given[dir] \in Nat /\ Gaps(seen[dir]) \in Nat
    BY DirTypes, JumpsType
  <1>10. Unused(dir) = given[dir] - Gaps(seen[dir]) /\ Unused(dir)' = given'[dir] - Gaps(seen[dir])
    BY DEF Unused
  <1> QED
    BY <1>8, <1>9, <1>10 DEF Stays, GivesUp

\* A row of packets comes out, ahead of all that are still to come.
LEMMA SomeComeOut ==
    ASSUME TypeOK, NEW dir \in Dirs, Passes(dir), UNCHANGED <<sent[dir], given[dir]>>,
           NEW a \in Nat, NEW b \in Nat, a <= b, a .. b \subseteq Coming(dir),
           Coming(dir)' = Coming(dir) \ (a .. b), \A p \in Coming(dir)' : b < p,
           seen'[dir] = seen[dir] \o Run(a, b), Missing(dir) <= given[dir]
    PROVE  Passes(dir)' /\ Missing(dir)' = Missing(dir) /\ Delivers(dir)
  <1> DEFINE n == sent[dir]
             s == seen[dir]
             c == Coming(dir)
             t == s \o Run(a, b)
  <1>1. n \in Nat /\ s \in Seq(Packets) /\ given[dir] \in Nat
    BY DirTypes
  <1>2. /\ Passing(n, s, c) /\ a .. b \subseteq c /\ c \subseteq 1 .. n
        /\ \A p \in c \ (a .. b) : b < p
    BY DEF Passes, Passing
  <1>3. Coming(dir)' = c \ (a .. b) /\ seen'[dir] = t /\ sent'[dir] = n /\ given'[dir] = given[dir]
    OBVIOUS
  <1> HIDE DEF n, s, c, t
  <1>4. a \in 1 .. n /\ b \in a .. n /\ a .. b \subseteq 1 .. n
    <2>1. a \in a .. b /\ b \in a .. b
      OBVIOUS
    <2> QED
      BY <1>2, <2>1
  <1>5. /\ s \in Seq(1 .. n) /\ Len(s) \in Nat /\ DOMAIN s = 1 .. Len(s)
        /\ \A i \in 1 .. Len(s) : s[i] \in 1 .. n /\ s[i] < a
        /\ \A i, j \in 1 .. Len(s) : i < j => s[i] < s[j]
    <2>1. s \in Seq(1 .. n) /\ a \in c
      BY <1>2, <1>4 DEF Passing
    <2>2. Len(s) \in Nat /\ DOMAIN s = 1 .. Len(s) /\ \A i \in 1 .. Len(s) : s[i] \in 1 .. n
      BY <2>1, LenProperties, ElementOfSeq
    <2> QED
      BY <1>2, <2>1, <2>2 DEF Passing
  <1>6. /\ Run(a, b) \in Seq(1 .. n) /\ Len(Run(a, b)) = b - a + 1
        /\ \A i \in 1 .. b - a + 1 : Run(a, b)[i] = a + i - 1
    <2>1. a \in Nat /\ b \in Nat /\ a <= b /\ a .. b \subseteq 1 .. n
      BY <1>4
    <2> QED
      BY <2>1, RunType
  <1>7. /\ t \in Seq(1 .. n) /\ Len(t) = Len(s) + (b - a + 1) /\ DOMAIN t = 1 .. Len(t)
        /\ \A i \in 1 .. Len(t) : t[i] = IF i <= Len(s) THEN s[i] ELSE a + (i - Len(s)) - 1
    <2>1. /\ t \in Seq(1 .. n) /\ Len(t) = Len(s) + (b - a + 1) /\ DOMAIN t = 1 .. Len(t)
          /\ \A i \in 1 .. Len(t) : t[i] = IF i <= Len(s) THEN s[i] ELSE Run(a, b)[i - Len(s)]
      <3>1. /\ t \in Seq(1 .. n) /\ Len(t) = Len(s) + Len(Run(a, b))
            /\ \A i \in 1 .. Len(s) + Len(Run(a, b)) :
                  t[i] = IF i <= Len(s) THEN s[i] ELSE Run(a, b)[i - Len(s)]
        BY <1>5, <1>6, ConcatProperties DEF t
      <3>2. DOMAIN t = 1 .. Len(t)
        BY <3>1, LenProperties
      <3> QED
        BY <1>6, <3>1, <3>2
    <2>2. \A i \in 1 .. Len(t) : ~(i <= Len(s)) => i - Len(s) \in 1 .. b - a + 1
      BY <1>4, <1>5, <2>1
    <2> QED
      BY <1>6, <2>1, <2>2
  <1>8. \A i \in 1 .. Len(t) : t[i] \in Nat /\ t[i] <= b
    <2> TAKE i \in 1 .. Len(t)
    <2>1. CASE i <= Len(s)
      <3>1. i \in 1 .. Len(s) /\ t[i] = s[i]
        BY <1>7, <2>1
      <3> QED
        BY <1>4, <1>5, <3>1
    <2>2. CASE ~(i <= Len(s))
      BY <1>4, <1>5, <1>7, <2>2
    <2> QED
      BY <2>1, <2>2
  <1>9. ASSUME NEW i \in 1 .. Len(t), NEW j \in 1 .. Len(t), i < j
        PROVE  t[i] < t[j]
    <2>1. CASE j <= Len(s)
      <3>1. i \in 1 .. Len(s) /\ j \in 1 .. Len(s)
        BY <1>5, <1>9, <2>1
      <3> QED
        BY <1>5, <1>7, <1>9, <3>1
    <2>2. CASE i <= Len(s) /\ ~(j <= Len(s))
      <3>1. i \in 1 .. Len(s)
        BY <1>5, <2>2
      <3>3. t[i] = s[i] /\ t[j] = a + (j - Len(s)) - 1
        BY <1>7, <2>2
      <3>2. s[i] \in Nat /\ s[i] < a
        BY <1>5, <3>1
      <3> QED
        BY <1>4, <1>5, <2>2, <3>1, <3>2, <3>3
    <2>3. CASE ~(i <= Len(s)) /\ ~(j <= Len(s))
      BY <1>4, <1>5, <1>7, <1>9, <2>3
    <2> QED
      BY <1>5, <1>9, <2>1, <2>2, <2>3
  <1>10. Passing(n, t, c \ (a .. b))
    <2>1. ASSUME NEW i \in DOMAIN t, NEW p \in c \ (a .. b)
          PROVE  t[i] < p
      <3>1. t[i] \in Nat /\ t[i] <= b /\ b < p /\ p \in Nat
        BY <1>2, <1>7, <1>8
      <3> QED
        BY <3>1
    <2> QED
      BY <1>2, <1>7, <1>9, <2>1 DEF Passing
  <1>11. Range(t) = Range(s) \cup (a .. b)
    <2>1. ASSUME NEW p \in Range(t)
          PROVE  p \in Range(s) \cup (a .. b)
      <3>1. PICK i \in 1 .. Len(t) : p = t[i]
        BY <1>7 DEF Range
      <3>2. CASE i <= Len(s)
        <4>1. i \in DOMAIN s /\ p = s[i]
          BY <1>5, <1>7, <3>1, <3>2
        <4> QED
          BY <4>1 DEF Range
      <3>3. CASE ~(i <= Len(s))
        <4>1. p = a + (i - Len(s)) - 1
          BY <1>7, <3>1, <3>3
        <4>2. i \in Nat /\ Len(s) < i /\ i <= Len(s) + (b - a + 1)
          BY <1>5, <1>7, <3>3
        <4> QED
          BY <1>5, <4>1, <4>2
      <3> QED
        BY <3>2, <3>3
    <2>2. ASSUME NEW i \in 1 .. Len(s)
          PROVE  s[i] \in Range(t)
      <3>1. i \in DOMAIN t /\ t[i] = s[i]
        BY <1>4, <1>5, <1>7
      <3> QED
        BY <3>1 DEF Range
    <2>3. ASSUME NEW p \in a .. b
          PROVE  p \in Range(t)
      <3> DEFINE i == p - a + 1 + Len(s)
      <3>1. i \in 1 .. Len(t) /\ ~(i <= Len(s)) /\ a + (i - Len(s)) - 1 = p
        BY <1>4, <1>5, <1>7
      <3>2. t[i] = p
        BY <1>7, <3>1
      <3> HIDE DEF i
      <3> QED
        BY <1>7, <3>1, <3>2 DEF Range
    <2> QED
      BY <1>5, <2>1, <2>2, <2>3 DEF Range
  <1>12. Lost(n, t, c \ (a .. b)) = Lost(n, s, c)
    BY <1>2, <1>11 DEF Lost
  <1>13. Passes(dir)' /\ Missing(dir)' = Missing(dir)
    BY <1>3, <1>10, <1>12 DEF Passes, Missing, n, s, c
  <1> DEFINE gap == IF a = LastOf(s) + 1 THEN 0 ELSE 1
  <1>14. gap \in 0 .. 1 /\ Gaps(t) = Gaps(s) + gap /\ Gaps(s) \in Nat
    <2>1. s \in Seq(Nat) /\ a \in Nat \ {0}
      <3>1. 1 .. n \subseteq Nat
        OBVIOUS
      <3> QED
        BY <1>4, <1>5, <3>1, SeqMonotonic
    <2> QED
      BY <2>1, GapsOfMore, JumpsType DEF t
  <1>15. Gaps(t) <= given[dir]
    <2>1. Gaps(t) <= Cardinality(Ends(Lost(n, t, c \ (a .. b))))
      BY <1>1, <1>10, GapsAreLosses
    <2>2. Cardinality(Ends(Lost(n, t, c \ (a .. b)))) = Missing(dir)
      BY <1>12 DEF Missing, n, s, c
    <2>3. Missing(dir) \in Nat
      BY DirTypes
    <2> QED
      BY <1>1, <1>14, <2>1, <2>2, <2>3
  <1>16. gap <= Unused(dir) /\ Unused(dir)' = Unused(dir) - gap
    <2>1. Unused(dir) = given[dir] - Gaps(s) /\ Unused(dir)' = given[dir] - Gaps(t)
      BY <1>3 DEF Unused, s
    <2> HIDE DEF gap
    <2> QED
      BY <1>1, <1>14, <1>15, <2>1
  <1>17. LastOf(s) + 1 <= a /\ LastOf(s) \in Nat
    <2>1. CASE s = <<>>
      BY <1>4, <2>1 DEF LastOf
    <2>2. CASE s # <<>>
      <3>1. Len(s) \in 1 .. Len(s)
        BY <1>5, <2>2, EmptySeq
      <3>2. s[Len(s)] \in 1 .. n /\ s[Len(s)] < a
        BY <1>5, <3>1
      <3> QED
        BY <1>4, <2>2, <3>2 DEF LastOf
    <2> QED
      BY <2>1, <2>2
  <1>18. a \in LastOf(s) + 1 .. n /\ b \in a .. n
    BY <1>1, <1>4, <1>17
  <1>19. Delivers(dir)
    BY <1>3, <1>16, <1>18 DEF Delivers, n, s, t
  <1> QED
    BY <1>13, <1>19

-----------------------------------------------------------------------------
(* Lists of URBs *)

LEMMA UrbType ==
    ASSUME NEW u \in Urbs
    PROVE  /\ u.dir \in Dirs /\ u.data \in Seq(Packets) /\ Len(u.data) \in 0 .. Size
           /\ u.done \in Nat /\ DOMAIN u.data = 1 .. Len(u.data)
           /\ \A k \in 1 .. Len(u.data) : u.data[k] \in Packets
  <1>1. /\ u.dir \in Dirs /\ u.data \in Seq(Packets) /\ Len(u.data) <= Size /\ u.done \in Nat
    BY DEF Urbs
  <1>2. /\ Len(u.data) \in Nat /\ DOMAIN u.data = 1 .. Len(u.data)
        /\ \A k \in 1 .. Len(u.data) : u.data[k] \in Packets
    BY <1>1, LenProperties, ElementOfSeq
  <1> QED
    BY <1>1, <1>2, SizeAssumption

LEMMA ListType ==
    ASSUME NEW urbs \in Seq(Urbs)
    PROVE  /\ Len(urbs) \in Nat /\ DOMAIN urbs = 1 .. Len(urbs)
           /\ \A i \in DOMAIN urbs : urbs[i] \in Urbs
  BY LenProperties, ElementOfSeq

LEMMA NumberType ==
    ASSUME NEW urbs \in Seq(Urbs), NEW dir
    PROVE  /\ IsFiniteSet({i \in DOMAIN urbs : urbs[i].dir = dir}) /\ Number(urbs, dir) \in Nat
           /\ \A i \in DOMAIN urbs : urbs[i].dir = dir => Number(urbs, dir) >= 1
  <1> DEFINE S == {i \in DOMAIN urbs : urbs[i].dir = dir}
  <1>1. S \subseteq 1 .. Len(urbs) /\ Len(urbs) \in Nat
    BY ListType
  <1>2. IsFiniteSet(S)
    BY <1>1, PartOfInterval
  <1>3. Cardinality(S) \in Nat /\ (Cardinality(S) = 0 <=> S = {})
    BY <1>2, FS_CardinalityType, FS_EmptySet
  <1>4. ASSUME NEW i \in DOMAIN urbs, urbs[i].dir = dir
        PROVE  Cardinality(S) >= 1
    <2>1. i \in S
      BY <1>4
    <2> QED
      BY <1>3, <2>1
  <1> QED
    BY <1>2, <1>3, <1>4 DEF Number

\* The packets of a URB are a row.
LEMMA LoadIsRow ==
    ASSUME NEW u \in Urbs, Row(u.data)
    PROVE  /\ \E a, b \in Nat : Load(u) = a .. b
           /\ Load(u) \subseteq Packets
           /\ u.data = <<>> => Load(u) = {}
           /\ u.dir = "in" /\ u.data # <<>> =>
                LET a == u.data[1] b == u.data[Len(u.data)]
                IN  a \in Packets /\ b \in Packets /\ a <= b /\ Load(u) = a .. b /\ u.data = Run(a, b)
           /\ u.dir = "out" /\ u.done < Len(u.data) =>
                LET a == u.data[u.done + 1] b == u.data[Len(u.data)]
                IN  a \in Packets /\ b \in Packets /\ a <= b /\ Load(u) = a .. b
  <1> DEFINE len == Len(u.data)
             from == IF u.dir = "out" THEN u.done + 1 ELSE 1
             K == {k \in DOMAIN u.data : u.dir = "out" => k > u.done}
  <1>1. /\ len \in Nat /\ DOMAIN u.data = 1 .. len /\ from \in Nat \ {0}
        /\ \A k \in 1 .. len : u.data[k] \in Packets /\ u.data[k] \in Nat \ {0}
        /\ \A k \in 1 .. len : u.data[k] = u.data[1] + k - 1
    BY UrbType, SizeAssumption, BoundsAssumption DEF Row, Packets
  <1>2. K = from .. len /\ Load(u) = {u.data[k] : k \in K}
    <2>1. u.done \in Nat
      BY UrbType
    <2> QED
      BY <1>1, <2>1 DEF Load
  <1> HIDE DEF K, from, len
  <1>3. Load(u) \subseteq Packets
    BY <1>1, <1>2
  <1>4. CASE len < from
    <2>1. K = {}
      BY <1>1, <1>2, <1>4
    <2>2. Load(u) = {} /\ {} = 1 .. 0
      BY <1>2, <2>1
    <2>3. u.dir = "in" => u.data = <<>>
      <3> SUFFICES ASSUME u.dir = "in" PROVE len = 0
        BY UrbType, EmptySeq DEF len
      <3> QED
        BY <1>1, <1>4 DEF from
    <2>4. u.dir = "out" => ~(u.done < len)
      BY <1>1, <1>4, UrbType DEF from
    <2>6. u.dir = "in" => ~(u.data # <<>>)
      BY <2>3
    <2>5. \E a, b \in Nat : Load(u) = a .. b
      BY <2>2
    <2> QED
      BY <1>3, <2>2, <2>4, <2>5, <2>6 DEF len
  <1>5. CASE from <= len
    <2> DEFINE a == u.data[from]
               b == u.data[len]
    <2>1. /\ from \in 1 .. len /\ len \in 1 .. len /\ a \in Packets /\ b \in Packets
          /\ a \in Nat /\ b \in Nat /\ u.data[1] \in Nat /\ 1 \in 1 .. len
          /\ a = u.data[1] + from - 1 /\ b = u.data[1] + len - 1
      <3>1. from \in 1 .. len /\ len \in 1 .. len /\ 1 \in 1 .. len
        BY <1>1, <1>5
      <3> QED
        BY <1>1, <3>1
    <2>2. Load(u) = a .. b
      <3>1. ASSUME NEW p \in Load(u)
            PROVE  p \in a .. b
        <4>1. PICK k \in K : p = u.data[k]
          BY <1>2
        <4>2. k \in 1 .. len /\ from <= k
          BY <1>1, <1>2
        <4>3. p = u.data[1] + k - 1
          BY <1>1, <4>1, <4>2
        <4> DEFINE first == u.data[1]
        <4>4. /\ first \in Nat /\ from \in Nat /\ len \in Nat
              /\ a = first + from - 1 /\ b = first + len - 1 /\ p = first + k - 1
          BY <1>1, <2>1, <4>3
        <4> HIDE DEF a, b, first
        <4> QED
          BY <4>2, <4>4
      <3>2. ASSUME NEW p \in a .. b
            PROVE  p \in Load(u)
        <4> DEFINE k == p - u.data[1] + 1
        <4>1. k \in from .. len /\ k \in 1 .. len /\ p = u.data[1] + k - 1
          <5> DEFINE first == u.data[1]
          <5>1. /\ first \in Nat /\ from \in Nat \ {0} /\ len \in Nat
                /\ a = first + from - 1 /\ b = first + len - 1 /\ k = p - first + 1
            BY <1>1, <2>1
          <5>2. p \in a .. b
            OBVIOUS
          <5>3. k \in from .. len /\ k \in 1 .. len /\ p = first + k - 1
            <6> HIDE DEF a, b, first, k
            <6> QED
              BY <5>1, <5>2
          <5> QED
            BY <5>3
        <4>2. p = u.data[k] /\ k \in K
          BY <1>1, <1>2, <4>1
        <4> QED
          BY <1>2, <4>2
      <3> QED
        BY <3>1, <3>2
    <2>3. a <= b
      <3> HIDE DEF a, b
      <3> QED
        BY <1>1, <1>5, <2>1
    <2>4. u.data # <<>>
      BY <1>1, <1>5, EmptySeq DEF len
    <2>5. u.dir = "in" => u.data = Run(u.data[1], b) /\ a = u.data[1]
      <3> SUFFICES ASSUME u.dir = "in" PROVE u.data = Run(u.data[1], b)
        BY DEF from
      <3>1. from = 1
        BY DEF from
      <3>2. b - u.data[1] + 1 = len
        <4> DEFINE first == u.data[1]
        <4>1. first \in Nat /\ b = first + len - 1 /\ len \in Nat
          BY <1>1, <2>1
        <4>2. b - first + 1 = len
          <5> HIDE DEF b, first
          <5> QED
            BY <4>1
        <4> QED
          BY <4>2
      <3>3. /\ Run(u.data[1], b) = [k \in 1 .. len |-> u.data[1] + k - 1]
        BY <3>2 DEF Run
      <3>4. Run(u.data[1], b) \in Seq(Packets) /\ Len(Run(u.data[1], b)) = len
            /\ \A k \in 1 .. len : Run(u.data[1], b)[k] = u.data[k]
        <4>1. \A k \in 1 .. len : u.data[1] + k - 1 \in Packets /\ u.data[1] + k - 1 = u.data[k]
          BY <1>1
        <4>2. Run(u.data[1], b) \in [1 .. len -> Packets]
          BY <3>3, <4>1
        <4>3. Run(u.data[1], b) \in Seq(Packets) /\ Len(Run(u.data[1], b)) = len
          BY <1>1, <4>2
        <4> QED
          BY <3>3, <4>1, <4>3
      <3> QED
        BY <3>4, UrbType, SeqEqual DEF len
    <2>6. u.dir = "out" => a = u.data[u.done + 1]
      BY DEF from
    <2>7. \E x, y \in Nat : Load(u) = x .. y
      BY <2>1, <2>2
    <2> QED
      BY <1>3, <2>1, <2>2, <2>3, <2>4, <2>5, <2>6, <2>7 DEF a, b, len
  <1> QED
    BY <1>1, <1>4, <1>5

LEMMA AppendHolds ==
    ASSUME NEW urbs \in Seq(Urbs), NEW u \in Urbs, NEW dir
    PROVE  LET more == Append(urbs, u)
           IN  /\ Held(more, dir) = Held(urbs, dir) \cup IF u.dir = dir THEN Load(u) ELSE {}
               /\ Number(more, dir) = Number(urbs, dir) + IF u.dir = dir THEN 1 ELSE 0
               /\ Ordered(urbs, dir)
                  /\ (u.dir = dir => \A p \in Held(urbs, dir), q \in Load(u) : p < q)
                    => Ordered(more, dir)
               /\ \A i \in DOMAIN urbs : i \in DOMAIN more /\ more[i] = urbs[i]
               /\ Len(urbs) + 1 \in DOMAIN more /\ more[Len(urbs) + 1] = u
               /\ \A i \in DOMAIN more : i \in DOMAIN urbs \/ i = Len(urbs) + 1
  <1> DEFINE more == Append(urbs, u)
             n == Len(urbs)
             S == {i \in DOMAIN urbs : urbs[i].dir = dir}
             T == {i \in DOMAIN more : more[i].dir = dir}
  <1>1. /\ n \in Nat /\ DOMAIN urbs = 1 .. n
        /\ DOMAIN more = 1 .. n + 1 /\ more[n + 1] = u /\ \A i \in 1 .. n : more[i] = urbs[i]
    BY ListType, AppendProperties, LenProperties
  <1> HIDE DEF more, n
  <1>2. /\ \A i \in DOMAIN urbs : i \in DOMAIN more /\ more[i] = urbs[i]
        /\ n + 1 \in DOMAIN more /\ n + 1 \notin DOMAIN urbs
        /\ \A i \in DOMAIN more : i \in DOMAIN urbs \/ i = n + 1
    BY <1>1
  <1>3. T = S \cup IF u.dir = dir THEN {n + 1} ELSE {}
    BY <1>1, <1>2
  <1>4. Held(more, dir) = Held(urbs, dir) \cup IF u.dir = dir THEN Load(u) ELSE {}
    <2>1. Held(more, dir) = UNION {Load(more[i]) : i \in T}
          /\ Held(urbs, dir) = UNION {Load(urbs[i]) : i \in S}
      BY DEF Held
    <2>2. \A i \in S : Load(more[i]) = Load(urbs[i])
      BY <1>2
    <2>3. Load(more[n + 1]) = Load(u)
      BY <1>1
    <2> HIDE DEF S, T
    <2> QED
      BY <1>3, <2>1, <2>2, <2>3
  <1>5. Number(more, dir) = Number(urbs, dir) + IF u.dir = dir THEN 1 ELSE 0
    <2>1. IsFiniteSet(S) /\ n + 1 \notin S
      BY <1>2, NumberType
    <2>4. Cardinality(S) \in Nat
      BY NumberType DEF Number
    <2>2. Number(more, dir) = Cardinality(T) /\ Number(urbs, dir) = Cardinality(S)
      BY DEF Number
    <2> HIDE DEF S, T
    <2>3. ASSUME u.dir = dir
          PROVE  Cardinality(T) = Cardinality(S) + 1
      <3>1. T = S \cup {n + 1}
        BY <1>3, <2>3
      <3> QED
        BY <2>1, <3>1, FS_AddElement
    <2>5. CASE u.dir = dir
      BY <2>2, <2>3, <2>5
    <2>6. CASE u.dir # dir
      <3>1. T = S
        BY <1>3, <2>6
      <3> QED
        BY <2>2, <2>4, <2>6, <3>1
    <2> QED
      BY <2>5, <2>6
  <1>6. ASSUME Ordered(urbs, dir),
               u.dir = dir => \A p \in Held(urbs, dir), q \in Load(u) : p < q
        PROVE  Ordered(more, dir)
    <2> SUFFICES ASSUME NEW i \in DOMAIN more, NEW j \in DOMAIN more, i < j,
                        more[i].dir = dir, more[j].dir = dir,
                        NEW p \in Load(more[i]), NEW q \in Load(more[j])
                 PROVE  p < q
      BY DEF Ordered
    <2>1. i \in DOMAIN urbs /\ more[i] = urbs[i]
      BY <1>1
    <2>2. CASE j \in DOMAIN urbs
      BY <1>2, <1>6, <2>1, <2>2 DEF Ordered
    <2>3. CASE j = n + 1
      <3>1. p \in Held(urbs, dir) /\ more[j] = u
        BY <1>1, <2>1, <2>3 DEF Held
      <3> QED
        BY <1>6, <3>1
    <2> QED
      BY <1>2, <2>2, <2>3
  <1> QED
    BY <1>2, <1>4, <1>5, <1>6, <1>1 DEF more, n

\* What the other URBs of a list hold.
Others(urbs, i, dir) == UNION {Load(urbs[j]) : j \in {j \in DOMAIN urbs : j # i /\ urbs[j].dir = dir}}

LEMMA HeldSplits ==
    ASSUME NEW urbs \in Seq(Urbs), NEW i \in DOMAIN urbs, NEW dir
    PROVE  /\ Held(urbs, dir) = Others(urbs, i, dir) \cup IF urbs[i].dir = dir THEN Load(urbs[i]) ELSE {}
           /\ Ordered(urbs, dir) /\ urbs[i].dir = dir =>
                Others(urbs, i, dir) \cap Load(urbs[i]) = {}
  <1>1. Held(urbs, dir) = Others(urbs, i, dir) \cup IF urbs[i].dir = dir THEN Load(urbs[i]) ELSE {}
    BY DEF Held, Others
  <1>2. ASSUME Ordered(urbs, dir), urbs[i].dir = dir, NEW p \in Others(urbs, i, dir), p \in Load(urbs[i])
        PROVE  FALSE
    <2>1. PICK j \in DOMAIN urbs : j # i /\ urbs[j].dir = dir /\ p \in Load(urbs[j])
      BY <1>2 DEF Others
    <2>2. i < j \/ j < i
      BY <2>1, ListType
    <2>3. p < p
      BY <1>2, <2>1, <2>2 DEF Ordered
    <2>4. p \in Packets
      <3>1. urbs[i] \in Urbs
        BY ListType
      <3> QED
        BY <1>2, <3>1, UrbType DEF Load
    <2> QED
      BY <2>3, <2>4, BoundsAssumption DEF Packets
  <1> QED
    BY <1>1, <1>2

\* Which URBs are left, and in which order.
OldPlace(k, i) == IF k < i THEN k ELSE k + 1

LEMMA RemoveKeeps ==
    ASSUME NEW urbs \in Seq(Urbs), NEW i \in DOMAIN urbs
    PROVE  LET less == RemoveAt(urbs, i)
           IN  /\ DOMAIN less = 1 .. Len(urbs) - 1
               /\ \A k \in DOMAIN less : /\ OldPlace(k, i) \in DOMAIN urbs /\ OldPlace(k, i) # i
                                         /\ less[k] = urbs[OldPlace(k, i)]
               /\ \A k, l \in DOMAIN less : k < l => OldPlace(k, i) < OldPlace(l, i)
               /\ \A j \in DOMAIN urbs : j # i => \E k \in DOMAIN less : OldPlace(k, i) = j
               /\ \A k \in DOMAIN less : \E j \in DOMAIN urbs : less[k] = urbs[j]
               /\ \A j \in DOMAIN urbs : j # i => \E k \in DOMAIN less : less[k] = urbs[j]
  <1> DEFINE less == RemoveAt(urbs, i)
             n == Len(urbs)
  <1>1. /\ n \in Nat /\ DOMAIN urbs = 1 .. n /\ i \in 1 .. n /\ DOMAIN less = 1 .. n - 1
        /\ \A k \in 1 .. n - 1 : less[k] = IF k < i THEN urbs[k] ELSE urbs[k + 1]
    <2>1. n \in Nat /\ DOMAIN urbs = 1 .. n /\ i \in 1 .. n
      BY ListType
    <2>2. /\ less \in Seq(Urbs) /\ Len(less) = n - 1
          /\ \A k \in 1 .. n - 1 : less[k] = IF k < i THEN urbs[k] ELSE urbs[k + 1]
      BY <2>1, RemoveAtProperties
    <2> QED
      BY <2>1, <2>2, LenProperties
  <1> HIDE DEF less, n
  <1>3. \A k \in 1 .. n - 1 : /\ OldPlace(k, i) \in 1 .. n /\ OldPlace(k, i) # i
                              /\ less[k] = urbs[OldPlace(k, i)]
    BY <1>1 DEF OldPlace
  <1>4. \A k, l \in 1 .. n - 1 : k < l => OldPlace(k, i) < OldPlace(l, i)
    BY <1>1 DEF OldPlace
  <1>5. \A j \in 1 .. n : j < i => j \in 1 .. n - 1 /\ OldPlace(j, i) = j
    BY <1>1 DEF OldPlace
  <1>6. \A j \in 1 .. n : i < j => j - 1 \in 1 .. n - 1 /\ OldPlace(j - 1, i) = j
    BY <1>1 DEF OldPlace
  <1>7. \A j \in 1 .. n : j # i => \E k \in 1 .. n - 1 : OldPlace(k, i) = j
    <2> TAKE j \in 1 .. n
    <2>1. CASE j < i
      BY <1>5, <2>1
    <2>2. CASE i < j
      BY <1>6, <2>2
    <2> QED
      BY <1>1, <2>1, <2>2
  <1>8. \A k \in 1 .. n - 1 : \E j \in 1 .. n : less[k] = urbs[j]
    BY <1>3
  <1>9. \A j \in 1 .. n : j # i => \E k \in 1 .. n - 1 : less[k] = urbs[j]
    BY <1>3, <1>7
  <1> QED
    BY <1>1, <1>3, <1>4, <1>7, <1>8, <1>9 DEF less, n

LEMMA RemoveHolds ==
    ASSUME NEW urbs \in Seq(Urbs), NEW i \in DOMAIN urbs, NEW dir
    PROVE  LET less == RemoveAt(urbs, i)
           IN  /\ Held(less, dir) = Others(urbs, i, dir)
               /\ Number(less, dir) = Number(urbs, dir) - IF urbs[i].dir = dir THEN 1 ELSE 0
               /\ Ordered(urbs, dir) => Ordered(less, dir)
  <1> DEFINE less == RemoveAt(urbs, i)
             n == Len(urbs)
             S == {j \in DOMAIN urbs : urbs[j].dir = dir}
             T == {k \in DOMAIN less : less[k].dir = dir}
             back == [k \in T |-> OldPlace(k, i)]
  <1>1. n \in Nat /\ DOMAIN urbs = 1 .. n /\ i \in 1 .. n /\ DOMAIN less = 1 .. n - 1
    BY ListType, RemoveKeeps
  <1>2. /\ \A k \in 1 .. n - 1 : /\ OldPlace(k, i) \in 1 .. n /\ OldPlace(k, i) # i
                                 /\ less[k] = urbs[OldPlace(k, i)]
        /\ \A k, l \in 1 .. n - 1 : k < l => OldPlace(k, i) < OldPlace(l, i)
        /\ \A j \in 1 .. n : j # i => \E k \in 1 .. n - 1 : OldPlace(k, i) = j
    <2>1. /\ \A k \in DOMAIN less : /\ OldPlace(k, i) \in DOMAIN urbs /\ OldPlace(k, i) # i
                                    /\ less[k] = urbs[OldPlace(k, i)]
          /\ \A k, l \in DOMAIN less : k < l => OldPlace(k, i) < OldPlace(l, i)
          /\ \A j \in DOMAIN urbs : j # i => \E k \in DOMAIN less : OldPlace(k, i) = j
      BY RemoveKeeps
    <2> HIDE DEF less, n
    <2> QED
      BY <1>1, <2>1
  <1> HIDE DEF less, n
  <1>3. Held(less, dir) = Others(urbs, i, dir)
    BY <1>1, <1>2 DEF Held, Others
  <1>4. Ordered(urbs, dir) => Ordered(less, dir)
    BY <1>1, <1>2 DEF Ordered
  <1>5. back \in Bijection(T, S \ {i})
    <2>1. T \subseteq 1 .. n - 1 /\ \A k \in T : back[k] = OldPlace(k, i) /\ OldPlace(k, i) \in S \ {i}
      BY <1>1, <1>2
    <2>2. back \in [T -> S \ {i}]
      BY <2>1
    <2>3. ASSUME NEW k \in T, NEW l \in T, back[k] = back[l]
          PROVE  k = l
      <3>1. OldPlace(k, i) = OldPlace(l, i) /\ k \in 1 .. n - 1 /\ l \in 1 .. n - 1 /\ OldPlace(k, i) \in 1 .. n
        BY <1>2, <2>1, <2>3
      <3>2. ~(k < l) /\ ~(l < k)
        BY <1>2, <3>1
      <3> QED
        BY <1>1, <3>1, <3>2
    <2>4. ASSUME NEW j \in S \ {i}
          PROVE  \E k \in T : back[k] = j
      <3>1. PICK k \in 1 .. n - 1 : OldPlace(k, i) = j
        BY <1>1, <1>2
      <3>2. k \in T
        <4>1. less[k] = urbs[j] /\ urbs[j].dir = dir /\ k \in DOMAIN less
          BY <1>1, <1>2, <2>4, <3>1
        <4> QED
          BY <4>1
      <3> QED
        BY <3>1, <3>2
    <2> HIDE DEF back, S, T
    <2> QED
      BY <2>2, <2>3, <2>4 DEF Bijection, Injection, IsInjective, Surjection
  <1>6. Cardinality(T) = Cardinality(S) - IF i \in S THEN 1 ELSE 0
    <2>1. IsFiniteSet(S) /\ Cardinality(S) \in Nat
      BY NumberType DEF Number
    <2>2. IsFiniteSet(S \ {i}) /\ Cardinality(S \ {i}) = Cardinality(S) - IF i \in S THEN 1 ELSE 0
      <3> HIDE DEF S
      <3> QED
        BY <2>1, FS_RemoveElement
    <2>3. T \subseteq 1 .. n - 1
      BY <1>1
    <2>4. IsFiniteSet(T)
      <3>1. T \subseteq 1 .. n
        BY <1>1, <2>3
      <3> QED
        BY <1>1, <3>1, PartOfInterval
    <2> HIDE DEF S, T, back
    <2> QED
      BY <1>5, <2>2, <2>4, FS_Bijection DEF ExistsBijection
  <1>7. i \in S <=> urbs[i].dir = dir
    OBVIOUS
  <1>8. Number(less, dir) = Cardinality(T) /\ Number(urbs, dir) = Cardinality(S)
    BY DEF Number
  <1> HIDE DEF S, T
  <1>9. Number(less, dir) = Number(urbs, dir) - IF urbs[i].dir = dir THEN 1 ELSE 0
    BY <1>6, <1>7, <1>8
  <1> QED
    BY <1>3, <1>4, <1>9 DEF less

\* Reaping takes the first completion, and the packets it holds.
LEMMA TailHolds ==
    ASSUME NEW urbs \in Seq(Urbs), urbs # <<>>, NEW dir
    PROVE  /\ Held(Tail(urbs), dir) = Others(urbs, 1, dir) /\ 1 \in DOMAIN urbs
           /\ Head(urbs) = urbs[1] /\ Head(urbs) \in Urbs /\ Tail(urbs) \in Seq(Urbs)
           /\ Number(Tail(urbs), dir) = Number(urbs, dir) - IF urbs[1].dir = dir THEN 1 ELSE 0
           /\ Ordered(urbs, dir) => Ordered(Tail(urbs), dir)
           /\ \A i \in DOMAIN urbs : i # 1 => \E k \in DOMAIN Tail(urbs) : Tail(urbs)[k] = urbs[i]
           /\ \A k \in DOMAIN Tail(urbs) : \E i \in DOMAIN urbs : Tail(urbs)[k] = urbs[i]
  <1>1. /\ Head(urbs) = urbs[1] /\ Head(urbs) \in Urbs /\ Tail(urbs) \in Seq(Urbs)
        /\ Len(urbs) \in Nat \ {0} /\ DOMAIN urbs = 1 .. Len(urbs) /\ Len(Tail(urbs)) = Len(urbs) - 1
        /\ \A k \in 1 .. Len(Tail(urbs)) : Tail(urbs)[k] = urbs[k + 1]
    BY HeadTailProperties, ListType, EmptySeq
  <1>2. 1 \in 1 .. Len(urbs)
    BY <1>1
  <1>3. Tail(urbs) = RemoveAt(urbs, 1)
    <2>1. /\ RemoveAt(urbs, 1) \in Seq(Urbs) /\ Len(RemoveAt(urbs, 1)) = Len(urbs) - 1
          /\ \A k \in 1 .. Len(urbs) - 1 : RemoveAt(urbs, 1)[k] = IF k < 1 THEN urbs[k] ELSE urbs[k + 1]
      BY <1>2, RemoveAtProperties
    <2>2. \A k \in 1 .. Len(urbs) - 1 : ~(k < 1)
      BY <1>1
    <2>3. \A k \in 1 .. Len(Tail(urbs)) : Tail(urbs)[k] = RemoveAt(urbs, 1)[k]
      BY <1>1, <2>1, <2>2
    <2> QED
      BY <1>1, <2>1, <2>3, SeqEqual
  <1>4. DOMAIN Tail(urbs) = 1 .. Len(Tail(urbs))
    BY <1>1, LenProperties
  <1>5. ASSUME NEW i \in DOMAIN urbs, i # 1
        PROVE  \E k \in DOMAIN Tail(urbs) : Tail(urbs)[k] = urbs[i]
    <2>1. i - 1 \in 1 .. Len(Tail(urbs)) /\ (i - 1) + 1 = i
      BY <1>1, <1>5
    <2> QED
      BY <1>1, <1>4, <2>1
  <1>6. ASSUME NEW k \in DOMAIN Tail(urbs)
        PROVE  \E i \in DOMAIN urbs : Tail(urbs)[k] = urbs[i]
    <2>1. k + 1 \in 1 .. Len(urbs)
      BY <1>1, <1>4
    <2> QED
      BY <1>1, <1>4, <2>1
  <1>7. 1 \in DOMAIN urbs
    BY <1>1, <1>2
  <1>8. /\ Held(Tail(urbs), dir) = Others(urbs, 1, dir)
        /\ Number(Tail(urbs), dir) = Number(urbs, dir) - IF urbs[1].dir = dir THEN 1 ELSE 0
        /\ Ordered(urbs, dir) => Ordered(Tail(urbs), dir)
    BY <1>3, <1>7, RemoveHolds
  <1> QED
    BY <1>1, <1>5, <1>6, <1>7, <1>8

LEMMA ReplaceHolds ==
    ASSUME NEW urbs \in Seq(Urbs), NEW i \in DOMAIN urbs, NEW u \in Urbs, u.dir = urbs[i].dir,
           NEW dir
    PROVE  LET new == [urbs EXCEPT ![i] = u]
           IN  /\ Held(new, dir) = Others(urbs, i, dir) \cup IF u.dir = dir THEN Load(u) ELSE {}
               /\ Number(new, dir) = Number(urbs, dir)
               /\ Ordered(urbs, dir) /\ Load(u) \subseteq Load(urbs[i]) => Ordered(new, dir)
  <1> DEFINE new == [urbs EXCEPT ![i] = u]
  <1>1. DOMAIN new = DOMAIN urbs /\ new[i] = u /\ \A j \in DOMAIN urbs : j # i => new[j] = urbs[j]
    OBVIOUS
  <1> HIDE DEF new
  <1>2. \A j \in DOMAIN urbs : new[j].dir = urbs[j].dir
    BY <1>1
  <1>3. Held(new, dir) = Others(urbs, i, dir) \cup IF u.dir = dir THEN Load(u) ELSE {}
    <2>1. \A j \in DOMAIN urbs : j # i => Load(new[j]) = Load(urbs[j])
      BY <1>1
    <2> QED
      BY <1>1, <1>2, <2>1 DEF Held, Others
  <1>4. {j \in DOMAIN new : new[j].dir = dir} = {j \in DOMAIN urbs : urbs[j].dir = dir}
    BY <1>1, <1>2
  <1>5. Number(new, dir) = Number(urbs, dir)
    BY <1>4 DEF Number
  <1>6. ASSUME Load(u) \subseteq Load(urbs[i]), Ordered(urbs, dir)
        PROVE  Ordered(new, dir)
    <2>1. \A j \in DOMAIN urbs : Load(new[j]) \subseteq Load(urbs[j])
      BY <1>1, <1>6
    <2> QED
      BY <1>1, <1>2, <1>6, <2>1 DEF Ordered
  <1> QED
    BY <1>3, <1>5, <1>6 DEF new

-----------------------------------------------------------------------------
(* The actions, seen as steps of the channels *)

OrderStep ==
    /\ RowsOrdered' /\ FillsFirst' /\ OwnIsThere' /\ LossesPaid'
    /\ \A dir \in Dirs : Passes(dir)' /\ ChannelStep(dir)

LEMMA OrderFacts ==
    ASSUME OrderInv
    PROVE  /\ TypeOK /\ inflight \in Seq(Urbs) /\ reapable \in Seq(Urbs)
           /\ inflight \in Seq(Unfinished)
           /\ Missing("in") \in Nat /\ Missing("out") \in Nat /\ Left \in Nat
           /\ given["in"] \in Nat /\ given["out"] \in Nat
           /\ Missing("in") + Left <= given["in"] /\ Missing("in") <= given["in"]
           /\ Missing("out") <= given["out"]
           /\ Passes("in") /\ Passes("out")
  <1>1. TypeOK /\ inflight \in Seq(Urbs) /\ reapable \in Seq(Urbs) /\ inflight \in Seq(Unfinished)
    BY UnfinishedAreUrbs DEF OrderInv, NothingPilesUp, TypeOK
  <1>2. /\ Missing("in") \in Nat /\ Missing("out") \in Nat
        /\ given["in"] \in Nat /\ given["out"] \in Nat
    BY <1>1, DirTypes DEF Dirs
  <1>3. Number(inflight, "in") \in Nat /\ Number(reapable, "in") \in Nat
    BY <1>1, NumberType
  <1>4. ASSUME Waiting, call.dir = "in"
        PROVE  Number(inflight, "in") + Number(reapable, "in") >= 1
    <2>1. call # Idle
      BY <1>4, NotIdle DEF Waiting
    <2>2. \A u \in Urbs : u.addr = call.addr => u.dir = "in"
      BY <1>1, <1>4, <2>1, MineIsOfMyDirection DEF Mine
    <2>3. \/ \E i \in DOMAIN inflight : inflight[i].dir = "in"
          \/ \E i \in DOMAIN reapable : reapable[i].dir = "in"
      BY <1>1, <1>4, <2>2, ListType DEF OrderInv, OwnIsThere
    <2>4. CASE \E i \in DOMAIN inflight : inflight[i].dir = "in"
      <3>1. Number(inflight, "in") >= 1
        BY <1>1, <2>4, NumberType
      <3> QED
        BY <1>3, <3>1
    <2>5. CASE \E i \in DOMAIN reapable : reapable[i].dir = "in"
      <3>1. Number(reapable, "in") >= 1
        BY <1>1, <2>5, NumberType
      <3> QED
        BY <1>3, <3>1
    <2> QED
      BY <2>3, <2>4, <2>5
  <1>5. Left \in Nat
    BY <1>3, <1>4 DEF Left
  <1>6. Missing("in") + Left <= given["in"] /\ Missing("out") <= given["out"]
    BY DEF OrderInv, LossesPaid
  <1> QED
    BY <1>1, <1>2, <1>5, <1>6 DEF OrderInv, Dirs

\* usbfs is left alone.
LEMMA ListsStay ==
    ASSUME OrderInv, UNCHANGED <<inflight, reapable, sent, seen>>
    PROVE  /\ RowsOrdered' /\ FillsFirst'
           /\ \A dir \in Dirs : /\ Coming(dir)' = Coming(dir) /\ Passes(dir)'
                                /\ Missing(dir)' = Missing(dir)
                                /\ given'[dir] = given[dir] => Stays(dir)
                                /\ given'[dir] = given[dir] + 1 => GivesUp(dir)
  <1>1. RowsOrdered' /\ FillsFirst'
    BY DEF OrderInv, RowsOrdered, FillsFirst, Ordered, Held
  <1>2. \A dir \in Dirs : Coming(dir)' = Coming(dir)
    BY DEF Coming
  <1>3. TypeOK /\ \A dir \in Dirs : Passes(dir)
    BY OrderFacts DEF OrderInv
  <1> QED
    BY <1>1, <1>2, <1>3, NothingPasses

LEMMA QuietSteps ==
    ASSUME OrderInv, UNCHANGED <<inflight, reapable, sent, seen, given>>, OwnIsThere',
           Left' = Left
    PROVE  OrderStep
  <1>1. LossesPaid'
    BY ListsStay DEF OrderInv, LossesPaid, Dirs
  <1> QED
    BY <1>1, ListsStay DEF OrderStep, ChannelStep

LEMMA BeginTransferSteps ==
    ASSUME OrderInv, NEW dir \in Dirs, BeginTransfer(dir)
    PROVE  OrderStep
  <1>1. /\ call.at = "idle" /\ call'.at = "submit"
        /\ UNCHANGED <<inflight, reapable, sent, seen, given>>
    BY DEF BeginTransfer, Idle
  <1>2. OwnIsThere' /\ Left' = Left
    BY <1>1 DEF OwnIsThere, Left, Waiting
  <1> QED
    BY <1>1, <1>2, QuietSteps

LEMMA ThrowBeforeSubmitSteps ==
    ASSUME OrderInv, ThrowBeforeSubmit
    PROVE  OrderStep
  <1>1. /\ call.at = "submit" /\ call'.at = "idle"
        /\ UNCHANGED <<inflight, reapable, sent, seen, given>>
    BY DEF ThrowBeforeSubmit, EndCall, Idle
  <1>2. OwnIsThere' /\ Left' = Left
    BY <1>1 DEF OwnIsThere, Left, Waiting
  <1> QED
    BY <1>1, <1>2, QuietSteps

LEMMA ReapTimesOutSteps ==
    ASSUME OrderInv, ReapTimesOut
    PROVE  OrderStep
  <1>1. /\ call.at = "wait" /\ call' = [call EXCEPT !.at = "timedout"] /\ TypeOK /\ call # Idle
        /\ UNCHANGED <<inflight, reapable, sent, seen, given>>
    BY NotIdle, OrderFacts DEF ReapTimesOut
  <1>2. call'.at = "timedout" /\ call'.addr = call.addr /\ call'.dir = call.dir
    BY <1>1, TransferTypes DEF Transfers
  <1>3. OwnIsThere' /\ Left' = Left
    BY <1>1, <1>2 DEF OrderInv, OwnIsThere, Left, Waiting
  <1> QED
    BY <1>1, <1>3, QuietSteps

LEMMA SubmitWriteSteps ==
    ASSUME OrderInv, NEW n \in 0 .. Size, SubmitWrite(n)
    PROVE  OrderStep
  <1> DEFINE data == [i \in 1 .. n |-> sent["out"] + i]
             u == [dir |-> "out", addr |-> call.addr, data |-> data, done |-> 0]
  <1>1. /\ TypeOK /\ call # Idle /\ call.at = "submit" /\ call.dir = "out"
        /\ inflight \in Seq(Urbs) /\ reapable \in Seq(Urbs)
        /\ inflight' = Append(inflight, u) /\ sent' = [sent EXCEPT !["out"] = @ + n]
        /\ sent["out"] + n <= MaxPackets
        /\ call' = [call EXCEPT !.at = "wait", !.len = n]
        /\ UNCHANGED <<reapable, seen, given>>
    BY NotIdle, OrderFacts DEF SubmitWrite
  <1>2. sent["out"] \in Nat /\ sent["in"] \in Nat /\ n \in Nat
    BY <1>1, SizeAssumption, DirTypes DEF Dirs
  <1>3. data \in Seq(Packets) /\ Len(data) = n
    <2>1. \A i \in 1 .. n : sent["out"] + i \in Packets
      BY <1>1, <1>2, BoundsAssumption DEF Packets
    <2> QED
      BY <1>2, <2>1
  <1>4. u \in Urbs
    <2>1. call.addr \in Frames["out"] /\ call.addr \in Addresses
      BY <1>1, TransferTypes
    <2>2. u \in [dir : Dirs, addr : Addresses, data : Seq(Packets), done : Nat]
      BY <1>3, <2>1 DEF Dirs
    <2> QED
      BY <1>3, <2>1, <2>2 DEF Urbs
  <1>5. Load(u) = sent["out"] + 1 .. sent["out"] + n /\ Row(u.data)
    <2>1. DOMAIN data = 1 .. n /\ \A k \in 1 .. n : data[k] = sent["out"] + k
      OBVIOUS
    <2> HIDE DEF data
    <2>2. {k \in DOMAIN u.data : u.dir = "out" => k > u.done} = 1 .. n
      BY <1>2, <2>1
    <2>3. Load(u) = {data[k] : k \in 1 .. n}
      BY <2>2 DEF Load
    <2>4. Load(u) = sent["out"] + 1 .. sent["out"] + n
      <3>1. ASSUME NEW p \in sent["out"] + 1 .. sent["out"] + n
            PROVE  p \in Load(u)
        <4>1. p - sent["out"] \in 1 .. n /\ data[p - sent["out"]] = p
          BY <1>2, <2>1
        <4> QED
          BY <2>3, <4>1
      <3>2. ASSUME NEW p \in Load(u)
            PROVE  p \in sent["out"] + 1 .. sent["out"] + n
        <4>1. PICK k \in 1 .. n : p = data[k]
          BY <2>3
        <4> QED
          BY <1>2, <2>1, <4>1
      <3> QED
        BY <3>1, <3>2
    <2>5. Row(u.data)
      <3> SUFFICES ASSUME NEW k \in 1 .. n PROVE data[k] = data[1] + k - 1
        BY <2>1 DEF Row
      <3>1. 1 \in 1 .. n
        BY <1>2
      <3> QED
        BY <1>2, <2>1, <3>1
    <2> QED
      BY <2>4, <2>5
  <1>6. u.dir = "out" /\ u.addr = call.addr
    OBVIOUS
  <1> HIDE DEF u, data
  <1>7. /\ Held(inflight', "in") = Held(inflight, "in")
        /\ Held(inflight', "out") = Held(inflight, "out") \cup (sent["out"] + 1 .. sent["out"] + n)
        /\ Number(inflight', "in") = Number(inflight, "in")
    <2>1. \A dir : /\ Held(inflight', dir) = Held(inflight, dir) \cup IF u.dir = dir THEN Load(u) ELSE {}
                   /\ Number(inflight', dir) = Number(inflight, dir) + IF u.dir = dir THEN 1 ELSE 0
      BY <1>1, <1>4, AppendHolds
    <2>2. Number(inflight, "in") \in Nat
      BY <1>1, NumberType
    <2>3. Held(inflight', "in") = Held(inflight, "in")
      BY <1>6, <2>1
    <2>4. Held(inflight', "out") = Held(inflight, "out") \cup Load(u)
      BY <1>6, <2>1
    <2>5. Number(inflight', "in") = Number(inflight, "in") + 0
      BY <1>6, <2>1
    <2>6. Number(inflight', "in") = Number(inflight, "in")
      BY <2>2, <2>5
    <2> QED
      BY <1>5, <2>3, <2>4, <2>6
  <1>8. /\ Coming("in")' = Coming("in")
        /\ Coming("out")' = Coming("out") \cup (sent["out"] + 1 .. sent["out"] + n)
    BY <1>1, <1>7 DEF Coming
  <1>9. /\ Passes("out")' /\ Missing("out")' = Missing("out") /\ Sends("out")
    <2>1. sent'["out"] = sent["out"] + n
      BY <1>1 DEF TypeOK, Dirs
    <2> QED
      BY <1>1, <1>2, <1>8, <2>1, OrderFacts, MorePass DEF Dirs
  <1>10. Passes("in")' /\ Missing("in")' = Missing("in") /\ Stays("in")
    <2>1. sent'["in"] = sent["in"] /\ seen'["in"] = seen["in"] /\ given'["in"] = given["in"]
      BY <1>1 DEF TypeOK, Dirs
    <2> QED
      BY <1>1, <1>8, <2>1, OrderFacts, NothingPasses DEF Dirs
  <1>11. /\ \A i \in DOMAIN inflight : i \in DOMAIN inflight' /\ inflight'[i] = inflight[i]
         /\ Len(inflight) + 1 \in DOMAIN inflight' /\ inflight'[Len(inflight) + 1] = u
         /\ \A i \in DOMAIN inflight' : i \in DOMAIN inflight \/ i = Len(inflight) + 1
    BY <1>1, <1>4, AppendHolds
  <1>12. RowsOrdered'
    <2>1. \A p \in Held(inflight, "out"), q \in Load(u) : p < q
      <3>1. Held(inflight, "out") \subseteq 1 .. sent["out"]
        BY OrderFacts DEF Passes, Passing, Coming
      <3> QED
        BY <1>2, <1>5, <3>1
    <2>2. Ordered(inflight', "out")
      BY <1>1, <1>4, <2>1, AppendHolds DEF OrderInv, RowsOrdered
    <2>3. \A i \in DOMAIN inflight' : Row(inflight'[i].data)
      BY <1>5, <1>11 DEF OrderInv, RowsOrdered
    <2> QED
      BY <1>1, <1>7, <2>2, <2>3 DEF OrderInv, RowsOrdered
  <1>13. FillsFirst'
    <2>1. sent'["in"] = sent["in"]
      BY <1>1 DEF TypeOK, Dirs
    <2> SUFFICES ASSUME NEW i \in DOMAIN inflight', inflight'[i].dir = "in", inflight'[i].data # <<>>
                 PROVE  /\ \A j \in DOMAIN inflight' : j < i => inflight'[j].dir # "in"
                        /\ inflight'[i].data[Len(inflight'[i].data)] = sent'["in"]
      BY DEF FillsFirst
    <2>2. i \in DOMAIN inflight /\ inflight'[i] = inflight[i]
      BY <1>6, <1>11
    <2> QED
      BY <1>6, <1>11, <2>1, <2>2 DEF OrderInv, FillsFirst
  <1>14. call'.at = "wait" /\ call'.addr = call.addr /\ call'.dir = "out"
    BY <1>1, TransferTypes DEF Transfers
  <1>15. OwnIsThere'
    BY <1>6, <1>11, <1>14 DEF OwnIsThere
  <1>16. LossesPaid'
    <2>1. Left' = Left
      BY <1>1, <1>7, <1>14 DEF Left, Waiting
    <2> QED
      BY <1>1, <1>9, <1>10, <2>1, OrderFacts DEF LossesPaid
  <1> QED
    BY <1>9, <1>10, <1>12, <1>13, <1>15, <1>16 DEF OrderStep, ChannelStep, Dirs

LEMMA SubmitReadSteps ==
    ASSUME OrderInv, SubmitRead
    PROVE  OrderStep
  <1> DEFINE u == [dir |-> "in", addr |-> call.addr, data |-> <<>>, done |-> 0]
  <1>1. /\ TypeOK /\ call # Idle /\ call.at = "submit" /\ call.dir = "in"
        /\ inflight \in Seq(Urbs) /\ reapable \in Seq(Urbs)
        /\ inflight' = Append(inflight, u) /\ call' = [call EXCEPT !.at = "wait"]
        /\ UNCHANGED <<reapable, sent, seen, given>>
    BY NotIdle, OrderFacts DEF SubmitRead
  <1>2. u \in Urbs
    <2>1. call.addr \in Frames["in"] /\ call.addr \in Addresses
      BY <1>1, TransferTypes
    <2>2. u \in [dir : Dirs, addr : Addresses, data : Seq(Packets), done : Nat]
      BY <2>1, EmptySeq DEF Dirs
    <2>3. Len(u.data) <= Size
      BY EmptySeq, SizeAssumption
    <2> QED
      BY <2>1, <2>2, <2>3 DEF Urbs
  <1>3. Load(u) = {} /\ Row(u.data) /\ u.dir = "in" /\ u.addr = call.addr /\ u.data = <<>>
    BY DEF Load, Row
  <1> HIDE DEF u
  <1>4. /\ Held(inflight', "in") = Held(inflight, "in")
        /\ Held(inflight', "out") = Held(inflight, "out")
        /\ Number(inflight', "in") = Number(inflight, "in") + 1
        /\ Ordered(inflight', "out")
    <2>1. \A dir : /\ Held(inflight', dir) = Held(inflight, dir) \cup IF u.dir = dir THEN Load(u) ELSE {}
                   /\ Number(inflight', dir) = Number(inflight, dir) + IF u.dir = dir THEN 1 ELSE 0
      BY <1>1, <1>2, AppendHolds
    <2>2. Ordered(inflight', "out")
      BY <1>1, <1>2, <1>3, AppendHolds DEF OrderInv, RowsOrdered
    <2> QED
      BY <1>3, <2>1, <2>2
  <1>5. \A dir \in Dirs : Coming(dir)' = Coming(dir)
    BY <1>1, <1>4 DEF Coming, Dirs
  <1>6. \A dir \in Dirs : Passes(dir)' /\ Missing(dir)' = Missing(dir) /\ Stays(dir)
    <2>1. \A dir \in Dirs : Passes(dir)
      BY DEF OrderInv
    <2> QED
      BY <1>1, <1>5, <2>1, NothingPasses
  <1>7. /\ \A i \in DOMAIN inflight : i \in DOMAIN inflight' /\ inflight'[i] = inflight[i]
        /\ Len(inflight) + 1 \in DOMAIN inflight' /\ inflight'[Len(inflight) + 1] = u
        /\ \A i \in DOMAIN inflight' : i \in DOMAIN inflight \/ i = Len(inflight) + 1
    BY <1>1, <1>2, AppendHolds
  <1>8. RowsOrdered'
    <2>1. \A i \in DOMAIN inflight' : Row(inflight'[i].data)
      BY <1>3, <1>7 DEF OrderInv, RowsOrdered
    <2> QED
      BY <1>1, <1>4, <2>1 DEF OrderInv, RowsOrdered
  <1>9. FillsFirst'
    <2> SUFFICES ASSUME NEW i \in DOMAIN inflight', inflight'[i].dir = "in", inflight'[i].data # <<>>
                 PROVE  /\ \A j \in DOMAIN inflight' : j < i => inflight'[j].dir # "in"
                        /\ inflight'[i].data[Len(inflight'[i].data)] = sent'["in"]
      BY DEF FillsFirst
    <2>1. i \in DOMAIN inflight /\ inflight'[i] = inflight[i] /\ i <= Len(inflight)
      BY <1>1, <1>3, <1>7, ListType
    <2>2. \A j \in DOMAIN inflight' : j < i => j \in DOMAIN inflight
      BY <1>1, <1>7, <2>1, ListType
    <2> QED
      BY <1>1, <1>7, <2>1, <2>2 DEF OrderInv, FillsFirst
  <1>10. call'.at = "wait" /\ call'.addr = call.addr /\ call'.dir = "in"
    BY <1>1, TransferTypes DEF Transfers
  <1>11. OwnIsThere'
    BY <1>3, <1>7, <1>10 DEF OwnIsThere
  <1>12. LossesPaid'
    <2>1. Left' = Left
      <3>1. Number(inflight, "in") \in Nat /\ Number(reapable, "in") \in Nat
        BY <1>1, NumberType
      <3> QED
        BY <1>1, <1>4, <1>10, <3>1 DEF Left, Waiting
    <2> QED
      BY <1>1, <1>6, <2>1, OrderFacts DEF LossesPaid, Dirs
  <1> QED
    BY <1>6, <1>8, <1>9, <1>11, <1>12 DEF OrderStep, ChannelStep

\* What is left after the first completion was reaped.
LEMMA ReapHolds ==
    ASSUME OrderInv, reapable # <<>>, reapable' = Tail(reapable), UNCHANGED <<inflight, sent>>
    PROVE  LET u == Head(reapable)
           IN  /\ u \in Urbs /\ Row(u.data) /\ u.dir \in Dirs
               /\ RowsOrdered' /\ FillsFirst'
               /\ Coming("out")' = Coming("out")
               /\ u.dir = "in" => /\ Load(u) \subseteq Coming("in")
                                  /\ Coming("in")' = Coming("in") \ Load(u)
                                  /\ \A p \in Load(u), q \in Coming("in")' : p < q
                                  /\ Number(reapable', "in") = Number(reapable, "in") - 1
               /\ u.dir = "out" => /\ Coming("in")' = Coming("in")
                                   /\ Number(reapable', "in") = Number(reapable, "in")
               /\ Number(inflight', "in") = Number(inflight, "in")
  <1> DEFINE u == Head(reapable)
  <1>1. /\ inflight \in Seq(Urbs) /\ reapable \in Seq(Urbs)
        /\ u = reapable[1] /\ 1 \in DOMAIN reapable /\ u \in Urbs /\ reapable' \in Seq(Urbs)
        /\ Held(reapable', "in") = Others(reapable, 1, "in")
        /\ Held(reapable, "in") = Others(reapable, 1, "in") \cup IF u.dir = "in" THEN Load(u) ELSE {}
        /\ u.dir = "in" => Others(reapable, 1, "in") \cap Load(u) = {}
        /\ Number(reapable', "in") = Number(reapable, "in") - IF u.dir = "in" THEN 1 ELSE 0
        /\ Ordered(reapable', "in")
    BY OrderFacts, TailHolds, HeldSplits DEF OrderInv, RowsOrdered
  <1>2. Row(u.data) /\ u.dir \in Dirs
    BY <1>1, UrbType DEF OrderInv, RowsOrdered
  <1>3. \A k \in DOMAIN reapable' : \E i \in DOMAIN reapable : reapable'[k] = reapable[i]
    BY <1>1, TailHolds
  <1>4. RowsOrdered'
    <2>1. \A i \in DOMAIN reapable' : Row(reapable'[i].data)
      BY <1>3 DEF OrderInv, RowsOrdered
    <2>2. \A p \in Held(reapable', "in"), q \in Held(inflight, "in") : p < q
      BY <1>1 DEF OrderInv, RowsOrdered
    <2> QED
      BY <1>1, <2>1, <2>2 DEF OrderInv, RowsOrdered
  <1>5. FillsFirst'
    BY DEF OrderInv, FillsFirst
  <1>6. Coming("out")' = Coming("out")
    BY DEF Coming
  <1>7. Coming("in") = Held(inflight, "in") \cup Held(reapable, "in")
        /\ Coming("in")' = Held(inflight, "in") \cup Held(reapable', "in")
    BY DEF Coming
  <1>8. CASE u.dir = "in"
    <2>1. \A p \in Load(u), q \in Held(inflight, "in") : p < q
      BY <1>1, <1>8 DEF OrderInv, RowsOrdered
    <2>2. \A p \in Load(u), q \in Others(reapable, 1, "in") : p < q
      <3> SUFFICES ASSUME NEW j \in DOMAIN reapable, j # 1, reapable[j].dir = "in",
                          NEW p \in Load(u), NEW q \in Load(reapable[j])
                   PROVE  p < q
        BY DEF Others
      <3>1. 1 < j
        BY <1>1, ListType
      <3> QED
        BY <1>1, <1>8, <3>1 DEF OrderInv, RowsOrdered, Ordered
    <2>3. Load(u) \subseteq Nat
      <3>1. Load(u) \subseteq Packets
        BY <1>1, <1>2, LoadIsRow
      <3> QED
        BY <3>1, BoundsAssumption DEF Packets
    <2>4. Load(u) \cap Held(inflight, "in") = {}
      <3>1. \A p \in Load(u) : ~(p < p)
        BY <2>3
      <3> QED
        BY <2>1, <3>1
    <2>5. /\ Load(u) \subseteq Coming("in")
          /\ Coming("in")' = Coming("in") \ Load(u)
      BY <1>1, <1>7, <1>8, <2>4
    <2>6. \A p \in Load(u), q \in Coming("in")' : p < q
      BY <1>1, <1>7, <2>1, <2>2
    <2>7. Number(reapable', "in") = Number(reapable, "in") - 1
      BY <1>1, <1>8
    <2> HIDE DEF u
    <2> QED
      BY <1>1, <1>2, <1>4, <1>5, <1>6, <1>8, <2>5, <2>6, <2>7 DEF u
  <1>9. CASE u.dir = "out"
    <2>1. u.dir # "in"
      BY <1>9
    <2>2. Number(reapable, "in") \in Nat
      BY <1>1, NumberType
    <2>4. Held(reapable', "in") = Held(reapable, "in")
      BY <1>1, <2>1
    <2>5. Number(reapable', "in") = Number(reapable, "in") - 0
      BY <1>1, <2>1
    <2>6. Coming("in")' = Coming("in")
      BY <1>7, <2>4
    <2>7. Number(reapable', "in") = Number(reapable, "in")
      BY <2>2, <2>5
    <2>3. Coming("in")' = Coming("in") /\ Number(reapable', "in") = Number(reapable, "in")
      BY <2>6, <2>7
    <2> HIDE DEF u
    <2> QED
      BY <1>1, <1>2, <1>4, <1>5, <1>6, <2>1, <2>3 DEF u
  <1> HIDE DEF u
  <1> QED
    BY <1>2, <1>8, <1>9 DEF Dirs

LEMMA ReapUnknownSteps ==
    ASSUME OrderInv, ReapUnknown
    PROVE  OrderStep
  <1> DEFINE u == Head(reapable)
  <1>1. /\ TypeOK /\ call.at = "wait" /\ reapable # <<>> /\ ~Mine(u) /\ reapable' = Tail(reapable)
        /\ reapable \in Seq(Urbs) /\ inflight \in Seq(Urbs)
        /\ UNCHANGED <<call, inflight, sent, seen, given>>
    BY OrderFacts DEF ReapUnknown
  <1>2. /\ u \in Urbs /\ Row(u.data) /\ u.dir \in Dirs
        /\ RowsOrdered' /\ FillsFirst' /\ Coming("out")' = Coming("out")
        /\ u.dir = "in" => /\ Load(u) \subseteq Coming("in")
                           /\ Coming("in")' = Coming("in") \ Load(u)
                           /\ Number(reapable', "in") = Number(reapable, "in") - 1
        /\ u.dir = "out" => /\ Coming("in")' = Coming("in")
                            /\ Number(reapable', "in") = Number(reapable, "in")
        /\ Number(inflight', "in") = Number(inflight, "in")
    BY <1>1, ReapHolds
  <1> HIDE DEF u
  <1>3. Passes("out")' /\ Missing("out")' = Missing("out") /\ Stays("out")
    BY <1>1, <1>2, OrderFacts, NothingPasses DEF Dirs
  <1>4. OwnIsThere'
    <2>1. CASE \E i \in DOMAIN inflight : inflight[i].addr = call.addr
      BY <1>1, <2>1 DEF OwnIsThere
    <2>2. CASE \E i \in DOMAIN reapable : reapable[i].addr = call.addr
      <3>1. PICK i \in DOMAIN reapable : reapable[i].addr = call.addr
        BY <2>2
      <3>2. u = reapable[1]
        BY <1>1, TailHolds DEF u
      <3>3. i # 1
        BY <1>1, <3>1, <3>2 DEF Mine
      <3>4. \E k \in DOMAIN reapable' : reapable'[k] = reapable[i]
        <4>1. \A j \in DOMAIN reapable :
                j # 1 => \E k \in DOMAIN Tail(reapable) : Tail(reapable)[k] = reapable[j]
          BY <1>1, TailHolds
        <4> QED
          BY <1>1, <3>3, <4>1
      <3> QED
        BY <1>1, <3>1, <3>4 DEF OwnIsThere
    <2> QED
      BY <1>1, <2>1, <2>2 DEF OrderInv, OwnIsThere, Waiting
  <1>5. Number(inflight, "in") \in Nat /\ Number(reapable, "in") \in Nat
    BY <1>1, NumberType
  <1>6. CASE u.dir = "in"
    <2>1. PICK a \in Nat, b \in Nat : Load(u) = a .. b
      BY <1>2, LoadIsRow
    <2>2. /\ Passes("in")' /\ Missing("in")' <= Missing("in") + 1 /\ Missing("in")' \in Nat
          /\ Stays("in")
      BY <1>1, <1>2, <1>6, <2>1, OrderFacts, SomeAreLost DEF Dirs
    <2>3. Left' = Left - 1
      <3> DEFINE own == IF Waiting /\ call.dir = "in" THEN 1 ELSE 0
      <3>1. own \in Nat /\ own' = own
        BY <1>1 DEF Waiting
      <3>2. Left = (Number(inflight, "in") + Number(reapable, "in")) - own
            /\ Left' = (Number(inflight', "in") + Number(reapable', "in")) - own
        BY <1>1, <3>1 DEF Left, Waiting
      <3> HIDE DEF own
      <3> QED
        BY <1>2, <1>5, <1>6, <3>1, <3>2
    <2>4. LossesPaid'
      BY <1>1, <1>3, <2>2, <2>3, OrderFacts DEF LossesPaid
    <2> QED
      BY <1>2, <1>3, <1>4, <2>2, <2>4 DEF OrderStep, ChannelStep, Dirs
  <1>7. CASE u.dir = "out"
    <2>1. Passes("in")' /\ Missing("in")' = Missing("in") /\ Stays("in")
      BY <1>1, <1>2, <1>7, OrderFacts, NothingPasses DEF Dirs
    <2>2. Left' = Left
      BY <1>1, <1>2, <1>7 DEF Left, Waiting
    <2>3. LossesPaid'
      BY <1>1, <1>3, <2>1, <2>2, OrderFacts DEF LossesPaid
    <2> QED
      BY <1>2, <1>3, <1>4, <2>1, <2>3 DEF OrderStep, ChannelStep, Dirs
  <1> QED
    BY <1>2, <1>6, <1>7 DEF Dirs

LEMMA ReapReadSteps ==
    ASSUME OrderInv, ReapRead
    PROVE  OrderStep
  <1> DEFINE u == Head(reapable)
  <1>1. /\ TypeOK /\ call # Idle /\ call.at = "wait" /\ call.dir = "in" /\ reapable # <<>>
        /\ Mine(u) /\ reapable' = Tail(reapable)
        /\ reapable \in Seq(Urbs) /\ inflight \in Seq(Urbs)
        /\ seen' = [seen EXCEPT !["in"] = @ \o Received(u)]
        /\ call' = [call EXCEPT !.at = "submit"] \/ call' = Idle
        /\ UNCHANGED <<inflight, sent, given>>
    BY NotIdle, OrderFacts DEF ReapRead, EndCall
  <1>2. u \in Urbs /\ u.dir = "in"
    BY <1>1, HeadTailProperties, MineIsOfMyDirection
  <1>3. /\ Row(u.data) /\ RowsOrdered' /\ FillsFirst' /\ Coming("out")' = Coming("out")
        /\ Load(u) \subseteq Coming("in") /\ Coming("in")' = Coming("in") \ Load(u)
        /\ \A p \in Load(u), q \in Coming("in")' : p < q
        /\ Number(reapable', "in") = Number(reapable, "in") - 1
        /\ Number(inflight', "in") = Number(inflight, "in")
    BY <1>1, <1>2, ReapHolds
  <1> HIDE DEF u
  <1>4. Received(u) = u.data
    <2>1. /\ u.data \in Seq(Packets) /\ Len(u.data) \in 0 .. Size /\ Len(u.data) \in Nat
          /\ DOMAIN u.data = 1 .. Len(u.data)
      BY <1>2, UrbType, SizeAssumption
    <2>2. \A k \in 1 .. Len(u.data) : Copied(u)[k] = u.data[k] /\ u.data[k] \in Packets
      BY <1>2, <2>1, SizeAssumption, UrbType DEF Copied
    <2>3. /\ Received(u) \in Seq(Packets)
          /\ Len(Received(u)) = IF 1 <= Len(u.data) THEN Len(u.data) - 1 + 1 ELSE 0
          /\ \A k \in 1 .. Len(u.data) - 1 + 1 : Received(u)[k] = Copied(u)[1 + k - 1]
      BY <2>1, <2>2, SubSeqProperties DEF Received
    <2>4. Len(Received(u)) = Len(u.data)
      BY <2>1, <2>3
    <2>5. \A k \in 1 .. Len(u.data) : Received(u)[k] = u.data[k]
      <3> TAKE k \in 1 .. Len(u.data)
      <3>1. k \in 1 .. Len(u.data) - 1 + 1 /\ 1 + k - 1 = k
        BY <2>1
      <3> QED
        BY <2>2, <2>3, <3>1
    <2> QED
      BY <2>1, <2>3, <2>4, <2>5, SeqEqual
  <1>5. call'.at \notin {"wait", "timedout"}
    BY <1>1, TransferTypes, IdleAt DEF Transfers
  <1>6. OwnIsThere'
    BY <1>5 DEF OwnIsThere, Waiting
  <1>7. Left' = Left
    <2>1. Number(inflight, "in") \in Nat /\ Number(reapable, "in") \in Nat
      BY <1>1, NumberType
    <2> QED
      BY <1>1, <1>3, <1>5, <2>1 DEF Left, Waiting
  <1>8. /\ seen'["in"] = seen["in"] \o u.data /\ seen'["out"] = seen["out"]
        /\ sent'["in"] = sent["in"] /\ sent'["out"] = sent["out"] /\ given' = given
    BY <1>1, <1>4 DEF TypeOK, Dirs
  <1>9. Passes("out")' /\ Missing("out")' = Missing("out") /\ Stays("out")
    BY <1>1, <1>3, <1>8, OrderFacts, NothingPasses DEF Dirs
  <1>10. Passes("in")' /\ Missing("in")' = Missing("in") /\ ChannelStep("in")
    <2>1. CASE u.data = <<>>
      <3>1. seen'["in"] = seen["in"]
        BY <1>1, <1>8, <2>1, DirTypes, ConcatEmptySeq DEF Dirs
      <3>2. Coming("in")' = Coming("in")
        BY <1>2, <1>3, <2>1, LoadIsRow
      <3> QED
        BY <1>1, <1>8, <3>1, <3>2, OrderFacts, NothingPasses DEF Dirs, ChannelStep
    <2>2. CASE u.data # <<>>
      <3> DEFINE a == u.data[1]
                 b == u.data[Len(u.data)]
      <3>1. a \in Packets /\ b \in Packets /\ a <= b /\ Load(u) = a .. b /\ u.data = Run(a, b)
        BY <1>2, <1>3, <2>2, LoadIsRow
      <3> HIDE DEF a, b
      <3>2. a \in Nat /\ b \in Nat /\ b \in a .. b
        BY <3>1, BoundsAssumption DEF Packets
      <3>3. \A q \in Coming("in")' : b < q
        BY <1>3, <3>1, <3>2
      <3>4. seen'["in"] = seen["in"] \o Run(a, b)
        BY <1>8, <3>1
      <3>5. Passes("in")' /\ Missing("in")' = Missing("in") /\ Delivers("in")
        BY <1>1, <1>3, <1>8, <3>1, <3>2, <3>3, <3>4, OrderFacts, SomeComeOut DEF Dirs
      <3> QED
        BY <3>5 DEF ChannelStep
    <2> QED
      BY <2>1, <2>2
  <1>11. LossesPaid'
    BY <1>1, <1>7, <1>9, <1>10, OrderFacts DEF LossesPaid
  <1> QED
    BY <1>3, <1>6, <1>9, <1>10, <1>11 DEF OrderStep, ChannelStep, Dirs

LEMMA ReapCancelledSteps ==
    ASSUME OrderInv, ReapCancelled
    PROVE  OrderStep
  <1> DEFINE u == Head(reapable)
  <1>1. /\ TypeOK /\ call # Idle /\ call.at = "wait" /\ call.dir = "in" /\ reapable # <<>>
        /\ Mine(u) /\ reapable' = Tail(reapable)
        /\ reapable \in Seq(Urbs) /\ inflight \in Seq(Urbs)
        /\ call' = Idle /\ given' = [given EXCEPT !["in"] = @ + 1]
        /\ UNCHANGED <<inflight, sent, seen>>
    BY NotIdle, OrderFacts DEF ReapCancelled, EndCall
  <1>2. u \in Urbs /\ u.dir = "in"
    BY <1>1, HeadTailProperties, MineIsOfMyDirection
  <1>3. /\ Row(u.data) /\ RowsOrdered' /\ FillsFirst' /\ Coming("out")' = Coming("out")
        /\ Load(u) \subseteq Coming("in") /\ Coming("in")' = Coming("in") \ Load(u)
        /\ Number(reapable', "in") = Number(reapable, "in") - 1
        /\ Number(inflight', "in") = Number(inflight, "in")
    BY <1>1, <1>2, ReapHolds
  <1> HIDE DEF u
  <1>4. given'["in"] = given["in"] + 1 /\ given'["out"] = given["out"]
    BY <1>1 DEF TypeOK, Dirs
  <1>5. Passes("out")' /\ Missing("out")' = Missing("out") /\ Stays("out")
    BY <1>1, <1>3, <1>4, OrderFacts, NothingPasses DEF Dirs
  <1>6. PICK a \in Nat, b \in Nat : Load(u) = a .. b
    BY <1>2, <1>3, LoadIsRow
  <1>7. /\ Passes("in")' /\ Missing("in")' <= Missing("in") + 1 /\ Missing("in")' \in Nat
        /\ GivesUp("in")
    BY <1>1, <1>3, <1>4, <1>6, OrderFacts, SomeAreLost DEF Dirs
  <1>8. OwnIsThere'
    BY <1>1, IdleAt DEF OwnIsThere, Waiting
  <1>9. Left' = Left
    <2>1. Number(inflight, "in") \in Nat /\ Number(reapable, "in") \in Nat
      BY <1>1, NumberType
    <2> QED
      BY <1>1, <1>3, <2>1, IdleAt DEF Left, Waiting
  <1>10. LossesPaid'
    BY <1>4, <1>5, <1>7, <1>9, OrderFacts DEF LossesPaid
  <1> QED
    BY <1>3, <1>5, <1>7, <1>8, <1>10 DEF OrderStep, ChannelStep, Dirs

LEMMA ReapWriteSteps ==
    ASSUME OrderInv, ReapWrite
    PROVE  OrderStep
  <1> DEFINE u == Head(reapable)
  <1>1. /\ TypeOK /\ call # Idle /\ call.at = "wait" /\ call.dir = "out" /\ reapable # <<>>
        /\ Mine(u) /\ reapable' = Tail(reapable)
        /\ reapable \in Seq(Urbs) /\ inflight \in Seq(Urbs)
        /\ call' = [call EXCEPT !.at = "submit"] \/ call' = Idle
        /\ UNCHANGED <<inflight, sent, seen, given>>
    BY NotIdle, OrderFacts DEF ReapWrite, EndCall
  <1>2. u \in Urbs /\ u.dir = "out"
    BY <1>1, HeadTailProperties, MineIsOfMyDirection
  <1>3. /\ RowsOrdered' /\ FillsFirst' /\ Coming("out")' = Coming("out")
        /\ Coming("in")' = Coming("in")
        /\ Number(reapable', "in") = Number(reapable, "in")
        /\ Number(inflight', "in") = Number(inflight, "in")
    BY <1>1, <1>2, ReapHolds
  <1>4. \A dir \in Dirs : Passes(dir)' /\ Missing(dir)' = Missing(dir) /\ Stays(dir)
    <2>1. \A dir \in Dirs : Passes(dir) /\ Coming(dir)' = Coming(dir)
      BY <1>3 DEF OrderInv, Dirs
    <2> QED
      BY <1>1, <2>1, NothingPasses
  <1>5. call'.at \notin {"wait", "timedout"}
    BY <1>1, TransferTypes, IdleAt DEF Transfers
  <1>6. OwnIsThere' /\ Left' = Left
    BY <1>1, <1>3, <1>5 DEF OwnIsThere, Left, Waiting
  <1>7. LossesPaid'
    BY <1>1, <1>4, <1>6, OrderFacts DEF LossesPaid, Dirs
  <1> QED
    BY <1>3, <1>4, <1>6, <1>7 DEF OrderStep, ChannelStep

\* What usbfs does with one of its URBs leaves the others where they are.
LEMMA ProgressHolds ==
    ASSUME OrderInv, NEW i \in DOMAIN inflight, NEW u \in Urbs, NEW completed \in BOOLEAN,
           u.dir = inflight[i].dir, u.addr = inflight[i].addr, Row(u.data),
           Progress(i, u, completed)
    PROVE  /\ \A k \in DOMAIN inflight' : Row(inflight'[k].data)
           /\ \A k \in DOMAIN reapable' : Row(reapable'[k].data)
           /\ UNCHANGED call => OwnIsThere' /\ Left' = Left
           /\ Number(inflight', "in") + Number(reapable', "in")
                = Number(inflight, "in") + Number(reapable, "in")
           /\ u.dir = "out" =>
                /\ Held(inflight', "in") = Held(inflight, "in")
                /\ Held(reapable', "in") = Held(reapable, "in")
                /\ Held(inflight', "out")
                     = Others(inflight, i, "out") \cup IF completed THEN {} ELSE Load(u)
                /\ Load(u) \subseteq Load(inflight[i]) => RowsOrdered'
           /\ u.dir = "in" =>
                /\ Held(inflight', "out") = Held(inflight, "out")
                /\ Held(inflight', "in")
                     = Others(inflight, i, "in") \cup IF completed THEN {} ELSE Load(u)
                /\ Held(reapable', "in")
                     = Held(reapable, "in") \cup IF completed THEN Load(u) ELSE {}
                /\ (\A p \in Held(reapable, "in"), q \in Load(u) : p < q)
                   /\ (Load(u) # {} => Others(inflight, i, "in") = {}) => RowsOrdered'
  <1>1. /\ inflight \in Seq(Urbs) /\ reapable \in Seq(Urbs)
        /\ Number(inflight, "in") \in Nat /\ Number(reapable, "in") \in Nat
    BY OrderFacts, NumberType
  <1>2. /\ \A k \in DOMAIN inflight : Row(inflight[k].data)
        /\ \A k \in DOMAIN reapable : Row(reapable[k].data)
        /\ Ordered(inflight, "out") /\ Ordered(reapable, "in")
        /\ \A p \in Held(reapable, "in"), q \in Held(inflight, "in") : p < q
    BY DEF OrderInv, RowsOrdered
  <1>3. Others(inflight, i, "in") \subseteq Held(inflight, "in")
    BY <1>1, HeldSplits
  <1>4. \A dir : Held(inflight, dir) = Others(inflight, i, dir)
                                        \cup IF u.dir = dir THEN Load(inflight[i]) ELSE {}
    BY <1>1, HeldSplits
  <1>5. u.dir # "in" => Others(inflight, i, "in") = Held(inflight, "in")
    BY <1>4
  <1>6. u.dir # "out" => Others(inflight, i, "out") = Held(inflight, "out")
    BY <1>4
  <1>7. CASE completed
    <2>1. inflight' = RemoveAt(inflight, i) /\ reapable' = Append(reapable, u)
      BY <1>7 DEF Progress
    <2>2. \A dir : /\ Held(inflight', dir) = Others(inflight, i, dir)
                   /\ Number(inflight', dir) = Number(inflight, dir) - IF u.dir = dir THEN 1 ELSE 0
                   /\ Ordered(inflight, dir) => Ordered(inflight', dir)
      BY <1>1, <2>1, RemoveHolds
    <2>3. \A dir : /\ Held(reapable', dir) = Held(reapable, dir) \cup IF u.dir = dir THEN Load(u) ELSE {}
                   /\ Number(reapable', dir) = Number(reapable, dir) + IF u.dir = dir THEN 1 ELSE 0
                   /\ Ordered(reapable, dir)
                      /\ (u.dir = dir => \A p \in Held(reapable, dir), q \in Load(u) : p < q)
                        => Ordered(reapable', dir)
      BY <1>1, <2>1, AppendHolds
    <2>4. /\ \A k \in DOMAIN reapable : k \in DOMAIN reapable' /\ reapable'[k] = reapable[k]
          /\ Len(reapable) + 1 \in DOMAIN reapable' /\ reapable'[Len(reapable) + 1] = u
          /\ \A k \in DOMAIN reapable' : k \in DOMAIN reapable \/ k = Len(reapable) + 1
      BY <1>1, <2>1, AppendHolds
    <2>5. /\ \A k \in DOMAIN inflight' : \E j \in DOMAIN inflight : inflight'[k] = inflight[j]
          /\ \A j \in DOMAIN inflight : j # i => \E k \in DOMAIN inflight' : inflight'[k] = inflight[j]
      BY <1>1, <2>1, RemoveKeeps
    <2>6. /\ \A k \in DOMAIN inflight' : Row(inflight'[k].data)
          /\ \A k \in DOMAIN reapable' : Row(reapable'[k].data)
      BY <1>2, <2>4, <2>5
    <2>7. ASSUME UNCHANGED call PROVE OwnIsThere'
      <3> SUFFICES ASSUME Waiting
                   PROVE  \/ \E k \in DOMAIN inflight' : inflight'[k].addr = call.addr
                          \/ \E k \in DOMAIN reapable' : reapable'[k].addr = call.addr
        BY <2>7 DEF OwnIsThere, Waiting
      <3>1. CASE \E j \in DOMAIN inflight : j # i /\ inflight[j].addr = call.addr
        BY <2>5, <3>1
      <3>2. CASE inflight[i].addr = call.addr
        BY <2>4, <3>2
      <3>3. CASE \E j \in DOMAIN reapable : reapable[j].addr = call.addr
        BY <2>4, <3>3
      <3> QED
        BY <3>1, <3>2, <3>3 DEF OrderInv, OwnIsThere
    <2>8. Number(inflight', "in") + Number(reapable', "in")
            = Number(inflight, "in") + Number(reapable, "in")
      <3> DEFINE one == IF u.dir = "in" THEN 1 ELSE 0
      <3>1. one \in Nat
        OBVIOUS
      <3>2. /\ Number(inflight', "in") = Number(inflight, "in") - one
            /\ Number(reapable', "in") = Number(reapable, "in") + one
        BY <2>2, <2>3
      <3> HIDE DEF one
      <3> QED
        BY <1>1, <3>1, <3>2
    <2>9. ASSUME UNCHANGED call PROVE Left' = Left
      <3> DEFINE own == IF Waiting /\ call.dir = "in" THEN 1 ELSE 0
      <3>1. own \in Nat
        OBVIOUS
      <3>2. /\ Left = (Number(inflight, "in") + Number(reapable, "in")) - own
            /\ Left' = (Number(inflight', "in") + Number(reapable', "in")) - own
        BY <2>9 DEF Left, Waiting
      <3> HIDE DEF own
      <3> QED
        BY <2>8, <3>1, <3>2
    <2>10. ASSUME u.dir = "out"
          PROVE  /\ Held(inflight', "in") = Held(inflight, "in")
                 /\ Held(reapable', "in") = Held(reapable, "in")
                 /\ Held(inflight', "out") = Others(inflight, i, "out")
                 /\ RowsOrdered'
      <3>1. Held(inflight', "in") = Held(inflight, "in") /\ Held(inflight', "out") = Others(inflight, i, "out")
        BY <1>5, <2>2, <2>10
      <3>2. Held(reapable', "in") = Held(reapable, "in") /\ Ordered(reapable', "in")
        BY <1>2, <2>3, <2>10
      <3>3. Ordered(inflight', "out")
        BY <1>2, <2>2
      <3> QED
        BY <1>2, <2>6, <3>1, <3>2, <3>3 DEF RowsOrdered
    <2>11. ASSUME u.dir = "in"
           PROVE  /\ Held(inflight', "out") = Held(inflight, "out")
                  /\ Held(inflight', "in") = Others(inflight, i, "in")
                  /\ Held(reapable', "in") = Held(reapable, "in") \cup Load(u)
                  /\ (\A p \in Held(reapable, "in"), q \in Load(u) : p < q)
                     /\ (Load(u) # {} => Others(inflight, i, "in") = {}) => RowsOrdered'
      <3>1. Held(inflight', "out") = Held(inflight, "out") /\ Held(inflight', "in") = Others(inflight, i, "in")
        BY <1>6, <2>2, <2>11
      <3>2. Held(reapable', "in") = Held(reapable, "in") \cup Load(u)
        BY <2>3, <2>11
      <3>3. ASSUME \A p \in Held(reapable, "in"), q \in Load(u) : p < q,
                   Load(u) # {} => Others(inflight, i, "in") = {}
            PROVE  RowsOrdered'
        <4>1. Ordered(reapable', "in") /\ Ordered(inflight', "out")
          BY <1>2, <2>2, <2>3, <3>3
        <4>2. \A p \in Held(reapable', "in"), q \in Held(inflight', "in") : p < q
          BY <1>2, <1>3, <3>1, <3>2, <3>3
        <4> QED
          BY <2>6, <4>1, <4>2 DEF RowsOrdered
      <3> QED
        BY <3>1, <3>2, <3>3
    <2> QED
      BY <1>7, <2>6, <2>7, <2>8, <2>10, <2>11, <2>9
  <1>8. CASE ~completed
    <2>1. inflight' = [inflight EXCEPT ![i] = u] /\ reapable' = reapable
      BY <1>8 DEF Progress
    <2>2. \A dir : /\ Held(inflight', dir) = Others(inflight, i, dir) \cup IF u.dir = dir THEN Load(u) ELSE {}
                   /\ Number(inflight', dir) = Number(inflight, dir)
                   /\ Ordered(inflight, dir) /\ Load(u) \subseteq Load(inflight[i]) => Ordered(inflight', dir)
      <3> DEFINE new == [inflight EXCEPT ![i] = u]
      <3>1. \A dir : /\ Held(new, dir) = Others(inflight, i, dir) \cup IF u.dir = dir THEN Load(u) ELSE {}
                     /\ Number(new, dir) = Number(inflight, dir)
                     /\ Ordered(inflight, dir) /\ Load(u) \subseteq Load(inflight[i]) => Ordered(new, dir)
        BY <1>1, ReplaceHolds
      <3> HIDE DEF new
      <3> QED
        BY <2>1, <3>1 DEF new
    <2>3. DOMAIN inflight' = DOMAIN inflight /\ inflight'[i] = u
          /\ \A k \in DOMAIN inflight : k # i => inflight'[k] = inflight[k]
      BY <2>1
    <2>4. /\ \A k \in DOMAIN inflight' : Row(inflight'[k].data)
          /\ \A k \in DOMAIN reapable' : Row(reapable'[k].data)
      BY <1>2, <2>1, <2>3
    <2>5. ASSUME UNCHANGED call PROVE OwnIsThere'
      <3>1. \A k \in DOMAIN inflight : inflight'[k].addr = inflight[k].addr
        BY <2>3
      <3> QED
        BY <2>1, <2>3, <2>5, <3>1 DEF OrderInv, OwnIsThere, Waiting
    <2>6. /\ Number(inflight', "in") + Number(reapable', "in")
               = Number(inflight, "in") + Number(reapable, "in")
          /\ UNCHANGED call => Left' = Left
      BY <2>1, <2>2 DEF Left, Waiting
    <2>7. ASSUME u.dir = "out"
          PROVE  /\ Held(inflight', "in") = Held(inflight, "in")
                 /\ Held(reapable', "in") = Held(reapable, "in")
                 /\ Held(inflight', "out") = Others(inflight, i, "out") \cup Load(u)
                 /\ Load(u) \subseteq Load(inflight[i]) => RowsOrdered'
      <3>1. Held(inflight', "in") = Held(inflight, "in")
        BY <1>5, <2>2, <2>7
      <3>2. Held(inflight', "out") = Others(inflight, i, "out") \cup Load(u)
        BY <2>2, <2>7
      <3>3. Load(u) \subseteq Load(inflight[i]) => Ordered(inflight', "out")
        BY <1>2, <2>2
      <3>4. Load(u) \subseteq Load(inflight[i]) => RowsOrdered'
        BY <1>2, <2>1, <2>4, <3>1, <3>3 DEF RowsOrdered
      <3> QED
        BY <2>1, <3>1, <3>2, <3>4
    <2>8. ASSUME u.dir = "in"
          PROVE  /\ Held(inflight', "out") = Held(inflight, "out")
                 /\ Held(inflight', "in") = Others(inflight, i, "in") \cup Load(u)
                 /\ Held(reapable', "in") = Held(reapable, "in")
                 /\ (\A p \in Held(reapable, "in"), q \in Load(u) : p < q) => RowsOrdered'
      <3>1. Held(inflight', "in") = Others(inflight, i, "in") \cup Load(u)
        BY <2>2, <2>8
      <3>2. Held(inflight', "out") = Held(inflight, "out")
        BY <1>6, <2>2, <2>8
      <3>3. Ordered(inflight', "out")
        <4> SUFFICES ASSUME NEW k \in DOMAIN inflight, NEW l \in DOMAIN inflight, k < l,
                            inflight'[k].dir = "out", inflight'[l].dir = "out",
                            NEW p \in Load(inflight'[k]), NEW q \in Load(inflight'[l])
                     PROVE  p < q
          BY <2>3 DEF Ordered
        <4>1. k # i /\ l # i
          BY <2>3, <2>8
        <4> QED
          BY <1>2, <2>3, <4>1 DEF Ordered
      <3>4. ASSUME \A p \in Held(reapable, "in"), q \in Load(u) : p < q
            PROVE  RowsOrdered'
        <4>1. \A p \in Held(reapable', "in"), q \in Held(inflight', "in") : p < q
          BY <1>2, <1>3, <2>1, <3>1, <3>4
        <4> QED
          BY <1>2, <2>1, <2>4, <3>3, <4>1 DEF RowsOrdered
      <3> QED
        BY <2>1, <3>1, <3>2, <3>4
    <2> QED
      BY <1>8, <2>4, <2>5, <2>6, <2>7, <2>8
  <1> QED
    BY <1>7, <1>8

\* Which URB an endpoint works on: no other read holds packets before it.
LEMMA FirstFills ==
    ASSUME OrderInv, NEW i \in DOMAIN inflight, inflight[i].dir = "in",
           \/ \A j \in DOMAIN inflight : j < i => inflight[j].dir # "in"
           \/ Load(inflight[i]) # {}
    PROVE  /\ Others(inflight, i, "in") = {}
           /\ \A j \in DOMAIN inflight : j < i => inflight[j].dir # "in"
           /\ \A j \in DOMAIN inflight : j # i /\ inflight[j].dir = "in" => inflight[j].data = <<>>
  <1>1. inflight \in Seq(Urbs) /\ \A j \in DOMAIN inflight : inflight[j] \in Urbs /\ j \in Nat
    BY OrderFacts, ListType
  <1>2. \A j \in DOMAIN inflight : inflight[j].data = <<>> => Load(inflight[j]) = {}
    BY <1>1, LoadIsRow DEF OrderInv, RowsOrdered
  <1>3. \A j \in DOMAIN inflight : j < i => inflight[j].dir # "in"
    BY <1>2 DEF OrderInv, FillsFirst
  <1>4. ASSUME NEW j \in DOMAIN inflight, j # i, inflight[j].dir = "in"
        PROVE  inflight[j].data = <<>>
    <2>1. i < j
      BY <1>1, <1>3, <1>4
    <2> QED
      BY <1>4, <2>1 DEF OrderInv, FillsFirst
  <1>5. Others(inflight, i, "in") = {}
    BY <1>2, <1>4 DEF Others
  <1> QED
    BY <1>3, <1>4, <1>5

\* A read that is filled stays the first, and with it what was sent last.
LEMMA ProgressFills ==
    ASSUME OrderInv, NEW i \in DOMAIN inflight, NEW u \in Urbs, NEW completed \in BOOLEAN,
           u.dir = inflight[i].dir, Progress(i, u, completed),
           \/ UNCHANGED sent["in"]
           \/ u.dir = "in" /\ \A j \in DOMAIN inflight : j < i => inflight[j].dir # "in",
           u.dir = "in" /\ ~completed =>
             /\ \A j \in DOMAIN inflight : j < i => inflight[j].dir # "in"
             /\ u.data # <<>> => u.data[Len(u.data)] = sent'["in"]
    PROVE  FillsFirst'
  <1>1. inflight \in Seq(Urbs) /\ \A j \in DOMAIN inflight : inflight[j] \in Urbs /\ j \in Nat
    BY OrderFacts, ListType
  <1>2. ASSUME u.dir = "in", \A j \in DOMAIN inflight : j < i => inflight[j].dir # "in",
               NEW k \in DOMAIN inflight, k # i, inflight[k].dir = "in"
        PROVE  inflight[k].data = <<>>
    BY <1>2, FirstFills
  <1>3. CASE completed
    <2>1. inflight' = RemoveAt(inflight, i)
      BY <1>3 DEF Progress
    <2>2. /\ \A k \in DOMAIN inflight' : /\ OldPlace(k, i) \in DOMAIN inflight /\ OldPlace(k, i) # i
                                         /\ inflight'[k] = inflight[OldPlace(k, i)]
          /\ \A k, l \in DOMAIN inflight' : k < l => OldPlace(k, i) < OldPlace(l, i)
      BY <1>1, <2>1, RemoveKeeps
    <2> SUFFICES ASSUME NEW k \in DOMAIN inflight', inflight'[k].dir = "in",
                        inflight'[k].data # <<>>
                 PROVE  /\ \A j \in DOMAIN inflight' : j < k => inflight'[j].dir # "in"
                        /\ inflight'[k].data[Len(inflight'[k].data)] = sent'["in"]
      BY DEF FillsFirst
    <2>3. UNCHANGED sent["in"]
      BY <1>2, <2>2
    <2> QED
      BY <2>2, <2>3 DEF OrderInv, FillsFirst
  <1>4. CASE ~completed
    <2>1. DOMAIN inflight' = DOMAIN inflight /\ inflight'[i] = u
          /\ \A k \in DOMAIN inflight : k # i => inflight'[k] = inflight[k]
      BY <1>4 DEF Progress
    <2>2. \A k \in DOMAIN inflight : inflight'[k].dir = inflight[k].dir
      BY <2>1
    <2> SUFFICES ASSUME NEW k \in DOMAIN inflight, inflight'[k].dir = "in",
                        inflight'[k].data # <<>>
                 PROVE  /\ \A j \in DOMAIN inflight : j < k => inflight[j].dir # "in"
                        /\ inflight'[k].data[Len(inflight'[k].data)] = sent'["in"]
      BY <2>1, <2>2 DEF FillsFirst
    <2>3. CASE k = i
      BY <1>4, <2>1, <2>2, <2>3
    <2>4. CASE k # i
      <3>1. UNCHANGED sent["in"]
        BY <1>2, <2>1, <2>2, <2>4
      <3> QED
        BY <2>1, <2>2, <2>4, <3>1 DEF OrderInv, FillsFirst
    <2> QED
      BY <2>3, <2>4
  <1> QED
    BY <1>3, <1>4


\* A URB that is reported with what it has: a read can still be reaped, and what
\* was not written of a write is lost.
LEMMA MoveHolds ==
    ASSUME OrderInv, NEW i \in DOMAIN inflight, Progress(i, inflight[i], TRUE), UNCHANGED sent
    PROVE  LET u == inflight[i]
           IN  /\ u \in Urbs /\ Row(u.data)
               /\ RowsOrdered' /\ FillsFirst'
               /\ UNCHANGED call => OwnIsThere' /\ Left' = Left
               /\ Number(inflight', "in") + Number(reapable', "in")
                    = Number(inflight, "in") + Number(reapable, "in")
               /\ Coming("in")' = Coming("in")
               /\ u.dir = "in" => Coming("out")' = Coming("out")
               /\ u.dir = "out" => /\ Load(u) \subseteq Coming("out")
                                   /\ Coming("out")' = Coming("out") \ Load(u)
  <1> DEFINE u == inflight[i]
  <1>1. inflight \in Seq(Urbs) /\ reapable \in Seq(Urbs) /\ u \in Urbs /\ u.dir \in Dirs
    BY OrderFacts, ListType, UrbType
  <1>2. /\ Row(u.data) /\ Ordered(inflight, "out")
        /\ \A p \in Held(reapable, "in"), q \in Held(inflight, "in") : p < q
    BY DEF OrderInv, RowsOrdered
  <1>3. \A dir : /\ Held(inflight, dir) = Others(inflight, i, dir) \cup IF u.dir = dir THEN Load(u) ELSE {}
                 /\ Ordered(inflight, dir) /\ u.dir = dir => Others(inflight, i, dir) \cap Load(u) = {}
    BY <1>1, HeldSplits
  <1>4. Progress(i, u, TRUE)
    OBVIOUS
  <1>5. u.dir = inflight[i].dir /\ u.addr = inflight[i].addr /\ Load(u) = Load(inflight[i])
    OBVIOUS
  <1> HIDE DEF u
  <1>6. /\ UNCHANGED call => OwnIsThere' /\ Left' = Left
        /\ Number(inflight', "in") + Number(reapable', "in")
             = Number(inflight, "in") + Number(reapable, "in")
        /\ u.dir = "out" =>
             /\ Held(inflight', "in") = Held(inflight, "in")
             /\ Held(reapable', "in") = Held(reapable, "in")
             /\ Held(inflight', "out") = Others(inflight, i, "out")
             /\ RowsOrdered'
        /\ u.dir = "in" =>
             /\ Held(inflight', "out") = Held(inflight, "out")
             /\ Held(inflight', "in") = Others(inflight, i, "in")
             /\ Held(reapable', "in") = Held(reapable, "in") \cup Load(u)
             /\ (\A p \in Held(reapable, "in"), q \in Load(u) : p < q)
                /\ (Load(u) # {} => Others(inflight, i, "in") = {}) => RowsOrdered'
    <2>1. /\ UNCHANGED call => OwnIsThere' /\ Left' = Left
          /\ Number(inflight', "in") + Number(reapable', "in")
               = Number(inflight, "in") + Number(reapable, "in")
          /\ u.dir = "out" =>
               /\ Held(inflight', "in") = Held(inflight, "in")
               /\ Held(reapable', "in") = Held(reapable, "in")
               /\ Held(inflight', "out") = Others(inflight, i, "out") \cup IF TRUE THEN {} ELSE Load(u)
               /\ Load(u) \subseteq Load(inflight[i]) => RowsOrdered'
          /\ u.dir = "in" =>
               /\ Held(inflight', "out") = Held(inflight, "out")
               /\ Held(inflight', "in") = Others(inflight, i, "in") \cup IF TRUE THEN {} ELSE Load(u)
               /\ Held(reapable', "in") = Held(reapable, "in") \cup IF TRUE THEN Load(u) ELSE {}
               /\ (\A p \in Held(reapable, "in"), q \in Load(u) : p < q)
                  /\ (Load(u) # {} => Others(inflight, i, "in") = {}) => RowsOrdered'
      <3>1. TRUE \in BOOLEAN
        OBVIOUS
      <3> QED
        BY <1>1, <1>2, <1>4, <1>5, <3>1, ProgressHolds
    <2> QED
      BY <1>5, <2>1
  <1>7. FillsFirst'
    BY <1>1, <1>4, <1>5, ProgressFills
  <1>8. CASE u.dir = "in"
    <2>1. Held(inflight, "in") = Others(inflight, i, "in") \cup Load(u)
      BY <1>3, <1>8
    <2>2. \A p \in Held(reapable, "in"), q \in Load(u) : p < q
      BY <1>2, <2>1
    <2>3. Load(u) # {} => Others(inflight, i, "in") = {}
      BY <1>5, <1>8, FirstFills
    <2>4. RowsOrdered'
      BY <1>6, <1>8, <2>2, <2>3
    <2>5. Coming("in")' = Coming("in")
      BY <1>6, <1>8, <2>1 DEF Coming
    <2>6. Coming("out")' = Coming("out")
      BY <1>6, <1>8 DEF Coming
    <2> QED
      BY <1>1, <1>2, <1>6, <1>7, <1>8, <2>4, <2>5, <2>6 DEF u
  <1>9. CASE u.dir = "out"
    <2>1. /\ Held(inflight, "out") = Others(inflight, i, "out") \cup Load(u)
          /\ Others(inflight, i, "out") \cap Load(u) = {}
      BY <1>2, <1>3, <1>9
    <2>2. Coming("in")' = Coming("in")
      BY <1>6, <1>9 DEF Coming
    <2>3. /\ Load(u) \subseteq Coming("out")
          /\ Coming("out")' = Coming("out") \ Load(u)
      BY <1>6, <1>9, <2>1 DEF Coming
    <2> QED
      BY <1>1, <1>2, <1>6, <1>7, <1>9, <2>2, <2>3 DEF u
  <1> QED
    BY <1>1, <1>8, <1>9 DEF Dirs

\* A transfer is given up and its URB reported: what it holds is paid for.
LEMMA GivenUpSteps ==
    ASSUME OrderInv, NEW i \in DOMAIN inflight, Progress(i, inflight[i], TRUE),
           UNCHANGED <<sent, seen>>, given' = [given EXCEPT ![inflight[i].dir] = @ + 1],
           OwnIsThere', Left' = Left + 1 => inflight[i].dir = "in", Left' = Left \/ Left' = Left + 1
    PROVE  OrderStep
  <1> DEFINE u == inflight[i]
  <1>1. /\ u \in Urbs /\ Row(u.data) /\ RowsOrdered' /\ FillsFirst'
        /\ Coming("in")' = Coming("in")
        /\ u.dir = "in" => Coming("out")' = Coming("out")
        /\ u.dir = "out" => /\ Load(u) \subseteq Coming("out")
                            /\ Coming("out")' = Coming("out") \ Load(u)
    BY MoveHolds
  <1>2. given' = [given EXCEPT ![u.dir] = @ + 1] /\ (Left' = Left + 1 => u.dir = "in")
    OBVIOUS
  <1> HIDE DEF u
  <1>3. u.dir \in Dirs
    BY <1>1, UrbType
  <1>4. CASE u.dir = "in"
    <2>1. given'["in"] = given["in"] + 1 /\ given'["out"] = given["out"]
      BY <1>2, <1>4, OrderFacts DEF TypeOK, Dirs
    <2>2. Passes("in")' /\ Missing("in")' = Missing("in") /\ GivesUp("in")
      BY <1>1, <2>1, OrderFacts, NothingPasses DEF Dirs
    <2>3. Passes("out")' /\ Missing("out")' = Missing("out") /\ Stays("out")
      BY <1>1, <1>4, <2>1, OrderFacts, NothingPasses DEF Dirs
    <2>4. LossesPaid'
      BY <2>1, <2>2, <2>3, OrderFacts DEF LossesPaid
    <2> QED
      BY <1>1, <2>2, <2>3, <2>4 DEF OrderStep, ChannelStep, Dirs
  <1>5. CASE u.dir = "out"
    <2>1. given'["out"] = given["out"] + 1 /\ given'["in"] = given["in"] /\ Left' = Left
      BY <1>2, <1>5, OrderFacts DEF TypeOK, Dirs
    <2>2. Passes("in")' /\ Missing("in")' = Missing("in") /\ Stays("in")
      BY <1>1, <2>1, OrderFacts, NothingPasses DEF Dirs
    <2>3. PICK a \in Nat, b \in Nat : Load(u) = a .. b
      BY <1>1, LoadIsRow
    <2>4. /\ Passes("out")' /\ Missing("out")' <= Missing("out") + 1 /\ Missing("out")' \in Nat
          /\ GivesUp("out")
      BY <1>1, <1>5, <2>1, <2>3, OrderFacts, SomeAreLost DEF Dirs
    <2>5. LossesPaid'
      BY <2>1, <2>2, <2>4, OrderFacts DEF LossesPaid
    <2> QED
      BY <1>1, <2>2, <2>4, <2>5 DEF OrderStep, ChannelStep, Dirs
  <1> QED
    BY <1>3, <1>4, <1>5 DEF Dirs

LEMMA DiscardSteps ==
    ASSUME OrderInv, Discard
    PROVE  OrderStep
  <1> DEFINE pending == {j \in DOMAIN inflight : inflight[j].addr = call.addr}
             i == CHOOSE j \in pending : \A k \in pending : j <= k
  <1>1. /\ TypeOK /\ call # Idle /\ call.at = "timedout" /\ call' = Idle
        /\ given' = [given EXCEPT ![call.dir] = @ + 1]
        /\ inflight \in Seq(Urbs) /\ reapable \in Seq(Urbs)
        /\ UNCHANGED <<sent, seen>>
    BY NotIdle, OrderFacts DEF Discard, EndCall
  <1>2. call.dir \in Dirs
    BY <1>1, TransferTypes
  <1>3. OwnIsThere'
    BY <1>1, IdleAt DEF OwnIsThere, Waiting
  <1>4. Number(inflight, "in") \in Nat /\ Number(reapable, "in") \in Nat
    BY <1>1, NumberType
  <1>5. ASSUME Number(inflight', "in") + Number(reapable', "in")
                 = Number(inflight, "in") + Number(reapable, "in")
        PROVE  Left' = Left + IF call.dir = "in" THEN 1 ELSE 0
    <2> DEFINE sum == Number(inflight, "in") + Number(reapable, "in")
    <2>1. Left = sum - (IF call.dir = "in" THEN 1 ELSE 0) /\ sum \in Nat
      BY <1>1, <1>4 DEF Left, Waiting
    <2>2. Left' = (Number(inflight', "in") + Number(reapable', "in")) - 0
      <3>1. ~(Waiting' /\ call'.dir = "in")
        BY <1>1, IdleAt DEF Waiting
      <3> QED
        BY <3>1 DEF Left
    <2>3. Number(inflight', "in") + Number(reapable', "in") = sum
      BY <1>5
    <2> HIDE DEF sum
    <2> QED
      BY <2>1, <2>2, <2>3
  <1>6. CASE pending = {}
    <2>1. UNCHANGED <<inflight, reapable>>
      BY <1>6 DEF Discard
    <2>2. /\ RowsOrdered' /\ FillsFirst'
          /\ \A dir \in Dirs : /\ Passes(dir)' /\ Missing(dir)' = Missing(dir)
                               /\ given'[dir] = given[dir] => Stays(dir)
                               /\ given'[dir] = given[dir] + 1 => GivesUp(dir)
      BY <1>1, <2>1, ListsStay
    <2>3. \A dir \in Dirs : given'[dir] = IF dir = call.dir THEN given[dir] + 1 ELSE given[dir]
      BY <1>1, <1>2 DEF TypeOK
    <2>4. LossesPaid'
      <3>1. Left' = Left + IF call.dir = "in" THEN 1 ELSE 0
        BY <1>5, <2>1
      <3>2. CASE call.dir = "in"
        <4>1. given'["in"] = given["in"] + 1 /\ given'["out"] = given["out"]
          BY <2>3, <3>2 DEF Dirs
        <4> QED
          BY <2>2, <3>1, <3>2, <4>1, OrderFacts DEF LossesPaid, Dirs
      <3>3. CASE call.dir = "out"
        <4>1. given'["out"] = given["out"] + 1 /\ given'["in"] = given["in"]
          BY <2>3, <3>3 DEF Dirs
        <4> QED
          BY <2>2, <3>1, <3>3, <4>1, OrderFacts DEF LossesPaid, Dirs
      <3> QED
        BY <1>2, <3>2, <3>3 DEF Dirs
    <2>5. \A dir \in Dirs : Stays(dir) \/ GivesUp(dir)
      BY <2>2, <2>3
    <2> QED
      BY <1>3, <2>2, <2>4, <2>5 DEF OrderStep, ChannelStep
  <1>7. CASE pending # {}
    <2>1. i \in pending
      <3>1. pending \in SUBSET DOMAIN inflight
        OBVIOUS
      <3> HIDE DEF pending
      <3> QED
        BY <1>1, <1>7, <3>1, LeastIndex
    <2>2. Progress(i, inflight[i], TRUE)
      BY <1>7 DEF Discard, Progress
    <2>3. i \in DOMAIN inflight /\ inflight[i].addr = call.addr
      BY <2>1
    <2> HIDE DEF i, pending
    <2>4. inflight[i] \in Urbs /\ inflight[i].dir = call.dir
      BY <1>1, <2>3, ListType, MineIsOfMyDirection DEF Mine
    <2>5. Left' = Left + IF call.dir = "in" THEN 1 ELSE 0
      BY <1>1, <1>5, <2>2, <2>3, MoveHolds
    <2>6. Left \in Nat
      BY OrderFacts
    <2>7. (Left' = Left + 1 => inflight[i].dir = "in") /\ (Left' = Left \/ Left' = Left + 1)
      BY <2>4, <2>5, <2>6
    <2>8. given' = [given EXCEPT ![inflight[i].dir] = @ + 1]
      BY <1>1, <2>4
    <2> QED
      BY <1>1, <1>3, <2>2, <2>3, <2>7, <2>8, GivenUpSteps
  <1> QED
    BY <1>6, <1>7

LEMMA UrbFailsSteps ==
    ASSUME OrderInv, NEW dir \in Dirs, UrbFails(dir)
    PROVE  OrderStep
  <1> DEFINE i == First(dir)
  <1>1. /\ i \in DOMAIN inflight /\ inflight[i].dir = dir
        /\ Progress(i, inflight[i], TRUE)
        /\ given' = [given EXCEPT ![dir] = @ + 1]
        /\ UNCHANGED <<call, sent, seen>>
    BY OrderFacts, FirstOfDirection DEF UrbFails
  <1> HIDE DEF i
  <1>2. OwnIsThere' /\ Left' = Left
    BY <1>1, MoveHolds
  <1>3. Left' # Left + 1
    BY <1>2, OrderFacts
  <1>4. given' = [given EXCEPT ![inflight[i].dir] = @ + 1]
    BY <1>1
  <1> QED
    BY <1>1, <1>2, <1>3, <1>4, GivenUpSteps

LEMMA DeviceEndsEmptySteps ==
    ASSUME OrderInv, DeviceEndsEmpty
    PROVE  OrderStep
  <1> DEFINE i == First("in")
  <1>1. /\ i \in DOMAIN inflight /\ inflight[i].dir = "in"
        /\ Progress(i, inflight[i], TRUE) /\ UNCHANGED <<call, sent, seen, given>>
    BY OrderFacts, FirstOfDirection DEF DeviceEndsEmpty, Dirs
  <1> HIDE DEF i
  <1>2. /\ RowsOrdered' /\ FillsFirst' /\ OwnIsThere' /\ Left' = Left
        /\ Coming("in")' = Coming("in") /\ Coming("out")' = Coming("out")
    BY <1>1, MoveHolds
  <1>3. \A dir \in Dirs : Passes(dir)' /\ Missing(dir)' = Missing(dir) /\ Stays(dir)
    <2>1. \A dir \in Dirs : Passes(dir) /\ Coming(dir)' = Coming(dir)
      BY <1>2 DEF OrderInv, Dirs
    <2> QED
      BY <1>1, <2>1, OrderFacts, NothingPasses
  <1>4. LossesPaid'
    BY <1>1, <1>2, <1>3, OrderFacts DEF LossesPaid, Dirs
  <1> QED
    BY <1>2, <1>3, <1>4 DEF OrderStep, ChannelStep


\* One more packet fills a read: it is the next of its row.
LEMMA PacketAdded ==
    ASSUME OrderInv, NEW i \in DOMAIN inflight, inflight[i].dir = "in", sent["in"] < MaxPackets
    PROVE  LET old == inflight[i]
               u == [old EXCEPT !.data = Append(@, sent["in"] + 1)]
           IN  /\ old \in Urbs /\ u \in Urbs /\ u.dir = "in" /\ u.addr = old.addr
               /\ Row(u.data) /\ Load(u) = Load(old) \cup {sent["in"] + 1}
               /\ u.data # <<>> /\ u.data[Len(u.data)] = sent["in"] + 1
  <1> DEFINE old == inflight[i]
             u == [old EXCEPT !.data = Append(@, sent["in"] + 1)]
             next == sent["in"] + 1
             len == Len(old.data)
  <1>1. /\ inflight \in Seq(Unfinished) /\ old \in Unfinished /\ old \in Urbs
        /\ old \in [dir : Dirs, addr : Addresses, data : Seq(Packets), done : Nat]
        /\ old.dir = "in" /\ old.addr \in Frames[old.dir] /\ len < Size /\ old.data \in Seq(Packets)
    <2>1. inflight \in Seq(Unfinished)
      BY OrderFacts
    <2>2. old \in Unfinished
      BY <2>1, LenProperties, ElementOfSeq
    <2> QED
      BY <2>1, <2>2 DEF Unfinished, Urbs
  <1>2. sent["in"] \in Nat /\ next \in Packets /\ next \in Nat /\ len \in Nat
    <2>1. sent["in"] \in Nat
      BY OrderFacts, DirTypes DEF Dirs
    <2> QED
      BY <1>1, <2>1, BoundsAssumption, LenProperties DEF Packets
  <1>3. Row(old.data) /\ (old.data # <<>> => old.data[len] = sent["in"])
    BY <1>1 DEF OrderInv, RowsOrdered, FillsFirst
  <1>4. /\ u \in [dir : Dirs, addr : Addresses, data : Seq(Packets), done : Nat]
        /\ u.dir = "in" /\ u.addr = old.addr /\ u.data = Append(old.data, next)
    <2>1. Append(old.data, next) \in Seq(Packets)
      BY <1>1, <1>2, AppendProperties
    <2>2. u = [old EXCEPT !.data = Append(old.data, next)]
      OBVIOUS
    <2> HIDE DEF old, u, next
    <2> QED
      BY <1>1, <2>1, <2>2
  <1> HIDE DEF old, u, next, len
  <1>5. /\ DOMAIN old.data = 1 .. len /\ Len(u.data) = len + 1 /\ DOMAIN u.data = 1 .. len + 1
        /\ u.data[len + 1] = next /\ \A k \in 1 .. len : u.data[k] = old.data[k]
    <2>1. DOMAIN old.data = 1 .. len
      BY <1>1, LenProperties DEF len
    <2>2. /\ u.data \in Seq(Packets) /\ Len(u.data) = len + 1 /\ u.data[len + 1] = next
          /\ \A k \in 1 .. len : u.data[k] = old.data[k]
      BY <1>1, <1>2, <1>4, AppendProperties DEF len
    <2> QED
      BY <2>1, <2>2, LenProperties
  <1>6. u \in Urbs
    <2>1. Len(u.data) <= Size
      BY <1>1, <1>2, <1>5, SizeAssumption
    <2> QED
      BY <1>1, <1>4, <2>1 DEF Urbs
  <1>7. u.data # <<>>
    BY <1>2, <1>5, EmptySeq
  <1>8. Row(u.data)
    <2>1. CASE len = 0
      <3>1. \A k \in DOMAIN u.data : k = 1
        BY <1>5, <2>1
      <3>2. u.data[1] = next
        BY <1>5, <2>1
      <3> QED
        BY <1>2, <3>1, <3>2 DEF Row
    <2>2. CASE len # 0
      <3>1. 1 \in 1 .. len /\ len \in 1 .. len
        BY <1>2, <2>2
      <3>2. old.data # <<>>
        BY <1>2, <2>2, EmptySeq DEF len
      <3>3. old.data[1] \in Nat
        <4>1. old.data[1] \in Packets
          BY <1>1, <3>1, ElementOfSeq DEF len
        <4> QED
          BY <4>1, BoundsAssumption DEF Packets
      <3>4. sent["in"] = old.data[1] + len - 1
        BY <1>3, <1>5, <3>1, <3>2 DEF Row
      <3>5. next = old.data[1] + (len + 1) - 1
        BY <1>2, <3>3, <3>4 DEF next
      <3>6. \A k \in 1 .. len : u.data[k] = u.data[1] + k - 1
        BY <1>3, <1>5, <3>1 DEF Row
      <3>7. u.data[len + 1] = u.data[1] + (len + 1) - 1
        BY <1>5, <3>1, <3>5
      <3>8. \A k \in 1 .. len + 1 : k \in 1 .. len \/ k = len + 1
        BY <1>2
      <3> QED
        BY <1>5, <3>6, <3>7, <3>8 DEF Row
    <2> QED
      BY <2>1, <2>2
  <1>9. Load(u) = Load(old) \cup {next}
    <2>1. /\ Load(u) = {u.data[k] : k \in 1 .. len + 1}
          /\ Load(old) = {old.data[k] : k \in 1 .. len}
      BY <1>1, <1>4, <1>5 DEF Load
    <2>2. 1 .. len + 1 = (1 .. len) \cup {len + 1}
      BY <1>2
    <2>3. Load(u) = {u.data[k] : k \in 1 .. len} \cup {u.data[len + 1]}
      BY <2>1, <2>2
    <2> QED
      BY <1>5, <2>1, <2>3
  <1>10. u.data[Len(u.data)] = next
    BY <1>5
  <1> QED
    BY <1>1, <1>4, <1>6, <1>7, <1>8, <1>9, <1>10 DEF old, u, next

LEMMA DeviceSendsSteps ==
    ASSUME OrderInv, NEW short \in BOOLEAN, DeviceSends(short)
    PROVE  OrderStep
  <1> DEFINE i == First("in")
             old == inflight[i]
             u == [old EXCEPT !.data = Append(@, sent["in"] + 1)]
             completed == short \/ Len(u.data) = Size
             next == sent["in"] + 1
  <1>1. /\ TypeOK /\ i \in DOMAIN inflight /\ old.dir = "in" /\ sent["in"] < MaxPackets
        /\ \A j \in DOMAIN inflight : j < i => inflight[j].dir # "in"
        /\ Progress(i, u, completed) /\ completed \in BOOLEAN
        /\ sent' = [sent EXCEPT !["in"] = @ + 1]
        /\ UNCHANGED <<call, seen, given>>
    BY OrderFacts, FirstOfDirection DEF DeviceSends, Dirs
  <1>2. /\ old \in Urbs /\ u \in Urbs /\ u.dir = "in" /\ u.addr = old.addr
        /\ Row(u.data) /\ Load(u) = Load(old) \cup {next}
        /\ u.data # <<>> /\ u.data[Len(u.data)] = next
    <2> HIDE DEF i
    <2> QED
      BY <1>1, PacketAdded
  <1>3. sent["in"] \in Nat /\ sent'["in"] = next /\ sent'["out"] = sent["out"]
    BY <1>1, DirTypes DEF TypeOK, Dirs
  <1>4. u.dir = inflight[i].dir /\ u.addr = inflight[i].addr
    BY <1>1, <1>2
  <1>5. inflight \in Seq(Urbs) /\ reapable \in Seq(Urbs)
    BY OrderFacts
  <1> HIDE DEF u, completed, i
  <1>6. Others(inflight, i, "in") = {} /\ Held(inflight, "in") = Load(old)
    <2>1. Others(inflight, i, "in") = {}
      BY <1>1, FirstFills
    <2>2. \A dir : Held(inflight, dir) = Others(inflight, i, dir) \cup IF inflight[i].dir = dir
                                                                       THEN Load(inflight[i]) ELSE {}
      BY <1>1, <1>5, HeldSplits
    <2> QED
      BY <1>1, <2>1, <2>2
  <1> HIDE DEF old
  <1>7. Coming("in") \subseteq 1 .. sent["in"] /\ Coming("in") = Load(old) \cup Held(reapable, "in")
    BY <1>6, OrderFacts DEF Passes, Passing, Coming
  <1>8. /\ OwnIsThere' /\ Left' = Left
        /\ Held(inflight', "out") = Held(inflight, "out")
        /\ Held(inflight', "in") = Others(inflight, i, "in") \cup IF completed THEN {} ELSE Load(u)
        /\ Held(reapable', "in") = Held(reapable, "in") \cup IF completed THEN Load(u) ELSE {}
        /\ (\A p \in Held(reapable, "in"), q \in Load(u) : p < q)
           /\ (Load(u) # {} => Others(inflight, i, "in") = {}) => RowsOrdered'
    BY <1>1, <1>2, <1>4, ProgressHolds
  <1>9. RowsOrdered'
    <2> SUFFICES ASSUME NEW p \in Held(reapable, "in"), NEW q \in Load(u) PROVE p < q
      BY <1>6, <1>8
    <2>1. CASE q \in Load(old)
      BY <1>6, <2>1 DEF OrderInv, RowsOrdered
    <2>2. CASE q = next
      <3>1. p \in 1 .. sent["in"]
        BY <1>7
      <3> QED
        BY <1>3, <2>2, <3>1
    <2> QED
      BY <1>2, <2>1, <2>2
  <1>10. FillsFirst'
    BY <1>1, <1>2, <1>3, <1>4, ProgressFills
  <1>11. /\ Coming("in")' = Coming("in") \cup (sent["in"] + 1 .. sent["in"] + 1)
         /\ Coming("out")' = Coming("out")
    <2>1. {next} = sent["in"] + 1 .. sent["in"] + 1
      BY <1>3
    <2>2. Coming("in")' = Held(inflight', "in") \cup Held(reapable', "in")
      BY DEF Coming
    <2>3. Coming("in")' = Load(u) \cup Held(reapable, "in")
      BY <1>6, <1>8, <2>2
    <2>4. Coming("in")' = Coming("in") \cup {next}
      BY <1>2, <1>7, <2>3
    <2>5. Coming("out")' = Coming("out")
      BY <1>8 DEF Coming
    <2> QED
      BY <2>1, <2>4, <2>5
  <1>12. Passes("in")' /\ Missing("in")' = Missing("in") /\ Sends("in")
    BY <1>1, <1>3, <1>11, OrderFacts, MorePass DEF Dirs
  <1>13. Passes("out")' /\ Missing("out")' = Missing("out") /\ Stays("out")
    BY <1>1, <1>3, <1>11, OrderFacts, NothingPasses DEF Dirs
  <1>14. LossesPaid'
    BY <1>1, <1>8, <1>12, <1>13, OrderFacts DEF LossesPaid
  <1> QED
    BY <1>8, <1>9, <1>10, <1>12, <1>13, <1>14 DEF OrderStep, ChannelStep, Dirs

LEMMA OnePacket ==
    ASSUME NEW s \in Seq(Packets), NEW a \in Packets
    PROVE  Append(s, a) = s \o Run(a, a)
  <1>1. a \in Nat
    BY BoundsAssumption DEF Packets
  <1>2. a - a + 1 = 1 /\ \A k \in 1 .. 1 : a + k - 1 = a
    BY <1>1
  <1>3. Run(a, a) = [k \in 1 .. 1 |-> a]
    BY <1>2 DEF Run
  <1>4. <<a>> = [k \in 1 .. 1 |-> a]
    OBVIOUS
  <1> QED
    BY <1>3, <1>4, AppendIsConcat

\* The device takes the first packet that a write still has.
LEMMA PacketTaken ==
    ASSUME NEW u \in Urbs, Row(u.data), u.dir = "out", u.done < Len(u.data)
    PROVE  LET a == u.data[u.done + 1]
               taken == [u EXCEPT !.done = @ + 1]
           IN  /\ taken \in Urbs /\ taken.dir = u.dir /\ taken.addr = u.addr /\ taken.data = u.data
               /\ a \in Packets /\ a \in Load(u) /\ Load(taken) = Load(u) \ {a}
               /\ \A q \in Load(taken) : a < q
               /\ u.done + 1 = Len(u.data) => Load(taken) = {}
  <1> DEFINE a == u.data[u.done + 1]
             taken == [u EXCEPT !.done = @ + 1]
             len == Len(u.data)
  <1>1. /\ u \in [dir : Dirs, addr : Addresses, data : Seq(Packets), done : Nat]
        /\ u.addr \in Frames[u.dir] /\ len <= Size
        /\ len \in Nat /\ DOMAIN u.data = 1 .. len /\ u.done \in Nat
        /\ \A k \in 1 .. len : u.data[k] \in Packets
    BY UrbType, SizeAssumption DEF Urbs
  <1>2. /\ taken \in [dir : Dirs, addr : Addresses, data : Seq(Packets), done : Nat]
        /\ taken.dir = u.dir /\ taken.addr = u.addr /\ taken.data = u.data
        /\ taken.done = u.done + 1
    BY <1>1
  <1> HIDE DEF taken
  <1>3. taken \in Urbs
    BY <1>1, <1>2 DEF Urbs
  <1>4. u.done + 1 \in 1 .. len /\ a \in Packets
    <2>1. u.done + 1 \in 1 .. len
      BY <1>1
    <2> QED
      BY <1>1, <2>1
  <1>5. \A k \in 1 .. len : u.data[k] \in Nat /\ u.data[k] = u.data[1] + k - 1
    <2>1. \A k \in 1 .. len : u.data[k] = u.data[1] + k - 1
      BY <1>1 DEF Row
    <2>2. Packets \subseteq Nat
      BY BoundsAssumption DEF Packets
    <2> QED
      BY <1>1, <2>1, <2>2
  <1>6. /\ Load(u) = {u.data[k] : k \in u.done + 1 .. len}
        /\ Load(taken) = {u.data[k] : k \in u.done + 2 .. len}
    <2>1. {k \in DOMAIN u.data : u.dir = "out" => k > u.done} = u.done + 1 .. len
      BY <1>1
    <2>2. {k \in DOMAIN taken.data : taken.dir = "out" => k > taken.done} = u.done + 2 .. len
      BY <1>1, <1>2
    <2> QED
      BY <1>2, <2>1, <2>2 DEF Load
  <1>7. u.data[1] \in Nat /\ a = u.data[1] + u.done
    <2>1. 1 \in 1 .. len
      BY <1>1, <1>4
    <2>2. a = u.data[1] + (u.done + 1) - 1 /\ u.data[1] \in Nat
      BY <1>4, <1>5, <2>1
    <2> DEFINE first == u.data[1]
    <2>3. first \in Nat /\ a = first + (u.done + 1) - 1
      BY <2>2
    <2> HIDE DEF first, a
    <2>4. a = first + u.done
      BY <1>1, <2>3
    <2> QED
      BY <2>3, <2>4 DEF first
  <1> HIDE DEF a
  <1>8. \A q \in Load(taken) : a < q /\ q \in Load(u)
    <2> SUFFICES ASSUME NEW k \in u.done + 2 .. len PROVE a < u.data[k] /\ u.data[k] \in Load(u)
      BY <1>6
    <2>1. k \in u.done + 1 .. len /\ k \in 1 .. len
      BY <1>1
    <2>2. u.data[k] = u.data[1] + k - 1
      BY <1>5, <2>1
    <2> DEFINE first == u.data[1]
    <2>3. first \in Nat /\ a = first + u.done /\ u.data[k] = first + k - 1
      BY <1>7, <2>2
    <2> HIDE DEF first
    <2>4. a < u.data[k]
      BY <1>1, <2>3
    <2> QED
      BY <1>6, <2>1, <2>4
  <1>9. Load(u) = {a} \cup Load(taken)
    <2>1. u.done + 1 .. len = {u.done + 1} \cup (u.done + 2 .. len)
      BY <1>1, <1>4
    <2> QED
      BY <1>6, <2>1 DEF a
  <1>10. a \notin Load(taken)
    <2>1. a \in Nat
      BY <1>4, BoundsAssumption DEF Packets
    <2>2. ~(a < a)
      BY <2>1
    <2> QED
      BY <1>8, <2>2
  <1>11. ASSUME u.done + 1 = len PROVE Load(taken) = {}
    <2>1. u.done + 2 .. len = {}
      BY <1>1, <1>11
    <2> QED
      BY <1>6, <2>1
  <1> QED
    BY <1>2, <1>3, <1>4, <1>8, <1>9, <1>10, <1>11 DEF a, taken, len

LEMMA DeviceTakesSteps ==
    ASSUME OrderInv, DeviceTakes
    PROVE  OrderStep
  <1> DEFINE i == First("out")
             u == inflight[i]
             a == u.data[u.done + 1]
             taken == [u EXCEPT !.done = @ + 1]
             completed == u.done + 1 = Len(u.data)
  <1>1. /\ TypeOK /\ i \in DOMAIN inflight /\ u.dir = "out"
        /\ \A j \in DOMAIN inflight : j < i => inflight[j].dir # "out"
        /\ UNCHANGED <<call, sent, given>>
        /\ IF u.data = <<>> THEN Progress(i, u, TRUE) /\ UNCHANGED seen
           ELSE /\ seen' = [seen EXCEPT !["out"] = Append(@, a)]
                /\ Progress(i, taken, completed)
    BY OrderFacts, FirstOfDirection DEF DeviceTakes, Dirs
  <1>2. inflight \in Seq(Urbs) /\ u \in Urbs /\ Row(u.data)
        /\ (u.data # <<>> => u.done < Len(u.data))
    <2>1. inflight \in Seq(Unfinished) /\ inflight \in Seq(Urbs)
      BY OrderFacts
    <2>2. u \in Unfinished
      BY <1>1, <2>1, LenProperties, ElementOfSeq
    <2> QED
      BY <1>1, <2>1, <2>2 DEF Unfinished, OrderInv, RowsOrdered
  <1> HIDE DEF i
  <1>3. CASE u.data = <<>>
    <2>1. Progress(i, inflight[i], TRUE) /\ UNCHANGED seen
      BY <1>1, <1>3
    <2>2. /\ RowsOrdered' /\ FillsFirst' /\ OwnIsThere' /\ Left' = Left
          /\ Coming("in")' = Coming("in") /\ Coming("out")' = Coming("out") \ Load(u)
      BY <1>1, <2>1, MoveHolds
    <2>3. Load(u) = {}
      BY <1>2, <1>3, LoadIsRow
    <2>4. \A dir \in Dirs : Passes(dir)' /\ Missing(dir)' = Missing(dir) /\ Stays(dir)
      <3>1. \A dir \in Dirs : Passes(dir) /\ Coming(dir)' = Coming(dir)
        BY <2>2, <2>3 DEF OrderInv, Dirs
      <3> QED
        BY <1>1, <2>1, <3>1, NothingPasses
    <2>5. LossesPaid'
      BY <1>1, <2>2, <2>4, OrderFacts DEF LossesPaid, Dirs
    <2> QED
      BY <2>2, <2>4, <2>5 DEF OrderStep, ChannelStep
  <1>4. CASE u.data # <<>>
    <2>1. seen' = [seen EXCEPT !["out"] = Append(@, a)] /\ Progress(i, taken, completed)
      BY <1>1, <1>4
    <2>2. /\ taken \in Urbs /\ taken.dir = "out" /\ taken.addr = u.addr /\ taken.data = u.data
          /\ a \in Packets /\ a \in Load(u) /\ Load(taken) = Load(u) \ {a}
          /\ \A q \in Load(taken) : a < q
          /\ completed => Load(taken) = {}
      BY <1>1, <1>2, <1>4, PacketTaken
    <2>3. Row(taken.data) /\ completed \in BOOLEAN
      BY <1>2, <2>2
    <2>4. taken.dir = inflight[i].dir /\ taken.addr = inflight[i].addr
          /\ Load(taken) \subseteq Load(inflight[i])
      BY <1>1, <2>2
    <2>5. /\ Held(inflight, "out") = Others(inflight, i, "out") \cup Load(u)
          /\ Others(inflight, i, "out") \cap Load(u) = {}
      <3>1. \A dir : /\ Held(inflight, dir) = Others(inflight, i, dir) \cup IF inflight[i].dir = dir
                                                                          THEN Load(inflight[i]) ELSE {}
                     /\ Ordered(inflight, dir) /\ inflight[i].dir = dir =>
                          Others(inflight, i, dir) \cap Load(inflight[i]) = {}
        BY <1>1, <1>2, HeldSplits
      <3>2. Ordered(inflight, "out")
        BY DEF OrderInv, RowsOrdered
      <3> QED
        BY <1>1, <3>1, <3>2
    <2>6. \A q \in Others(inflight, i, "out") : a < q
      <3> SUFFICES ASSUME NEW j \in DOMAIN inflight, j # i, inflight[j].dir = "out",
                          NEW q \in Load(inflight[j])
                   PROVE  a < q
        BY DEF Others
      <3>1. i < j
        BY <1>1, <1>2, ListType
      <3> QED
        BY <1>1, <2>2, <3>1 DEF OrderInv, RowsOrdered, Ordered
    <2> HIDE DEF a, taken, completed, u
    <2>7. /\ OwnIsThere' /\ Left' = Left /\ RowsOrdered'
          /\ Held(inflight', "in") = Held(inflight, "in")
          /\ Held(reapable', "in") = Held(reapable, "in")
          /\ Held(inflight', "out")
               = Others(inflight, i, "out") \cup IF completed THEN {} ELSE Load(taken)
      BY <1>1, <2>1, <2>2, <2>3, <2>4, ProgressHolds
    <2>8. FillsFirst'
      BY <1>1, <2>1, <2>2, <2>3, <2>4, ProgressFills
    <2>9. Coming("in")' = Coming("in")
      BY <2>7 DEF Coming
    <2>10. a \in Nat /\ a .. a = {a}
      BY <2>2, BoundsAssumption DEF Packets
    <2>11. Held(inflight', "out") = Held(inflight, "out") \ {a}
      BY <2>2, <2>5, <2>7
    <2>12. /\ a .. a \subseteq Coming("out") /\ Coming("out")' = Coming("out") \ (a .. a)
           /\ \A q \in Coming("out")' : a < q
      <3>1. Coming("out") = Held(inflight, "out") /\ Coming("out")' = Held(inflight', "out")
        BY DEF Coming
      <3> QED
        BY <2>2, <2>5, <2>6, <2>7, <2>10, <2>11, <3>1
    <2>13. seen'["out"] = seen["out"] \o Run(a, a) /\ seen'["in"] = seen["in"]
      <3>1. seen["out"] \in Seq(Packets)
        BY <1>1, DirTypes DEF Dirs
      <3>2. seen'["out"] = Append(seen["out"], a) /\ seen'["in"] = seen["in"]
        BY <1>1, <2>1 DEF TypeOK, Dirs
      <3> QED
        BY <2>2, <3>1, <3>2, OnePacket
    <2>14. Passes("out")' /\ Missing("out")' = Missing("out") /\ Delivers("out")
      <3>1. a <= a
        BY <2>10
      <3> QED
        BY <1>1, <2>10, <2>12, <2>13, <3>1, OrderFacts, SomeComeOut DEF Dirs
    <2>15. Passes("in")' /\ Missing("in")' = Missing("in") /\ Stays("in")
      BY <1>1, <2>9, <2>13, OrderFacts, NothingPasses DEF Dirs
    <2>16. LossesPaid'
      BY <1>1, <2>7, <2>14, <2>15, OrderFacts DEF LossesPaid
    <2> QED
      BY <2>7, <2>8, <2>14, <2>15, <2>16 DEF OrderStep, ChannelStep, Dirs
  <1> QED
    BY <1>3, <1>4


-----------------------------------------------------------------------------
(* Both directions are channels *)

LEMMA OrderInit ==
    ASSUME Init
    PROVE  OrderInv
  <1>1. NothingPilesUp /\ inflight = <<>> /\ reapable = <<>> /\ DOMAIN inflight = {}
        /\ DOMAIN reapable = {} /\ call.at = "idle"
        /\ \A dir \in Dirs : sent[dir] = 0 /\ seen[dir] = <<>> /\ given[dir] = 0
    BY InitHolds, EmptySeq, IdleAt DEF Init
  <1>2. \A dir : Held(inflight, dir) = {} /\ Held(reapable, dir) = {}
    BY <1>1 DEF Held
  <1>3. RowsOrdered /\ FillsFirst /\ OwnIsThere
    BY <1>1, <1>2 DEF RowsOrdered, Ordered, FillsFirst, OwnIsThere, Waiting
  <1>4. \A dir \in Dirs : Coming(dir) = {}
    BY <1>2 DEF Coming
  <1>5. \A dir \in Dirs : Passes(dir)
    BY <1>1, <1>4, EmptySeq DEF Passes, Passing
  <1>6. Missing("in") = 0 /\ Missing("out") = 0
    <2> SUFFICES ASSUME NEW dir \in Dirs PROVE Missing(dir) = 0
      BY DEF Dirs
    <2>1. Lost(sent[dir], seen[dir], Coming(dir)) = {}
      BY <1>1 DEF Lost
    <2>2. Ends({}) = {}
      BY DEF Ends
    <2> QED
      BY <2>1, <2>2, FS_EmptySet DEF Missing
  <1>7. Left = 0
    <2>1. \A dir : Number(inflight, dir) = 0 /\ Number(reapable, dir) = 0
      <3> SUFFICES ASSUME NEW dir PROVE Number(inflight, dir) = 0 /\ Number(reapable, dir) = 0
        OBVIOUS
      <3>1. {i \in DOMAIN inflight : inflight[i].dir = dir} = {}
            /\ {i \in DOMAIN reapable : reapable[i].dir = dir} = {}
        BY <1>1
      <3> QED
        BY <3>1, FS_EmptySet DEF Number
    <2> QED
      BY <1>1, <2>1 DEF Left, Waiting
  <1>8. LossesPaid
    BY <1>1, <1>6, <1>7 DEF LossesPaid, Dirs
  <1> QED
    BY <1>1, <1>3, <1>5, <1>8 DEF OrderInv

LEMMA StutterSteps ==
    ASSUME OrderInv, UNCHANGED vars
    PROVE  OrderStep
  <1>1. UNCHANGED <<call, inflight, reapable, sent, seen, given>>
    BY DEF vars
  <1>2. OwnIsThere' /\ Left' = Left
    BY <1>1 DEF OrderInv, OwnIsThere, Left, Waiting
  <1> QED
    BY <1>1, <1>2, QuietSteps

LEMMA NextSteps ==
    ASSUME OrderInv, Next
    PROVE  OrderStep
  BY BeginTransferSteps, UrbFailsSteps, SubmitWriteSteps, SubmitReadSteps,
     ThrowBeforeSubmitSteps, ReapUnknownSteps, ReapReadSteps, ReapCancelledSteps,
     ReapWriteSteps, ReapTimesOutSteps, DiscardSteps, DeviceSendsSteps,
     DeviceEndsEmptySteps, DeviceTakesSteps
  DEF Next

LEMMA OrderKept ==
    ASSUME OrderInv, [Next]_vars
    PROVE  OrderInv' /\ OrderStep
  <1>1. OrderStep
    BY NextSteps, StutterSteps
  <1>2. NothingPilesUp'
    BY NextKeeps, StutterKeeps DEF OrderInv
  <1> QED
    BY <1>1, <1>2 DEF OrderStep, OrderInv

\* A step of a direction is one of the abstract channel, or none.
LEMMA InSteps ==
    ASSUME ChannelStep("in")
    PROVE  [In!Next]_(In!channel)
  <1>1. CASE Stays("in")
    BY <1>1 DEF Stays, In!channel
  <1>2. CASE Sends("in")
    BY <1>2 DEF Sends, In!Next, In!Send
  <1>3. CASE GivesUp("in")
    BY <1>3 DEF GivesUp, In!Next, In!GiveUp
  <1>4. CASE Delivers("in")
    BY <1>4 DEF Delivers, In!Next, In!Deliver, In!LastSeen, LastOf, Run
  <1> QED
    BY <1>1, <1>2, <1>3, <1>4 DEF ChannelStep

LEMMA OutSteps ==
    ASSUME ChannelStep("out")
    PROVE  [Out!Next]_(Out!channel)
  <1>1. CASE Stays("out")
    BY <1>1 DEF Stays, Out!channel
  <1>2. CASE Sends("out")
    BY <1>2 DEF Sends, Out!Next, Out!Send
  <1>3. CASE GivesUp("out")
    BY <1>3 DEF GivesUp, Out!Next, Out!GiveUp
  <1>4. CASE Delivers("out")
    BY <1>4 DEF Delivers, Out!Next, Out!Deliver, Out!LastSeen, LastOf, Run
  <1> QED
    BY <1>1, <1>2, <1>3, <1>4 DEF ChannelStep

LEMMA ChannelsInit ==
    ASSUME Init
    PROVE  In!Init /\ Out!Init
  <1>1. \A dir \in Dirs : sent[dir] = 0 /\ seen[dir] = <<>> /\ given[dir] = 0
    BY DEF Init
  <1>2. Gaps(<<>>) = 0
    <2>1. {i \in DOMAIN <<>> : <<>>[i] # (IF i = 1 THEN 1 ELSE <<>>[i - 1] + 1)} = {}
      BY EmptySeq
    <2> QED
      BY <2>1, FS_EmptySet DEF Gaps
  <1>3. \A dir \in Dirs : Unused(dir) = 0
    BY <1>1, <1>2 DEF Unused
  <1> QED
    BY <1>1, <1>3 DEF In!Init, Out!Init, Dirs

\* What ReadBulk gives to its stream is what the device sent, in order and none
\* twice; a run of packets is missing only where a transfer was given up, however
\* stale completions and discarded URBs interleave with the reads that follow
\* (Device.cpp, Submit and Reap).
THEOREM ReadsAlwaysChannel == Spec => ReadsAreChannel
  <1>1. Init => OrderInv /\ In!Init
    BY OrderInit, ChannelsInit
  <1>2. OrderInv /\ [Next]_vars => OrderInv' /\ [In!Next]_(In!channel)
    BY OrderKept, InSteps DEF OrderStep, Dirs
  <1> QED
    BY <1>1, <1>2, PTL DEF Spec, ReadsAreChannel, In!Spec

\* What the device takes is what WriteBulk was given, in order and none twice; a run
\* of packets is missing only where a transfer was given up, although a write may
\* return before its own URB was taken.
THEOREM WritesAlwaysChannel == Spec => WritesAreChannel
  <1>1. Init => OrderInv /\ Out!Init
    BY OrderInit, ChannelsInit
  <1>2. OrderInv /\ [Next]_vars => OrderInv' /\ [Out!Next]_(Out!channel)
    BY OrderKept, OutSteps DEF OrderStep, Dirs
  <1> QED
    BY <1>1, <1>2, PTL DEF Spec, WritesAreChannel, Out!Spec
=============================================================================
