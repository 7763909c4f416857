------------------------------ MODULE UrbQueue ------------------------------
(***************************************************************************)
(* Bulk transfers of the Linux backend (backend/linux/usb/Device.cpp):     *)
(* one call of WriteBulk or ReadBulk at a time, a loop of URBs on the      *)
(* stack of the caller, each submitted to usbfs, reaped, and discarded     *)
(* when poll times out.  usbfs is external: it keeps URBs in the order of  *)
(* their submission, reports a completed one by the address it was         *)
(* submitted from, discards the oldest one of an address, and reports a    *)
(* discarded one like a completed one.  The kernel copies what is written  *)
(* when the URB is submitted and what was read when it is reaped.          *)
(***************************************************************************)
EXTENDS Integers, SequencesExt, FiniteSets

CONSTANTS ReadFrames,   \* where the Urb of a ReadBulk may be on the stack
          WriteFrames,  \* where that of a WriteBulk may be
          Buffers,      \* BufferAllocator::Buffers
          Size,         \* packets of a full transfer, Urb::GetTransferSize
          MaxPackets,   \* bound: packets sent in each direction
          MaxFaults     \* bound: timeouts, cancellations and failed URBs

Dirs == {"in", "out"}
Frames == [dir \in Dirs |-> IF dir = "in" THEN ReadFrames ELSE WriteFrames]
Addresses == ReadFrames \cup WriteFrames

\* A read can be told from a write by its address.
ASSUME SeparateFrames == ReadFrames \cap WriteFrames = {}
ASSUME SizeAssumption == Size \in Nat \ {0} /\ Buffers \in Nat \ {0}
ASSUME BoundsAssumption == MaxPackets \in Nat /\ MaxFaults \in Nat

VARIABLES call,       \* the transfer: direction, address of its Urb, what comes next
          allocated,  \* _bufferAllocated: buffers in use
          buffer,     \* what is in buffer 0
          inflight,   \* usbfs: submitted URBs
          reapable,   \* usbfs: completed and discarded URBs not yet reaped
          sent,       \* [dir]: packets that went in
          seen,       \* [dir]: numbers of the packets that came out
          given,      \* [dir]: transfers given up, a history
          faults

vars == <<call, allocated, buffer, inflight, reapable, sent, seen, given, faults>>

Idle == [at |-> "idle"]

Packets == 1 .. MaxPackets

Transfers == [at : {"submit", "wait", "timedout"}, dir : Dirs, addr : Addresses,
              index : 0 .. Buffers - 1, len : 0 .. Size]
Urbs == {u \in [dir : Dirs, addr : Addresses, data : Seq(Packets), done : Nat] :
            u.addr \in Frames[u.dir] /\ Len(u.data) <= Size}

\* A URB that usbfs still works on is not finished.
Unfinished == {u \in Urbs : /\ u.dir = "in" => Len(u.data) < Size /\ u.done = 0
                            /\ u.data # <<>> => u.done < Len(u.data)}

TypeOK ==
    /\ call = Idle \/ (call \in Transfers /\ call.addr \in Frames[call.dir])
    /\ allocated \subseteq 0 .. Buffers - 1
    /\ buffer \in [1 .. Size -> 0 .. MaxPackets]
    /\ inflight \in Seq(Unfinished) /\ reapable \in Seq(Urbs)
    /\ sent \in [Dirs -> 0 .. MaxPackets] /\ seen \in [Dirs -> Seq(Packets)]
    /\ given \in [Dirs -> Nat] /\ faults \in 0 .. MaxFaults

Init == /\ call = Idle /\ allocated = {} /\ buffer = [i \in 1 .. Size |-> 0]
        /\ inflight = <<>> /\ reapable = <<>>
        /\ sent = [dir \in Dirs |-> 0] /\ seen = [dir \in Dirs |-> <<>>]
        /\ given = [dir \in Dirs |-> 0] /\ faults = 0
-----------------------------------------------------------------------------
(* BufferAllocator *)

FreeBuffers == {i \in 0 .. Buffers - 1 : i \notin allocated}

\* Allocate takes the first free buffer; it throws when there is none.
Allocate(i) == /\ i \in FreeBuffers /\ \A j \in FreeBuffers : i <= j
               /\ allocated' = allocated \cup {i}

\* Free, from the destructor of Urb, on every way out of a transfer.
Free == allocated' = allocated \ {call.index}

EndCall == call' = Idle /\ Free
-----------------------------------------------------------------------------
(* WriteBulk and ReadBulk *)

BeginTransfer(dir) ==
    /\ call = Idle
    /\ \E a \in Frames[dir], i \in 0 .. Buffers - 1 :
          /\ Allocate(i)
          /\ call' = [at |-> "submit", dir |-> dir, addr |-> a, index |-> i, len |-> 0]
    /\ UNCHANGED <<buffer, inflight, reapable, sent, seen, given, faults>>

\* WriteBulk: the next part of the stream goes into the buffer and is submitted.
SubmitWrite(n) ==
    /\ call.at = "submit" /\ call.dir = "out"
    /\ sent["out"] + n <= MaxPackets
    /\ LET data == [i \in 1 .. n |-> sent["out"] + i]
       IN  /\ buffer' = [i \in 1 .. Size |-> IF i <= n THEN data[i] ELSE buffer[i]]
           /\ inflight' = Append(inflight, [dir |-> "out", addr |-> call.addr,
                                            data |-> data, done |-> 0])
    /\ sent' = [sent EXCEPT !["out"] = @ + n]
    /\ call' = [call EXCEPT !.at = "wait", !.len = n]
    /\ UNCHANGED <<allocated, reapable, seen, given, faults>>

\* ReadBulk: submit a URB for a full transfer.
SubmitRead ==
    /\ call.at = "submit" /\ call.dir = "in"
    /\ inflight' = Append(inflight, [dir |-> "in", addr |-> call.addr, data |-> <<>>,
                                     done |-> 0])
    /\ call' = [call EXCEPT !.at = "wait"]
    /\ UNCHANGED <<allocated, buffer, reapable, sent, seen, given, faults>>

\* Mutant: the exception comes after the URB was submitted.
ThrowAfterSubmit ==
    /\ call.at = "wait" /\ call.dir = "out"
    /\ EndCall
    /\ UNCHANGED <<buffer, inflight, reapable, sent, seen, given, faults>>

\* The ioctl fails, or the stream that is written was cancelled: nothing is submitted.
ThrowBeforeSubmit ==
    /\ call.at = "submit"
    /\ EndCall
    /\ UNCHANGED <<buffer, inflight, reapable, sent, seen, given, faults>>

\* Mutant: any completion will do.
MineAny(u) == TRUE

\* Does this URB end the loop of Submit?  Addresses are all that is compared.
Mine(u) == u.addr = call.addr

\* Reaping a read copies its data to buffer 0, whoever that belongs to now.
Copied(u) == [i \in 1 .. Size |-> IF u.dir = "in" /\ i <= Len(u.data) THEN u.data[i]
                                                                  ELSE buffer[i]]

\* Urb::Recv: actual_length bytes of the buffer go to the stream.
Received(u) == SubSeq(Copied(u), 1, Len(u.data))

\* Submit drops the completion of another URB and goes on reaping.
ReapUnknown ==
    /\ call.at = "wait" /\ reapable # <<>>
    /\ ~Mine(Head(reapable))
    /\ buffer' = Copied(Head(reapable))
    /\ reapable' = Tail(reapable)
    /\ UNCHANGED <<call, allocated, inflight, sent, seen, given, faults>>

\* A read goes to the stream, and goes on if the transfer was full.
ReapRead ==
    /\ call.at = "wait" /\ call.dir = "in" /\ reapable # <<>>
    /\ Mine(Head(reapable))
    /\ LET u == Head(reapable)
       IN  /\ buffer' = Copied(u)
           /\ seen' = [seen EXCEPT !["in"] = @ \o Received(u)]
           /\ IF Len(u.data) = Size
              THEN call' = [call EXCEPT !.at = "submit"] /\ UNCHANGED allocated
              ELSE EndCall
    /\ reapable' = Tail(reapable)
    /\ UNCHANGED <<inflight, sent, given, faults>>

\* The stream was cancelled and throws: what was read is lost.
ReapCancelled ==
    /\ call.at = "wait" /\ call.dir = "in" /\ reapable # <<>>
    /\ Mine(Head(reapable)) /\ faults < MaxFaults
    /\ buffer' = Copied(Head(reapable))
    /\ reapable' = Tail(reapable)
    /\ EndCall
    /\ given' = [given EXCEPT !["in"] = @ + 1] /\ faults' = faults + 1
    /\ UNCHANGED <<inflight, sent, seen>>

\* A write goes on if the transfer was full; actual_length and status are not looked at.
ReapWrite ==
    /\ call.at = "wait" /\ call.dir = "out" /\ reapable # <<>>
    /\ Mine(Head(reapable))
    /\ IF call.len = Size
       THEN call' = [call EXCEPT !.at = "submit"] /\ UNCHANGED allocated
       ELSE EndCall
    /\ buffer' = Copied(Head(reapable))
    /\ reapable' = Tail(reapable)
    /\ UNCHANGED <<inflight, sent, seen, given, faults>>

\* Mutant: after a timeout the buffer is submitted again.
ReapTimesOutResubmits ==
    /\ call.at = "wait" /\ reapable = <<>> /\ faults < MaxFaults
    /\ faults' = faults + 1
    /\ inflight' = Append(inflight, [dir |-> call.dir, addr |-> call.addr, done |-> 0,
                                     data |-> SubSeq(buffer, 1, call.len)])
    /\ UNCHANGED <<call, allocated, buffer, reapable, sent, seen, given>>

\* Reap: nothing to pick up, poll times out, and still nothing to pick up.
ReapTimesOut ==
    /\ call.at = "wait" /\ reapable = <<>> /\ faults < MaxFaults
    /\ faults' = faults + 1
    /\ call' = [call EXCEPT !.at = "timedout"]
    /\ UNCHANGED <<allocated, buffer, inflight, reapable, sent, seen, given>>

\* Discard, then the exception.  usbfs looks the URB up by its address.
Discard ==
    /\ call.at = "timedout"
    /\ LET pending == {i \in DOMAIN inflight : inflight[i].addr = call.addr}
       IN  IF pending = {} THEN UNCHANGED <<inflight, reapable>>
           ELSE LET i == CHOOSE j \in pending : \A k \in pending : j <= k
                IN  /\ reapable' = Append(reapable, inflight[i])
                    /\ inflight' = RemoveAt(inflight, i)
    /\ given' = [given EXCEPT ![call.dir] = @ + 1]
    /\ EndCall
    /\ UNCHANGED <<buffer, sent, seen, faults>>
-----------------------------------------------------------------------------
(* The device and the kernel *)

\* The URB an endpoint is working on.
First(dir) == CHOOSE i \in DOMAIN inflight :
                 inflight[i].dir = dir /\ \A k \in 1 .. i - 1 : inflight[k].dir # dir
Busy(dir) == \E i \in DOMAIN inflight : inflight[i].dir = dir

\* The URB at index i of inflight becomes u, and is completed if that says so.
Progress(i, u, completed) ==
    IF completed THEN /\ inflight' = RemoveAt(inflight, i)
                      /\ reapable' = Append(reapable, u)
                 ELSE inflight' = [inflight EXCEPT ![i] = u] /\ UNCHANGED reapable

\* A short packet ends a transfer.
DeviceSends(short) ==
    /\ Busy("in") /\ sent["in"] < MaxPackets
    /\ LET i == First("in")
           u == [inflight[i] EXCEPT !.data = Append(@, sent["in"] + 1)]
       IN  Progress(i, u, short \/ Len(u.data) = Size)
    /\ sent' = [sent EXCEPT !["in"] = @ + 1]
    /\ UNCHANGED <<call, allocated, buffer, seen, given, faults>>

\* A transfer may end with no data at all.
DeviceEndsEmpty ==
    /\ Busy("in")
    /\ LET i == First("in") IN inflight[i].data = <<>> /\ Progress(i, inflight[i], TRUE)
    /\ UNCHANGED <<call, allocated, buffer, sent, seen, given, faults>>

DeviceTakes ==
    /\ Busy("out")
    /\ LET i == First("out")
           u == inflight[i]
       IN  IF u.data = <<>> THEN Progress(i, u, TRUE) /\ UNCHANGED seen
           ELSE /\ seen' = [seen EXCEPT !["out"] = Append(@, u.data[u.done + 1])]
                /\ Progress(i, [u EXCEPT !.done = @ + 1], u.done + 1 = Len(u.data))
    /\ UNCHANGED <<call, allocated, buffer, sent, given, faults>>

\* A URB fails with what it has done so far: a stall, a protocol error.
UrbFails(dir) ==
    /\ Busy(dir) /\ faults < MaxFaults
    /\ Progress(First(dir), inflight[First(dir)], TRUE)
    /\ given' = [given EXCEPT ![dir] = @ + 1] /\ faults' = faults + 1
    /\ UNCHANGED <<call, allocated, buffer, sent, seen>>

Next == \/ \E dir \in Dirs : BeginTransfer(dir) \/ UrbFails(dir)
        \/ \E n \in 0 .. Size : SubmitWrite(n)
        \/ SubmitRead \/ ThrowBeforeSubmit
        \/ ReapUnknown \/ ReapRead \/ ReapCancelled \/ ReapWrite
        \/ ReapTimesOut \/ Discard
        \/ \E short \in BOOLEAN : DeviceSends(short)
        \/ DeviceEndsEmpty \/ DeviceTakes

Spec == Init /\ [][Next]_vars
-----------------------------------------------------------------------------
(* Properties *)

Stale == Len(inflight) + Len(reapable) - (IF call.at = "wait" THEN 1 ELSE 0)

\* A completion is told by its address alone, and a discarded URB is reported
\* too: after a timeout a transfer may return on the completion of the one
\* before and leave its own URB behind.  It never runs away further than the
\* number of transfers that were given up: no more URBs are left behind.
LagBounded == Stale <= faults

\* Whatever ends a transfer, its buffer is free again, although usbfs may hold
\* a URB that points into it: the sixteen buffers do not run out.
BuffersReturned == allocated = IF call = Idle THEN {} ELSE {call.index}

\* A transfer is given up for a fault of its own.
GivenUp == given["in"] + given["out"]
GivenUpOnce == GivenUp + (IF call.at = "timedout" THEN 1 ELSE 0) <= faults

\* What ReadBulk hands to its stream is what the device sent, in order and
\* without repetition, in spite of stale completions that overwrite the buffer;
\* packets are missing only after a transfer was given up, once for each.
Gaps(s) == Cardinality({i \in DOMAIN s : s[i] # (IF i = 1 THEN 1 ELSE s[i - 1] + 1)})
Unused(dir) == given[dir] - Gaps(seen[dir])

In == INSTANCE BulkChannel WITH sent <- sent["in"], seen <- seen["in"], slack <- Unused("in")
ReadsAreChannel == In!Spec

\* What the device takes is what WriteBulk was given, likewise.
Out == INSTANCE BulkChannel WITH sent <- sent["out"], seen <- seen["out"], slack <- Unused("out")
WritesAreChannel == Out!Spec

\* Neither URBs nor buffers pile up, however transfers end (Device.cpp, BufferAllocator.h).
NothingPilesUp == TypeOK /\ LagBounded /\ BuffersReturned /\ GivenUpOnce
=============================================================================
