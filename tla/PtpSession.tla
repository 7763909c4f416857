----------------------------- MODULE PtpSession -----------------------------
(***************************************************************************)
(* Transactions over the bulk pipes: mtp/ptp/Session.cpp runs one at a     *)
(* time under its mutex, mtp/ptp/PipePacketer.cpp parses what the device   *)
(* sends, mtp/usb/BulkPipe.cpp lets another thread cancel the stream being *)
(* read.                                                                   *)
(*                                                                         *)
(* The device answers a command with a data message of one or more chunks  *)
(* (transfers; a short one ends the message) and a response.  A call that  *)
(* times out or is cancelled leaves the rest of its answer in the pipe, in *)
(* the middle of a message perhaps, for the next one to read.  A chunk     *)
(* that is not the head of a message carries arbitrary bytes where the     *)
(* parser looks for a header; that they are the identifier of the current  *)
(* transaction is left out.                                                *)
(*                                                                         *)
(* Left out: payloads sent to the device, error codes of the responses,    *)
(* and the wrap of the 32-bit transaction counter, of which MaxIds is a    *)
(* small stand-in that outlives every answer still in the pipe.            *)
(***************************************************************************)
EXTENDS Naturals, Sequences, SequencesExt

CONSTANTS
  MaxIds,      \* transaction identifiers in use at a time
  MaxChunks,   \* chunks of a data message
  MaxFaults    \* timeouts and aborts

ASSUME BoundsAreNat ==
  MaxIds \in Nat \ {0} /\ MaxChunks \in Nat \ {0} /\ MaxFaults \in Nat

\* A fault can spoil as many calls as a message has chunks: identifiers are not
\* used again before the answers to those calls are gone.
ASSUME IdsOutlive == MaxIds > MaxFaults * MaxChunks

Ids == 1..MaxIds
None == 0

Chunk == [tx : Ids, type : {"data", "response"}, part : 1..MaxChunks, of : 1..MaxChunks]

VARIABLES
  next,        \* _nextTransactionId
  tx,          \* _transaction->Id, None between transactions
  parser,      \* what the message parser makes of the current message
  got,         \* chunks in the caller's output stream
  cancelled,   \* the current stream has been cancelled
  aborting,    \* AbortCurrentTransaction: the identifier it has read
  outcome,     \* how the last transaction ended
  requests,    \* commands the device has not yet looked at
  pending,     \* what it is about to send
  pipe,        \* what it has sent
  truncated,   \* an abort has stopped the device in the middle of a message
  faults

device == <<requests, pending, pipe, truncated>>
vars == <<next, tx, parser, got, cancelled, aborting, outcome, device, faults>>

Message(t, type, n) ==
  [k \in 1..n |-> [tx |-> t, type |-> type, part |-> k, of |-> n]]

Answer(t, n) == Message(t, "data", n) \o Message(t, "response", 1)

IsHead(c) == c.part = 1
IsShort(c) == c.part = c.of

----------------------------------------------------------------------------
(* The host *)

(* Mutant: the parser outlives the call to Read.                           *)
ParserKept(p) == p

ParserFor(p) == "fresh"

(* Transaction: the identifier is taken, the command sent.                 *)
Begin ==
  /\ tx = None
  /\ tx' = next
  /\ next' = (next % MaxIds) + 1
  /\ parser' = ParserFor(parser) /\ got' = <<>> /\ cancelled' = FALSE
  /\ requests' = Append(requests, next)
  /\ UNCHANGED <<aborting, outcome, pending, pipe, truncated, faults>>

End(ok) ==
  /\ outcome' = [tx |-> tx, ok |-> ok, data |-> got]
  /\ tx' = None
  /\ UNCHANGED <<next, parser, got, cancelled, aborting>>

(* The write of the command times out, and the device never sees it.       *)
SendTimesOut ==
  /\ tx = None /\ faults < MaxFaults
  /\ faults' = faults + 1
  /\ outcome' = [tx |-> next, ok |-> FALSE, data |-> <<>>]
  /\ next' = (next % MaxIds) + 1
  /\ UNCHANGED <<tx, parser, got, cancelled, aborting, device>>

Incoming == Head(pipe)

Reading == tx # None /\ pipe # <<>>

Take == pipe' = Tail(pipe) /\ UNCHANGED <<requests, pending, truncated, faults>>

(* Mutant: messages of other transactions are not dropped.                 *)
MineOrNot(c) == TRUE

Mine(c) == c.tx = tx

(* After the short chunk of a message a new one is awaited, unless the     *)
(* size that was read says that this one goes on.                          *)
After(p, c) == IF IsShort(c) /\ p # "endless" THEN "fresh" ELSE p

Parsed(p) ==
  /\ parser' = After(p, Incoming)
  /\ cancelled' = IF parser' = "fresh" THEN FALSE ELSE cancelled
  /\ Take /\ UNCHANGED <<next, tx, aborting, outcome>>

(* The header, or the rest, of the data message of this transaction.       *)
ReceiveData ==
  /\ Reading /\ ~cancelled
  /\ \/ parser = "fresh" /\ IsHead(Incoming) /\ Mine(Incoming) /\ Incoming.type = "data"
     \/ parser = "data"
  /\ got' = Append(got, Incoming)
  /\ Parsed("data")

ReceiveResponse ==
  /\ Reading /\ ~cancelled
  /\ parser = "fresh" /\ IsHead(Incoming) /\ Mine(Incoming) /\ Incoming.type = "response"
  /\ End(TRUE) /\ Take

(* A message of another transaction, dropped to its end.  One that was cut *)
(* short takes from the next message what its size lacks.                  *)
DropMessage ==
  /\ Reading /\ ~cancelled
  /\ \/ /\ parser = "fresh" /\ IsHead(Incoming) /\ ~Mine(Incoming)
        /\ Parsed("foreign")
     \/ parser = "foreign" /\ Parsed("foreign")
     \/ parser = "foreign" /\ IsHead(Incoming) /\ Parsed("endless")
  /\ UNCHANGED got

(* The rest of a message whose head was read by another transaction: the   *)
(* size is any, a short one, one beyond what will come, or invalid.        *)
MisreadHeader ==
  /\ Reading /\ ~cancelled
  /\ parser = "fresh" /\ ~IsHead(Incoming)
  /\ \/ \E p \in {"foreign", "endless"} : Parsed(p) /\ UNCHANGED got
     \/ End(FALSE) /\ Take

Swallow ==
  /\ Reading /\ ~cancelled
  /\ parser = "endless"
  /\ Parsed("endless") /\ UNCHANGED got

ReceiveCancelled == Reading /\ cancelled /\ End(FALSE) /\ Take

Quiet == requests = <<>> /\ pending = <<>>

(* Nothing comes in time, of a device that is slow or has nothing to say.  *)
ReadTimesOut ==
  /\ tx # None /\ pipe = <<>>
  /\ \/ Quiet /\ UNCHANGED faults
     \/ ~Quiet /\ faults < MaxFaults /\ faults' = faults + 1
  /\ End(FALSE) /\ UNCHANGED device

----------------------------------------------------------------------------
(* AbortCurrentTransaction, in another thread: the identifier is read,     *)
(* then whatever stream is current is cancelled, then the device is told.  *)

AbortBegins ==
  /\ aborting = [tx |-> None, told |-> TRUE] /\ tx # None /\ faults < MaxFaults
  /\ faults' = faults + 1
  /\ aborting' = [tx |-> tx, told |-> FALSE]
  /\ UNCHANGED <<next, tx, parser, got, cancelled, outcome, device>>

(* No stream is current between two messages.                              *)
AbortCancels ==
  /\ ~aborting.told
  /\ \/ tx # None /\ cancelled' = TRUE
     \/ (tx = None \/ parser = "fresh") /\ UNCHANGED cancelled
  /\ aborting' = [aborting EXCEPT !.told = TRUE]
  /\ UNCHANGED <<next, tx, parser, got, outcome, device, faults>>

(* What is about to be sent is one answer, or the rest of one.             *)
Serving(t) == pending # <<>> /\ Head(pending).tx = t

(* The control request; a device that is serving the transaction stops, in *)
(* the middle of a message perhaps.                                        *)
AbortTells ==
  /\ aborting.told /\ aborting.tx # None
  /\ \/ /\ aborting.tx \notin Range(requests)
        /\ UNCHANGED requests
     \/ \E i \in DOMAIN requests :
           requests[i] = aborting.tx /\ requests' = RemoveAt(requests, i)
  /\ pending' = IF Serving(aborting.tx) THEN <<>> ELSE pending
  /\ truncated' = \/ truncated
                  \/ Serving(aborting.tx) /\ ~IsHead(Head(pending))
  /\ aborting' = [tx |-> None, told |-> TRUE]
  /\ UNCHANGED <<next, tx, parser, got, cancelled, outcome, pipe, faults>>

----------------------------------------------------------------------------
(* The device *)

DeviceServes ==
  /\ pending = <<>> /\ requests # <<>>
  /\ \E n \in 1..MaxChunks : pending' = Answer(Head(requests), n)
  /\ requests' = Tail(requests)
  /\ UNCHANGED <<next, tx, parser, got, cancelled, aborting, outcome, pipe, truncated, faults>>

DeviceSends ==
  /\ pending # <<>>
  /\ pipe' = Append(pipe, Head(pending)) /\ pending' = Tail(pending)
  /\ UNCHANGED <<next, tx, parser, got, cancelled, aborting, outcome, requests, truncated, faults>>

----------------------------------------------------------------------------

Init ==
  /\ next = 1 /\ tx = None
  /\ parser = "fresh" /\ got = <<>> /\ cancelled = FALSE
  /\ aborting = [tx |-> None, told |-> TRUE]
  /\ outcome = [tx |-> None, ok |-> FALSE, data |-> <<>>]
  /\ requests = <<>> /\ pending = <<>> /\ pipe = <<>>
  /\ truncated = FALSE /\ faults = 0

Receive ==
  \/ ReceiveData \/ ReceiveResponse \/ DropMessage \/ MisreadHeader \/ Swallow
  \/ ReceiveCancelled

Abort == AbortBegins \/ AbortCancels \/ AbortTells

Next ==
  \/ Begin \/ SendTimesOut \/ Receive \/ ReadTimesOut
  \/ Abort
  \/ DeviceServes \/ DeviceSends

Spec == Init /\ [][Next]_vars

(* The caller goes on making calls, every read ends, with a transfer or    *)
(* its timeout, and the device answers what it has received.               *)
FairSpec ==
  /\ Spec
  /\ WF_vars(Begin) /\ WF_vars(Receive) /\ WF_vars(ReadTimesOut)
  /\ WF_vars(AbortCancels \/ AbortTells)
  /\ WF_vars(DeviceServes) /\ WF_vars(DeviceSends)

----------------------------------------------------------------------------
(* Properties *)

TypeOK ==
  /\ next \in Ids /\ tx \in Ids \cup {None}
  /\ parser \in {"fresh", "data", "foreign", "endless"}
  /\ got \in Seq(Chunk) /\ Len(got) <= MaxChunks
  /\ cancelled \in BOOLEAN
  /\ aborting \in [tx : Ids \cup {None}, told : BOOLEAN]
  /\ outcome \in [tx : Ids \cup {None}, ok : BOOLEAN, data : Seq(Chunk)]
  /\ requests \in Seq(Ids) /\ pending \in Seq(Chunk) /\ pipe \in Seq(Chunk)
  /\ truncated \in BOOLEAN /\ faults \in 0..MaxFaults

(* A transaction that succeeds returns the data the device sent for it,    *)
(* all of it and nothing else, whatever earlier calls left in the pipe:    *)
(* PipePacketer::Read drops what belongs to others and starts anew at the  *)
(* end of each message.  Only after an abort that cut a message short may  *)
(* a transaction succeed without data, its message dropped with the stump. *)
WholeAnswer ==
  outcome.ok =>
    IF outcome.data = <<>> THEN truncated
    ELSE outcome.data = Message(outcome.tx, "data", outcome.data[1].of)

(* However transactions fail, in the middle of a message even, calls       *)
(* succeed again once the device answers in time and nobody aborts: what   *)
(* is left in the pipe spoils finitely many of them.                       *)
Recovers == <>[](tx = None => outcome.ok)

\* An answer that is given to a caller is the whole answer to that call, through
\* timeouts, aborts and what they leave in the pipe (PipePacketer.cpp).
AnswersWhole == TypeOK /\ WholeAnswer
=============================================================================
