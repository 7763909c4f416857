--------------------------- MODULE PtpSessionProofs ---------------------------
(* A call is given its own answer, the whole of it, whatever earlier calls    *)
(* left in the pipe: for messages of any length and any number of faults, as  *)
(* long as identifiers outlive the answers that nobody waits for.             *)
EXTENDS PtpSession, Integers, TLAPS

\* What is on its way: what the device has sent and what it is about to send.
Line == pipe \o pending

IsStart(c) == c.type = "data" /\ IsHead(c)

\* d comes right after c in an answer.
Follows(c, d) ==
  /\ c.type = "data" /\ d.tx = c.tx /\ d.of \in 1..MaxChunks
  /\ IF IsShort(c) THEN d.type = "response" /\ d.part = 1 /\ d.of = 1
     ELSE d.type = "data" /\ d.part = c.part + 1 /\ d.of = c.of

\* The line is made of answers, some of them cut short by an abort.
LineSound ==
  /\ \A i \in DOMAIN Line : Line[i].part <= Line[i].of
  /\ \A i \in DOMAIN Line : Line[i].type = "response" => IsHead(Line[i]) /\ IsShort(Line[i])
  /\ \A i \in DOMAIN Line : i + 1 \in DOMAIN Line =>
        \/ Follows(Line[i], Line[i + 1])
        \/ IsStart(Line[i + 1]) /\ (IsShort(Line[i]) \/ truncated)
  /\ Line # <<>> => IsShort(Line[Len(Line)]) \/ truncated

\* The answer to the current call is the last one on the line, and uncut but for
\* its end.
OwnSound == tx # None =>
  /\ \A i \in DOMAIN requests : requests[i] = tx => i = Len(requests)
  /\ \A i \in DOMAIN Line : Line[i].tx = tx =>
        /\ requests = <<>>
        /\ i + 1 \in DOMAIN Line => Follows(Line[i], Line[i + 1])

\* What has been received of it is its beginning, and the rest comes next.
GotSound == tx # None =>
  /\ parser = "data" => got # <<>>
  /\ got # <<>> =>
        LET n == got[1].of
            c == got[Len(got)]
        IN  /\ \A k \in DOMAIN got : got[k] = [tx |-> tx, type |-> "data", part |-> k, of |-> n]
            /\ Len(got) <= n
            /\ parser = IF Len(got) < n THEN "data" ELSE "fresh"
            /\ requests = <<>>
            /\ Line # <<>> => Follows(c, Line[1])

\* Data of the current call is lost only to the stump of a message that was cut.
ParserSound == tx # None =>
  /\ parser = "foreign" /\ ~truncated => Line # <<>> /\ ~IsHead(Line[1])
  /\ got = <<>> /\ Line # <<>> /\ Line[1].tx = tx /\ ~IsStart(Line[1])
        => truncated \/ parser = "endless"

\* How long ago an identifier was used, in calls.
Age(id) == IF id < next THEN next - id ELSE next - id + MaxIds
Outstanding == {requests[i] : i \in DOMAIN requests} \cup {Line[i].tx : i \in DOMAIN Line}

\* What the faults so far can still spoil: the chunks of a broken message that
\* later calls misread, and the stream that an abort may yet cancel.
Lead == IF (tx = None \/ parser = "fresh") /\ Line # <<>> /\ ~IsHead(Line[1])
        THEN Line[1].of - Line[1].part + 1 ELSE 0
Cancelling == (IF tx # None /\ cancelled THEN MaxChunks ELSE 0)
              + (IF aborting.told THEN 0 ELSE MaxChunks)
Spoilt == faults * MaxChunks - Lead - Cancelling

\* Every call that was left without its answer was paid for by a fault.
AgeSound ==
  /\ Spoilt \in Nat
  /\ tx # None => Age(tx) = 1
  /\ \A id \in Outstanding \ {tx} : Age(id) <= Spoilt + (IF tx = None THEN 0 ELSE 1)

SessionInv == /\ TypeOK /\ LineSound /\ OwnSound /\ GotSound /\ ParserSound
              /\ AgeSound /\ WholeAnswer

-----------------------------------------------------------------------------
(* The line *)

\* Sequences, element by element.
LEMMA ConcatIs ==
    ASSUME NEW S, NEW s \in Seq(S), NEW t \in Seq(S)
    PROVE  /\ s \o t \in Seq(S) /\ Len(s \o t) = Len(s) + Len(t)
           /\ DOMAIN (s \o t) = 1..Len(s) + Len(t)
           /\ Len(s) \in Nat /\ Len(t) \in Nat
           /\ \A i \in 1..Len(s) : (s \o t)[i] = s[i]
           /\ \A i \in 1..Len(t) : (s \o t)[Len(s) + i] = t[i]
  OBVIOUS

\* A sequence without elements.
LEMMA EmptyIs ==
    ASSUME NEW S, NEW q \in Seq(S)
    PROVE  q = <<>> <=> Len(q) = 0
  OBVIOUS

\* A sequence without its first element.
LEMMA TailIs ==
    ASSUME NEW S, NEW s \in Seq(S), s # <<>>
    PROVE  /\ Tail(s) \in Seq(S) /\ Len(Tail(s)) = Len(s) - 1 /\ Len(s) \in Nat /\ Len(s) >= 1
           /\ DOMAIN Tail(s) = 1..Len(s) - 1 /\ DOMAIN s = 1..Len(s)
           /\ \A i \in 1..Len(s) - 1 : Tail(s)[i] = s[i + 1] /\ i + 1 \in 1..Len(s)
           /\ (Tail(s) = <<>> <=> Len(s) = 1)
  <1>1. Len(s) \in Nat /\ Len(s) >= 1 /\ DOMAIN s = 1..Len(s)
    OBVIOUS
  <1>2. Tail(s) \in Seq(S) /\ Len(Tail(s)) = Len(s) - 1
    OBVIOUS
  <1>3. \A i \in 1..Len(s) - 1 : Tail(s)[i] = s[i + 1] /\ i + 1 \in 1..Len(s)
    BY <1>1
  <1>4. Tail(s) = <<>> <=> Len(s) = 1
    <2> DEFINE q == Tail(s)
    <2>1. q \in Seq(S) /\ Len(q) = Len(s) - 1
      BY <1>2
    <2> HIDE DEF q
    <2>2. q = <<>> <=> Len(q) = 0
      BY <2>1, EmptyIs
    <2> QED
      BY <1>1, <2>1, <2>2 DEF q
  <1> QED
    BY <1>1, <1>2, <1>3, <1>4

\* The line's chunks are those of its two parts.
LEMMA LineIs ==
    ASSUME TypeOK
    PROVE  /\ Line \in Seq(Chunk)
           /\ DOMAIN Line = 1..Len(Line) /\ Len(Line) \in Nat
           /\ Len(Line) = Len(pipe) + Len(pending)
           /\ Len(pipe) \in Nat /\ Len(pending) \in Nat
           /\ \A i \in 1..Len(pipe) : Line[i] = pipe[i]
           /\ \A i \in 1..Len(pending) : Line[Len(pipe) + i] = pending[i]
           /\ (Line = <<>> <=> Len(Line) = 0)
  <1>1. pipe \in Seq(Chunk) /\ pending \in Seq(Chunk)
    BY DEF TypeOK
  <1> QED
    BY <1>1 DEF Line

\* What a chunk of the line is.
LEMMA ChunkIs ==
    ASSUME TypeOK, NEW i \in DOMAIN Line
    PROVE  /\ Line[i] \in Chunk /\ Line[i].tx \in Ids /\ Line[i].type \in {"data", "response"}
           /\ Line[i].part \in 1..MaxChunks /\ Line[i].of \in 1..MaxChunks
  <1>1. Line[i] \in Chunk
    BY LineIs
  <1> QED
    BY <1>1 DEF Chunk

\* A chunk is read: the line moves up.
Taken == pipe # <<>> /\ Take

\* The line moves up by a chunk.
LEMMA TakenIs ==
    ASSUME TypeOK, Taken
    PROVE  /\ 1 \in DOMAIN Line /\ Line # <<>> /\ Line[1] = Incoming
           /\ Line' = Tail(Line)
           /\ DOMAIN Line' = 1..Len(Line) - 1 /\ Len(Line') = Len(Line) - 1
           /\ \A i \in DOMAIN Line' : i + 1 \in DOMAIN Line /\ Line'[i] = Line[i + 1]
           /\ (Line' = <<>> <=> Len(Line) = 1)
           /\ UNCHANGED <<requests, truncated, faults>>
  <1>1. pipe \in Seq(Chunk) /\ pending \in Seq(Chunk)
    BY DEF TypeOK
  <1>2. pipe' = Tail(pipe) /\ pending' = pending /\ pipe # <<>> /\ UNCHANGED <<requests, truncated, faults>>
    BY DEF Taken, Take
  <1>3. Line' = Tail(Line) /\ Line # <<>> /\ Line[1] = Incoming
    BY <1>1, <1>2 DEF Line, Incoming
  <1>4. Line \in Seq(Chunk)
    BY LineIs
  <1>5. /\ Len(Line') = Len(Line) - 1 /\ Len(Line) \in Nat /\ Len(Line) >= 1
        /\ DOMAIN Line' = 1..Len(Line) - 1 /\ DOMAIN Line = 1..Len(Line)
        /\ \A i \in 1..Len(Line) - 1 : Line'[i] = Line[i + 1] /\ i + 1 \in 1..Len(Line)
        /\ (Line' = <<>> <=> Len(Line) = 1)
    <2> HIDE DEF Line
    <2> QED
      BY <1>3, <1>4, TailIs
  <1> QED
    BY <1>2, <1>3, <1>5

\* A chunk is sent: the line is what it was.
LEMMA SentIs ==
    ASSUME TypeOK, DeviceSends
    PROVE  UNCHANGED Line
  <1>1. pipe \in Seq(Chunk) /\ pending \in Seq(Chunk)
    BY DEF TypeOK
  <1> QED
    BY <1>1 DEF DeviceSends, Line

\* An answer of n chunks of data joins the line.
LEMMA AnswerIs ==
    ASSUME NEW t \in Ids, NEW n \in 1..MaxChunks
    PROVE  /\ Answer(t, n) \in Seq(Chunk) /\ Len(Answer(t, n)) = n + 1
           /\ \A k \in 1..n : Answer(t, n)[k] = [tx |-> t, type |-> "data", part |-> k, of |-> n]
           /\ Answer(t, n)[n + 1] = [tx |-> t, type |-> "response", part |-> 1, of |-> 1]
  <1>1. n \in Nat /\ 1 \in 1..MaxChunks /\ n >= 1
    BY BoundsAreNat
  <1>2. /\ Message(t, "data", n) \in Seq(Chunk) /\ Len(Message(t, "data", n)) = n
        /\ \A k \in 1..n : Message(t, "data", n)[k] = [tx |-> t, type |-> "data", part |-> k, of |-> n]
    BY <1>1, BoundsAreNat DEF Message, Chunk
  <1>3. /\ Message(t, "response", 1) \in Seq(Chunk) /\ Len(Message(t, "response", 1)) = 1
        /\ Message(t, "response", 1)[1] = [tx |-> t, type |-> "response", part |-> 1, of |-> 1]
    BY <1>1, BoundsAreNat DEF Message, Chunk
  <1> DEFINE D == Message(t, "data", n)
             R == Message(t, "response", 1)
  <1> HIDE DEF D, R
  <1>4. /\ D \o R \in Seq(Chunk) /\ Len(D \o R) = n + 1
        /\ \A k \in 1..n : (D \o R)[k] = [tx |-> t, type |-> "data", part |-> k, of |-> n]
    BY <1>1, <1>2, <1>3, ConcatIs DEF D, R
  <1>5. (D \o R)[n + 1] = R[1]
    <2>1. D \in Seq(Chunk) /\ R \in Seq(Chunk) /\ Len(D) = n /\ 1 \in 1..Len(R)
      BY <1>1, <1>2, <1>3 DEF D, R
    <2> QED
      BY <2>1, ConcatIs
  <1> QED
    BY <1>3, <1>4, <1>5 DEF Answer, D, R

\* The line with an answer at its end.
LEMMA ServedIs ==
    ASSUME TypeOK, pending = <<>>, UNCHANGED pipe,
           NEW t \in Ids, NEW n \in 1..MaxChunks, pending' = Answer(t, n)
    PROVE  /\ Line' \in Seq(Chunk)
           /\ DOMAIN Line' = 1..Len(Line) + n + 1 /\ Len(Line') = Len(Line) + n + 1
           /\ \A i \in 1..Len(Line) : Line'[i] = Line[i]
           /\ \A k \in 1..n : Line'[Len(Line) + k]
                                = [tx |-> t, type |-> "data", part |-> k, of |-> n]
           /\ Line'[Len(Line) + n + 1] = [tx |-> t, type |-> "response", part |-> 1, of |-> 1]
  <1> DEFINE A == Answer(t, n)
  <1>1. pipe \in Seq(Chunk) /\ Line = pipe /\ Line' = pipe \o A
    BY DEF TypeOK, Line
  <1>2. /\ A \in Seq(Chunk) /\ Len(A) = n + 1
        /\ \A k \in 1..n : A[k] = [tx |-> t, type |-> "data", part |-> k, of |-> n]
        /\ A[n + 1] = [tx |-> t, type |-> "response", part |-> 1, of |-> 1]
    BY AnswerIs
  <1>3. n \in Nat /\ n >= 1 /\ \A k \in 1..n + 1 : k \in 1..n \/ k = n + 1
    BY BoundsAreNat
  <1> HIDE DEF A
  <1>4. /\ Line' \in Seq(Chunk) /\ Len(Line') = Len(Line) + (n + 1) /\ DOMAIN Line' = 1..Len(Line) + (n + 1)
        /\ \A i \in 1..Len(Line) : Line'[i] = Line[i]
        /\ \A i \in 1..n + 1 : Line'[Len(Line) + i] = A[i]
        /\ Len(Line) \in Nat
    <2>0. pipe \in Seq(Chunk) /\ A \in Seq(Chunk)
      BY <1>1, <1>2
    <2>1. /\ pipe \o A \in Seq(Chunk) /\ Len(pipe \o A) = Len(pipe) + Len(A) /\ Len(pipe) \in Nat
          /\ DOMAIN (pipe \o A) = 1..Len(pipe) + Len(A)
          /\ \A i \in 1..Len(pipe) : (pipe \o A)[i] = pipe[i]
          /\ \A i \in 1..Len(A) : (pipe \o A)[Len(pipe) + i] = A[i]
      BY <2>0, ConcatIs
    <2> QED
      BY <1>1, <1>2, <2>1
  <1>5. n + 1 \in 1..n + 1 /\ \A k \in 1..n : k \in 1..n + 1
    BY <1>3
  <1>6. Len(Line) + (n + 1) = Len(Line) + n + 1
    BY <1>3, <1>4
  <1> QED
    BY <1>2, <1>4, <1>5, <1>6

\* An abort removes the end of the line, if anything.
LEMMA CutIs ==
    ASSUME TypeOK, AbortTells
    PROVE  /\ DOMAIN Line' \subseteq DOMAIN Line
           /\ DOMAIN Line' = 1..Len(Line') /\ Len(Line') \in Nat
           /\ (Line' = <<>> <=> Len(Line') = 0)
           /\ \A i \in DOMAIN Line' : Line'[i] = Line[i]
           /\ \/ UNCHANGED Line
              \/ /\ Len(Line') < Len(Line) /\ Len(Line') = Len(pipe)
                 /\ pending # <<>> /\ Line[Len(Line') + 1] = Head(pending)
                 /\ ~IsHead(Head(pending)) => truncated'
           /\ truncated => truncated'
  <1>1. pipe \in Seq(Chunk) /\ pending \in Seq(Chunk)
    BY DEF TypeOK
  <1>2. CASE ~Serving(aborting.tx)
    <2>1. UNCHANGED <<pipe, pending>> /\ (truncated => truncated')
      BY <1>2 DEF AbortTells
    <2> QED
      BY <2>1, LineIs DEF Line
  <1>3. CASE Serving(aborting.tx)
    <2>1. /\ pipe' = pipe /\ pending' = <<>> /\ pending # <<>>
          /\ (truncated => truncated') /\ (~IsHead(Head(pending)) => truncated')
      BY <1>3 DEF AbortTells, Serving
    <2>2. Line' = pipe
      BY <1>1, <2>1 DEF Line
    <2>3. Len(pending) >= 1 /\ Head(pending) = pending[1] /\ DOMAIN pipe = 1..Len(pipe)
      BY <1>1, <2>1
    <2>4. Line[Len(pipe) + 1] = Head(pending) /\ Len(pipe) < Len(Line) /\ Len(Line') = Len(pipe)
      BY <2>2, <2>3, LineIs
    <2>5. \A i \in DOMAIN Line' : i \in DOMAIN Line /\ Line'[i] = Line[i]
      BY <2>2, <2>3, <2>4, LineIs
    <2>6. DOMAIN Line' = 1..Len(Line') /\ Len(Line') \in Nat /\ (Line' = <<>> <=> Len(Line') = 0)
      BY <1>1, <2>2
    <2> QED
      BY <2>1, <2>4, <2>5, <2>6
  <1> QED
    BY <1>2, <1>3


\* What a step does to the line.
LEMMA LineMoves ==
    ASSUME [Next]_vars
    PROVE  \/ UNCHANGED <<pipe, pending, requests, truncated>>
           \/ UNCHANGED <<pipe, pending, truncated>> /\ (Begin)
           \/ Taken
           \/ AbortTells
           \/ DeviceServes
           \/ DeviceSends
  BY DEF Next, Receive, Abort, vars, device, Begin, SendTimesOut, ReceiveData, ReceiveResponse,
         DropMessage, MisreadHeader, Swallow, ReceiveCancelled, ReadTimesOut, AbortBegins,
         AbortCancels, Taken, Reading, Parsed, Take

\* The answer that joins the line is whole.
LEMMA ServedChain ==
    ASSUME TypeOK, DeviceServes
    PROVE  LET l == Len(Line)
           IN  /\ \A i \in 1..l : Line'[i] = Line[i]
               /\ \A i \in DOMAIN Line' : i > l =>
                     /\ Line'[i].tx = Head(requests)
                     /\ Line'[i].part <= Line'[i].of
                     /\ Line'[i].type = "response" => IsHead(Line'[i]) /\ IsShort(Line'[i])
                     /\ i + 1 \in DOMAIN Line' => Follows(Line'[i], Line'[i + 1])
               /\ l + 1 \in DOMAIN Line' /\ IsStart(Line'[l + 1]) /\ IsShort(Line'[Len(Line')])
               /\ DOMAIN Line = 1..l /\ l \in Nat /\ DOMAIN Line' = 1..Len(Line') /\ Len(Line') \in Nat
               /\ truncated' = truncated /\ (Line = <<>> <=> l = 0)
               /\ Line' # <<>>
  <1>1. PICK n \in 1..MaxChunks : pending' = Answer(Head(requests), n)
    BY DEF DeviceServes
  <1> DEFINE t == Head(requests)
             l == Len(Line)
  <1>2. t \in Ids
    BY DEF DeviceServes, TypeOK
  <1>3. /\ DOMAIN Line' = 1..l + n + 1 /\ Len(Line') = l + n + 1
        /\ \A i \in 1..l : Line'[i] = Line[i]
        /\ \A k \in 1..n : Line'[l + k] = [tx |-> t, type |-> "data", part |-> k, of |-> n]
        /\ Line'[l + n + 1] = [tx |-> t, type |-> "response", part |-> 1, of |-> 1]
    BY <1>1, <1>2, ServedIs DEF DeviceServes
  <1>4. l \in Nat /\ n \in Nat /\ n >= 1 /\ DOMAIN Line = 1..l /\ truncated' = truncated
        /\ (Line = <<>> <=> l = 0)
    BY LineIs, BoundsAreNat DEF DeviceServes
  <1> HIDE DEF Line, t, l
  <1>5. \A i \in DOMAIN Line' : i \in 1..l \/ (\E k \in 1..n : i = l + k) \/ i = l + n + 1
    <2> TAKE i \in DOMAIN Line'
    <2>1. i \in Nat /\ i >= 1 /\ i <= l + n + 1
      BY <1>3, <1>4
    <2>2. CASE i > l /\ i <= l + n
      <3>1. i - l \in 1..n /\ i = l + (i - l)
        BY <1>4, <2>1, <2>2
      <3> QED
        BY <3>1
    <2> QED
      BY <1>4, <2>1, <2>2
  <1>6. 1 \in 1..n /\ l + 1 \in DOMAIN Line' /\ Line' # <<>>
    BY <1>3, <1>4
  <1>7. IsStart(Line'[l + 1]) /\ IsShort(Line'[Len(Line')])
    <2>1. Line'[l + 1] = [tx |-> t, type |-> "data", part |-> 1, of |-> n]
      BY <1>3, <1>6
    <2>2. Line'[Len(Line')] = [tx |-> t, type |-> "response", part |-> 1, of |-> 1]
      BY <1>3
    <2> QED
      BY <2>1, <2>2 DEF IsStart, IsHead, IsShort
  <1>8. ASSUME NEW k \in 1..n
        PROVE  LET i == l + k
               IN  /\ Line'[i].tx = t /\ Line'[i].type = "data" /\ Line'[i].part <= Line'[i].of
                   /\ Follows(Line'[i], Line'[i + 1])
    <2> DEFINE i == l + k
    <2>1. Line'[i] = [tx |-> t, type |-> "data", part |-> k, of |-> n] /\ k <= n
      BY <1>3, <1>4
    <2>2. CASE k = n
      <3>1. Line'[i + 1] = [tx |-> t, type |-> "response", part |-> 1, of |-> 1]
        BY <1>3, <1>4, <2>2
      <3>2. 1 \in 1..MaxChunks
        BY BoundsAreNat
      <3> QED
        BY <2>1, <2>2, <3>1, <3>2 DEF Follows, IsShort
    <2>3. CASE k # n
      <3>1. k + 1 \in 1..n /\ i + 1 = l + (k + 1)
        BY <1>4, <2>1, <2>3
      <3>2. Line'[i + 1] = [tx |-> t, type |-> "data", part |-> k + 1, of |-> n]
        BY <1>3, <3>1
      <3> QED
        BY <2>1, <2>3, <3>2 DEF Follows, IsShort
    <2> QED
      BY <2>1, <2>2, <2>3
  <1>9. ASSUME NEW i \in DOMAIN Line', i > l
        PROVE  /\ Line'[i].tx = t
               /\ Line'[i].part <= Line'[i].of
               /\ Line'[i].type = "response" => IsHead(Line'[i]) /\ IsShort(Line'[i])
               /\ i + 1 \in DOMAIN Line' => Follows(Line'[i], Line'[i + 1])
    <2>1. CASE i = l + n + 1
      <3>1. i + 1 \notin DOMAIN Line'
        BY <1>3, <1>4, <2>1
      <3>2. Line'[i] = [tx |-> t, type |-> "response", part |-> 1, of |-> 1]
        BY <1>3, <2>1
      <3> QED
        BY <3>1, <3>2 DEF IsHead, IsShort
    <2>2. ASSUME NEW k \in 1..n, i = l + k
          PROVE  /\ Line'[i].tx = t /\ Line'[i].type = "data" /\ Line'[i].part <= Line'[i].of
                 /\ Follows(Line'[i], Line'[i + 1])
      BY <1>8, <2>2
    <2>3. i \notin 1..l
      BY <1>4, <1>9
    <2> QED
      BY <1>5, <2>1, <2>2, <2>3
  <1>10. DOMAIN Line' = 1..Len(Line') /\ Len(Line') \in Nat
    BY <1>3, <1>4
  <1> QED
    BY <1>3, <1>4, <1>6, <1>7, <1>9, <1>10 DEF t, l

\* The line stays a line of answers.
LEMMA LineStep ==
    ASSUME TypeOK, LineSound, [Next]_vars
    PROVE  LineSound'
  <1>1. CASE UNCHANGED <<pipe, pending, truncated>>
    BY <1>1 DEF LineSound, Line, Follows, IsStart
  <1>2. CASE DeviceSends
    BY <1>2, SentIs DEF LineSound, DeviceSends
  <1>3. CASE Taken
    <2>1. /\ DOMAIN Line' = 1..Len(Line) - 1 /\ Len(Line') = Len(Line) - 1 /\ Len(Line) \in Nat
          /\ \A i \in DOMAIN Line' : i + 1 \in DOMAIN Line /\ Line'[i] = Line[i + 1]
          /\ (Line' = <<>> <=> Len(Line) = 1) /\ Line # <<>>
          /\ truncated' = truncated /\ DOMAIN Line = 1..Len(Line)
      BY <1>3, TakenIs, LineIs
    <2> HIDE DEF Line
    <2>2. Line' # <<>> => Line'[Len(Line')] = Line[Len(Line)]
      BY <2>1
    <2>3. \A i \in DOMAIN Line' : i + 1 \in DOMAIN Line' => (i + 1) + 1 \in DOMAIN Line
      BY <2>1
    <2> QED
      BY <2>1, <2>2, <2>3 DEF LineSound
  <1>4. CASE AbortTells
    <2>1. CASE UNCHANGED Line
      BY <1>4, <2>1, CutIs DEF LineSound
    <2>2. CASE /\ Len(Line') < Len(Line) /\ pending # <<>>
               /\ Line[Len(Line') + 1] = Head(pending)
               /\ ~IsHead(Head(pending)) => truncated'
      <3>1. /\ DOMAIN Line' = 1..Len(Line') /\ Len(Line') \in Nat /\ Len(Line) \in Nat
            /\ DOMAIN Line = 1..Len(Line)
            /\ (Line' = <<>> <=> Len(Line') = 0)
            /\ \A i \in DOMAIN Line' : i \in DOMAIN Line /\ Line'[i] = Line[i]
            /\ truncated => truncated'
        BY <1>4, CutIs, LineIs
      <3>2. Line' # <<>> => IsShort(Line'[Len(Line')]) \/ truncated'
        <4> SUFFICES ASSUME Line' # <<>> PROVE IsShort(Line'[Len(Line')]) \/ truncated'
          OBVIOUS
        <4> DEFINE i == Len(Line')
        <4>1. i \in DOMAIN Line /\ i + 1 \in DOMAIN Line /\ Line'[i] = Line[i] /\ Line[i].part \in Nat
              /\ Line[i].part >= 1
          BY <2>2, <3>1, ChunkIs, BoundsAreNat
        <4>2. Follows(Line[i], Line[i + 1]) /\ ~IsShort(Line[i]) => ~IsHead(Line[i + 1])
          BY <4>1 DEF Follows, IsHead
        <4> QED
          BY <2>2, <3>1, <4>1, <4>2 DEF LineSound
      <3> HIDE DEF Line
      <3> QED
        BY <3>1, <3>2 DEF LineSound
    <2> QED
      BY <1>4, <2>1, <2>2, CutIs
  <1>5. CASE DeviceServes
    <2> DEFINE l == Len(Line)
    <2>1. /\ \A i \in 1..l : Line'[i] = Line[i]
          /\ \A i \in DOMAIN Line' : i > l =>
                /\ Line'[i].part <= Line'[i].of
                /\ Line'[i].type = "response" => IsHead(Line'[i]) /\ IsShort(Line'[i])
                /\ i + 1 \in DOMAIN Line' => Follows(Line'[i], Line'[i + 1])
          /\ l + 1 \in DOMAIN Line' /\ IsStart(Line'[l + 1]) /\ IsShort(Line'[Len(Line')])
          /\ DOMAIN Line = 1..l /\ l \in Nat /\ DOMAIN Line' = 1..Len(Line') /\ Len(Line') \in Nat
          /\ truncated' = truncated /\ (Line = <<>> <=> l = 0)
      BY <1>5, ServedChain
    <2> HIDE DEF Line, l
    <2>2. ASSUME NEW i \in DOMAIN Line'
          PROVE  /\ Line'[i].part <= Line'[i].of
                 /\ Line'[i].type = "response" => IsHead(Line'[i]) /\ IsShort(Line'[i])
      <3>1. CASE i \in 1..l
        BY <2>1, <3>1 DEF LineSound
      <3>2. CASE i > l
        BY <2>1, <3>2
      <3> QED
        BY <2>1, <3>1, <3>2
    <2>3. ASSUME NEW i \in DOMAIN Line', i + 1 \in DOMAIN Line'
          PROVE  \/ Follows(Line'[i], Line'[i + 1])
                 \/ IsStart(Line'[i + 1]) /\ (IsShort(Line'[i]) \/ truncated')
      <3>1. CASE i \in 1..l /\ i + 1 \in 1..l
        BY <2>1, <3>1 DEF LineSound
      <3>2. CASE i = l
        <4>1. Line'[i] = Line[Len(Line)] /\ Line # <<>>
          BY <2>1, <3>2 DEF l
        <4> QED
          BY <2>1, <3>2, <4>1 DEF LineSound
      <3>3. CASE i > l
        BY <2>1, <2>3, <3>3
      <3> QED
        BY <2>1, <3>1, <3>2, <3>3
    <2> QED
      BY <2>1, <2>2, <2>3 DEF LineSound
  <1> QED
    BY <1>1, <1>2, <1>3, <1>4, <1>5, LineMoves


\* A command is forgotten: the others keep their order.
LEMMA ForgottenIs ==
    ASSUME NEW S, NEW s \in Seq(S), NEW i \in DOMAIN s
    PROVE  /\ RemoveAt(s, i) \in Seq(S) /\ Len(RemoveAt(s, i)) = Len(s) - 1
           /\ DOMAIN RemoveAt(s, i) = 1..Len(s) - 1
           /\ \A k \in 1..Len(s) - 1 : RemoveAt(s, i)[k] = IF k < i THEN s[k] ELSE s[k + 1]
  <1> DEFINE a == SubSeq(s, 1, i - 1)
             b == SubSeq(s, i + 1, Len(s))
  <1>1. i \in 1..Len(s) /\ Len(s) \in Nat
    OBVIOUS
  <1>2. a \in Seq(S) /\ Len(a) = i - 1 /\ \A k \in 1..i - 1 : a[k] = s[k]
    BY <1>1
  <1>3. b \in Seq(S) /\ Len(b) = Len(s) - i /\ \A k \in 1..Len(s) - i : b[k] = s[i + k]
    BY <1>1
  <1> HIDE DEF a, b
  <1>4. /\ a \o b \in Seq(S) /\ Len(a \o b) = (i - 1) + (Len(s) - i)
        /\ DOMAIN (a \o b) = 1..(i - 1) + (Len(s) - i)
        /\ \A k \in 1..i - 1 : (a \o b)[k] = a[k]
        /\ \A k \in 1..Len(s) - i : (a \o b)[(i - 1) + k] = b[k]
    <2>1. a \in Seq(S) /\ b \in Seq(S)
      BY <1>2, <1>3
    <2>2. /\ a \o b \in Seq(S) /\ Len(a \o b) = Len(a) + Len(b)
          /\ DOMAIN (a \o b) = 1..Len(a) + Len(b)
          /\ \A k \in 1..Len(a) : (a \o b)[k] = a[k]
          /\ \A k \in 1..Len(b) : (a \o b)[Len(a) + k] = b[k]
      BY <2>1, ConcatIs
    <2> QED
      BY <1>2, <1>3, <2>2
  <1>5. (i - 1) + (Len(s) - i) = Len(s) - 1
    BY <1>1
  <1>6. ASSUME NEW k \in 1..Len(s) - 1
        PROVE  (a \o b)[k] = IF k < i THEN s[k] ELSE s[k + 1]
    <2>1. CASE k < i
      <3>1. k \in 1..i - 1
        BY <1>1, <2>1
      <3>2. (a \o b)[k] = a[k] /\ a[k] = s[k]
        BY <1>2, <1>4, <3>1
      <3> QED
        BY <2>1, <3>2
    <2>2. CASE k >= i
      <3>1. PICK m \in 1..Len(s) - i : k = (i - 1) + m /\ k + 1 = i + m
        <4>1. k - (i - 1) \in 1..Len(s) - i /\ k = (i - 1) + (k - (i - 1)) /\ k + 1 = i + (k - (i - 1))
          BY <1>1, <2>2
        <4> QED
          BY <4>1
      <3>2. (a \o b)[k] = b[m] /\ b[m] = s[k + 1]
        BY <1>3, <1>4, <3>1
      <3>3. ~(k < i)
        BY <1>1, <2>2
      <3>4. (IF k < i THEN s[k] ELSE s[k + 1]) = s[k + 1]
        BY <3>3
      <3> QED
        BY <3>2, <3>4
    <2>3. k < i \/ k >= i
      <3>1. k \in Int /\ i \in Int
        BY <1>1
      <3> QED
        BY <3>1
    <2> QED
      BY <2>1, <2>2, <2>3
  <1> QED
    BY <1>4, <1>5, <1>6 DEF RemoveAt, a, b

\* What an abort leaves of the commands.
LEMMA RequestsCut ==
    ASSUME TypeOK, AbortTells
    PROVE  /\ requests' \in Seq(Ids)
           /\ requests = <<>> => requests' = <<>>
           /\ \A k \in DOMAIN requests' : \E i \in DOMAIN requests :
                 /\ requests'[k] = requests[i]
                 /\ i = Len(requests) => k = Len(requests')
  <1>1. requests \in Seq(Ids)
    BY DEF TypeOK
  <1>2. CASE UNCHANGED requests
    BY <1>1, <1>2
  <1>3. ASSUME NEW i \in DOMAIN requests, requests' = RemoveAt(requests, i)
        PROVE  /\ requests' \in Seq(Ids) /\ requests # <<>>
               /\ \A k \in DOMAIN requests' : \E j \in DOMAIN requests :
                     /\ requests'[k] = requests[j]
                     /\ j = Len(requests) => k = Len(requests')
    <2>1. /\ requests' \in Seq(Ids) /\ Len(requests') = Len(requests) - 1
          /\ DOMAIN requests' = 1..Len(requests) - 1
          /\ \A k \in 1..Len(requests) - 1 :
                requests'[k] = IF k < i THEN requests[k] ELSE requests[k + 1]
      BY <1>1, <1>3, ForgottenIs
    <2>2. i \in 1..Len(requests) /\ DOMAIN requests = 1..Len(requests) /\ Len(requests) \in Nat
      BY <1>1
    <2>3. ASSUME NEW k \in DOMAIN requests'
          PROVE  \E j \in DOMAIN requests : /\ requests'[k] = requests[j]
                                            /\ j = Len(requests) => k = Len(requests')
      <3>1. CASE k < i
        BY <2>1, <2>2, <3>1
      <3>2. CASE k >= i
        <4>1. k + 1 \in DOMAIN requests /\ requests'[k] = requests[k + 1]
              /\ (k + 1 = Len(requests) => k = Len(requests'))
          BY <2>1, <2>2, <3>2
        <4> QED
          BY <4>1
      <3> QED
        BY <2>1, <2>2, <3>1, <3>2
    <2> QED
      BY <2>1, <2>2, <2>3
  <1> QED
    BY <1>2, <1>3 DEF AbortTells


\* The identifier after another one.
LEMMA NextId ==
    ASSUME NEW n \in Ids
    PROVE  /\ (n % MaxIds) + 1 \in Ids
           /\ (n % MaxIds) + 1 = IF n = MaxIds THEN 1 ELSE n + 1
  <1>1. n \in Nat /\ n >= 1 /\ n <= MaxIds /\ MaxIds \in Nat /\ MaxIds >= 1
    BY BoundsAreNat DEF Ids
  <1>2. n % MaxIds = IF n = MaxIds THEN 0 ELSE n
    <2>1. CASE n = MaxIds
      <3>1. n = 1 * MaxIds + 0
        BY <1>1, <2>1
      <3> QED
        BY <1>1, <2>1, <3>1
    <2>2. CASE n < MaxIds
      BY <1>1, <2>2
    <2> QED
      BY <1>1, <2>1, <2>2
  <1> QED
    BY <1>1, <1>2 DEF Ids

\* What the device holds keeps its type.
LEMMA DeviceTypes ==
    ASSUME TypeOK, [Next]_vars
    PROVE  /\ requests' \in Seq(Ids) /\ pending' \in Seq(Chunk) /\ pipe' \in Seq(Chunk)
           /\ truncated' \in BOOLEAN
  <1>1. next \in Ids /\ requests \in Seq(Ids) /\ pending \in Seq(Chunk) /\ pipe \in Seq(Chunk)
        /\ truncated \in BOOLEAN
    BY DEF TypeOK
  <1>2. CASE UNCHANGED <<pipe, pending, requests, truncated>>
    BY <1>1, <1>2
  <1>3. CASE Begin
    BY <1>1, <1>3 DEF Begin
  <1>4. CASE Taken
    <2>1. pipe # <<>> /\ pipe' = Tail(pipe) /\ UNCHANGED <<requests, pending, truncated>>
      BY <1>4 DEF Taken, Take
    <2>2. Tail(pipe) \in Seq(Chunk)
      BY <1>1, <2>1, TailIs
    <2> QED
      BY <1>1, <2>1, <2>2
  <1>5. CASE AbortTells
    <2>1. requests' \in Seq(Ids)
      BY <1>5, RequestsCut
    <2>2. pending' \in Seq(Chunk) /\ pipe' = pipe /\ truncated' \in BOOLEAN
      BY <1>1, <1>5 DEF AbortTells
    <2> QED
      BY <1>1, <2>1, <2>2
  <1>6. CASE DeviceServes
    <2>1. PICK n \in 1..MaxChunks : pending' = Answer(Head(requests), n)
      BY <1>6 DEF DeviceServes
    <2>2. Head(requests) \in Ids /\ Tail(requests) \in Seq(Ids)
      BY <1>1, <1>6 DEF DeviceServes
    <2>3. Answer(Head(requests), n) \in Seq(Chunk)
      BY <2>2, AnswerIs
    <2> QED
      BY <1>1, <1>6, <2>1, <2>2, <2>3 DEF DeviceServes
  <1>7. CASE DeviceSends
    <2>1. Head(pending) \in Chunk /\ Tail(pending) \in Seq(Chunk)
      BY <1>1, <1>7 DEF DeviceSends
    <2> QED
      BY <1>1, <1>7, <2>1 DEF DeviceSends
  <1> QED
    BY <1>2, <1>3, <1>4, <1>5, <1>6, <1>7, LineMoves

\* What is read is part of the data of the current call.
LEMMA DataRead ==
    ASSUME TypeOK, LineSound, OwnSound, GotSound, ReceiveData
    PROVE  LET c == Line[1]
           IN  /\ Taken /\ c = Incoming /\ tx # None /\ tx \in Ids
               /\ c = [tx |-> tx, type |-> "data", part |-> Len(got) + 1, of |-> c.of]
               /\ c.of \in 1..MaxChunks /\ Len(got) + 1 <= c.of
               /\ got # <<>> => c.of = got[1].of
               /\ Len(got) \in Nat /\ (got = <<>> <=> Len(got) = 0)
  <1>1. Taken /\ tx # None /\ tx \in Ids /\ ~cancelled /\ got \in Seq(Chunk)
    BY DEF TypeOK, ReceiveData, Reading, Parsed, Taken
  <1>2. 1 \in DOMAIN Line /\ Line # <<>> /\ Line[1] = Incoming
    BY <1>1, TakenIs
  <1> DEFINE c == Line[1]
  <1>3. /\ c \in Chunk /\ c.part \in 1..MaxChunks /\ c.of \in 1..MaxChunks /\ c.part <= c.of
        /\ c = [tx |-> c.tx, type |-> c.type, part |-> c.part, of |-> c.of]
    <2>1. c \in Chunk /\ c.part <= c.of
      BY <1>2, ChunkIs DEF LineSound
    <2> QED
      BY <2>1 DEF Chunk
  <1>4. Len(got) \in Nat /\ (got = <<>> <=> Len(got) = 0)
    BY <1>1, EmptyIs
  <1> HIDE DEF c
  <1>5. CASE got = <<>>
    <2>1. parser = "fresh" /\ IsHead(c) /\ c.tx = tx /\ c.type = "data"
      BY <1>1, <1>2, <1>5 DEF ReceiveData, GotSound, Mine, c
    <2>2. c.part = 1
      BY <2>1 DEF IsHead
    <2> QED
      BY <1>1, <1>2, <1>3, <1>4, <1>5, <2>1, <2>2 DEF c
  <1>6. CASE got # <<>>
    <2> DEFINE n == got[1].of
               l == got[Len(got)]
    <2>1. /\ Len(got) \in DOMAIN got
          /\ \A k \in DOMAIN got : got[k] = [tx |-> tx, type |-> "data", part |-> k, of |-> n]
          /\ Len(got) <= n /\ parser = (IF Len(got) < n THEN "data" ELSE "fresh")
          /\ Follows(l, c)
      BY <1>1, <1>2, <1>4, <1>6 DEF GotSound, c
    <2>2. l = [tx |-> tx, type |-> "data", part |-> Len(got), of |-> n]
      BY <2>1
    <2> HIDE DEF l, n
    <2>3. l.tx = tx /\ l.type = "data" /\ l.part = Len(got) /\ l.of = n
      BY <2>2
    <2>4. parser # "fresh" \/ c.type = "data"
      BY <1>1, <1>2 DEF ReceiveData, c
    <2>5. n \in Nat
      <3>1. 1 \in DOMAIN got /\ got[1] \in Chunk
        BY <1>1, <1>6
      <3> QED
        BY <3>1 DEF Chunk, n
    <2>6. ~IsShort(l)
      BY <1>4, <2>1, <2>3, <2>4, <2>5 DEF IsShort, Follows
    <2>7. c.type = "data" /\ c.part = Len(got) + 1 /\ c.of = n /\ c.tx = tx
      BY <2>1, <2>3, <2>6 DEF Follows
    <2> QED
      BY <1>1, <1>2, <1>3, <1>4, <1>6, <2>7 DEF c, n
  <1> QED
    BY <1>5, <1>6

\* What the host holds keeps its type.
LEMMA HostTypes ==
    ASSUME TypeOK, LineSound, OwnSound, GotSound, [Next]_vars
    PROVE  /\ next' \in Ids /\ tx' \in Ids \cup {None}
           /\ parser' \in {"fresh", "data", "foreign", "endless"}
           /\ got' \in Seq(Chunk) /\ Len(got') <= MaxChunks
           /\ cancelled' \in BOOLEAN
           /\ aborting' \in [tx : Ids \cup {None}, told : BOOLEAN]
           /\ outcome' \in [tx : Ids \cup {None}, ok : BOOLEAN, data : Seq(Chunk)]
           /\ faults' \in 0..MaxFaults
  <1> DEFINE HostType == /\ next \in Ids /\ tx \in Ids \cup {None}
                         /\ parser \in {"fresh", "data", "foreign", "endless"}
                         /\ got \in Seq(Chunk) /\ Len(got) <= MaxChunks
                         /\ cancelled \in BOOLEAN
                         /\ aborting \in [tx : Ids \cup {None}, told : BOOLEAN]
                         /\ outcome \in [tx : Ids \cup {None}, ok : BOOLEAN, data : Seq(Chunk)]
                         /\ faults \in 0..MaxFaults
  <1>0. HostType
    BY DEF TypeOK
  <1>e. <<>> \in Seq(Chunk) /\ Len(<<>>) = 0 /\ MaxChunks \in Nat /\ MaxFaults \in Nat
    BY BoundsAreNat
  <1>n. (next % MaxIds) + 1 \in Ids
    BY <1>0, NextId
  <1>f. faults < MaxFaults => faults + 1 \in 0..MaxFaults
    BY <1>0, <1>e
  <1>p. ASSUME NEW p \in {"data", "foreign", "endless"}, Parsed(p)
        PROVE  /\ parser' \in {"fresh", "data", "foreign", "endless"}
               /\ cancelled' \in BOOLEAN /\ UNCHANGED <<next, tx, aborting, outcome, faults>>
    BY <1>0, <1>p DEF Parsed, After, Take
  <1>d. ASSUME NEW ok \in BOOLEAN, End(ok)
        PROVE  /\ tx' \in Ids \cup {None}
               /\ outcome' \in [tx : Ids \cup {None}, ok : BOOLEAN, data : Seq(Chunk)]
               /\ UNCHANGED <<next, parser, got, cancelled, aborting>>
    BY <1>0, <1>d DEF End
  <1>r. ReceiveData => got' \in Seq(Chunk) /\ Len(got') <= MaxChunks
    <2> SUFFICES ASSUME ReceiveData PROVE got' \in Seq(Chunk) /\ Len(got') <= MaxChunks
      OBVIOUS
    <2>1. Line[1] \in Chunk /\ Line[1].of \in 1..MaxChunks /\ Len(got) + 1 <= Line[1].of /\ Len(got) \in Nat
          /\ got' = Append(got, Line[1])
      BY DataRead, TakenIs, ChunkIs DEF ReceiveData
    <2>2. Len(Append(got, Line[1])) = Len(got) + 1 /\ Append(got, Line[1]) \in Seq(Chunk)
      BY <1>0, <2>1
    <2> QED
      BY <1>e, <2>1, <2>2
  <1> HIDE DEF HostType
  <1>1. CASE Begin
    <2>1. tx' \in Ids /\ next' \in Ids /\ UNCHANGED <<aborting, outcome, faults>>
      BY <1>1, <1>0, <1>n DEF HostType, Begin
    <2>2. parser' = "fresh" /\ got' = <<>> /\ cancelled' = FALSE
      BY <1>1 DEF Begin, ParserFor
    <2>3. got' \in Seq(Chunk) /\ Len(got') <= MaxChunks
      BY <2>2, <1>e
    <2> QED
      BY <1>0, <2>1, <2>2, <2>3 DEF HostType
  <1>2. CASE SendTimesOut
    BY <1>2, <1>0, <1>e, <1>n, <1>f DEF HostType, SendTimesOut, device
  <1>3. CASE ReceiveData
    BY <1>3, <1>0, <1>p, <1>r DEF HostType, ReceiveData
  <1>4. CASE ReceiveResponse
    BY <1>4, <1>0, <1>d DEF HostType, ReceiveResponse, Take
  <1>5. CASE DropMessage
    BY <1>5, <1>0, <1>p DEF HostType, DropMessage
  <1>6. CASE MisreadHeader
    BY <1>6, <1>0, <1>p, <1>d DEF HostType, MisreadHeader, Take
  <1>7. CASE Swallow
    BY <1>7, <1>0, <1>p DEF HostType, Swallow
  <1>8. CASE ReceiveCancelled
    BY <1>8, <1>0, <1>d DEF HostType, ReceiveCancelled, Take
  <1>9. CASE ReadTimesOut
    BY <1>9, <1>0, <1>d, <1>f DEF HostType, ReadTimesOut
  <1>10. CASE AbortBegins
    BY <1>10, <1>0, <1>f DEF HostType, AbortBegins
  <1>11. CASE AbortCancels
    BY <1>11, <1>0, <1>e DEF HostType, AbortCancels
  <1>12. CASE AbortTells
    BY <1>12, <1>0, <1>e DEF HostType, AbortTells
  <1>13. CASE DeviceServes
    BY <1>13, <1>0, <1>e DEF HostType, DeviceServes
  <1>14. CASE DeviceSends
    BY <1>14, <1>0, <1>e DEF HostType, DeviceSends
  <1>15. CASE UNCHANGED vars
    BY <1>15, <1>0 DEF HostType, vars
  <1> QED
    BY <1>1, <1>2, <1>3, <1>4, <1>5, <1>6, <1>7, <1>8, <1>9, <1>10, <1>11, <1>12, <1>13, <1>14, <1>15 DEF Next, Receive, Abort


\* Every variable keeps its type.
LEMMA TypeStep ==
    ASSUME TypeOK, LineSound, OwnSound, GotSound, [Next]_vars
    PROVE  TypeOK'
  BY HostTypes, DeviceTypes DEF TypeOK


-----------------------------------------------------------------------------
(* What the faults have spoilt *)

Budget == faults * MaxChunks

\* What is counted are numbers, and the rest of a message is shorter than one.
Counted ==
  TypeOK /\ LineSound =>
    /\ Budget \in Nat /\ MaxChunks \in Nat /\ MaxChunks >= 1
    /\ Lead \in Nat /\ Lead < MaxChunks
    /\ Cancelling \in Nat
    /\ Spoilt \in Int /\ Spoilt = Budget - Lead - Cancelling
    /\ Outstanding \subseteq Ids

\* The counts are numbers in every state.
LEMMA CountedNow == Counted
  <1> SUFFICES ASSUME TypeOK, LineSound
               PROVE  /\ Budget \in Nat /\ MaxChunks \in Nat /\ MaxChunks >= 1
                      /\ Lead \in Nat /\ Lead < MaxChunks
                      /\ Cancelling \in Nat
                      /\ Spoilt \in Int /\ Spoilt = Budget - Lead - Cancelling
                      /\ Outstanding \subseteq Ids
    BY DEF Counted
  <1>1. MaxChunks \in Nat /\ MaxChunks >= 1 /\ faults \in Nat
    BY BoundsAreNat DEF TypeOK
  <1>2. Budget \in Nat
    BY <1>1 DEF Budget
  <1>3. Lead \in Nat /\ Lead < MaxChunks
    <2>1. CASE (tx = None \/ parser = "fresh") /\ Line # <<>> /\ ~IsHead(Line[1])
      <3>1. 1 \in DOMAIN Line
        BY <2>1, LineIs
      <3>2. /\ Line[1].part \in 1..MaxChunks /\ Line[1].of \in 1..MaxChunks
            /\ Line[1].part <= Line[1].of /\ Line[1].part # 1
        BY <2>1, <3>1, ChunkIs DEF LineSound, IsHead
      <3>3. Lead = Line[1].of - Line[1].part + 1
        BY <2>1 DEF Lead
      <3> HIDE DEF Line
      <3> QED
        BY <1>1, <3>2, <3>3
    <2>2. CASE ~((tx = None \/ parser = "fresh") /\ Line # <<>> /\ ~IsHead(Line[1]))
      <3>1. Lead = 0
        BY <2>2 DEF Lead
      <3> QED
        BY <1>1, <3>1
    <2> QED
      BY <2>1, <2>2
  <1>4. Cancelling \in Nat
    BY <1>1 DEF Cancelling
  <1>5. Outstanding \subseteq Ids
    <2>1. \A i \in DOMAIN requests : requests[i] \in Ids
      BY DEF TypeOK
    <2>2. \A i \in DOMAIN Line : Line[i].tx \in Ids
      BY ChunkIs
    <2> QED
      BY <2>1, <2>2 DEF Outstanding
  <1>6. Spoilt = Budget - Lead - Cancelling
    BY DEF Spoilt, Budget
  <1> QED
    BY <1>1, <1>2, <1>3, <1>4, <1>5, <1>6

\* So they are in the next one.
LEMMA CountedNext == Counted'
  BY CountedNow, PTL

\* A fault adds a message's worth of chunks.
LEMMA BudgetIs ==
    ASSUME TypeOK
    PROVE  /\ faults' = faults => Budget' = Budget
           /\ faults' = faults + 1 => Budget' = Budget + MaxChunks
  <1>1. faults \in Nat /\ MaxChunks \in Nat
    BY BoundsAreNat DEF TypeOK
  <1>2. (faults + 1) * MaxChunks = faults * MaxChunks + MaxChunks
    BY <1>1
  <1> QED
    BY <1>2 DEF Budget

\* More of the same is no less.
LEMMA TimesGrows ==
    ASSUME NEW a \in Nat, NEW b \in Nat, NEW c \in Nat, a <= b
    PROVE  a * c <= b * c
  OBVIOUS

\* An identifier is not taken again before its last answer is gone.
LEMMA NextFresh ==
    ASSUME TypeOK, LineSound, AgeSound, tx = None
    PROVE  next \notin Outstanding
  <1>1. /\ Budget \in Nat /\ Lead \in Nat /\ Cancelling \in Nat
        /\ Spoilt = Budget - Lead - Cancelling
    BY CountedNow DEF Counted
  <1>2. Budget <= MaxFaults * MaxChunks
    <2>1. faults \in Nat /\ MaxFaults \in Nat /\ MaxChunks \in Nat /\ faults <= MaxFaults
      BY BoundsAreNat DEF TypeOK
    <2> QED
      BY <2>1, TimesGrows DEF Budget
  <1>3. MaxFaults * MaxChunks \in Nat /\ MaxIds \in Nat /\ next \in Nat /\ MaxIds > MaxFaults * MaxChunks
    BY BoundsAreNat, IdsOutlive DEF TypeOK, Ids
  <1>4. Age(next) = MaxIds
    BY <1>3 DEF Age
  <1>5. next # tx
    BY <1>3, BoundsAreNat DEF TypeOK, Ids, None
  <1>6. next \in Outstanding => MaxIds <= Spoilt
    <2>1. next \in Outstanding => Age(next) <= Spoilt + 0
      BY <1>5 DEF AgeSound
    <2> QED
      BY <1>1, <1>4, <2>1
  <1> HIDE DEF Budget, Lead, Cancelling, Spoilt
  <1> QED
    BY <1>1, <1>2, <1>3, <1>6

-----------------------------------------------------------------------------
(* The answer to the current call *)

\* The answer to the current call stays the last one.
LEMMA OwnStep ==
    ASSUME TypeOK, LineSound, OwnSound, AgeSound, [Next]_vars
    PROVE  OwnSound'
  <1>1. CASE Begin
    <2>1. /\ tx' = next /\ tx = None /\ requests' = Append(requests, next)
          /\ UNCHANGED <<pipe, pending>>
      BY <1>1 DEF Begin
    <2>2. next \notin Outstanding
      BY <2>1, NextFresh
    <2>3. requests \in Seq(Ids) /\ next \in Ids
      BY DEF TypeOK
    <2>4. ASSUME NEW i \in DOMAIN requests', requests'[i] = next
          PROVE  i = Len(requests')
      <3>1. Len(requests') = Len(requests) + 1 /\ Len(requests) \in Nat /\ i \in 1..Len(requests) + 1
        BY <2>1, <2>3
      <3>2. i \in 1..Len(requests) => i \in DOMAIN requests /\ requests'[i] = requests[i]
        BY <2>1, <2>3
      <3>3. i \notin 1..Len(requests)
        BY <2>2, <2>4, <3>2 DEF Outstanding
      <3> QED
        BY <3>1, <3>3
    <2>5. Line' = Line /\ \A i \in DOMAIN Line : Line[i].tx # next
      BY <2>1, <2>2 DEF Outstanding, Line
    <2> QED
      BY <2>1, <2>4, <2>5 DEF OwnSound
  <1>2. CASE ~Begin /\ tx' = tx
    <2> SUFFICES ASSUME tx # None
                 PROVE  /\ \A i \in DOMAIN requests' : requests'[i] = tx => i = Len(requests')
                        /\ \A i \in DOMAIN Line' : Line'[i].tx = tx =>
                              /\ requests' = <<>>
                              /\ i + 1 \in DOMAIN Line' => Follows(Line'[i], Line'[i + 1])
      BY <1>2 DEF OwnSound
    <2>0. /\ \A i \in DOMAIN requests : requests[i] = tx => i = Len(requests)
          /\ \A i \in DOMAIN Line : Line[i].tx = tx =>
                /\ requests = <<>>
                /\ i + 1 \in DOMAIN Line => Follows(Line[i], Line[i + 1])
      BY DEF OwnSound
    <2>1. CASE UNCHANGED <<pipe, pending, requests, truncated>>
      BY <2>0, <2>1 DEF Line
    <2>2. CASE DeviceSends
      BY <2>0, <2>2, SentIs DEF DeviceSends
    <2>3. CASE Taken
      <3>1. /\ DOMAIN Line' = 1..Len(Line) - 1 /\ Len(Line) \in Nat /\ DOMAIN Line = 1..Len(Line)
            /\ \A i \in DOMAIN Line' : i + 1 \in DOMAIN Line /\ Line'[i] = Line[i + 1]
            /\ requests' = requests
        BY <2>3, TakenIs, LineIs
      <3> HIDE DEF Line
      <3>2. \A i \in DOMAIN Line' : i + 1 \in DOMAIN Line' => (i + 1) + 1 \in DOMAIN Line
        BY <3>1
      <3> QED
        BY <2>0, <3>1, <3>2
    <2>4. CASE AbortTells
      <3>1. /\ \A i \in DOMAIN Line' : i \in DOMAIN Line /\ Line'[i] = Line[i]
            /\ requests = <<>> => requests' = <<>>
            /\ \A k \in DOMAIN requests' : \E i \in DOMAIN requests :
                  requests'[k] = requests[i] /\ (i = Len(requests) => k = Len(requests'))
        BY <2>4, CutIs, RequestsCut
      <3> HIDE DEF Line
      <3> QED
        BY <2>0, <3>1
    <2>5. CASE DeviceServes
      <3> DEFINE l == Len(Line)
      <3>1. /\ \A i \in 1..l : Line'[i] = Line[i]
            /\ \A i \in DOMAIN Line' : i > l =>
                  /\ Line'[i].tx = Head(requests)
                  /\ i + 1 \in DOMAIN Line' => Follows(Line'[i], Line'[i + 1])
            /\ DOMAIN Line = 1..l /\ l \in Nat /\ DOMAIN Line' = 1..Len(Line') /\ Len(Line') \in Nat
        BY <2>5, ServedChain
      <3> HIDE DEF Line, l
      <3>2. requests \in Seq(Ids) /\ requests # <<>> /\ requests' = Tail(requests)
        BY <2>5 DEF DeviceServes, TypeOK
      <3>3. /\ Head(requests) = requests[1] /\ 1 \in DOMAIN requests
            /\ Len(requests') = Len(requests) - 1 /\ Len(requests) \in Nat
            /\ DOMAIN requests' = 1..Len(requests) - 1
            /\ \A i \in 1..Len(requests) - 1 : requests'[i] = requests[i + 1] /\ i + 1 \in DOMAIN requests
            /\ (requests' = <<>> <=> Len(requests) = 1)
        <4>1. Head(requests) = requests[1] /\ 1 \in DOMAIN requests
          BY <3>2
        <4> QED
          BY <3>2, <4>1, TailIs
      <3>4. ASSUME NEW i \in DOMAIN requests', requests'[i] = tx
            PROVE  i = Len(requests')
        <4>1. i + 1 = Len(requests) /\ i \in Nat
          BY <2>0, <3>3, <3>4
        <4> QED
          BY <3>3, <4>1
      <3>5. ASSUME NEW i \in DOMAIN Line', Line'[i].tx = tx
            PROVE  /\ requests' = <<>>
                   /\ i + 1 \in DOMAIN Line' => Follows(Line'[i], Line'[i + 1])
        <4>1. i \notin 1..l
          BY <2>0, <3>1, <3>2, <3>5
        <4>2. i > l
          BY <3>1, <4>1
        <4>3. requests[1] = tx
          BY <3>1, <3>3, <3>5, <4>2
        <4>4. Len(requests) = 1
          BY <2>0, <3>3, <4>3
        <4> QED
          BY <3>1, <3>3, <4>2, <4>4
      <3> QED
        BY <3>4, <3>5
    <2> QED
      BY <1>2, <2>1, <2>2, <2>3, <2>4, <2>5, LineMoves
  <1>3. CASE tx' = None
    BY <1>3 DEF OwnSound
  <1>4. Begin \/ tx' = None \/ (~Begin /\ tx' = tx)
    BY DEF Next, Receive, Abort, vars, SendTimesOut, ReceiveData, ReceiveResponse, DropMessage,
           MisreadHeader, Swallow, ReceiveCancelled, ReadTimesOut, AbortBegins, AbortCancels,
           AbortTells, DeviceServes, DeviceSends, Parsed, End
  <1> QED
    BY <1>1, <1>2, <1>3, <1>4

\* No chunk is dropped while data of the current call has been received.
LEMMA NoDrop ==
    ASSUME TypeOK, GotSound, DropMessage \/ MisreadHeader \/ Swallow
    PROVE  got = <<>>
  <1> SUFFICES ASSUME got # <<>> PROVE FALSE
    OBVIOUS
  <1>1. tx # None /\ pipe # <<>>
    BY DEF DropMessage, MisreadHeader, Swallow, Reading
  <1>2. Line # <<>> /\ Line[1] = Incoming
    <2>1. pipe \in Seq(Chunk) /\ pending \in Seq(Chunk)
      BY DEF TypeOK
    <2> QED
      BY <1>1, <2>1 DEF Line, Incoming
  <1> DEFINE n == got[1].of
             l == got[Len(got)]
  <1>3. got \in Seq(Chunk) /\ Len(got) \in Nat /\ Len(got) \in DOMAIN got /\ 1 \in DOMAIN got
    BY DEF TypeOK
  <1>4. n \in Nat
    <2>1. got[1] \in Chunk
      BY <1>3
    <2> QED
      BY <2>1 DEF Chunk
  <1>5. /\ \A k \in DOMAIN got : got[k] = [tx |-> tx, type |-> "data", part |-> k, of |-> n]
        /\ Len(got) <= n /\ parser = (IF Len(got) < n THEN "data" ELSE "fresh")
        /\ Follows(l, Incoming)
    BY <1>1, <1>2 DEF GotSound
  <1>6. l = [tx |-> tx, type |-> "data", part |-> Len(got), of |-> n]
    BY <1>3, <1>5
  <1> HIDE DEF l, n
  <1>7. parser = "fresh"
    BY <1>5 DEF DropMessage, MisreadHeader, Swallow
  <1>8. IsShort(l)
    BY <1>3, <1>4, <1>5, <1>6, <1>7 DEF IsShort
  <1>9. Incoming.tx = tx /\ IsHead(Incoming)
    BY <1>5, <1>6, <1>8 DEF Follows, IsHead
  <1> QED
    BY <1>7, <1>9 DEF DropMessage, MisreadHeader, Swallow, Mine

\* The head of the line stays, unless a chunk is read.
LEMMA HeadStays ==
    ASSUME TypeOK, [Next]_vars, ~Taken
    PROVE  /\ Line # <<>> /\ Line' # <<>> => Line'[1] = Line[1]
           /\ Line # <<>> /\ Line' = <<>> /\ ~IsHead(Line[1]) => truncated'
           /\ Line = <<>> /\ Line' # <<>> => IsStart(Line'[1]) /\ requests # <<>>
           /\ truncated => truncated'
           /\ requests = <<>> /\ ~Begin => requests' = <<>>
  <1>0. DOMAIN Line = 1..Len(Line) /\ Len(Line) \in Nat /\ (Line = <<>> <=> Len(Line) = 0)
    BY LineIs
  <1>1. CASE UNCHANGED <<pipe, pending, truncated>> /\ (Begin \/ requests' = requests)
    BY <1>0, <1>1 DEF Line
  <1>2. CASE DeviceSends
    BY <1>0, <1>2, SentIs DEF DeviceSends
  <1>3. CASE AbortTells
    <2>1. /\ DOMAIN Line' = 1..Len(Line') /\ Len(Line') \in Nat
          /\ (Line' = <<>> <=> Len(Line') = 0)
          /\ \A i \in DOMAIN Line' : i \in DOMAIN Line /\ Line'[i] = Line[i]
          /\ \/ UNCHANGED Line
             \/ Line[Len(Line') + 1] = Head(pending) /\ (~IsHead(Head(pending)) => truncated')
          /\ truncated => truncated'
          /\ requests = <<>> => requests' = <<>>
      BY <1>3, CutIs, RequestsCut
    <2> HIDE DEF Line
    <2>2. Line' # <<>> => 1 \in DOMAIN Line'
      BY <2>1
    <2> QED
      BY <1>0, <2>1, <2>2
  <1>4. CASE DeviceServes
    <2> DEFINE l == Len(Line)
    <2>1. /\ \A i \in 1..l : Line'[i] = Line[i]
          /\ l + 1 \in DOMAIN Line' /\ IsStart(Line'[l + 1])
          /\ DOMAIN Line = 1..l /\ l \in Nat /\ (Line = <<>> <=> l = 0) /\ Line' # <<>>
          /\ truncated' = truncated
      BY <1>4, ServedChain
    <2>2. requests # <<>>
      BY <1>4 DEF DeviceServes
    <2> HIDE DEF Line, l
    <2>4. Line # <<>> => Line'[1] = Line[1]
      BY <2>1
    <2>6. Line = <<>> => Line'[1] = Line'[l + 1]
      BY <2>1
    <2> QED
      BY <2>1, <2>2, <2>4, <2>6
  <1> QED
    BY <1>1, <1>2, <1>3, <1>4, LineMoves

\* A step that reads nothing takes no chunk off the line.
LEMMA NotTaken ==
    ASSUME TypeOK,
           \/ AbortBegins \/ AbortCancels \/ AbortTells \/ DeviceServes \/ DeviceSends \/ UNCHANGED vars
    PROVE  UNCHANGED <<tx, got, parser>> /\ ~Begin /\ ~Taken
  <1>1. UNCHANGED <<tx, got, parser>>
    BY DEF AbortBegins, AbortCancels, AbortTells, DeviceServes, DeviceSends, vars
  <1>2. ~Begin
    BY <1>1, BoundsAreNat DEF Begin, TypeOK, Ids, None
  <1>3. ~Taken
    <2>1. pipe \in Seq(Chunk) /\ pending \in Seq(Chunk)
      BY DEF TypeOK
    <2>2. Taken => Len(pipe') = Len(pipe) - 1 /\ Len(pipe) \in Nat /\ UNCHANGED pending
      BY <2>1, TailIs DEF Taken, Take
    <2>3. pipe' = pipe \/ DeviceSends
      BY DEF AbortBegins, AbortCancels, AbortTells, DeviceServes, device, vars
    <2>4. DeviceSends => Len(pending') = Len(pending) - 1 /\ Len(pending) \in Nat
      BY <2>1, TailIs DEF DeviceSends
    <2> QED
      BY <2>2, <2>3, <2>4
  <1> QED
    BY <1>1, <1>2, <1>3

\* What comes after the chunk that is read.
LEMMA AfterTaken ==
    ASSUME TypeOK, LineSound, Taken
    PROVE  /\ truncated' = truncated /\ requests' = requests
           /\ Line' # <<>> =>
                /\ 1 \in DOMAIN Line /\ 1 + 1 \in DOMAIN Line /\ Line'[1] = Line[1 + 1]
                /\ \/ Follows(Incoming, Line'[1])
                   \/ IsStart(Line'[1]) /\ (IsShort(Incoming) \/ truncated)
           /\ Line' = <<>> => IsShort(Incoming) \/ truncated
           /\ IsShort(Incoming) /\ Line' # <<>> => IsHead(Line'[1])
           /\ ~IsShort(Incoming) /\ ~truncated => Line' # <<>> /\ ~IsHead(Line'[1])
           /\ Line[1] = Incoming /\ 1 \in DOMAIN Line /\ Line # <<>>
  <1>1. /\ 1 \in DOMAIN Line /\ Line # <<>> /\ Line[1] = Incoming
        /\ DOMAIN Line' = 1..Len(Line) - 1
        /\ \A i \in DOMAIN Line' : i + 1 \in DOMAIN Line /\ Line'[i] = Line[i + 1]
        /\ (Line' = <<>> <=> Len(Line) = 1)
        /\ UNCHANGED <<requests, truncated>>
    BY TakenIs
  <1>2. DOMAIN Line = 1..Len(Line) /\ Len(Line) \in Nat
    BY LineIs
  <1>3. Line' # <<>> => 1 \in DOMAIN Line' /\ 1 + 1 \in DOMAIN Line /\ Line'[1] = Line[1 + 1]
    <2> HIDE DEF Line
    <2> QED
      BY <1>1, <1>2
  <1>4. Line' # <<>> => \/ Follows(Incoming, Line'[1])
                        \/ IsStart(Line'[1]) /\ (IsShort(Incoming) \/ truncated)
    BY <1>1, <1>3 DEF LineSound
  <1>5. Line' = <<>> => IsShort(Incoming) \/ truncated
    BY <1>1 DEF LineSound
  <1>6. Incoming.part \in Nat /\ Incoming.part >= 1
    BY <1>1, ChunkIs, BoundsAreNat
  <1>7. Follows(Incoming, Line'[1]) => (IsHead(Line'[1]) <=> IsShort(Incoming))
    BY <1>6 DEF Follows, IsHead
  <1> HIDE DEF Line
  <1> QED
    BY <1>1, <1>3, <1>4, <1>5, <1>7 DEF IsStart

\* What has been received stays the beginning of the answer.
LEMMA GotStep ==
    ASSUME TypeOK, LineSound, OwnSound, GotSound, [Next]_vars
    PROVE  GotSound'
  <1>1. CASE Begin
    BY <1>1 DEF Begin, ParserFor, GotSound
  <1>2. CASE tx' = None
    BY <1>2 DEF GotSound
  <1>3. CASE ReceiveData
    <2> DEFINE c == Line[1]
               g == Append(got, c)
               m == Len(got) + 1
    <2>1. /\ Taken /\ c = Incoming /\ tx # None
          /\ c = [tx |-> tx, type |-> "data", part |-> m, of |-> c.of]
          /\ c.of \in 1..MaxChunks /\ m <= c.of
          /\ got # <<>> => c.of = got[1].of
          /\ Len(got) \in Nat /\ (got = <<>> <=> Len(got) = 0)
      BY <1>3, DataRead
    <2>2. /\ got' = g /\ tx' = tx
          /\ parser' = IF IsShort(c) THEN "fresh" ELSE "data"
      BY <1>3, <2>1 DEF ReceiveData, Parsed, After
    <2>3. /\ Len(g) = m /\ g[m] = c /\ DOMAIN g = 1..m /\ g # <<>>
          /\ \A k \in 1..Len(got) : g[k] = got[k] /\ k \in DOMAIN got
      <3>1. got \in Seq(Chunk) /\ c \in Chunk
        BY <2>1, ChunkIs, TakenIs DEF TypeOK
      <3> HIDE DEF c
      <3> QED
        BY <3>1
    <2>4. /\ requests' = <<>>
          /\ Line' # <<>> => Follows(c, Line'[1])
      <3>1. /\ requests' = requests /\ 1 \in DOMAIN Line
            /\ Line' # <<>> => 1 + 1 \in DOMAIN Line /\ Line'[1] = Line[1 + 1]
        BY <2>1, AfterTaken
      <3>2. c.tx = tx
        BY <2>1
      <3> QED
        BY <2>1, <3>1, <3>2 DEF OwnSound
    <2> HIDE DEF c, g
    <2>5. c.tx = tx /\ c.type = "data" /\ c.part = m
      BY <2>1
    <2>6. g[1].of = c.of
      <3>1. CASE got = <<>>
        BY <2>1, <2>3, <3>1
      <3>2. CASE got # <<>>
        BY <2>1, <2>3, <3>2
      <3> QED
        BY <3>1, <3>2
    <2>7. ASSUME NEW k \in DOMAIN g
          PROVE  g[k] = [tx |-> tx, type |-> "data", part |-> k, of |-> c.of]
      <3>1. CASE k = m
        BY <2>1, <2>3, <3>1
      <3>2. CASE k \in 1..Len(got)
        <4>1. got # <<>> /\ k \in DOMAIN got /\ g[k] = got[k]
          BY <2>1, <2>3, <3>2
        <4> QED
          BY <2>1, <4>1 DEF GotSound
      <3> QED
        BY <2>1, <2>3, <3>1, <3>2
    <2>8. parser' = IF m < c.of THEN "data" ELSE "fresh"
      BY <2>1, <2>2, <2>5, BoundsAreNat DEF IsShort
    <2> QED
      BY <2>1, <2>2, <2>3, <2>4, <2>6, <2>7, <2>8 DEF GotSound
  <1>4. CASE DropMessage \/ MisreadHeader \/ Swallow
    <2>1. got = <<>>
      BY <1>4, NoDrop
    <2>2. tx' = None \/ \E p \in {"foreign", "endless"} : Parsed(p) /\ got' = got
      BY <1>4 DEF DropMessage, MisreadHeader, Swallow, End
    <2> QED
      BY <2>1, <2>2 DEF GotSound, Parsed, After
  <1>5. CASE AbortBegins \/ AbortCancels \/ AbortTells \/ DeviceServes \/ DeviceSends \/ UNCHANGED vars
    <2>1. UNCHANGED <<tx, got, parser>> /\ ~Begin /\ ~Taken
      BY <1>5, NotTaken
    <2>2. /\ requests = <<>> => requests' = <<>> /\ (Line' # <<>> => Line # <<>> /\ Line'[1] = Line[1])
      BY <2>1, HeadStays
    <2> QED
      BY <2>1, <2>2 DEF GotSound
  <1> QED
    BY <1>1, <1>2, <1>3, <1>4, <1>5
       DEF Next, Receive, Abort, SendTimesOut, ReceiveResponse, ReceiveCancelled, ReadTimesOut, End

\* Data of the current call is lost only to a stump.
LEMMA ParserStep ==
    ASSUME TypeOK, LineSound, OwnSound, GotSound, ParserSound, AgeSound, [Next]_vars
    PROVE  ParserSound'
  <1>1. CASE Begin
    <2>1. parser' = "fresh" /\ tx' = next /\ tx = None /\ UNCHANGED <<pipe, pending>>
      BY <1>1 DEF Begin, ParserFor
    <2>2. next \notin Outstanding
      BY <2>1, NextFresh
    <2>3. Line' = Line /\ (Line # <<>> => Line[1].tx # next)
      <3>1. Line # <<>> => 1 \in DOMAIN Line
        BY LineIs
      <3> QED
        BY <2>1, <2>2, <3>1 DEF Outstanding, Line
    <2> QED
      BY <2>1, <2>3 DEF ParserSound
  <1>2. CASE tx' = None
    BY <1>2 DEF ParserSound
  <1>3. CASE ReceiveData
    <2>1. Len(got') = Len(got) + 1 /\ Len(got) \in Nat
      BY <1>3 DEF ReceiveData, TypeOK
    <2>2. got' # <<>>
      BY <2>1
    <2> QED
      BY <1>3, <2>2 DEF ParserSound, ReceiveData, Parsed, After
  <1>4. CASE (DropMessage \/ MisreadHeader \/ Swallow) /\ tx' # None
    <2>1. tx # None /\ Taken /\ got = <<>>
      BY <1>4, NoDrop DEF DropMessage, MisreadHeader, Swallow, Reading, Parsed, Taken, Take, End
    <2>2. PICK p \in {"foreign", "endless"} : Parsed(p)
      BY <1>4 DEF DropMessage, MisreadHeader, Swallow, End
    <2>3. parser' = "endless" \/ (parser # "endless" /\ p = "foreign")
      BY <1>4, <2>2 DEF DropMessage, MisreadHeader, Swallow, Parsed, After
    <2>4. CASE parser' = "endless"
      BY <2>4 DEF ParserSound
    <2>5. CASE parser # "endless" /\ p = "foreign"
      <3>1. /\ truncated' = truncated /\ tx' = tx /\ Line # <<>> /\ Line[1] = Incoming
            /\ parser' = IF IsShort(Incoming) THEN "fresh" ELSE "foreign"
            /\ Line' # <<>> =>
                  \/ Follows(Incoming, Line'[1])
                  \/ IsStart(Line'[1]) /\ (IsShort(Incoming) \/ truncated)
            /\ ~IsShort(Incoming) /\ ~truncated => Line' # <<>> /\ ~IsHead(Line'[1])
        BY <2>1, <2>2, <2>5, AfterTaken DEF Parsed, After
      <3>2. Incoming.tx = tx => ~IsStart(Incoming) \/ truncated
        BY <1>4, <2>1, <2>5, <3>1 DEF ParserSound, DropMessage, MisreadHeader, Swallow, Mine, IsStart
      <3>3. Incoming.tx = tx => truncated
        BY <2>1, <2>5, <3>1, <3>2 DEF ParserSound
      <3>4. Follows(Incoming, Line'[1]) => Line'[1].tx = Incoming.tx
        BY DEF Follows
      <3> HIDE DEF Line
      <3> QED
        BY <3>1, <3>3, <3>4 DEF ParserSound
    <2> QED
      BY <2>3, <2>4, <2>5
  <1>5. CASE AbortBegins \/ AbortCancels \/ AbortTells \/ DeviceServes \/ DeviceSends \/ UNCHANGED vars
    <2>1. UNCHANGED <<tx, got, parser>> /\ ~Begin /\ ~Taken
      BY <1>5, NotTaken
    <2>2. /\ Line # <<>> /\ Line' # <<>> => Line'[1] = Line[1]
          /\ Line # <<>> /\ Line' = <<>> /\ ~IsHead(Line[1]) => truncated'
          /\ Line = <<>> /\ Line' # <<>> => IsStart(Line'[1])
          /\ truncated => truncated'
      BY <2>1, HeadStays
    <2> HIDE DEF Line
    <2> QED
      BY <2>1, <2>2 DEF ParserSound
  <1> QED
    BY <1>1, <1>2, <1>3, <1>4, <1>5
       DEF Next, Receive, Abort, SendTimesOut, ReceiveResponse, ReceiveCancelled, ReadTimesOut, End

-----------------------------------------------------------------------------
(* What a call returns *)

\* The response is the last chunk of the answer.
LEMMA ResponseIsLast ==
    ASSUME TypeOK, LineSound, OwnSound, ReceiveResponse
    PROVE  Taken /\ tx # None /\ requests = <<>> /\ Line' = <<>> /\ requests' = <<>>
  <1>1. Taken /\ tx # None /\ Incoming.tx = tx /\ Incoming.type = "response"
    BY DEF ReceiveResponse, Reading, Taken, Mine
  <1>2. /\ requests' = requests
        /\ Line' # <<>> => /\ 1 \in DOMAIN Line /\ 1 + 1 \in DOMAIN Line /\ Line'[1] = Line[1 + 1]
        /\ Line[1] = Incoming /\ 1 \in DOMAIN Line
    BY <1>1, AfterTaken
  <1>3. requests = <<>> /\ (Line' # <<>> => Follows(Incoming, Line'[1]))
    BY <1>1, <1>2 DEF OwnSound
  <1> QED
    BY <1>1, <1>2, <1>3 DEF Follows

\* What is given to the caller is whole.
LEMMA AnswerStep ==
    ASSUME TypeOK, LineSound, OwnSound, GotSound, ParserSound, WholeAnswer, [Next]_vars
    PROVE  WholeAnswer'
  <1>1. CASE ReceiveResponse
    <2>1. /\ outcome' = [tx |-> tx, ok |-> TRUE, data |-> got] /\ tx # None
          /\ parser = "fresh" /\ Incoming.tx = tx /\ Incoming.type = "response"
          /\ truncated' = truncated
      BY <1>1 DEF ReceiveResponse, End, Take, Mine, Reading
    <2>2. Line # <<>> /\ Line[1] = Incoming
      BY <1>1, ResponseIsLast, TakenIs
    <2>3. CASE got = <<>>
      <3>1. truncated
        BY <2>1, <2>2, <2>3 DEF ParserSound, IsStart
      <3> QED
        BY <2>1, <2>3, <3>1 DEF WholeAnswer
    <2>4. CASE got # <<>>
      <3> DEFINE n == got[1].of
      <3>1. /\ \A k \in DOMAIN got : got[k] = [tx |-> tx, type |-> "data", part |-> k, of |-> n]
            /\ Len(got) <= n /\ parser = IF Len(got) < n THEN "data" ELSE "fresh"
        BY <2>1, <2>4 DEF GotSound
      <3>2. got \in Seq(Chunk) /\ Len(got) \in Nat /\ got[1] \in Chunk
        BY <2>4 DEF TypeOK
      <3>3. n \in Nat
        BY <3>2 DEF Chunk
      <3> HIDE DEF n
      <3>4. Len(got) = n
        BY <2>1, <3>1, <3>2, <3>3
      <3>5. got = [k \in 1..n |-> [tx |-> tx, type |-> "data", part |-> k, of |-> n]]
        BY <3>1, <3>2, <3>4
      <3> QED
        BY <2>1, <2>4, <3>5 DEF WholeAnswer, Message, n
    <2> QED
      BY <2>3, <2>4
  <1>2. CASE outcome'.ok = FALSE
    BY <1>2 DEF WholeAnswer
  <1>3. CASE outcome' = outcome /\ (truncated => truncated')
    BY <1>3 DEF WholeAnswer
  <1>4. ReceiveResponse \/ outcome'.ok = FALSE \/ (outcome' = outcome /\ (truncated => truncated'))
    <2>1. End(FALSE) => outcome'.ok = FALSE
      BY DEF End
    <2>2. SendTimesOut => outcome'.ok = FALSE
      BY DEF SendTimesOut
    <2>3. \A p : Parsed(p) => outcome' = outcome /\ truncated' = truncated
      BY DEF Parsed, Take
    <2>4. CASE Receive \/ ReadTimesOut
      BY <2>1, <2>3, <2>4 DEF Receive, ReceiveData, DropMessage, MisreadHeader, Swallow,
                              ReceiveCancelled, ReadTimesOut
    <2>5. CASE ~(Receive \/ ReadTimesOut)
      BY <2>2, <2>5 DEF Next, Abort, vars, device, Begin, AbortBegins, AbortCancels, AbortTells,
                        DeviceServes, DeviceSends
    <2> QED
      BY <2>4, <2>5
  <1> QED
    BY <1>1, <1>2, <1>3, <1>4

-----------------------------------------------------------------------------
(* Every answer that nobody waits for was paid for by a fault *)

\* What is outstanding was, unless a call begins.
LEMMA OutstandingFalls ==
    ASSUME TypeOK, [Next]_vars, ~Begin
    PROVE  Outstanding' \subseteq Outstanding
  <1> DEFINE R == {requests[i] : i \in DOMAIN requests}
             L == {Line[i].tx : i \in DOMAIN Line}
  <1>1. Outstanding = R \cup L /\ Outstanding' = R' \cup L'
    BY DEF Outstanding
  <1> SUFFICES R' \subseteq R \cup L /\ L' \subseteq R \cup L
    BY <1>1
  <1>2. CASE UNCHANGED <<pipe, pending, requests, truncated>>
    BY <1>2 DEF Line
  <1>3. CASE Taken
    <2>1. \A i \in DOMAIN Line' : i + 1 \in DOMAIN Line /\ Line'[i] = Line[i + 1]
      BY <1>3, TakenIs
    <2>2. requests' = requests
      BY <1>3, TakenIs
    <2> HIDE DEF Line
    <2> QED
      BY <2>1, <2>2
  <1>4. CASE AbortTells
    <2>1. \A i \in DOMAIN Line' : i \in DOMAIN Line /\ Line'[i] = Line[i]
      BY <1>4, CutIs
    <2>2. \A k \in DOMAIN requests' : \E i \in DOMAIN requests : requests'[k] = requests[i]
      BY <1>4, RequestsCut
    <2> HIDE DEF Line
    <2> QED
      BY <2>1, <2>2
  <1>5. CASE DeviceServes
    <2> DEFINE l == Len(Line)
    <2>1. /\ \A i \in 1..l : Line'[i] = Line[i]
          /\ \A i \in DOMAIN Line' : i > l => Line'[i].tx = Head(requests)
          /\ DOMAIN Line = 1..l /\ l \in Nat /\ DOMAIN Line' = 1..Len(Line') /\ Len(Line') \in Nat
      BY <1>5, ServedChain
    <2>2. requests \in Seq(Ids) /\ requests # <<>> /\ requests' = Tail(requests)
      BY <1>5 DEF DeviceServes, TypeOK
    <2>3. /\ DOMAIN requests' = 1..Len(requests) - 1 /\ DOMAIN requests = 1..Len(requests)
          /\ \A i \in 1..Len(requests) - 1 : requests'[i] = requests[i + 1] /\ i + 1 \in 1..Len(requests)
      BY <2>2, TailIs
    <2>4. Head(requests) = requests[1] /\ 1 \in DOMAIN requests
      BY <2>2
    <2> HIDE DEF Line, l
    <2>5. ASSUME NEW i \in DOMAIN Line'
          PROVE  Line'[i].tx \in R \cup L
      <3>1. i \in 1..l \/ i > l
        BY <2>1
      <3> QED
        BY <2>1, <2>4, <3>1
    <2> QED
      BY <2>3, <2>5
  <1>6. CASE DeviceSends
    <2>1. UNCHANGED <<Line, requests>>
      BY <1>6, SentIs DEF DeviceSends
    <2> HIDE DEF Line
    <2> QED
      BY <2>1
  <1> QED
    BY <1>2, <1>3, <1>4, <1>5, <1>6, LineMoves

\* A call goes on: nothing more is spoilt.
LEMMA AgeStays ==
    ASSUME AgeSound, next' = next, tx' = tx, Outstanding' \subseteq Outstanding,
           Outstanding \subseteq Ids, next \in Ids, Spoilt \in Int, Spoilt' \in Int, Spoilt' >= Spoilt
    PROVE  AgeSound'
  <1>1. Spoilt \in Nat /\ Spoilt' \in Nat
    BY DEF AgeSound
  <1>2. \A id : Age(id)' = Age(id)
    BY DEF Age
  <1>3. tx # None => Age(tx)' = 1
    BY <1>2 DEF AgeSound
  <1>4. ASSUME NEW id \in Outstanding' \ {tx'}
        PROVE  Age(id)' <= Spoilt' + (IF tx' = None THEN 0 ELSE 1)
    <2>1. Age(id) <= Spoilt + (IF tx = None THEN 0 ELSE 1)
      BY <1>4 DEF AgeSound
    <2>2. Age(id) \in Int
      BY BoundsAreNat DEF Age, Ids
    <2> HIDE DEF Outstanding, Spoilt, Age
    <2> QED
      BY <1>1, <1>2, <2>1, <2>2
  <1> QED
    BY <1>1, <1>3, <1>4 DEF AgeSound

\* A call ends: with its answer, or at the cost of a fault.
LEMMA AgeEnds ==
    ASSUME AgeSound, next' = next, tx # None, tx' = None, Outstanding' \subseteq Outstanding,
           Outstanding \subseteq Ids, next \in Ids, Spoilt \in Int, Spoilt' \in Int,
           \/ Outstanding' = {} /\ Spoilt' >= Spoilt
           \/ Spoilt' >= Spoilt + 1
    PROVE  AgeSound'
  <1>1. Spoilt \in Nat /\ Spoilt' \in Nat
    BY DEF AgeSound
  <1>2. \A id : Age(id)' = Age(id)
    BY DEF Age
  <1>4. ASSUME NEW id \in Outstanding'
        PROVE  Age(id)' <= Spoilt' + 0
    <2>1. Age(id) <= Spoilt + 1
      BY <1>1, <1>4 DEF AgeSound
    <2>2. Age(id) \in Int
      BY BoundsAreNat DEF Age, Ids
    <2> HIDE DEF Outstanding, Spoilt, Age
    <2> QED
      BY <1>1, <1>2, <1>4, <2>1, <2>2
  <1> QED
    BY <1>1, <1>4 DEF AgeSound

\* The next identifier is taken: the others are a call older.
LEMMA Older ==
    ASSUME TypeOK, next' = (next % MaxIds) + 1
    PROVE  \A id \in Ids : Age(id)' = IF id = next THEN 1 ELSE Age(id) + 1
  <1>1. next' = IF next = MaxIds THEN 1 ELSE next + 1
    BY NextId DEF TypeOK
  <1>2. next \in Nat /\ next >= 1 /\ next <= MaxIds /\ MaxIds \in Nat
    BY BoundsAreNat DEF TypeOK, Ids
  <1>3. \A id \in Ids : id \in Nat /\ id >= 1 /\ id <= MaxIds
    BY <1>2 DEF Ids
  <1> SUFFICES ASSUME NEW id \in Ids
               PROVE  Age(id)' = IF id = next THEN 1 ELSE Age(id) + 1
    OBVIOUS
  <1>4. CASE next = MaxIds
    BY <1>1, <1>2, <1>3, <1>4 DEF Age
  <1>5. CASE next # MaxIds
    BY <1>1, <1>2, <1>3, <1>5 DEF Age
  <1> QED
    BY <1>4, <1>5

\* A call begins, or fails to.
LEMMA AgeBegins ==
    ASSUME TypeOK, LineSound, AgeSound, TypeOK', LineSound', tx = None,
           next' = (next % MaxIds) + 1,
           \/ tx' = next /\ Outstanding' \subseteq Outstanding \cup {next} /\ Spoilt' >= Spoilt
           \/ tx' = None /\ Outstanding' \subseteq Outstanding /\ Spoilt' >= Spoilt + 1
    PROVE  AgeSound'
  <1>1. Spoilt \in Nat /\ Spoilt' \in Int /\ Outstanding \subseteq Ids
    BY CountedNow, CountedNext DEF Counted, AgeSound
  <1>2. next \in Ids /\ next # None /\ None \notin Ids
    BY BoundsAreNat DEF TypeOK, Ids, None
  <1>3. \A id \in Ids : Age(id)' = (IF id = next THEN 1 ELSE Age(id) + 1) /\ Age(id) \in Int
    BY <1>2, Older, BoundsAreNat DEF Age, Ids
  <1>4. \A id \in Outstanding : Age(id) <= Spoilt /\ id \in Ids /\ id # next
    <2>1. \A id \in Outstanding : Age(id) <= Spoilt + 0
      BY <1>1, <1>2 DEF AgeSound
    <2>2. next \notin Outstanding
      BY NextFresh
    <2> QED
      BY <1>1, <1>3, <2>1, <2>2
  <1> HIDE DEF Outstanding, Spoilt, Age
  <1>5. CASE tx' = next /\ Outstanding' \subseteq Outstanding \cup {next} /\ Spoilt' >= Spoilt
    <2>1. Spoilt' \in Nat
      BY <1>1, <1>5
    <2>2. Age(tx)' = 1
      <3>1. \A id : id = tx' => Age(tx)' = Age(id)'
        BY DEF Age
      <3> QED
        BY <1>2, <1>3, <1>5, <3>1
    <2>3. \A id \in Outstanding' \ {tx'} : Age(id)' <= Spoilt' + 1
      BY <1>1, <1>3, <1>4, <1>5
    <2> QED
      BY <1>2, <1>5, <2>1, <2>2, <2>3 DEF AgeSound
  <1>6. CASE tx' = None /\ Outstanding' \subseteq Outstanding /\ Spoilt' >= Spoilt + 1
    <2>1. Spoilt' \in Nat
      BY <1>1, <1>6
    <2>2. \A id \in Outstanding' : Age(id)' <= Spoilt' + 0
      BY <1>1, <1>3, <1>4, <1>6
    <2> QED
      BY <1>6, <2>1, <2>2 DEF AgeSound
  <1> QED
    BY <1>5, <1>6

\* What two parts add up to.
LEMMA PartsAddUp ==
    ASSUME NEW l \in Nat, NEW l2 \in Nat, NEW c \in Nat, NEW c2 \in Nat, NEW m \in Nat
    PROVE  /\ l2 = 0 /\ c >= c2 => l + c >= l2 + c2 + 0
           /\ l2 < m /\ c >= c2 => l + c + m >= l2 + c2 + 1
           /\ l2 < m /\ c = c2 + m => l + c >= l2 + c2 + 1
  OBVIOUS

\* The two parts fall, or a fault pays for what they grow.
LEMMA PartsFall ==
    ASSUME NEW l \in Nat, NEW l2 \in Nat, NEW c \in Nat, NEW c2 \in Nat, NEW m \in Nat, l2 <= l
    PROVE  /\ c2 <= c => l + c >= l2 + c2 + 0
           /\ c2 = c + m => l + c + m >= l2 + c2 + 0
  OBVIOUS

\* What is left when they are taken away.
LEMMA PartsTaken ==
    ASSUME NEW b \in Nat, NEW b2 \in Nat, NEW l \in Nat, NEW l2 \in Nat, NEW c \in Nat,
           NEW c2 \in Nat, NEW m \in Nat, NEW d \in Int,
           \/ b2 = b /\ l + c >= l2 + c2 + d
           \/ b2 = b + m /\ l + c + m >= l2 + c2 + d
    PROVE  b2 - l2 - c2 >= b - l - c + d
  OBVIOUS

\* How the two parts of what is spoilt add up.
LEMMA SpoiltGrows ==
    ASSUME TypeOK, LineSound, TypeOK', LineSound', NEW d \in Int,
           \/ faults' = faults /\ Lead + Cancelling >= Lead' + Cancelling' + d
           \/ faults' = faults + 1 /\ Lead + Cancelling + MaxChunks >= Lead' + Cancelling' + d
    PROVE  Spoilt' >= Spoilt + d
  <1>1. /\ Budget \in Nat /\ MaxChunks \in Nat /\ Lead \in Nat /\ Cancelling \in Nat
        /\ Spoilt = Budget - Lead - Cancelling
    BY CountedNow DEF Counted
  <1>2. /\ Budget' \in Nat /\ Lead' \in Nat /\ Cancelling' \in Nat
        /\ Spoilt' = Budget' - Lead' - Cancelling'
    BY CountedNext DEF Counted
  <1>3. \/ Budget' = Budget /\ Lead + Cancelling >= Lead' + Cancelling' + d
        \/ Budget' = Budget + MaxChunks /\ Lead + Cancelling + MaxChunks >= Lead' + Cancelling' + d
    BY BudgetIs
  <1>4. Budget' - Lead' - Cancelling' >= Budget - Lead - Cancelling + d
    BY <1>1, <1>2, <1>3, PartsTaken
  <1> QED
    BY <1>1, <1>2, <1>4

\* A chunk is read and the call goes on: no message is misread.
LEMMA ParsedAge ==
    ASSUME TypeOK, LineSound, OwnSound, AgeSound, TypeOK', LineSound', [Next]_vars,
           Reading, ~cancelled, NEW p \in {"data", "foreign", "endless"}, Parsed(p)
    PROVE  AgeSound'
  <1>1. Taken /\ tx # None /\ tx' = tx /\ next' = next /\ aborting' = aborting /\ faults' = faults
    BY DEF Reading, Parsed, Taken, Take
  <1>2. cancelled' = FALSE
    BY DEF Parsed, TypeOK
  <1>3. Lead' = 0
    <2>1. parser' = "fresh" => IsShort(Incoming)
      BY DEF Parsed, After
    <2>2. IsShort(Incoming) /\ Line' # <<>> => IsHead(Line'[1])
      BY <1>1, AfterTaken
    <2> QED
      BY <1>1, <2>1, <2>2 DEF Lead
  <1>4. Cancelling' = Cancelling
    BY <1>1, <1>2 DEF Cancelling
  <1>5. /\ Lead \in Nat /\ Cancelling \in Nat /\ Spoilt \in Int /\ Spoilt' \in Int
        /\ Outstanding \subseteq Ids
    BY CountedNow, CountedNext DEF Counted
  <1>6. Spoilt' >= Spoilt + 0
    <2>1. Lead + Cancelling >= Lead' + Cancelling' + 0
      BY <1>3, <1>4, <1>5
    <2> QED
      BY <1>1, <2>1, SpoiltGrows
  <1>7. Outstanding' \subseteq Outstanding /\ next \in Ids
    <2>1. ~Begin
      BY <1>1 DEF Begin
    <2> QED
      BY <2>1, OutstandingFalls DEF TypeOK
  <1>8. Spoilt' >= Spoilt
    BY <1>5, <1>6
  <1> QED
    BY <1>1, <1>5, <1>7, <1>8, AgeStays

\* A call ends before its answer.
LEMMA EndAge ==
    ASSUME TypeOK, LineSound, AgeSound, TypeOK', LineSound', [Next]_vars,
           tx # None, End(FALSE),
           \/ MisreadHeader \/ ReceiveCancelled \/ ReadTimesOut
    PROVE  AgeSound'
  <1>1. tx' = None /\ next' = next /\ UNCHANGED <<parser, aborting, cancelled>>
    BY DEF End
  <1>2. /\ Lead \in Nat /\ Cancelling \in Nat /\ Spoilt \in Int /\ Spoilt' \in Int
        /\ Outstanding \subseteq Ids /\ MaxChunks \in Nat /\ MaxChunks >= 1
        /\ Lead' \in Nat /\ Cancelling' \in Nat /\ Lead' < MaxChunks
    BY CountedNow, CountedNext DEF Counted
  <1>3. Outstanding' \subseteq Outstanding /\ next \in Ids
    <2>1. ~Begin
      BY DEF Begin
    <2> QED
      BY <2>1, OutstandingFalls DEF TypeOK
  <1>4. Cancelling >= Cancelling' /\ (cancelled => Cancelling = Cancelling' + MaxChunks)
    BY <1>1, <1>2 DEF Cancelling, TypeOK
  <1>5. CASE MisreadHeader
    <2>1. /\ Taken /\ faults' = faults /\ parser = "fresh" /\ ~IsHead(Incoming) /\ Line[1] = Incoming
          /\ Line # <<>> /\ 1 \in DOMAIN Line
      <3>1. Taken /\ faults' = faults /\ parser = "fresh" /\ ~IsHead(Incoming)
        BY <1>5 DEF MisreadHeader, Reading, Taken, Take, Parsed
      <3> QED
        BY <3>1, TakenIs
    <2>2. Lead = Line[1].of - Line[1].part + 1
      BY <2>1 DEF Lead
    <2>3. /\ Line[1].of \in Nat /\ Line[1].part \in Nat /\ Line[1].part <= Line[1].of
      BY <2>1, ChunkIs, BoundsAreNat DEF LineSound
    <2>4. CASE Line' # <<>> /\ ~IsHead(Line'[1])
      <3>1. Follows(Incoming, Line'[1]) /\ ~IsShort(Incoming)
        BY <2>1, <2>4, AfterTaken DEF IsStart
      <3>2. Line'[1].part = Line[1].part + 1 /\ Line'[1].of = Line[1].of
        BY <2>1, <3>1 DEF Follows
      <3>3. Lead' = Line'[1].of - Line'[1].part + 1
        BY <1>1, <2>4 DEF Lead
      <3> HIDE DEF Line, Lead
      <3> QED
        <4>1. Lead + Cancelling >= Lead' + Cancelling' + 1
          BY <1>2, <1>4, <2>2, <2>3, <3>2, <3>3
        <4>2. Spoilt' >= Spoilt + 1
          BY <2>1, <4>1, SpoiltGrows
        <4> QED
          BY <1>1, <1>2, <1>3, <4>2, AgeEnds
    <2>5. CASE ~(Line' # <<>> /\ ~IsHead(Line'[1]))
      <3>1. Lead' = 0
        BY <2>5 DEF Lead
      <3> HIDE DEF Line, Lead
      <3>2. Lead + Cancelling >= Lead' + Cancelling' + 1
        BY <1>2, <1>4, <2>2, <2>3, <3>1
      <3>3. Spoilt' >= Spoilt + 1
        BY <2>1, <3>2, SpoiltGrows
      <3> QED
        BY <1>1, <1>2, <1>3, <3>3, AgeEnds
    <2> QED
      BY <2>4, <2>5
  <1>6. CASE ReceiveCancelled
    <2>1. cancelled /\ faults' = faults
      BY <1>6 DEF ReceiveCancelled, Take
    <2>2. Lead + Cancelling >= Lead' + Cancelling' + 1
      BY <1>2, <1>4, <2>1, PartsAddUp
    <2>3. Spoilt' >= Spoilt + 1
      BY <2>1, <2>2, SpoiltGrows
    <2> QED
      BY <1>1, <1>2, <1>3, <2>3, AgeEnds
  <1>7. CASE ReadTimesOut
    <2>1. CASE faults' = faults + 1
      <3>1. Lead + Cancelling + MaxChunks >= Lead' + Cancelling' + 1
        BY <1>2, <1>4, PartsAddUp
      <3>2. Spoilt' >= Spoilt + 1
        BY <2>1, <3>1, SpoiltGrows
      <3> QED
        BY <1>1, <1>2, <1>3, <3>2, AgeEnds
    <2>2. CASE Quiet /\ faults' = faults
      <3>1. requests' = <<>> /\ Line' = <<>>
        BY <1>7, <2>2 DEF ReadTimesOut, Quiet, device, Line
      <3>2. Outstanding' = {} /\ Lead' = 0
        BY <3>1 DEF Outstanding, Lead
      <3>3. Lead + Cancelling >= Lead' + Cancelling' + 0
        BY <1>2, <1>4, <3>2, PartsAddUp
      <3>4. Spoilt' >= Spoilt + 0
        BY <2>2, <3>3, SpoiltGrows
      <3>5. Spoilt' >= Spoilt
        BY <1>2, <3>4
      <3> QED
        BY <1>1, <1>2, <1>3, <3>2, <3>5, AgeEnds
    <2> QED
      BY <1>7, <2>1, <2>2 DEF ReadTimesOut
  <1> QED
    BY <1>5, <1>6, <1>7

\* A step of the device or of the abort.
LEMMA AsideAge ==
    ASSUME TypeOK, LineSound, AgeSound, TypeOK', LineSound', [Next]_vars,
           \/ AbortBegins \/ AbortCancels \/ AbortTells \/ DeviceServes \/ DeviceSends \/ UNCHANGED vars
    PROVE  AgeSound'
  <1>1. UNCHANGED <<tx, got, parser>> /\ ~Begin /\ ~Taken
    BY NotTaken
  <1>2. /\ Lead \in Nat /\ Cancelling \in Nat /\ Spoilt \in Int /\ Spoilt' \in Int
        /\ Outstanding \subseteq Ids /\ MaxChunks \in Nat /\ Cancelling' \in Nat /\ Lead' \in Nat
    BY CountedNow, CountedNext DEF Counted
  <1>3. Outstanding' \subseteq Outstanding /\ next \in Ids
    BY <1>1, OutstandingFalls DEF TypeOK
  <1>4. Lead' <= Lead
    <2>1. /\ Line # <<>> /\ Line' # <<>> => Line'[1] = Line[1]
          /\ Line = <<>> /\ Line' # <<>> => IsHead(Line'[1])
      BY <1>1, HeadStays DEF IsStart
    <2>2. CASE Lead' = 0
      BY <1>2, <2>2
    <2>3. CASE Lead' # 0
      <3>1. Lead' = Lead
        BY <1>1, <2>1, <2>3 DEF Lead
      <3> QED
        BY <1>2, <3>1
    <2> QED
      BY <2>2, <2>3
  <1>5. next' = next
    BY DEF AbortBegins, AbortCancels, AbortTells, DeviceServes, DeviceSends, vars
  <1>6. \/ faults' = faults /\ Cancelling' <= Cancelling
        \/ faults' = faults + 1 /\ Cancelling' = Cancelling + MaxChunks
    <2>1. CASE AbortBegins
      BY <1>1, <1>2, <2>1 DEF AbortBegins, Cancelling
    <2>2. CASE AbortCancels
      <3>1. faults' = faults /\ ~aborting.told /\ aborting'.told /\ tx' = tx
        BY <1>1, <2>2 DEF AbortCancels, TypeOK
      <3> QED
        BY <1>2, <3>1 DEF Cancelling
    <2>3. CASE AbortTells
      BY <1>1, <1>2, <2>3 DEF AbortTells, Cancelling
    <2>4. CASE DeviceServes \/ DeviceSends \/ UNCHANGED vars
      BY <1>1, <1>2, <2>4 DEF DeviceServes, DeviceSends, vars, Cancelling
    <2> QED
      BY <2>1, <2>2, <2>3, <2>4
  <1>7. \/ faults' = faults /\ Lead + Cancelling >= Lead' + Cancelling' + 0
        \/ faults' = faults + 1 /\ Lead + Cancelling + MaxChunks >= Lead' + Cancelling' + 0
    BY <1>2, <1>4, <1>6, PartsFall
  <1>8. Spoilt' >= Spoilt + 0
    BY <1>7, SpoiltGrows
  <1>9. Spoilt' >= Spoilt
    BY <1>2, <1>8
  <1> QED
    BY <1>1, <1>2, <1>3, <1>5, <1>9, AgeStays

\* A call begins, or its command cannot be sent.
LEMMA BeginAge ==
    ASSUME TypeOK, LineSound, AgeSound, TypeOK', LineSound', [Next]_vars, Begin \/ SendTimesOut
    PROVE  AgeSound'
  <1>1. /\ Lead \in Nat /\ Cancelling \in Nat /\ Spoilt \in Int /\ Spoilt' \in Int
        /\ Outstanding \subseteq Ids /\ MaxChunks \in Nat /\ MaxChunks >= 1
    BY CountedNow, CountedNext DEF Counted
  <1>2. tx = None /\ next' = (next % MaxIds) + 1 /\ UNCHANGED <<pipe, pending, aborting>>
    BY DEF Begin, SendTimesOut, device
  <1>3. Line' = Line /\ None \notin Ids
    BY <1>2, BoundsAreNat DEF Line, Ids, None
  <1>4. CASE Begin
    <2>1. tx' = next /\ faults' = faults /\ parser' = "fresh" /\ cancelled' = FALSE
          /\ requests' = Append(requests, next)
      BY <1>4 DEF Begin, ParserFor
    <2>2. Lead' = Lead /\ Cancelling' = Cancelling
      BY <1>2, <1>3, <2>1 DEF Lead, Cancelling
    <2>3. Lead + Cancelling >= Lead' + Cancelling' + 0
      BY <1>1, <2>2
    <2>4. Spoilt' >= Spoilt + 0
      BY <2>1, <2>3, SpoiltGrows
    <2>5. Outstanding' \subseteq Outstanding \cup {next}
      <3>1. requests \in Seq(Ids) /\ next \in Ids
        BY DEF TypeOK
      <3>2. \A i \in DOMAIN requests' :
               requests'[i] = next \/ (i \in DOMAIN requests /\ requests'[i] = requests[i])
        BY <2>1, <3>1
      <3> HIDE DEF Line
      <3> QED
        BY <1>3, <3>2 DEF Outstanding
    <2>6. Spoilt' >= Spoilt
      BY <1>1, <2>4
    <2> QED
      BY <1>2, <2>1, <2>5, <2>6, AgeBegins
  <1>5. CASE SendTimesOut
    <2>1. tx' = None /\ faults' = faults + 1 /\ UNCHANGED <<parser, cancelled, requests>>
      BY <1>2, <1>5 DEF SendTimesOut, device
    <2>2. Lead' = Lead /\ Cancelling' = Cancelling /\ Outstanding' = Outstanding
      BY <1>2, <1>3, <2>1 DEF Lead, Cancelling, Outstanding
    <2>3. Lead + Cancelling + MaxChunks >= Lead' + Cancelling' + 1
      BY <1>1, <2>2
    <2>4. Spoilt' >= Spoilt + 1
      BY <2>1, <2>3, SpoiltGrows
    <2> QED
      BY <1>2, <2>1, <2>2, <2>4, AgeBegins
  <1> QED
    BY <1>4, <1>5

\* A call ends with its response: nothing of it is left.
LEMMA ResponseAge ==
    ASSUME TypeOK, LineSound, OwnSound, AgeSound, TypeOK', LineSound', [Next]_vars, ReceiveResponse
    PROVE  AgeSound'
  <1>1. /\ Lead \in Nat /\ Cancelling \in Nat /\ Spoilt \in Int /\ Spoilt' \in Int
        /\ Outstanding \subseteq Ids /\ Cancelling' \in Nat
    BY CountedNow, CountedNext DEF Counted
  <1>2. tx # None /\ Line' = <<>> /\ requests' = <<>>
    BY ResponseIsLast
  <1>3. tx' = None /\ next' = next /\ faults' = faults /\ UNCHANGED <<aborting, cancelled>>
    BY DEF ReceiveResponse, End, Take
  <1>4. Outstanding' = {} /\ Lead' = 0
    BY <1>2 DEF Outstanding, Lead
  <1>5. Cancelling >= Cancelling'
    BY <1>1, <1>2, <1>3, BoundsAreNat DEF Cancelling, TypeOK
  <1>6. Lead + Cancelling >= Lead' + Cancelling' + 0
    BY <1>1, <1>4, <1>5, PartsAddUp, BoundsAreNat
  <1>7. Spoilt' >= Spoilt + 0
    BY <1>3, <1>6, SpoiltGrows
  <1>8. Spoilt' >= Spoilt
    BY <1>1, <1>7
  <1>9. Outstanding' \subseteq Outstanding /\ next \in Ids
    BY <1>4 DEF TypeOK
  <1> QED
    BY <1>1, <1>2, <1>3, <1>4, <1>8, <1>9, AgeEnds

\* Faults pay for every answer that nobody waits for.
LEMMA AgeStep ==
    ASSUME TypeOK, LineSound, OwnSound, AgeSound, TypeOK', LineSound', [Next]_vars
    PROVE  AgeSound'
  <1>1. CASE Begin \/ SendTimesOut
    BY <1>1, BeginAge
  <1>2. CASE ReceiveData
    <2>1. Reading /\ ~cancelled /\ Parsed("data")
      BY <1>2 DEF ReceiveData
    <2> QED
      BY <2>1, ParsedAge
  <1>3. CASE ReceiveResponse
    BY <1>3, ResponseAge
  <1>4. CASE DropMessage \/ MisreadHeader \/ Swallow
    <2>1. Reading /\ ~cancelled
      BY <1>4 DEF DropMessage, MisreadHeader, Swallow
    <2>2. \/ \E p \in {"foreign", "endless"} : Parsed(p)
          \/ MisreadHeader /\ End(FALSE)
      BY <1>4 DEF DropMessage, MisreadHeader, Swallow
    <2>3. CASE MisreadHeader /\ End(FALSE)
      BY <2>1, <2>3, EndAge DEF Reading
    <2> QED
      BY <2>1, <2>2, <2>3, ParsedAge
  <1>5. CASE ReceiveCancelled \/ ReadTimesOut
    <2>1. tx # None /\ End(FALSE)
      BY <1>5 DEF ReceiveCancelled, ReadTimesOut, Reading
    <2> QED
      BY <1>5, <2>1, EndAge
  <1>6. CASE \/ AbortBegins \/ AbortCancels \/ AbortTells \/ DeviceServes \/ DeviceSends
             \/ UNCHANGED vars
    BY <1>6, AsideAge
  <1> QED
    BY <1>1, <1>2, <1>3, <1>4, <1>5, <1>6 DEF Next, Receive, Abort

-----------------------------------------------------------------------------
(* The session *)

\* Nothing has been asked, nothing is on its way.
LEMMA InitSound == Init => SessionInv
  <1> SUFFICES ASSUME Init PROVE SessionInv
    OBVIOUS
  <1>1. /\ requests = <<>> /\ pending = <<>> /\ pipe = <<>> /\ tx = None /\ faults = 0
        /\ cancelled = FALSE /\ aborting = [tx |-> None, told |-> TRUE] /\ next = 1
        /\ outcome = [tx |-> None, ok |-> FALSE, data |-> <<>>]
    BY DEF Init
  <1>2. Line = <<>>
    BY <1>1 DEF Line
  <1>3. TypeOK
    <2>1. 1 \in Ids /\ MaxChunks \in Nat /\ MaxFaults \in Nat
      BY BoundsAreNat DEF Ids
    <2>2. <<>> \in Seq(Chunk) /\ Len(<<>>) = 0 /\ <<>> \in Seq(Ids)
      OBVIOUS
    <2>3. got = <<>> /\ parser = "fresh" /\ truncated = FALSE
      BY DEF Init
    <2>4. got \in Seq(Chunk) /\ Len(got) <= MaxChunks
      BY <2>1, <2>2, <2>3
    <2>5. outcome \in [tx : Ids \cup {None}, ok : BOOLEAN, data : Seq(Chunk)]
      BY <1>1, <2>2
    <2>6. aborting \in [tx : Ids \cup {None}, told : BOOLEAN]
      BY <1>1
    <2>7. requests \in Seq(Ids) /\ pending \in Seq(Chunk) /\ pipe \in Seq(Chunk)
      BY <1>1, <2>2
    <2>8. faults \in 0..MaxFaults /\ next \in Ids
      BY <1>1, <2>1
    <2> QED
      BY <1>1, <2>3, <2>4, <2>5, <2>6, <2>7, <2>8 DEF TypeOK
  <1>4. LineSound
    BY <1>2 DEF LineSound
  <1>5. OwnSound /\ GotSound /\ ParserSound /\ WholeAnswer
    BY <1>1 DEF OwnSound, GotSound, ParserSound, WholeAnswer
  <1>6. AgeSound
    <2>1. MaxChunks \in Nat
      BY BoundsAreNat
    <2>2. Lead = 0 /\ Cancelling = 0 /\ Outstanding = {}
      BY <1>1, <1>2 DEF Lead, Cancelling, Outstanding
    <2>3. Spoilt = 0
      BY <1>1, <2>1, <2>2 DEF Spoilt
    <2> QED
      BY <1>1, <2>2, <2>3 DEF AgeSound
  <1> QED
    BY <1>3, <1>4, <1>5, <1>6 DEF SessionInv

\* Every step keeps the session sound.
LEMMA StepSound == SessionInv /\ [Next]_vars => SessionInv'
  <1> SUFFICES ASSUME SessionInv, [Next]_vars PROVE SessionInv'
    OBVIOUS
  <1>1. /\ TypeOK /\ LineSound /\ OwnSound /\ GotSound /\ ParserSound /\ AgeSound /\ WholeAnswer
    BY DEF SessionInv
  <1>2. TypeOK'
    BY <1>1, TypeStep
  <1>3. LineSound'
    BY <1>1, LineStep
  <1>4. OwnSound'
    BY <1>1, OwnStep
  <1>5. GotSound'
    BY <1>1, GotStep
  <1>6. ParserSound'
    BY <1>1, ParserStep
  <1>7. AgeSound'
    BY <1>1, <1>2, <1>3, AgeStep
  <1>8. WholeAnswer'
    BY <1>1, AnswerStep
  <1> QED
    BY <1>2, <1>3, <1>4, <1>5, <1>6, <1>7, <1>8 DEF SessionInv

\* The session is sound in every state, whatever times out or is aborted.
THEOREM SessionIsSound == Spec => []SessionInv
  BY InitSound, StepSound, PTL DEF Spec

\* A call that succeeds has been given its own answer, all of it and nothing else:
\* PipePacketer::Read drops what other calls left in the pipe.
THEOREM AnswersAlwaysWhole == Spec => []AnswersWhole
  <1>1. SessionInv => AnswersWhole
    BY DEF SessionInv, AnswersWhole
  <1> QED
    BY <1>1, SessionIsSound, PTL

\* An identifier is taken for a call only when no command and no answer of an
\* earlier call that used it is left on its way: Session::Transaction compares no
\* more than the identifier, so the drop of foreign messages rests on this.
THEOREM IdentifiersAlwaysFresh == Spec => [][Begin => next \notin Outstanding]_vars
  <1>1. SessionInv /\ [Next]_vars => [Begin => next \notin Outstanding]_vars
    BY NextFresh DEF SessionInv, Begin
  <1> QED
    BY <1>1, SessionIsSound, PTL DEF Spec
=============================================================================
