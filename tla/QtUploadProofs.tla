--------------------------- MODULE QtUploadProofs ---------------------------
(* What QtUpload says of the window and its worker, proved for all devices,   *)
(* jobs, names and bounds: types; that nothing comes between the two requests  *)
(* of a file (Inv1); that the rows, the command at work and the history agree  *)
(* with the device (Inv2); and, where no folder has the name of a file that is *)
(* sent, that _directories does (Inv3), and that a folder gets no second file  *)
(* of a name (Inv4); and that a job in which nothing fails does all it is for  *)
(* (Inv5).                                                                     *)
EXTENDS QtUpload, FiniteSetTheorems, SequenceTheorems, WellFoundedInduction, TLAPS

(* Facts about the operators *)

RowSet == [id : Nat, name : NameSet \cup {Unknown, Missing}]

LEMMA PathFacts ==
  ASSUME NEW p \in Paths
  PROVE  /\ p \in Seq(NameSet) /\ Len(p) \in Nat \ {0} /\ p # <<>>
         /\ Last(p) \in NameSet
         /\ Front(p) \in Seq(NameSet) /\ Len(Front(p)) = Len(p) - 1
<1>1. p \in Seq(NameSet) /\ p # <<>>
  BY DEF Paths
<1>2. Len(p) \in Nat \ {0} /\ \A k \in 1..Len(p) : p[k] \in NameSet
  BY <1>1
<1>3. Last(p) \in NameSet
  BY <1>2 DEF Last
<1>4. Front(p) \in Seq(NameSet) /\ Len(Front(p)) = Len(p) - 1
  <2> DEFINE m == Len(p) - 1
  <2>1. m \in Nat /\ 1 \in Int /\ m \in Int /\ \A k \in 1..m : p[k] \in NameSet
    BY <1>2
  <2> HIDE DEF m
  <2>2. SubSeq(p, 1, m) \in Seq(NameSet) /\ Len(SubSeq(p, 1, m)) = IF 1 <= m THEN m - 1 + 1 ELSE 0
    BY <2>1, SubSeqProperties
  <2>3. SubSeq(p, 1, m) \in Seq(NameSet) /\ Len(SubSeq(p, 1, m)) = m
    BY <2>1, <2>2
  <2> QED
    BY <2>3 DEF Front, m
<1> QED
  BY <1>1, <1>2, <1>3, <1>4

LEMMA PutFacts ==
  ASSUME NEW f, NEW x, NEW y
  PROVE  /\ DOMAIN Put(f, x, y) = DOMAIN f \cup {x}
         /\ Put(f, x, y)[x] = y
         /\ \A z \in DOMAIN f : z # x => Put(f, x, y)[z] = f[z]
BY DEF Put

LEMMA DeletedFacts ==
  ASSUME NEW i
  PROVE  /\ DOMAIN Deleted(i) \subseteq DOMAIN obj \ {i}
         /\ \A j \in DOMAIN Deleted(i) : Deleted(i)[j] = obj[j]
BY DEF Deleted, Restrict

LEMMA SetToSeqFacts ==
  ASSUME NEW S, IsFiniteSet(S)
  PROVE  /\ SetToSeq(S) \in Seq(S)
         /\ \A k, l \in DOMAIN SetToSeq(S) : SetToSeq(S)[k] = SetToSeq(S)[l] => k = l
         /\ \A x \in S : \E k \in DOMAIN SetToSeq(S) : SetToSeq(S)[k] = x
<1> DEFINE n == Cardinality(S)
           s == SetToSeq(S)
<1>1. n \in Nat /\ ExistsBijection(1..n, S)
  BY FS_CardinalityType
<1>2. PICK f \in Bijection(1..n, S) : TRUE
  BY <1>1 DEF ExistsBijection
<1>3. f \in [1..n -> S] /\ IsInjective(f)
  BY <1>2 DEF Bijection, Injection
<1>4. s \in [1..n -> S] /\ IsInjective(s)
  BY <1>3 DEF SetToSeq
<1>5. s \in Injection(1..n, S)
  BY <1>4 DEF Injection
<1>6. IsFiniteSet(1..n) /\ Cardinality(1..n) = n
  BY <1>1, FS_Interval
<1>7. s \in Surjection(1..n, S)
  BY <1>5, <1>6, FS_Injection
<1>8. \A x \in S : \E k \in 1..n : s[k] = x
  BY <1>7 DEF Surjection
<1>9. s \in Seq(S)
  BY <1>1, <1>4 DEF Seq
<1> QED
  BY <1>4, <1>8, <1>9 DEF IsInjective

LEMMA RowsOfFacts ==
  ASSUME NEW m \in Nat, NEW S \in SUBSET (1..m)
  PROVE  /\ RowsOf(S) \in Seq(RowSet)
         /\ \A k \in DOMAIN RowsOf(S) : RowsOf(S)[k].id \in S /\ RowsOf(S)[k].name = Unknown
         /\ \A k, l \in DOMAIN RowsOf(S) : RowsOf(S)[k].id = RowsOf(S)[l].id => k = l
         /\ \A i \in S : \E k \in DOMAIN RowsOf(S) : RowsOf(S)[k].id = i
<1>1. IsFiniteSet(S)
  <2>1. IsFiniteSet(1..m)
    BY FS_Interval
  <2> QED
    BY <2>1, FS_Subset
<1> DEFINE ids == SetToSeq(S)
<1>2. /\ ids \in Seq(S)
      /\ \A k, l \in DOMAIN ids : ids[k] = ids[l] => k = l
      /\ \A x \in S : \E k \in DOMAIN ids : ids[k] = x
  BY <1>1, SetToSeqFacts
<1>3. RowsOf(S) = [k \in DOMAIN ids |-> [id |-> ids[k], name |-> Unknown]]
  BY DEF RowsOf
<1> HIDE DEF ids
<1>4. Len(ids) \in Nat /\ DOMAIN ids = 1..Len(ids) /\ \A k \in DOMAIN ids : ids[k] \in S
  BY <1>2
<1>5. RowsOf(S) \in Seq(RowSet)
  <2>1. \A k \in 1..Len(ids) : [id |-> ids[k], name |-> Unknown] \in RowSet
    <3>1. \A x \in S : x \in Nat
      OBVIOUS
    <3> QED
      BY <1>4, <3>1 DEF RowSet
  <2>2. RowsOf(S) = [k \in 1..Len(ids) |-> [id |-> ids[k], name |-> Unknown]]
    BY <1>3, <1>4
  <2> QED
    BY <2>1, <2>2, <1>4 DEF Seq
<1> QED
  BY <1>2, <1>3, <1>4, <1>5

----------------------------------------------------------------------------
(* What every state is made of *)

Ends == [op : {"finish"}, id : Nat]
Kinds == {"upload", "album", "import", "download"}

DevOK ==
  /\ top \in Nat /\ DOMAIN obj \subseteq 1..top
  /\ \A i \in DOMAIN obj : obj[i] \in [name : NameSet, parent : Nat, dir : BOOLEAN] /\ obj[i].parent < i

ModelOK ==
  /\ model \in [parent : Nat, rows : Seq(RowSet)]
  /\ model.parent <= top
  /\ \A k \in DOMAIN model.rows : model.rows[k].id <= top

WindowOK ==
  /\ gui \in {"idle", "dialog", "ask", "next", "stuck", "crashed"}
  /\ turns \in 0..MaxTurns /\ answer \in {"none", "yes", "no"}
  /\ history \in Seq(Nat) /\ \A n \in DOMAIN history : history[n] \in 0..top

FlagsOK ==
  /\ faults \in 0..MaxFaults
  /\ attached \in BOOLEAN /\ aborted \in BOOLEAN /\ cancelled \in BOOLEAN
  /\ done \in BOOLEAN /\ pressed \in BOOLEAN

JobOK ==
  /\ job \in [kind : Kinds \cup {"none"}, cmds : Seq(JobCmds), rest : Seq(JobItems), base : Nat]
  /\ \A n \in DOMAIN job.rest : job.rest[n].kind = job.kind
  /\ job.rest # <<>> => job.kind \in {"album", "import"}
  /\ job.base <= top

(* The commands of a job, and behind them the one that ends it.            *)
QueueOK ==
  /\ queue \in Seq(JobCmds \cup Ends)
  /\ \A n \in DOMAIN queue :
       IF n = Len(queue) THEN queue[n] \in Ends /\ queue[n].id <= top
       ELSE queue[n] \in JobCmds /\ queue[n].op \in Commands(job.kind)

OfSend == {"enter", "find", "ask", "delete", "open", "announce", "relist"}
OfData == {"pause", "data"}
OfMkdir == {"lookup", "make"}
OfImport == {"prepare", "create", "add"}
OfGet == {"get", "mtime"}
OfFinish == {"finish", "covers", "cover"}

(* The command at work is where its handler can be.                        *)
WorkOK ==
  \/ work = Idle
  \/ /\ DOMAIN work = {"at", "cmd", "id", "between", "reset"}
     /\ work.at \in OfSend \cup OfData \cup OfMkdir \cup OfImport \cup OfGet \cup OfFinish
     /\ work.at \in OfSend => work.cmd.op = "send"
     /\ work.at \in OfData => work.cmd.op \in {"send", "import"}
     /\ work.at \in OfMkdir => work.cmd.op = "mkdir"
     /\ work.at \in OfImport => work.cmd.op = "import"
     /\ work.at \in OfGet => work.cmd.op = "get"
     /\ work.at \in OfFinish => work.cmd.op = "finish" /\ work.cmd.id \in 0..top
     /\ work.at \notin OfFinish => work.cmd \in JobCmds /\ work.cmd.op \in Commands(job.kind)
     /\ work.id \in 0..top /\ work.between \in BOOLEAN /\ work.reset \in BOOLEAN

MapsOK ==
  DOMAIN dirs \subseteq Seq(NameSet) /\ \A d \in DOMAIN dirs : dirs[d] \in 0..top

(* A file or a folder to make is for a folder that is known.               *)
TargetOK ==
  work.at # "idle" /\ work.cmd.op \in {"send", "mkdir"} => Front(work.cmd.path) \in DOMAIN dirs

Busy == gui \in {"dialog", "ask", "crashed"}
Uploading == Busy /\ job.kind \in {"upload", "album"}

(* There is work exactly while a job is on, and FinishQueue is its last.   *)
QuietOK ==
  /\ ~Busy \/ done => queue = <<>> /\ work = Idle /\ dirs = <<>>
  /\ ~Busy => ~done
  /\ gui = "next" => job.rest # <<>>
  /\ Busy => job.kind # "none"
  /\ Busy /\ ~done => (queue = <<>> <=> work.at \in OfFinish)
  /\ gui = "ask" <=> work.at = "ask"

TypeInv == DevOK /\ ModelOK /\ WindowOK /\ FlagsOK /\ JobOK /\ QueueOK /\ WorkOK /\ MapsOK
           /\ TargetOK /\ QuietOK

(* What a transaction leaves of the flags.                                 *)
LEMMA OutcomeFacts ==
  ASSUME FlagsOK, Succeeds \/ Fails \/ Refuses
  PROVE  faults' \in 0..MaxFaults /\ faults' >= faults /\ cancelled' \in BOOLEAN
<1>1. faults \in Nat /\ MaxFaults \in Nat /\ faults <= MaxFaults /\ cancelled \in BOOLEAN
  BY BoundsAssumption DEF FlagsOK
<1>2. CASE faults' = faults /\ cancelled' \in BOOLEAN
  BY <1>1, <1>2
<1>3. CASE faults < MaxFaults /\ faults' = faults + 1 /\ cancelled' = cancelled
  BY <1>1, <1>3
<1> QED
  BY <1>1, <1>2, <1>3 DEF Succeeds, Fails, Refuses

LEMMA CreatedOK ==
  ASSUME DevOK, NEW p \in 0..top, NEW n \in NameSet, NEW b \in BOOLEAN,
         obj' = Created(p, n, b), top' = top + 1
  PROVE  DevOK' /\ DOMAIN obj' = DOMAIN obj \cup {top + 1} /\ top + 1 \notin DOMAIN obj
         /\ obj'[top + 1] = [name |-> n, parent |-> p, dir |-> b]
         /\ \A i \in DOMAIN obj : obj'[i] = obj[i]
<1>1. top \in Nat /\ DOMAIN obj \subseteq 1..top /\ top + 1 \notin DOMAIN obj
  BY DEF DevOK
<1>2. /\ DOMAIN obj' = DOMAIN obj \cup {top + 1}
      /\ obj'[top + 1] = [name |-> n, parent |-> p, dir |-> b]
      /\ \A i \in DOMAIN obj : obj'[i] = obj[i]
  BY <1>1 DEF Created, Put
<1>3. p \in Nat /\ p < top + 1
  BY <1>1
<1>4. obj'[top + 1] \in [name : NameSet, parent : Nat, dir : BOOLEAN] /\ obj'[top + 1].parent < top + 1
  BY <1>2, <1>3
<1>5. DOMAIN obj' \subseteq 1..(top + 1) /\ top + 1 \in Nat
  BY <1>1, <1>2
<1> QED
  BY <1>1, <1>2, <1>4, <1>5 DEF DevOK

LEMMA DeletedOK ==
  ASSUME DevOK, NEW i, obj' = Deleted(i), top' = top
  PROVE  DevOK'
BY DeletedFacts DEF DevOK

LEMMA ListingFacts ==
  ASSUME DevOK, NEW p
  PROVE  /\ Listing(p) \in Seq(RowSet)
         /\ \A k \in DOMAIN Listing(p) :
              /\ Listing(p)[k].id \in DOMAIN obj /\ Listing(p)[k].id <= top
              /\ obj[Listing(p)[k].id].parent = p /\ Listing(p)[k].name = Unknown
              /\ Listing(p)[k].id > p
         /\ \A k, l \in DOMAIN Listing(p) : Listing(p)[k].id = Listing(p)[l].id => k = l
         /\ \A i \in DOMAIN obj : obj[i].parent = p => \E k \in DOMAIN Listing(p) : Listing(p)[k].id = i
<1>1. top \in Nat /\ Children(p) \in SUBSET (1..top)
  BY DEF DevOK, Children
<1>2. /\ Listing(p) \in Seq(RowSet)
      /\ \A k \in DOMAIN Listing(p) : Listing(p)[k].id \in Children(p) /\ Listing(p)[k].name = Unknown
      /\ \A k, l \in DOMAIN Listing(p) : Listing(p)[k].id = Listing(p)[l].id => k = l
      /\ \A i \in Children(p) : \E k \in DOMAIN Listing(p) : Listing(p)[k].id = i
  BY <1>1, RowsOfFacts DEF Listing
<1>3. \A i \in Children(p) : i \in DOMAIN obj /\ obj[i].parent = p /\ i <= top /\ i > p
  BY DEF DevOK, Children
<1> QED
  BY <1>2, <1>3 DEF Children

(* Both outcomes of setParent.                                             *)
LEMMA SetParentFacts ==
  ASSUME DevOK, NEW p \in 0..top, SetParent(p)
  PROVE  /\ model'.parent = p /\ model' \in [parent : Nat, rows : Seq(RowSet)]
         /\ \A k \in DOMAIN model'.rows :
              /\ model'.rows[k].id \in DOMAIN obj /\ model'.rows[k].id <= top
              /\ obj[model'.rows[k].id].parent = p /\ model'.rows[k].name = Unknown
              /\ model'.rows[k].id > p
         /\ \A k, l \in DOMAIN model'.rows : model'.rows[k].id = model'.rows[l].id => k = l
         /\ Succeeds \/ Fails
         /\ Fails \/ \A i \in DOMAIN obj : obj[i].parent = p =>
                        \E k \in DOMAIN model'.rows : model'.rows[k].id = i
<1>1. p \in Nat
  BY DEF DevOK
<1>2. CASE Succeeds /\ model' = [parent |-> p, rows |-> Listing(p)]
  <2>1. model'.parent = p /\ model'.rows = Listing(p)
    BY <1>2
  <2>2. model' \in [parent : Nat, rows : Seq(RowSet)]
    BY <1>1, <1>2, ListingFacts
  <2> QED
    BY <1>2, <2>1, <2>2, ListingFacts
<1>3. CASE Fails /\ model' = [parent |-> p, rows |-> <<>>]
  <2>1. model'.parent = p /\ model'.rows = <<>>
    BY <1>3
  <2> QED
    BY <1>1, <1>3, <2>1
<1> QED
  BY <1>2, <1>3 DEF SetParent

LEMMA SetParentOK ==
  ASSUME DevOK, NEW p \in 0..top, SetParent(p), top' = top
  PROVE  ModelOK'
BY SetParentFacts DEF ModelOK, DevOK

(* A set of naturals has a smallest member.                                *)
LEMMA Smallest ==
  ASSUME NEW S \in SUBSET Nat, S # {}
  PROVE  \E k \in S : \A l \in S : k <= l
<1>1. IsWellFoundedOn(OpToRel(<, Nat), Nat)
  BY NatLessThanWellFounded
<1>2. PICK k \in S : \A y \in S : ~(<<y, k>> \in OpToRel(<, Nat))
  BY <1>1, WFMin
<1>3. \A y \in S : ~(y < k)
  BY <1>2 DEF OpToRel
<1> QED
  BY <1>3

LEMMA RowFacts ==
  ASSUME NEW rows \in Seq(RowSet)
  PROVE  /\ Len(rows) \in Nat /\ DOMAIN rows = 1..Len(rows)
         /\ \A k \in DOMAIN rows : /\ rows[k] \in RowSet /\ rows[k].id \in Nat
                                  /\ rows[k].name \in NameSet \cup {Unknown, Missing}
<1>1. \A k \in DOMAIN rows : rows[k] \in RowSet
  OBVIOUS
<1> QED
  BY <1>1 DEF RowSet

(* Looking for a name gives rows their names, up to the first hit.         *)
LEMMA InfoOfFacts ==
  ASSUME DevOK, NEW i
  PROVE  /\ InfoOf(i) \in NameSet \cup {Missing}
         /\ i \in DOMAIN obj => InfoOf(i) = obj[i].name
         /\ i \notin DOMAIN obj => InfoOf(i) = Missing
BY DEF DevOK, InfoOf

LEMMA NamedFacts ==
  ASSUME DevOK, ModelOK, NEW bad
  PROVE  /\ DOMAIN Named(bad) = DOMAIN model.rows
         /\ \A k \in DOMAIN model.rows :
              /\ Named(bad)[k] \in NameSet \cup {Missing}
              /\ model.rows[k].name # Unknown => Named(bad)[k] = model.rows[k].name
              /\ model.rows[k].name = Unknown => Named(bad)[k] \in {Missing, InfoOf(model.rows[k].id)}
              /\ model.rows[k].name = Unknown /\ k # bad => Named(bad)[k] = InfoOf(model.rows[k].id)
<1>1. model.rows \in Seq(RowSet)
  BY DEF ModelOK
<1>2. \A k \in DOMAIN model.rows : model.rows[k].name \in NameSet \cup {Unknown, Missing}
  BY <1>1, RowFacts
<1>3. \A k \in DOMAIN model.rows :
         Named(bad)[k] = IF model.rows[k].name # Unknown THEN model.rows[k].name
                         ELSE IF k = bad THEN Missing ELSE InfoOf(model.rows[k].id)
  BY DEF Named
<1>4. DOMAIN Named(bad) = DOMAIN model.rows
  BY DEF Named
<1>5. \A k \in DOMAIN model.rows : InfoOf(model.rows[k].id) \in NameSet \cup {Missing}
  BY InfoOfFacts
<1> QED
  BY <1>2, <1>3, <1>4, <1>5

LEMMA FoundFacts ==
  ASSUME ModelOK, NEW name, NEW bad
  PROVE  /\ Found(name, bad) = 0 => \A k \in DOMAIN model.rows : Named(bad)[k] # name
         /\ Found(name, bad) # 0 => /\ Found(name, bad) \in DOMAIN model.rows
                                    /\ Named(bad)[Found(name, bad)] = name
<1> DEFINE H == Hits(name, bad)
<1>1. H \subseteq DOMAIN model.rows /\ \A k \in DOMAIN model.rows : k \in H <=> Named(bad)[k] = name
  BY DEF Hits
<1>2. DOMAIN model.rows \subseteq Nat /\ 0 \notin DOMAIN model.rows
  BY DEF ModelOK
<1>3. CASE H = {}
  <2>1. Found(name, bad) = 0
    BY <1>3 DEF Found
  <2> QED
    BY <1>1, <1>3, <2>1
<1>4. CASE H # {}
  <2>1. H \in SUBSET Nat
    BY <1>1, <1>2
  <2>2. \E k \in H : \A l \in H : k <= l
    BY <1>4, <2>1, Smallest
  <2>3. Found(name, bad) = CHOOSE k \in H : \A l \in H : k <= l
    BY <1>4 DEF Found
  <2>4. Found(name, bad) \in H
    BY <2>2, <2>3
  <2> QED
    BY <1>1, <1>2, <2>4
<1> QED
  BY <1>3, <1>4

LEMMA LookedUpFacts ==
  ASSUME DevOK, ModelOK, NEW name, NEW bad
  PROVE  /\ RowsLookedUp(name, bad) \in Seq(RowSet)
         /\ DOMAIN RowsLookedUp(name, bad) = DOMAIN model.rows
         /\ Len(RowsLookedUp(name, bad)) = Len(model.rows)
         /\ \A k \in DOMAIN model.rows :
              /\ RowsLookedUp(name, bad)[k].id = model.rows[k].id
              /\ RowsLookedUp(name, bad)[k].name \in {model.rows[k].name, Named(bad)[k]}
<1> DEFINE R == RowsLookedUp(name, bad)
<1>1. model.rows \in Seq(RowSet) /\ DOMAIN model.rows = 1..Len(model.rows) /\ Len(model.rows) \in Nat
  BY DEF ModelOK
<1>2. \A k \in DOMAIN model.rows : model.rows[k] \in RowSet
  BY <1>1
<1>3. DOMAIN R = DOMAIN model.rows
  BY DEF RowsLookedUp
<1>4. ASSUME NEW k \in DOMAIN model.rows
      PROVE  /\ R[k] \in RowSet /\ R[k].id = model.rows[k].id
             /\ R[k].name \in {model.rows[k].name, Named(bad)[k]}
  <2>1. R[k] = model.rows[k] \/ R[k] = [model.rows[k] EXCEPT !.name = Named(bad)[k]]
    BY <1>4 DEF RowsLookedUp
  <2>2. Named(bad)[k] \in NameSet \cup {Unknown, Missing}
    BY <1>4, NamedFacts
  <2>3. model.rows[k] \in [id : Nat, name : NameSet \cup {Unknown, Missing}]
    BY <1>2, <1>4 DEF RowSet
  <2> HIDE DEF R
  <2>4. CASE R[k] = model.rows[k]
    BY <1>2, <2>4
  <2>5. CASE R[k] = [model.rows[k] EXCEPT !.name = Named(bad)[k]]
    BY <2>2, <2>3, <2>5 DEF RowSet
  <2> QED
    BY <2>1, <2>4, <2>5
<1>5. R = [k \in 1..Len(model.rows) |-> R[k]]
  BY <1>1 DEF RowsLookedUp
<1> HIDE DEF R
<1>6. \A k \in 1..Len(model.rows) : R[k] \in RowSet
  BY <1>1, <1>4
<1>7. R \in [1..Len(model.rows) -> RowSet]
  BY <1>5, <1>6
<1>8. R \in Seq(RowSet) /\ Len(R) = Len(model.rows)
  BY <1>1, <1>7 DEF Seq
<1> QED
  BY <1>3, <1>4, <1>8 DEF R

(* What is left of the rows if they only get names.                        *)
LEMMA RowsNamedOK ==
  ASSUME ModelOK, NEW rows \in Seq(RowSet), DOMAIN rows = DOMAIN model.rows,
         \A k \in DOMAIN rows : rows[k].id = model.rows[k].id,
         model' = [model EXCEPT !.rows = rows], top' \in Nat, top' >= top, top \in Nat
  PROVE  ModelOK' /\ model'.parent = model.parent /\ model'.rows = rows
<1>1. model \in [parent : Nat, rows : Seq(RowSet)]
  BY DEF ModelOK
<1>2. /\ model' \in [parent : Nat, rows : Seq(RowSet)]
      /\ model'.parent = model.parent /\ model'.rows = rows
  BY <1>1
<1>3. \A k \in DOMAIN rows : rows[k].id \in Nat
  BY RowFacts
<1>4. \A k \in DOMAIN rows : rows[k].id <= top
  BY DEF ModelOK
<1>5. model.parent \in Nat /\ model.parent <= top
  BY <1>1 DEF ModelOK
<1> QED
  BY <1>2, <1>3, <1>4, <1>5 DEF ModelOK

LEMMA LookUpFacts ==
  ASSUME DevOK, ModelOK, NEW name, NEW bad, LookUp(name, bad)
  PROVE  /\ model' = [model EXCEPT !.rows = RowsLookedUp(name, bad)]
         /\ model'.parent = model.parent /\ model'.rows = RowsLookedUp(name, bad)
         /\ Succeeds \/ Fails
         /\ bad = 0 => Succeeds
<1>1. model \in [parent : Nat, rows : Seq(RowSet)]
  BY DEF ModelOK
<1> QED
  BY <1>1 DEF LookUp

LEMMA LookUpOK ==
  ASSUME DevOK, ModelOK, NEW name, NEW bad, LookUp(name, bad), top' = top
  PROVE  ModelOK'
<1>1. top \in Nat
  BY DEF DevOK
<1> QED
  BY <1>1, LookUpFacts, LookedUpFacts, RowsNamedOK

(* A row for an object of a folder, if that is the folder on show.         *)
LEMMA RowAddedFacts ==
  ASSUME ModelOK, NEW p, NEW i \in Nat, model' = RowAdded(p, i)
  PROVE  /\ p # model.parent => model' = model
         /\ p = model.parent =>
              /\ model' \in [parent : Nat, rows : Seq(RowSet)]
              /\ model'.parent = model.parent
              /\ DOMAIN model'.rows = DOMAIN model.rows \cup {Len(model.rows) + 1}
              /\ Len(model.rows) + 1 \notin DOMAIN model.rows
              /\ model'.rows[Len(model.rows) + 1] = [id |-> i, name |-> Unknown]
              /\ \A k \in DOMAIN model.rows : model'.rows[k] = model.rows[k]
<1>1. model \in [parent : Nat, rows : Seq(RowSet)]
  BY DEF ModelOK
<1>2. [id |-> i, name |-> Unknown] \in RowSet
  BY DEF RowSet
<1>3. p # model.parent => model' = model
  BY DEF RowAdded
<1>4. ASSUME p = model.parent
      PROVE  /\ model' \in [parent : Nat, rows : Seq(RowSet)]
             /\ model'.parent = model.parent
             /\ DOMAIN model'.rows = DOMAIN model.rows \cup {Len(model.rows) + 1}
             /\ Len(model.rows) + 1 \notin DOMAIN model.rows
             /\ model'.rows[Len(model.rows) + 1] = [id |-> i, name |-> Unknown]
             /\ \A k \in DOMAIN model.rows : model'.rows[k] = model.rows[k]
  <2> DEFINE rows == Append(model.rows, [id |-> i, name |-> Unknown])
  <2>1. model' = [model EXCEPT !.rows = rows]
    BY <1>4 DEF RowAdded
  <2>2. model.rows \in Seq(RowSet)
    BY <1>1
  <2>3. /\ rows \in Seq(RowSet)
        /\ DOMAIN rows = DOMAIN model.rows \cup {Len(model.rows) + 1}
        /\ Len(model.rows) + 1 \notin DOMAIN model.rows
        /\ rows[Len(model.rows) + 1] = [id |-> i, name |-> Unknown]
        /\ \A k \in DOMAIN model.rows : rows[k] = model.rows[k]
    BY <2>2, <1>2
  <2> HIDE DEF rows
  <2> QED
    BY <1>1, <2>1, <2>3
<1> QED
  BY <1>3, <1>4

LEMMA RowAddedOK ==
  ASSUME ModelOK, NEW p, NEW i \in Nat, model' = RowAdded(p, i), i <= top',
         top \in Nat, top' \in Nat, top' >= top
  PROVE  ModelOK'
<1>1. /\ model.parent \in Nat /\ model.parent <= top /\ model.rows \in Seq(RowSet)
      /\ \A k \in DOMAIN model.rows : model.rows[k].id <= top
  BY DEF ModelOK
<1>2. \A k \in DOMAIN model.rows : model.rows[k].id \in Nat
  BY <1>1, RowFacts
<1>3. CASE p # model.parent
  <2>1. model' = model
    BY <1>3, RowAddedFacts
  <2> QED
    BY <1>1, <1>2, <2>1 DEF ModelOK
<1>4. CASE p = model.parent
  <2>1. /\ model' \in [parent : Nat, rows : Seq(RowSet)]
        /\ model'.parent = model.parent
        /\ DOMAIN model'.rows = DOMAIN model.rows \cup {Len(model.rows) + 1}
        /\ model'.rows[Len(model.rows) + 1] = [id |-> i, name |-> Unknown]
        /\ \A k \in DOMAIN model.rows : model'.rows[k] = model.rows[k]
    BY <1>4, RowAddedFacts
  <2>2. \A k \in DOMAIN model'.rows : model'.rows[k].id <= top'
    BY <1>1, <1>2, <2>1
  <2> QED
    BY <1>1, <2>1, <2>2 DEF ModelOK
<1> QED
  BY <1>3, <1>4

----------------------------------------------------------------------------
(* What every state is made of: each step keeps it                         *)

Parts == {"at", "cmd", "id", "between", "reset"}

LEMMA WorkFacts ==
  ASSUME WorkOK
  PROVE  /\ Idle.at = "idle" /\ (work = Idle <=> work.at = "idle")
         /\ work.at # "idle" =>
              /\ DOMAIN work = Parts
              /\ work.at \in OfSend \cup OfData \cup OfMkdir \cup OfImport \cup OfGet \cup OfFinish
              /\ work.id \in 0..top /\ work.between \in BOOLEAN /\ work.reset \in BOOLEAN
              /\ work.cmd.op = "finish" <=> work.at \in OfFinish
              /\ work.at \in OfFinish => work.cmd.id \in 0..top
              /\ work.at \notin OfFinish => /\ work.cmd \in JobCmds /\ work.cmd.path \in Paths
                                            /\ work.cmd.op \in Commands(job.kind)
<1>1. Idle.at = "idle"
  BY DEF Idle
<1>2. work = Idle \/ work.at \in OfSend \cup OfData \cup OfMkdir \cup OfImport \cup OfGet \cup OfFinish
  BY DEF WorkOK
<1>3. "idle" \notin OfSend \cup OfData \cup OfMkdir \cup OfImport \cup OfGet \cup OfFinish
  BY DEF OfSend, OfData, OfMkdir, OfImport, OfGet, OfFinish
<1>4. work.at # "idle" => work # Idle
  BY <1>1
<1>5. ASSUME work.at # "idle"
      PROVE  work.cmd.op = "finish" <=> work.at \in OfFinish
  BY <1>4, <1>5 DEF WorkOK, OfSend, OfData, OfMkdir, OfImport, OfGet, OfFinish
<1>6. \A c \in JobCmds : c.path \in Paths
  BY JobsAssumption
<1>7. work # Idle /\ work.at \in OfFinish => work.cmd.id \in 0..top
  BY DEF WorkOK
<1> QED
  BY <1>1, <1>2, <1>3, <1>4, <1>5, <1>6, <1>7 DEF WorkOK, Parts

LEMMA GoOnFacts ==
  ASSUME WorkOK, work.at # "idle", NEW a, GoOn(a)
  PROVE  /\ DOMAIN work' = Parts /\ work'.at = a
         /\ work'.cmd = work.cmd /\ work'.id = work.id /\ work'.between = work.between
         /\ work'.reset = work.reset
BY WorkFacts DEF GoOn, Parts

(* The same command at another stage.                                      *)
StageFor(a) ==
  /\ a \in OfSend \cup OfData \cup OfMkdir \cup OfImport \cup OfGet \cup OfFinish
  /\ a \in OfSend => work.cmd.op = "send"
  /\ a \in OfData => work.cmd.op \in {"send", "import"}
  /\ a \in OfMkdir => work.cmd.op = "mkdir"
  /\ a \in OfImport => work.cmd.op = "import"
  /\ a \in OfGet => work.cmd.op = "get"
  /\ a \in OfFinish => work.cmd.op = "finish"

LEMMA WorkOnOK ==
  ASSUME WorkOK, work.at # "idle", NEW a, StageFor(a),
         DOMAIN work' = Parts, work'.at = a, work'.cmd = work.cmd, work'.id \in 0..top',
         work'.between \in BOOLEAN, work'.reset \in BOOLEAN,
         top \in Nat, top' \in Nat, top' >= top, job' = job
  PROVE  WorkOK'
<1>1. work # Idle
  BY WorkFacts
<1>2. a \in OfFinish => work.at \in OfFinish /\ work.cmd.id \in 0..top
  BY <1>1, WorkFacts DEF WorkOK, StageFor
<1>3. a \notin OfFinish => work.cmd.op # "finish"
  BY DEF StageFor, OfSend, OfData, OfMkdir, OfImport, OfGet, OfFinish
<1>4. a \notin OfFinish => work.at \notin OfFinish
  BY <1>3, WorkFacts
<1>5. a \notin OfFinish => work.cmd \in JobCmds /\ work.cmd.op \in Commands(job.kind)
  BY <1>1, <1>4 DEF WorkOK
<1>6. a \in OfFinish => work.cmd.id \in 0..top'
  BY <1>2
<1> QED
  BY <1>5, <1>6 DEF WorkOK, Parts, StageFor

LEMMA IdleOK ==
  ASSUME work' = Idle
  PROVE  WorkOK' /\ work'.at = "idle"
BY DEF WorkOK, Idle

(* A step of the worker on a command, which goes on or is done with.       *)
LEMMA WorkerKeeps ==
  ASSUME TypeInv, Alive, work.at # "idle",
         UNCHANGED <<queue, job, done, turns, history, answer>>,
         top' \in Nat, top' >= top,
         gui' \in {gui, "ask"}, gui' = "ask" <=> work'.at = "ask",
         \/ work'.at = "idle" /\ work.at \notin OfFinish
         \/ work'.at # "idle" /\ (work'.at \in OfFinish <=> work.at \in OfFinish)
  PROVE  WindowOK' /\ JobOK' /\ QueueOK' /\ QuietOK'
<1>1. top \in Nat
  BY DEF TypeInv, DevOK
<1>2. gui' \in {"dialog", "ask"} /\ gui \in {"dialog", "ask"}
  BY DEF Alive
<1>3. WindowOK'
  BY <1>1, <1>2 DEF TypeInv, WindowOK
<1>4. JobOK'
  <2>1. JobOK
    BY DEF TypeInv
  <2> QED
    BY <1>1, <2>1 DEF JobOK
<1>5. QueueOK'
  <2>1. QueueOK
    BY DEF TypeInv
  <2>2. \A n \in DOMAIN queue : queue[n] \in Ends => queue[n].id \in Nat
    BY DEF Ends
  <2> QED
    BY <1>1, <2>1, <2>2 DEF QueueOK
<1>6. QuietOK'
  <2>1. QuietOK /\ WorkOK
    BY DEF TypeInv
  <2>2. Busy /\ Busy'
    BY <1>2 DEF Busy
  <2>3. ~done /\ ~done'
    BY <2>1, WorkFacts DEF QuietOK
  <2>4. queue = <<>> <=> work.at \in OfFinish
    BY <2>1, <2>2, <2>3 DEF QuietOK
  <2>5. "idle" \notin OfFinish
    BY DEF OfFinish
  <2>6. queue' = <<>> <=> work'.at \in OfFinish
    BY <2>4, <2>5
  <2>7. job.kind # "none"
    BY <2>1, <2>2 DEF QuietOK
  <2> QED
    BY <1>2, <2>2, <2>3, <2>6, <2>7 DEF QuietOK
<1> QED
  BY <1>3, <1>4, <1>5, <1>6

LEMMA ModelKept ==
  ASSUME ModelOK, model' = model, top \in Nat, top' \in Nat, top' >= top
  PROVE  ModelOK'
<1>1. \A k \in DOMAIN model.rows : model.rows[k].id \in Nat
  BY RowFacts DEF ModelOK
<1>2. model.parent \in Nat
  BY DEF ModelOK
<1> QED
  BY <1>1, <1>2 DEF ModelOK

LEMMA MapsKept ==
  ASSUME MapsOK, top \in Nat, top' \in Nat, top' >= top,
         dirs' = dirs \/ dirs' = <<>> \/ \E d \in Seq(NameSet), i \in 0..top' : dirs' = Put(dirs, d, i)
  PROVE  MapsOK'
<1>1. CASE dirs' = dirs
  BY <1>1 DEF MapsOK
<1>2. CASE dirs' = <<>>
  <2>1. DOMAIN <<>> = {}
    OBVIOUS
  <2> QED
    BY <1>2, <2>1 DEF MapsOK
<1>3. ASSUME NEW d \in Seq(NameSet), NEW i \in 0..top', dirs' = Put(dirs, d, i)
      PROVE  MapsOK'
  BY <1>3 DEF MapsOK, Put
<1> QED
  BY <1>1, <1>2, <1>3

LEMMA FlagsKept ==
  ASSUME FlagsOK, Succeeds \/ Fails \/ Refuses \/ UNCHANGED <<cancelled, faults>>,
         attached' \in BOOLEAN, aborted' \in BOOLEAN, done' \in BOOLEAN, pressed' \in BOOLEAN
  PROVE  FlagsOK'
BY OutcomeFacts DEF FlagsOK

MovedTo(a) ==
  /\ DOMAIN work' = Parts /\ work'.at = a /\ work'.cmd = work.cmd /\ work'.id \in 0..top'
  /\ work'.between \in BOOLEAN /\ work'.reset \in BOOLEAN

LEMMA WorkerType ==
  ASSUME TypeInv, Alive, work.at # "idle", work.at # "ask",
         UNCHANGED <<queue, job, done, turns, history, answer, attached, aborted, pressed>>,
         DevOK', ModelOK', top' >= top,
         \/ work' = Idle /\ work.at \notin OfFinish /\ gui' = gui
         \/ \E a : StageFor(a) /\ MovedTo(a) /\ gui' = IF a = "ask" THEN "ask" ELSE gui,
         Succeeds \/ Fails \/ Refuses \/ UNCHANGED <<cancelled, faults>>,
         dirs' = dirs \/ \E d \in Seq(NameSet), i \in 0..top' : dirs' = Put(dirs, d, i)
  PROVE  TypeInv'
<1>1. top \in Nat /\ top' \in Nat
  BY DEF TypeInv, DevOK
<1>2. /\ WorkOK /\ FlagsOK /\ MapsOK /\ TargetOK /\ QuietOK
      /\ gui \in {"dialog", "ask"} /\ gui = "ask" => work.at = "ask"
  BY DEF TypeInv, Alive, QuietOK
<1>3. FlagsOK'
  <2>1. attached' \in BOOLEAN /\ aborted' \in BOOLEAN /\ done' \in BOOLEAN /\ pressed' \in BOOLEAN
    BY <1>2 DEF FlagsOK
  <2> QED
    BY <1>2, <2>1, FlagsKept
<1>4. MapsOK' /\ DOMAIN dirs \subseteq DOMAIN dirs'
  <2>1. MapsOK'
    BY <1>1, <1>2, MapsKept
  <2> QED
    BY <2>1 DEF Put
<1>5. CASE work' = Idle /\ work.at \notin OfFinish /\ gui' = gui
  <2>1. WorkOK' /\ work'.at = "idle"
    BY <1>5, IdleOK
  <2>2. gui' \in {gui, "ask"} /\ (gui' = "ask" <=> work'.at = "ask")
    BY <1>2, <1>5, <2>1
  <2>3. WindowOK' /\ JobOK' /\ QueueOK' /\ QuietOK'
    BY <1>1, <1>5, <2>1, <2>2, WorkerKeeps
  <2>4. TargetOK'
    BY <2>1 DEF TargetOK
  <2> QED
    BY <1>3, <1>4, <2>1, <2>3, <2>4 DEF TypeInv
<1>6. ASSUME NEW a, StageFor(a), MovedTo(a), gui' = IF a = "ask" THEN "ask" ELSE gui
      PROVE  TypeInv'
  <2>1. WorkOK'
    BY <1>1, <1>2, <1>6, WorkOnOK DEF MovedTo
  <2>2. a # "idle" /\ (a \in OfFinish <=> work.at \in OfFinish)
    <3>1. work.cmd.op = "finish" <=> work.at \in OfFinish
      BY <1>2, WorkFacts
    <3> QED
      BY <3>1, <1>6 DEF StageFor, OfSend, OfData, OfMkdir, OfImport, OfGet, OfFinish
  <2>3. gui' \in {gui, "ask"} /\ (gui' = "ask" <=> work'.at = "ask")
    BY <1>2, <1>6 DEF MovedTo
  <2>4. work'.at = a
    BY <1>6 DEF MovedTo
  <2>5. WindowOK' /\ JobOK' /\ QueueOK' /\ QuietOK'
    BY <1>1, <2>2, <2>3, <2>4, WorkerKeeps
  <2>6. TargetOK'
    BY <1>2, <1>4, <1>6 DEF TargetOK, MovedTo
  <2> QED
    BY <1>3, <1>4, <2>1, <2>5, <2>6 DEF TypeInv
<1> QED
  BY <1>5, <1>6

(* The folder a command is for.                                            *)
LEMMA TargetFacts ==
  ASSUME TypeInv, work.at # "idle", work.cmd.op \in {"send", "mkdir"}
  PROVE  /\ work.cmd \in JobCmds /\ path \in Paths
         /\ Last(path) \in NameSet /\ Front(path) \in Seq(NameSet) /\ path \in Seq(NameSet)
         /\ Front(path) \in DOMAIN dirs /\ dirs[Front(path)] \in 0..top
<1>1. WorkOK /\ TargetOK /\ MapsOK
  BY DEF TypeInv
<1>2. work.cmd \in JobCmds /\ path \in Paths
  BY <1>1, WorkFacts DEF path
<1>3. Front(path) \in DOMAIN dirs
  BY <1>1 DEF TargetOK, path
<1> QED
  BY <1>1, <1>2, <1>3, PathFacts DEF MapsOK

LEMMA StageSteps ==
  ASSUME WorkOK, NEW a,
         \/ work.at \in OfSend /\ a \in OfSend \cup OfData
         \/ work.at \in OfData /\ a \in OfData
         \/ work.at \in OfData /\ work.cmd.op = "send" /\ a \in OfSend
         \/ work.at \in OfData /\ work.cmd.op = "import" /\ a \in OfImport
         \/ work.at \in OfMkdir /\ a \in OfMkdir
         \/ work.at \in OfImport /\ a \in OfImport \cup OfData
         \/ work.at \in OfGet /\ a \in OfGet
         \/ work.at \in OfFinish /\ a \in OfFinish
  PROVE  work.at # "idle" /\ StageFor(a)
<1>1. work.at # "idle"
  BY DEF OfSend, OfData, OfMkdir, OfImport, OfGet, OfFinish
<1>2. work # Idle
  BY <1>1, WorkFacts
<1> QED
  BY <1>1, <1>2 DEF WorkOK, StageFor, OfSend, OfData, OfMkdir, OfImport, OfGet, OfFinish

(* Going on, with the object id and the rest of the command as they are.   *)
LEMMA GoesOn ==
  ASSUME TypeInv, work.at # "idle", top' >= top, DevOK',
         NEW a, GoOn(a) \/ (work' = work /\ a = work.at)
  PROVE  MovedTo(a)
<1>1. WorkOK /\ top \in Nat /\ top' \in Nat
  BY DEF TypeInv, DevOK
<1>2. work.id \in 0..top' /\ work.between \in BOOLEAN /\ work.reset \in BOOLEAN /\ DOMAIN work = Parts
  BY <1>1, WorkFacts
<1>3. CASE GoOn(a)
  BY <1>1, <1>2, <1>3, GoOnFacts DEF MovedTo
<1>4. CASE work' = work /\ a = work.at
  BY <1>2, <1>4 DEF MovedTo
<1> QED
  BY <1>3, <1>4

LEMMA DeviceKept ==
  ASSUME TypeInv, UNCHANGED device
  PROVE  DevOK' /\ top' >= top /\ top' = top /\ obj' = obj /\ (model' = model => ModelOK')
<1>1. DevOK /\ top \in Nat /\ ModelOK
  BY DEF TypeInv, DevOK
<1>2. obj' = obj /\ top' = top
  BY DEF device
<1>3. DevOK' /\ top' >= top
  BY <1>1, <1>2 DEF DevOK
<1> QED
  BY <1>1, <1>2, <1>3, ModelKept

LEMMA EnterFolderType ==
  ASSUME TypeInv, EnterFolder
  PROVE  TypeInv'
<1>1. /\ Alive /\ work.at = "enter" /\ SetParent(dirs[Front(path)]) /\ GoOn("find")
      /\ UNCHANGED <<device, window, queue, maps, aborted, done, library, past>>
  BY DEF EnterFolder
<1>2. WorkOK /\ DevOK
  BY DEF TypeInv
<1>3. work.at # "idle" /\ StageFor("find") /\ StageFor("enter")
  BY <1>1, <1>2, StageSteps DEF OfSend
<1>4. work.cmd.op = "send" /\ dirs[Front(path)] \in 0..top
  BY <1>3, TargetFacts DEF StageFor, OfSend
<1>5. DevOK' /\ top' >= top /\ top' = top
  BY <1>1, DeviceKept
<1>6. ModelOK' /\ (Succeeds \/ Fails)
  BY <1>1, <1>2, <1>4, <1>5, SetParentOK, SetParentFacts
<1>7. MovedTo("find")
  BY <1>1, <1>3, <1>5, GoesOn
<1> QED
  BY <1>1, <1>3, <1>5, <1>6, <1>7, WorkerType DEF window, maps, past

LEMMA FindFileType ==
  ASSUME TypeInv, FindFile
  PROVE  TypeInv'
<1>1. /\ Alive /\ work.at = "find"
      /\ UNCHANGED <<device, job, turns, attached, history, answer, queue, maps, aborted, done, library,
                     sent, pressed, events>>
  BY DEF FindFile
<1>2. PICK bad \in 0 .. Len(model.rows) :
        LET k == Found(Last(path), bad)
        IN  /\ LookUp(Last(path), bad)
            /\ IF k = 0 THEN GoOn("open") /\ UNCHANGED <<gui, refused>>
               ELSE IF answer = "no"
               THEN work' = Idle /\ refused' = refused \cup {path} /\ UNCHANGED gui
               ELSE /\ work' = [work EXCEPT !.id = model.rows[k].id,
                                           !.at = IF answer = "yes" THEN "delete" ELSE "ask"]
                    /\ gui' = IF answer = "yes" THEN gui ELSE "ask"
                    /\ UNCHANGED refused
  BY DEF FindFile
<1> DEFINE k == Found(Last(path), bad)
<1>3. WorkOK /\ DevOK /\ ModelOK
  BY DEF TypeInv
<1>4. work.at # "idle" /\ StageFor("open") /\ StageFor("delete") /\ StageFor("ask")
  BY <1>1, <1>3, StageSteps DEF OfSend
<1>5. DevOK' /\ top' >= top /\ top' = top
  BY <1>1, DeviceKept
<1>6. ModelOK' /\ (Succeeds \/ Fails)
  BY <1>2, <1>3, <1>5, LookUpOK, LookUpFacts
<1>7. CASE k = 0
  <2>1. MovedTo("open") /\ gui' = gui
    BY <1>2, <1>4, <1>5, <1>7, GoesOn
  <2> QED
    BY <1>1, <1>4, <1>5, <1>6, <2>1, WorkerType DEF maps
<1>8. CASE k # 0 /\ answer = "no"
  <2>1. work' = Idle /\ gui' = gui
    BY <1>2, <1>8
  <2>2. work.at \notin OfFinish
    BY <1>1 DEF OfFinish
  <2> QED
    BY <1>1, <1>4, <1>5, <1>6, <2>1, <2>2, WorkerType DEF maps
<1>9. CASE k # 0 /\ answer # "no"
  <2> DEFINE a == IF answer = "yes" THEN "delete" ELSE "ask"
  <2>1. /\ work' = [work EXCEPT !.id = model.rows[k].id, !.at = a]
        /\ gui' = IF answer = "yes" THEN gui ELSE "ask"
    BY <1>2, <1>9
  <2>2. k \in DOMAIN model.rows
    BY <1>3, <1>9, FoundFacts
  <2>3. model.rows[k].id \in 0..top
    BY <1>3, <2>2, RowFacts DEF ModelOK
  <2>4. DOMAIN work = Parts /\ work.between \in BOOLEAN /\ work.reset \in BOOLEAN
    BY <1>3, <1>4, WorkFacts
  <2>5. MovedTo(a)
    BY <1>5, <2>1, <2>3, <2>4 DEF MovedTo, Parts
  <2>6. StageFor(a) /\ gui' = IF a = "ask" THEN "ask" ELSE gui
    BY <1>4, <2>1
  <2> QED
    BY <1>1, <1>4, <1>5, <1>6, <2>5, <2>6, WorkerType DEF maps
<1> QED
  BY <1>7, <1>8, <1>9

LEMMA DeleteOldType ==
  ASSUME TypeInv, DeleteOld
  PROVE  TypeInv'
<1>1. /\ Alive /\ work.at = "delete"
      /\ UNCHANGED <<top, window, model, queue, maps, aborted, done, library, past>>
      /\ \/ /\ Succeeds /\ obj' = Deleted(work.id)
            /\ work' = [work EXCEPT !.at = "open", !.reset = TRUE]
         \/ Fails /\ work' = Idle /\ UNCHANGED obj
  BY DEF DeleteOld
<1>2. WorkOK /\ DevOK /\ ModelOK
  BY DEF TypeInv
<1>3. work.at # "idle" /\ StageFor("open") /\ work.at \notin OfFinish
  BY <1>1, <1>2, StageSteps DEF OfSend, OfFinish
<1>4. DevOK' /\ top' = top /\ top' >= top /\ ModelOK'
  <2>1. DevOK'
    BY <1>1, <1>2, DeletedOK DEF DevOK
  <2>2. top \in Nat
    BY <1>2 DEF DevOK
  <2> QED
    BY <1>1, <1>2, <2>1, <2>2, ModelKept
<1>5. CASE work' = [work EXCEPT !.at = "open", !.reset = TRUE]
  <2>1. MovedTo("open")
    <3>1. DOMAIN work = Parts /\ work.between \in BOOLEAN /\ work.id \in 0..top
      BY <1>2, <1>3, WorkFacts
    <3> QED
      BY <1>4, <1>5, <3>1 DEF MovedTo, Parts
  <2> QED
    BY <1>1, <1>3, <1>4, <2>1, WorkerType DEF window, maps, past
<1>6. CASE work' = Idle
  BY <1>1, <1>3, <1>4, <1>6, WorkerType DEF window, maps, past
<1> QED
  BY <1>1, <1>5, <1>6

LEMMA OpenFileType ==
  ASSUME TypeInv, OpenFile
  PROVE  TypeInv'
<1>1. /\ Alive /\ work.at = "open"
      /\ \/ GoOn("announce") /\ UNCHANGED faults
         \/ faults < MaxFaults /\ faults' = faults + 1 /\ work' = Idle
      /\ UNCHANGED <<device, window, model, queue, maps, flags, library, past>>
  BY DEF OpenFile
<1>2. WorkOK
  BY DEF TypeInv
<1>3. work.at # "idle" /\ StageFor("announce") /\ work.at \notin OfFinish
  BY <1>1, <1>2, StageSteps DEF OfSend, OfFinish
<1>4. DevOK' /\ top' >= top /\ ModelOK'
  BY <1>1, DeviceKept
<1>5. CASE GoOn("announce") /\ UNCHANGED faults
  <2>1. MovedTo("announce")
    BY <1>3, <1>4, <1>5, GoesOn
  <2> QED
    BY <1>1, <1>3, <1>4, <1>5, <2>1, WorkerType DEF window, maps, past, flags
<1>6. CASE faults < MaxFaults /\ faults' = faults + 1 /\ work' = Idle
  <2>1. FlagsOK' /\ WorkOK' /\ work'.at = "idle" /\ MapsOK' /\ TargetOK'
    <3>1. FlagsOK' /\ MapsOK'
      <4>1. faults' \in 0..MaxFaults
        BY <1>6, BoundsAssumption DEF TypeInv, FlagsOK
      <4> QED
        BY <1>1, <4>1 DEF TypeInv, FlagsOK, flags, window, past, MapsOK, maps, device
    <3>2. WorkOK' /\ work'.at = "idle"
      BY <1>6, IdleOK
    <3> QED
      BY <3>1, <3>2 DEF TargetOK
  <2>2. gui' = gui /\ gui # "ask"
    BY <1>1 DEF window, TypeInv, QuietOK
  <2>3. WindowOK' /\ JobOK' /\ QueueOK' /\ QuietOK'
    BY <1>1, <1>3, <1>4, <2>1, <2>2, WorkerKeeps DEF window, flags, DevOK
  <2> QED
    BY <1>4, <2>1, <2>3 DEF TypeInv
<1> QED
  BY <1>1, <1>5, <1>6

LEMMA AnnounceType ==
  ASSUME TypeInv, Announce
  PROVE  TypeInv'
<1>1. /\ Alive /\ work.at = "announce"
      /\ \/ /\ Succeeds
            /\ obj' = Created(dirs[Front(path)], Last(path), FALSE) /\ top' = top + 1
            /\ work' = [work EXCEPT !.at = "pause", !.id = top + 1]
         \/ Fails /\ work' = Idle /\ UNCHANGED device
      /\ UNCHANGED <<window, model, queue, maps, aborted, done, library, past>>
  BY DEF Announce
<1>2. WorkOK /\ DevOK /\ ModelOK /\ top \in Nat
  BY DEF TypeInv, DevOK
<1>3. work.at # "idle" /\ StageFor("pause") /\ StageFor("announce") /\ work.at \notin OfFinish
  BY <1>1, <1>2, StageSteps DEF OfSend, OfData, OfFinish
<1>4. Last(path) \in NameSet /\ dirs[Front(path)] \in 0..top
  BY <1>3, TargetFacts DEF StageFor, OfSend
<1>5. CASE /\ Succeeds
           /\ obj' = Created(dirs[Front(path)], Last(path), FALSE) /\ top' = top + 1
           /\ work' = [work EXCEPT !.at = "pause", !.id = top + 1]
  <2>1. DevOK' /\ top' \in Nat /\ top' >= top
    <3> DEFINE p == dirs[Front(path)]
               n == Last(path)
    <3>1. p \in 0..top /\ n \in NameSet /\ FALSE \in BOOLEAN /\ obj' = Created(p, n, FALSE)
      BY <1>4, <1>5
    <3> HIDE DEF p, n
    <3>2. DevOK'
      BY <1>2, <1>5, <3>1, CreatedOK
    <3> QED
      BY <1>2, <1>5, <3>2
  <2>2. ModelOK'
    BY <1>1, <1>2, <2>1, ModelKept
  <2>3. MovedTo("pause")
    <3>1. DOMAIN work = Parts /\ work.between \in BOOLEAN /\ work.reset \in BOOLEAN
      BY <1>2, <1>3, WorkFacts
    <3> QED
      BY <1>2, <1>5, <3>1 DEF MovedTo, Parts
  <2> QED
    BY <1>1, <1>3, <1>5, <2>1, <2>2, <2>3, WorkerType DEF window, maps, past
<1>6. CASE Fails /\ work' = Idle /\ UNCHANGED device
  <2>1. DevOK' /\ top' >= top /\ ModelOK'
    BY <1>1, <1>6, DeviceKept
  <2> QED
    BY <1>1, <1>3, <1>6, <2>1, WorkerType DEF window, maps, past
<1> QED
  BY <1>1, <1>5, <1>6

LEMMA BeginDataType ==
  ASSUME TypeInv, BeginData
  PROVE  TypeInv'
<1>1. /\ Alive /\ work.at = "pause" /\ GoOn("data")
      /\ UNCHANGED <<device, window, model, queue, maps, flags, library, past, faults>>
  BY DEF BeginData
<1>2. WorkOK
  BY DEF TypeInv
<1>3. work.at # "idle" /\ StageFor("data")
  BY <1>1, <1>2, StageSteps DEF OfData
<1>4. DevOK' /\ top' >= top /\ ModelOK'
  BY <1>1, DeviceKept
<1>5. MovedTo("data")
  BY <1>1, <1>3, <1>4, GoesOn
<1> QED
  BY <1>1, <1>3, <1>4, <1>5, WorkerType DEF window, maps, past, flags

LEMMA SendDataType ==
  ASSUME TypeInv, SendData
  PROVE  TypeInv'
<1>1. /\ Alive /\ work.at = "data" /\ work.cmd.op = "send"
      /\ \/ /\ Succeeds
            /\ model' = RowAdded(dirs[Front(path)], work.id)
            /\ IF work.reset THEN GoOn("relist") ELSE work' = Idle
            /\ UNCHANGED obj
         \/ /\ Fails \/ Refuses
            /\ obj' \in {obj, Deleted(work.id)}
            /\ work' = Idle /\ UNCHANGED <<sent, model>>
      /\ UNCHANGED <<top, window, queue, maps, aborted, done, library, refused, pressed, events>>
  BY DEF SendData
<1>2. WorkOK /\ DevOK /\ ModelOK /\ top \in Nat
  BY DEF TypeInv, DevOK
<1>3. work.at # "idle" /\ StageFor("relist") /\ work.at \notin OfFinish
  BY <1>1, <1>2, StageSteps DEF OfSend, OfData, OfFinish
<1>4. dirs[Front(path)] \in 0..top /\ work.id \in 0..top
  BY <1>1, <1>2, <1>3, TargetFacts, WorkFacts
<1>5. CASE /\ Succeeds
           /\ model' = RowAdded(dirs[Front(path)], work.id)
           /\ IF work.reset THEN GoOn("relist") ELSE work' = Idle
           /\ UNCHANGED obj
  <2>1. DevOK' /\ top' >= top /\ top' = top
    BY <1>1, <1>5, DeviceKept DEF device
  <2>2. ModelOK'
    BY <1>2, <1>4, <1>5, <2>1, RowAddedOK
  <2>3. CASE work.reset
    <3>1. GoOn("relist") /\ MovedTo("relist")
      BY <1>3, <1>5, <2>1, <2>3, GoesOn
    <3> QED
      BY <1>1, <1>3, <1>5, <2>1, <2>2, <3>1, WorkerType DEF window, maps
  <2>4. CASE ~work.reset
    <3>1. work' = Idle
      BY <1>5, <2>4
    <3> QED
      BY <1>1, <1>3, <1>5, <2>1, <2>2, <3>1, WorkerType DEF window, maps
  <2> QED
    BY <2>3, <2>4
<1>6. CASE /\ Fails \/ Refuses
           /\ obj' \in {obj, Deleted(work.id)}
           /\ work' = Idle /\ UNCHANGED <<sent, model>>
  <2>1. DevOK' /\ top' >= top
    BY <1>1, <1>2, <1>6, DeletedOK DEF DevOK
  <2>2. ModelOK'
    BY <1>1, <1>2, <1>6, <2>1, ModelKept
  <2> QED
    BY <1>1, <1>3, <1>6, <2>1, <2>2, WorkerType DEF window, maps
<1> QED
  BY <1>1, <1>5, <1>6

LEMMA RelistType ==
  ASSUME TypeInv, Relist
  PROVE  TypeInv'
<1>1. /\ Alive /\ work.at = "relist" /\ SetParent(model.parent) /\ work' = Idle
      /\ UNCHANGED <<device, window, queue, maps, aborted, done, library, past>>
  BY DEF Relist
<1>2. DevOK /\ ModelOK
  BY DEF TypeInv
<1>3. DevOK' /\ top' >= top /\ top' = top
  BY <1>1, DeviceKept
<1>4. model.parent \in 0..top
  BY <1>2 DEF ModelOK, DevOK
<1>5. ModelOK' /\ (Succeeds \/ Fails)
  BY <1>1, <1>2, <1>3, <1>4, SetParentOK, SetParentFacts
<1>6. work.at # "idle" /\ work.at \notin OfFinish
  BY <1>1 DEF OfFinish
<1> QED
  BY <1>1, <1>3, <1>5, <1>6, WorkerType DEF window, maps, past

LEMMA LookUpFolderType ==
  ASSUME TypeInv, LookUpFolder
  PROVE  TypeInv'
<1>1. /\ Alive /\ work.at = "lookup"
      /\ UNCHANGED <<device, window, queue, covers, albums, aborted, done, library, past>>
  BY DEF LookUpFolder
<1>2. PICK bad \in 0 .. Len(model.rows) :
        LET k == Found(Last(path), bad)
        IN  /\ LookUp(Last(path), bad)
            /\ IF k = 0 THEN GoOn("make") /\ UNCHANGED dirs
               ELSE work' = Idle /\ dirs' = Put(dirs, path, model.rows[k].id)
  BY DEF LookUpFolder
<1> DEFINE k == Found(Last(path), bad)
<1>3. WorkOK /\ DevOK /\ ModelOK
  BY DEF TypeInv
<1>4. work.at # "idle" /\ StageFor("make") /\ StageFor("lookup") /\ work.at \notin OfFinish
  BY <1>1, <1>3, StageSteps DEF OfMkdir, OfFinish
<1>5. DevOK' /\ top' >= top /\ top' = top
  BY <1>1, DeviceKept
<1>6. ModelOK' /\ (Succeeds \/ Fails)
  BY <1>2, <1>3, <1>5, LookUpOK, LookUpFacts
<1>7. CASE k = 0
  <2>1. MovedTo("make") /\ dirs' = dirs
    BY <1>2, <1>4, <1>5, <1>7, GoesOn
  <2> QED
    BY <1>1, <1>4, <1>5, <1>6, <2>1, WorkerType DEF window, past
<1>8. CASE k # 0
  <2>1. work' = Idle /\ dirs' = Put(dirs, path, model.rows[k].id)
    BY <1>2, <1>8
  <2>2. model.rows[k].id \in 0..top'
    BY <1>3, <1>5, <1>8, FoundFacts, RowFacts DEF ModelOK
  <2>3. path \in Seq(NameSet)
    BY <1>4, TargetFacts DEF StageFor, OfMkdir
  <2>4. \E d \in Seq(NameSet), i \in 0..top' : dirs' = Put(dirs, d, i)
    BY <2>1, <2>2, <2>3
  <2> QED
    BY <1>1, <1>4, <1>5, <1>6, <2>1, <2>4, WorkerType DEF window, past
<1> QED
  BY <1>7, <1>8

LEMMA MakeFolderType ==
  ASSUME TypeInv, MakeFolder
  PROVE  TypeInv'
<1>1. /\ Alive /\ work.at = "make" /\ work' = Idle
      /\ \/ /\ Succeeds
            /\ obj' = Created(dirs[Front(path)], Last(path), TRUE) /\ top' = top + 1
            /\ dirs' = Put(dirs, path, top + 1)
            /\ model' = RowAdded(dirs[Front(path)], top + 1)
         \/ Fails /\ UNCHANGED <<device, maps, model>>
      /\ UNCHANGED <<window, queue, covers, albums, aborted, done, library, past>>
  BY DEF MakeFolder
<1>2. WorkOK /\ DevOK /\ ModelOK /\ top \in Nat
  BY DEF TypeInv, DevOK
<1>3. work.at # "idle" /\ StageFor("make") /\ work.at \notin OfFinish
  BY <1>1, <1>2, StageSteps DEF OfMkdir, OfFinish
<1>4. Last(path) \in NameSet /\ dirs[Front(path)] \in 0..top /\ path \in Seq(NameSet)
  BY <1>3, TargetFacts DEF StageFor, OfMkdir
<1>5. CASE /\ Succeeds
           /\ obj' = Created(dirs[Front(path)], Last(path), TRUE) /\ top' = top + 1
           /\ dirs' = Put(dirs, path, top + 1)
           /\ model' = RowAdded(dirs[Front(path)], top + 1)
  <2> DEFINE p == dirs[Front(path)]
             n == Last(path)
  <2>1. p \in 0..top /\ n \in NameSet /\ TRUE \in BOOLEAN /\ obj' = Created(p, n, TRUE)
    BY <1>4, <1>5
  <2> HIDE DEF p, n
  <2>2. DevOK' /\ top' \in Nat /\ top' >= top
    <3>1. DevOK'
      BY <1>2, <1>5, <2>1, CreatedOK
    <3> QED
      BY <1>2, <1>5, <3>1
  <2>3. ModelOK'
    <3>1. top + 1 \in Nat
      BY <1>2
    <3> QED
      BY <1>2, <1>5, <2>2, <3>1, RowAddedOK
  <2>4. \E d \in Seq(NameSet), i \in 0..top' : dirs' = Put(dirs, d, i)
    <3>1. top + 1 \in 0..top'
      BY <1>2, <1>5
    <3> QED
      BY <1>4, <1>5, <3>1
  <2> QED
    BY <1>1, <1>3, <1>5, <2>2, <2>3, <2>4, WorkerType DEF window, past
<1>6. CASE Fails /\ UNCHANGED <<device, maps, model>>
  <2>1. DevOK' /\ top' >= top /\ ModelOK'
    BY <1>6, DeviceKept
  <2> QED
    BY <1>1, <1>3, <1>6, <2>1, WorkerType DEF window, past, maps
<1> QED
  BY <1>1, <1>5, <1>6

LEMMA PrepareType ==
  ASSUME TypeInv, Prepare
  PROVE  TypeInv'
<1>1. /\ Alive /\ work.at = "prepare"
      /\ UNCHANGED <<device, queue, job, done, turns, history, answer, attached, aborted, pressed, dirs, gui,
                     model>>
  BY DEF Prepare, window, maps, past
<1>2. (Succeeds \/ Fails) /\ (work' = Idle \/ GoOn("create"))
  BY DEF Prepare
<1>3. WorkOK
  BY DEF TypeInv
<1>4. work.at # "idle" /\ StageFor("create") /\ work.at \notin OfFinish
  BY <1>1, <1>3, StageSteps DEF OfData, OfImport, OfGet, OfFinish
<1>5. DevOK' /\ top' >= top /\ top' = top /\ ModelOK'
  BY <1>1, DeviceKept
<1>6. GoOn("create") => MovedTo("create")
  BY <1>4, <1>5, GoesOn
<1> QED
  BY <1>1, <1>2, <1>4, <1>5, <1>6, WorkerType

LEMMA CreateTrackType ==
  ASSUME TypeInv, CreateTrack
  PROVE  TypeInv'
<1>1. /\ Alive /\ work.at = "create"
      /\ UNCHANGED <<device, queue, job, done, turns, history, answer, attached, aborted, pressed, dirs, gui,
                     model>>
  BY DEF CreateTrack, window, maps, past
<1>2. (Succeeds \/ Fails) /\ (work' = Idle \/ GoOn("pause"))
  BY DEF CreateTrack
<1>3. WorkOK
  BY DEF TypeInv
<1>4. work.at # "idle" /\ StageFor("pause") /\ work.at \notin OfFinish
  BY <1>1, <1>3, StageSteps DEF OfData, OfImport, OfGet, OfFinish
<1>5. DevOK' /\ top' >= top /\ top' = top /\ ModelOK'
  BY <1>1, DeviceKept
<1>6. GoOn("pause") => MovedTo("pause")
  BY <1>4, <1>5, GoesOn
<1> QED
  BY <1>1, <1>2, <1>4, <1>5, <1>6, WorkerType

LEMMA SendTrackType ==
  ASSUME TypeInv, SendTrack
  PROVE  TypeInv'
<1>1. /\ Alive /\ work.at = "data" /\ work.cmd.op = "import"
      /\ UNCHANGED <<device, queue, job, done, turns, history, answer, attached, aborted, pressed, dirs, gui,
                     model>>
  BY DEF SendTrack, window, maps, past
<1>2. (Succeeds \/ Fails \/ Refuses) /\ GoOn("add")
  BY DEF SendTrack
<1>3. WorkOK
  BY DEF TypeInv
<1>4. work.at # "idle" /\ StageFor("add") /\ work.at \notin OfFinish
  BY <1>1, <1>3, StageSteps DEF OfData, OfImport, OfGet, OfFinish
<1>5. DevOK' /\ top' >= top /\ top' = top /\ ModelOK'
  BY <1>1, DeviceKept
<1>6. GoOn("add") => MovedTo("add")
  BY <1>4, <1>5, GoesOn
<1> QED
  BY <1>1, <1>2, <1>4, <1>5, <1>6, WorkerType

LEMMA AddTrackType ==
  ASSUME TypeInv, AddTrack
  PROVE  TypeInv'
<1>1. /\ Alive /\ work.at = "add" /\ (Succeeds \/ Fails) /\ work' = Idle
      /\ UNCHANGED <<device, queue, job, done, turns, history, answer, attached, aborted, pressed, dirs, gui,
                     model>>
  BY DEF AddTrack, window, maps, past
<1>2. work.at # "idle" /\ work.at \notin OfFinish
  BY <1>1 DEF OfFinish
<1>3. DevOK' /\ top' >= top /\ top' = top /\ ModelOK'
  BY <1>1, DeviceKept
<1> QED
  BY <1>1, <1>2, <1>3, WorkerType

LEMMA DownloadType ==
  ASSUME TypeInv, Download
  PROVE  TypeInv'
<1>1. /\ Alive /\ work.at = "get"
      /\ UNCHANGED <<device, queue, job, done, turns, history, answer, attached, aborted, pressed, dirs, gui,
                     model>>
  BY DEF Download, window, maps, past
<1>2. (Succeeds \/ Fails) /\ (work' = Idle \/ GoOn("mtime"))
  BY DEF Download
<1>3. WorkOK
  BY DEF TypeInv
<1>4. work.at # "idle" /\ StageFor("mtime") /\ work.at \notin OfFinish
  BY <1>1, <1>3, StageSteps DEF OfData, OfImport, OfGet, OfFinish
<1>5. DevOK' /\ top' >= top /\ top' = top /\ ModelOK'
  BY <1>1, DeviceKept
<1>6. GoOn("mtime") => MovedTo("mtime")
  BY <1>4, <1>5, GoesOn
<1> QED
  BY <1>1, <1>2, <1>4, <1>5, <1>6, WorkerType

LEMMA SetTimeType ==
  ASSUME TypeInv, SetTime
  PROVE  TypeInv'
<1>1. /\ Alive /\ work.at = "mtime" /\ (Succeeds \/ Fails) /\ work' = Idle
      /\ UNCHANGED <<device, queue, job, done, turns, history, answer, attached, aborted, pressed, dirs, gui,
                     model>>
  BY DEF SetTime, window, maps, past
<1>2. work.at # "idle" /\ work.at \notin OfFinish
  BY <1>1 DEF OfFinish
<1>3. DevOK' /\ top' >= top /\ top' = top /\ ModelOK'
  BY <1>1, DeviceKept
<1> QED
  BY <1>1, <1>2, <1>3, WorkerType

LEMMA TimeNotThereType ==
  ASSUME TypeInv, TimeNotThere
  PROVE  TypeInv'
<1>1. /\ Alive /\ work.at = "mtime" /\ (Succeeds \/ Fails) /\ work' = work
      /\ UNCHANGED <<device, queue, job, done, turns, history, answer, attached, aborted, pressed, dirs, gui,
                     model>>
  BY DEF TimeNotThere, window, worker, maps
<1>2. WorkOK
  BY DEF TypeInv
<1>3. work.at # "idle" /\ StageFor("mtime")
  BY <1>1, <1>2, StageSteps DEF OfGet
<1>4. DevOK' /\ top' >= top /\ top' = top /\ ModelOK'
  BY <1>1, DeviceKept
<1>5. MovedTo("mtime")
  BY <1>1, <1>3, <1>4, GoesOn
<1> QED
  BY <1>1, <1>3, <1>4, <1>5, WorkerType

LEMMA FinishType ==
  ASSUME TypeInv, Finish
  PROVE  TypeInv'
<1>1. /\ Alive /\ work.at = "finish" /\ SetParent(work.cmd.id) /\ GoOn("covers")
      /\ UNCHANGED <<device, window, queue, maps, aborted, done, library, past>>
  BY DEF Finish
<1>2. WorkOK /\ DevOK
  BY DEF TypeInv
<1>3. work.at # "idle" /\ StageFor("covers")
  BY <1>1, <1>2, StageSteps DEF OfFinish
<1>4. work.cmd.id \in 0..top
  BY <1>1, <1>2, <1>3, WorkFacts DEF OfFinish
<1>5. DevOK' /\ top' >= top /\ top' = top
  BY <1>1, DeviceKept
<1>6. ModelOK' /\ (Succeeds \/ Fails)
  BY <1>1, <1>2, <1>4, <1>5, SetParentOK, SetParentFacts
<1>7. MovedTo("covers")
  BY <1>1, <1>3, <1>5, GoesOn
<1> QED
  BY <1>1, <1>3, <1>5, <1>6, <1>7, WorkerType DEF window, maps, past

LEMMA SetCoverType ==
  ASSUME TypeInv, SetCover
  PROVE  TypeInv'
<1>1. /\ Alive /\ work.at = "cover"
      /\ UNCHANGED <<device, queue, job, done, turns, history, answer, attached, aborted, pressed, dirs, gui,
                     model>>
  BY DEF SetCover, window, maps, past
<1>2. (Succeeds \/ Fails) /\ GoOn("covers")
  BY DEF SetCover
<1>3. WorkOK
  BY DEF TypeInv
<1>4. work.at # "idle" /\ StageFor("covers")
  BY <1>1, <1>3, StageSteps DEF OfData, OfImport, OfGet, OfFinish
<1>5. DevOK' /\ top' >= top /\ top' = top /\ ModelOK'
  BY <1>1, DeviceKept
<1>6. GoOn("covers") => MovedTo("covers")
  BY <1>4, <1>5, GoesOn
<1> QED
  BY <1>1, <1>2, <1>4, <1>5, <1>6, WorkerType

LEMMA ChooseCoverType ==
  ASSUME TypeInv, NEW d, ChooseCover(d)
  PROVE  TypeInv'
<1>1. /\ Alive /\ work.at = "covers"
      /\ UNCHANGED <<device, window, model, queue, dirs, covers, flags, library, past, faults>>
      /\ \/ UNCHANGED work
         \/ \E e \in CoversFor(d) :
              work' = [work EXCEPT !.at = "cover",
                          !.cmd = [op |-> "finish", id |-> @.id, path |-> covers[e].path, album |-> albums[d]]]
  BY DEF ChooseCover
<1>2. WorkOK
  BY DEF TypeInv
<1>3. work.at # "idle" /\ StageFor("covers")
  BY <1>1, <1>2, StageSteps DEF OfFinish
<1>4. DevOK' /\ top' >= top /\ top' = top /\ ModelOK'
  BY <1>1, DeviceKept
<1>5. CASE UNCHANGED work
  <2>1. MovedTo("covers")
    BY <1>1, <1>3, <1>4, <1>5, GoesOn
  <2> QED
    BY <1>1, <1>3, <1>4, <1>5, <2>1, WorkerType DEF window, past, flags
<1>6. ASSUME NEW e \in CoversFor(d),
             work' = [work EXCEPT !.at = "cover",
                          !.cmd = [op |-> "finish", id |-> @.id, path |-> covers[e].path, album |-> albums[d]]]
      PROVE  TypeInv'
  <2>1. DOMAIN work = Parts /\ work.id \in 0..top /\ work.between \in BOOLEAN /\ work.reset \in BOOLEAN
    BY <1>2, <1>3, WorkFacts
  <2>2. work.cmd.id \in 0..top
    BY <1>1, <1>2, <1>3, WorkFacts DEF OfFinish
  <2>3. /\ DOMAIN work' = Parts /\ work'.at = "cover" /\ work'.id = work.id
        /\ work'.between = work.between /\ work'.reset = work.reset
        /\ work'.cmd.op = "finish" /\ work'.cmd.id = work.cmd.id
    BY <1>6, <2>1 DEF Parts
  <2>4. WorkOK'
    BY <1>4, <2>1, <2>2, <2>3 DEF WorkOK, Parts, OfSend, OfData, OfMkdir, OfImport, OfGet, OfFinish
  <2>5. work'.at # "idle" /\ work'.at # "ask" /\ work'.at \in OfFinish /\ work.at \in OfFinish
    BY <1>1, <2>3 DEF OfFinish
  <2>6. gui' = gui /\ gui # "ask"
    BY <1>1 DEF window, TypeInv, QuietOK
  <2>7. top' \in Nat
    BY <1>4 DEF DevOK
  <2>8. WindowOK' /\ JobOK' /\ QueueOK' /\ QuietOK'
    BY <1>1, <1>3, <1>4, <2>5, <2>6, <2>7, WorkerKeeps DEF window, flags
  <2>9. FlagsOK' /\ MapsOK'
    BY <1>1, <1>4 DEF TypeInv, FlagsOK, MapsOK, flags, window, past
  <2>10. TargetOK'
    BY <2>3 DEF TargetOK
  <2> QED
    BY <1>4, <2>4, <2>8, <2>9, <2>10 DEF TypeInv
<1> QED
  BY <1>1, <1>5, <1>6

LEMMA FinishedType ==
  ASSUME TypeInv, Finished
  PROVE  TypeInv'
<1>1. /\ Alive /\ work.at = "covers" /\ work' = Idle /\ dirs' = <<>> /\ aborted' = FALSE /\ done' = TRUE
      /\ UNCHANGED <<device, window, queue, model, cancelled, library, past, faults>>
  BY DEF Finished, FinishEnds, FinishStays
<1>2. DevOK' /\ top' >= top /\ top' = top /\ ModelOK'
  BY <1>1, DeviceKept
<1>3. WorkOK' /\ work'.at = "idle"
  BY <1>1, IdleOK
<1>4. WindowOK' /\ JobOK' /\ QueueOK'
  BY <1>1, <1>2 DEF TypeInv, WindowOK, JobOK, QueueOK, window
<1>5. FlagsOK'
  BY <1>1 DEF TypeInv, FlagsOK, window, past
<1>6. MapsOK'
  <2>1. top \in Nat
    BY DEF TypeInv, DevOK
  <2> QED
    BY <1>1, <1>2, <2>1, MapsKept DEF TypeInv
<1>7. QuietOK'
  <2>1. QuietOK /\ WorkOK /\ work.at \in OfFinish /\ gui = "dialog" /\ Busy
    BY <1>1 DEF TypeInv, QuietOK, Alive, OfFinish, Busy
  <2>2. ~done
    BY <1>1, <2>1, WorkFacts DEF QuietOK
  <2>3. queue = <<>> /\ job.kind # "none"
    BY <2>1, <2>2 DEF QuietOK
  <2> QED
    BY <1>1, <1>3, <2>1, <2>3 DEF QuietOK, Busy, window
<1>8. TargetOK'
  BY <1>3 DEF TargetOK
<1> QED
  BY <1>2, <1>3, <1>4, <1>5, <1>6, <1>7, <1>8 DEF TypeInv

LEMMA CommandsFacts ==
  ASSUME NEW k
  PROVE  /\ Commands(k) \subseteq {"import", "get", "send", "mkdir"}
         /\ k = "import" => Commands(k) = {"import"}
         /\ k = "download" => Commands(k) = {"get"}
         /\ k \notin {"import", "download"} => Commands(k) = {"send", "mkdir"}
<1>1. CASE k = "import"
  BY <1>1 DEF Commands
<1>2. CASE k = "download"
  BY <1>2 DEF Commands
<1>3. CASE k \notin {"import", "download"}
  BY <1>3 DEF Commands
<1> QED
  BY <1>1, <1>2, <1>3

(* The command that is next.                                               *)
LEMMA HeadFacts ==
  ASSUME TypeInv, queue # <<>>
  PROVE  /\ Len(queue) \in Nat \ {0}
         /\ Len(queue) = 1 => /\ Head(queue) \in Ends /\ Head(queue).op = "finish"
                              /\ Head(queue).id \in 0..top /\ Tail(queue) = <<>>
         /\ Len(queue) # 1 => /\ Head(queue) \in JobCmds /\ Head(queue).op \in Commands(job.kind)
                              /\ Head(queue).op \in {"import", "get", "send", "mkdir"}
                              /\ Head(queue).path \in Paths /\ Tail(queue) # <<>>
         /\ Tail(queue) \in Seq(JobCmds \cup Ends) /\ Len(Tail(queue)) = Len(queue) - 1
         /\ \A n \in DOMAIN Tail(queue) : n + 1 \in DOMAIN queue /\ Tail(queue)[n] = queue[n + 1]
<1>1. QueueOK /\ top \in Nat
  BY DEF TypeInv, DevOK
<1>2. /\ queue \in Seq(JobCmds \cup Ends) /\ Len(queue) \in Nat \ {0} /\ DOMAIN queue = 1..Len(queue)
      /\ Head(queue) = queue[1]
      /\ Tail(queue) \in Seq(JobCmds \cup Ends) /\ Len(Tail(queue)) = Len(queue) - 1
      /\ \A n \in 1..(Len(queue) - 1) : Tail(queue)[n] = queue[n + 1]
  BY <1>1 DEF QueueOK
<1>3. DOMAIN Tail(queue) = 1..(Len(queue) - 1)
  BY <1>2
<1>4. ASSUME Len(queue) = 1
      PROVE  /\ Head(queue) \in Ends /\ Head(queue).op = "finish"
             /\ Head(queue).id \in 0..top /\ Tail(queue) = <<>>
  <2>1. queue[1] \in Ends /\ queue[1].id <= top
    BY <1>1, <1>2, <1>4 DEF QueueOK
  <2>2. queue[1].op = "finish" /\ queue[1].id \in Nat
    BY <2>1 DEF Ends
  <2>3. Tail(queue) = <<>>
    <3>1. Tail(queue) \in Seq(JobCmds \cup Ends) /\ Len(Tail(queue)) = 0
      BY <1>2, <1>4
    <3> QED
      BY <3>1, EmptySeq
  <2> QED
    BY <1>1, <1>2, <2>1, <2>2, <2>3
<1>5. ASSUME Len(queue) # 1
      PROVE  /\ Head(queue) \in JobCmds /\ Head(queue).op \in Commands(job.kind)
             /\ Head(queue).op \in {"import", "get", "send", "mkdir"}
             /\ Head(queue).path \in Paths /\ Tail(queue) # <<>>
  <2>1. queue[1] \in JobCmds /\ queue[1].op \in Commands(job.kind)
    BY <1>1, <1>2, <1>5 DEF QueueOK
  <2>2. Tail(queue) # <<>>
    <3>1. Len(<<>>) = 0 /\ Len(Tail(queue)) # 0
      BY <1>2, <1>5
    <3> QED
      BY <3>1
  <2>3. \A c \in JobCmds : c.path \in Paths
    BY JobsAssumption
  <2> QED
    BY <1>2, <2>1, <2>2, <2>3, CommandsFacts
<1> QED
  BY <1>2, <1>3, <1>4, <1>5

(* FileCommand::execute picks a stage the command can be at.               *)
LEMMA FirstStepFacts ==
  ASSUME NEW c, c.op \in {"finish", "import", "get", "send", "mkdir"}
  PROVE  /\ c.op = "finish" => FirstStep(c) = "finish"
         /\ c.op = "import" => FirstStep(c) \in {"idle", "prepare"}
         /\ c.op = "get" => FirstStep(c) \in {"idle", "get"}
         /\ c.op = "send" => FirstStep(c) \in {"idle", "enter", "find"}
         /\ c.op = "mkdir" => FirstStep(c) \in {"idle", "lookup"}
         /\ c.op \in {"send", "mkdir"} /\ FirstStep(c) # "idle" =>
              ~aborted /\ Front(c.path) \in DOMAIN Mapped(c.path)
         /\ FirstStep(c) = "find" => model.parent = Mapped(c.path)[Front(c.path)]
BY DEF FirstStep

LEMMA TakeCommandType ==
  ASSUME TypeInv, TakeCommand
  PROVE  TypeInv'
<1> DEFINE cmd == Head(queue)
           a == FirstStep(cmd)
<1>1. /\ Alive /\ work = Idle /\ queue # <<>>
      /\ work' = IF a = "idle" THEN Idle
                 ELSE [at |-> a, cmd |-> cmd, id |-> 0, between |-> FALSE, reset |-> FALSE]
      /\ dirs' = IF cmd.op \in {"send", "mkdir"} /\ ~aborted THEN Mapped(cmd.path) ELSE dirs
      /\ queue' = Tail(queue)
      /\ UNCHANGED <<device, window, model, flags, library, past, faults>>
  BY DEF TakeCommand
<1>2. /\ Len(queue) \in Nat \ {0}
      /\ Len(queue) = 1 => cmd.op = "finish" /\ cmd.id \in 0..top /\ Tail(queue) = <<>>
      /\ Len(queue) # 1 => /\ cmd \in JobCmds /\ cmd.op \in Commands(job.kind)
                           /\ cmd.op \in {"import", "get", "send", "mkdir"}
                           /\ cmd.path \in Paths /\ Tail(queue) # <<>>
      /\ Tail(queue) \in Seq(JobCmds \cup Ends) /\ Len(Tail(queue)) = Len(queue) - 1
      /\ \A n \in DOMAIN Tail(queue) : n + 1 \in DOMAIN queue /\ Tail(queue)[n] = queue[n + 1]
  BY <1>1, HeadFacts
<1> HIDE DEF cmd
<1>3. /\ cmd.op = "finish" => a = "finish"
      /\ cmd.op = "import" => a \in {"idle", "prepare"}
      /\ cmd.op = "get" => a \in {"idle", "get"}
      /\ cmd.op = "send" => a \in {"idle", "enter", "find"}
      /\ cmd.op = "mkdir" => a \in {"idle", "lookup"}
      /\ cmd.op \in {"send", "mkdir"} /\ a # "idle" => ~aborted /\ Front(cmd.path) \in DOMAIN Mapped(cmd.path)
  BY <1>2, FirstStepFacts
<1> HIDE DEF a
<1>4. DevOK' /\ top' >= top /\ top' = top /\ ModelOK' /\ top \in Nat
  BY <1>1, DeviceKept DEF TypeInv, DevOK
<1>5. WindowOK' /\ FlagsOK' /\ JobOK'
  BY <1>1, <1>4 DEF TypeInv, WindowOK, FlagsOK, JobOK, window, flags, past
<1>6. QueueOK'
  <2>1. \A n \in DOMAIN queue : IF n = Len(queue) THEN queue[n] \in Ends /\ queue[n].id <= top
                                ELSE queue[n] \in JobCmds /\ queue[n].op \in Commands(job.kind)
    BY DEF TypeInv, QueueOK
  <2>2. DOMAIN Tail(queue) \subseteq Nat
    BY <1>2
  <2>3. job' = job
    BY <1>1 DEF window
  <2>4. \A n \in DOMAIN Tail(queue) :
           IF n = Len(Tail(queue)) THEN Tail(queue)[n] \in Ends /\ Tail(queue)[n].id <= top
           ELSE Tail(queue)[n] \in JobCmds /\ Tail(queue)[n].op \in Commands(job.kind)
    <3> TAKE n \in DOMAIN Tail(queue)
    <3>1. n + 1 \in DOMAIN queue /\ Tail(queue)[n] = queue[n + 1] /\ n \in Nat
      BY <1>2, <2>2
    <3>2. n = Len(Tail(queue)) <=> n + 1 = Len(queue)
      BY <1>2, <3>1
    <3> QED
      BY <2>1, <3>1, <3>2
  <2> QED
    BY <1>1, <1>2, <1>4, <2>3, <2>4 DEF QueueOK
<1>7. CASE a = "idle"
  <2>1. WorkOK' /\ work'.at = "idle"
    BY <1>1, <1>7, IdleOK
  <2>2. TargetOK'
    BY <2>1 DEF TargetOK
  <2>3. MapsOK'
    <3>1. CASE dirs' = dirs
      BY <1>4, <3>1, MapsKept DEF TypeInv
    <3>2. CASE dirs' # dirs
      <4>1. cmd.op \in {"send", "mkdir"} /\ dirs' = Put(dirs, Front(cmd.path), model.parent)
        BY <1>1, <3>2 DEF Mapped
      <4>2. Front(cmd.path) \in Seq(NameSet)
        BY <1>2, <4>1, PathFacts
      <4>3. model.parent \in 0..top'
        BY <1>4 DEF TypeInv, ModelOK
      <4> QED
        BY <1>4, <4>1, <4>2, <4>3, MapsKept DEF TypeInv
    <3> QED
      BY <3>1, <3>2
  <2>4. QuietOK'
    <3>1. Busy /\ Busy' /\ gui' = gui /\ job' = job /\ done' = done /\ gui # "ask"
      <4>1. work.at # "ask"
        BY <1>1 DEF Idle
      <4> QED
        BY <1>1, <4>1 DEF Busy, Alive, window, flags, TypeInv, QuietOK
    <3>2. ~done /\ job.kind # "none"
      BY <1>1, <3>1 DEF TypeInv, QuietOK
    <3>3. queue' # <<>>
      BY <1>1, <1>2, <1>3, <1>7
    <3>4. work'.at \notin OfFinish /\ work'.at # "ask"
      BY <2>1 DEF OfFinish
    <3>5. gui # "next"
      BY <3>1 DEF Busy
    <3> QED
      BY <3>1, <3>2, <3>3, <3>4, <3>5 DEF QuietOK
  <2> QED
    BY <1>4, <1>5, <1>6, <2>1, <2>2, <2>3, <2>4 DEF TypeInv
<1>8. CASE a # "idle"
  <2>1. work' = [at |-> a, cmd |-> cmd, id |-> 0, between |-> FALSE, reset |-> FALSE]
    BY <1>1, <1>8
  <2>2. /\ DOMAIN work' = {"at", "cmd", "id", "between", "reset"} /\ work'.at = a /\ work'.cmd = cmd
        /\ work'.id = 0 /\ work'.between = FALSE /\ work'.reset = FALSE
    BY <2>1
  <2>3. job' = job
    BY <1>1 DEF window
  <2>4. WorkOK'
    <3>0. work'.id \in 0..top' /\ work'.between \in BOOLEAN /\ work'.reset \in BOOLEAN
      <4>1. top' \in Nat
        BY <1>4
      <4>2. work'.id \in 0..top'
        BY <2>2, <4>1
      <4>3. work'.between \in BOOLEAN /\ work'.reset \in BOOLEAN
        BY <2>2, Zenon
      <4> QED
        BY <4>2, <4>3
    <3>1. CASE Len(queue) = 1
      <4>1. work'.at = "finish" /\ work'.cmd.op = "finish" /\ work'.cmd.id \in 0..top'
        BY <1>2, <1>3, <1>4, <2>2, <3>1
      <4> QED
        BY <2>2, <3>0, <4>1 DEF WorkOK, OfSend, OfData, OfMkdir, OfImport, OfGet, OfFinish
    <3>2. CASE Len(queue) # 1
      <4>1. work'.cmd \in JobCmds /\ work'.cmd.op \in Commands(job'.kind)
        BY <1>2, <2>2, <2>3, <3>2
      <4>2. \/ work'.cmd.op = "import" /\ work'.at = "prepare"
            \/ work'.cmd.op = "get" /\ work'.at = "get"
            \/ work'.cmd.op = "send" /\ work'.at \in {"enter", "find"}
            \/ work'.cmd.op = "mkdir" /\ work'.at = "lookup"
        BY <1>2, <1>3, <1>8, <2>2, <3>2
      <4> QED
        BY <2>2, <3>0, <4>1, <4>2 DEF WorkOK, OfSend, OfData, OfMkdir, OfImport, OfGet, OfFinish
    <3> QED
      BY <3>1, <3>2
  <2>5. MapsOK'
    <3>1. CASE dirs' = dirs
      BY <1>4, <3>1, MapsKept DEF TypeInv
    <3>2. CASE dirs' # dirs
      <4>1. cmd.op \in {"send", "mkdir"} /\ dirs' = Put(dirs, Front(cmd.path), model.parent)
        BY <1>1, <3>2 DEF Mapped
      <4>2. Front(cmd.path) \in Seq(NameSet)
        BY <1>2, <4>1, PathFacts
      <4>3. model.parent \in 0..top'
        BY <1>4 DEF TypeInv, ModelOK
      <4> QED
        BY <1>4, <4>1, <4>2, <4>3, MapsKept DEF TypeInv
    <3> QED
      BY <3>1, <3>2
  <2>6. TargetOK'
    BY <1>1, <1>3, <1>8, <2>2 DEF TargetOK
  <2>7. QuietOK'
    <3>1. Busy /\ Busy' /\ gui' = gui /\ job' = job /\ done' = done /\ gui # "ask"
      <4>1. work.at # "ask"
        BY <1>1 DEF Idle
      <4> QED
        BY <1>1, <4>1 DEF Busy, Alive, window, flags, TypeInv, QuietOK
    <3>2. ~done /\ job.kind # "none"
      BY <1>1, <3>1 DEF TypeInv, QuietOK
    <3>3. queue' = <<>> <=> a \in OfFinish
      BY <1>1, <1>2, <1>3, <1>8 DEF OfFinish
    <3>4. a # "ask"
      BY <1>2, <1>3
    <3>5. gui # "next"
      BY <3>1 DEF Busy
    <3> QED
      BY <2>2, <3>1, <3>2, <3>3, <3>4, <3>5 DEF QuietOK
  <2> QED
    BY <1>4, <1>5, <1>6, <2>4, <2>5, <2>6, <2>7 DEF TypeInv
<1> QED
  BY <1>7, <1>8

(* A step that leaves the worker alone.                                    *)
LEMMA RestKeeps ==
  ASSUME TypeInv, UNCHANGED <<queue, work, dirs, job>>, top' \in Nat, top' >= top
  PROVE  /\ QueueOK' /\ WorkOK' /\ MapsOK' /\ TargetOK' /\ JobOK'
         /\ gui' = gui /\ done' = done => QuietOK'
<1>1. top \in Nat
  BY DEF TypeInv, DevOK
<1>2. QueueOK'
  <2>1. QueueOK
    BY DEF TypeInv
  <2>2. \A n \in DOMAIN queue : queue[n] \in Ends => queue[n].id \in Nat
    BY DEF Ends
  <2> QED
    BY <1>1, <2>1, <2>2 DEF QueueOK
<1>3. WorkOK'
  <2>1. WorkOK
    BY DEF TypeInv
  <2>2. CASE work = Idle
    BY <2>2, IdleOK
  <2>3. CASE work # Idle
    <3>1. work.at # "idle" /\ work.id \in 0..top' /\ (work.at \in OfFinish => work.cmd.id \in 0..top')
      BY <1>1, <2>1, <2>3, WorkFacts
    <3> QED
      BY <2>1, <2>3, <3>1 DEF WorkOK
  <2> QED
    BY <2>2, <2>3
<1>4. MapsOK' /\ TargetOK' /\ JobOK'
  BY <1>1 DEF TypeInv, MapsOK, TargetOK, JobOK
<1>5. gui' = gui /\ done' = done => QuietOK'
  BY DEF TypeInv, QuietOK, Busy
<1> QED
  BY <1>2, <1>3, <1>4, <1>5

LEMMA HistoryFacts ==
  ASSUME TypeInv
  PROVE  /\ Shown \in 0..top
         /\ history # <<>> =>
              /\ Len(history) \in Nat \ {0} /\ Front(history) \in Seq(Nat)
              /\ Len(Front(history)) = Len(history) - 1
              /\ \A n \in DOMAIN Front(history) : n \in DOMAIN history /\ Front(history)[n] = history[n]
              /\ Len(history) # 1 => history[Len(history) - 1] \in 0..top
              /\ (IF Len(history) = 1 THEN Root ELSE history[Len(history) - 1]) \in 0..top
<1>1. /\ top \in Nat /\ history \in Seq(Nat) /\ \A n \in DOMAIN history : history[n] \in 0..top
      /\ Len(history) \in Nat /\ DOMAIN history = 1..Len(history)
  BY DEF TypeInv, DevOK, WindowOK
<1>2. history # <<>> => Len(history) # 0
  BY <1>1, EmptySeq
<1>3. Shown \in 0..top
  BY <1>1, <1>2 DEF Shown, Root, Last
<1>4. ASSUME history # <<>>
      PROVE  /\ Front(history) \in Seq(Nat) /\ Len(Front(history)) = Len(history) - 1
             /\ \A n \in DOMAIN Front(history) : n \in DOMAIN history /\ Front(history)[n] = history[n]
  <2> DEFINE m == Len(history) - 1
  <2>1. m \in Nat /\ m \in Int /\ 1 \in Int /\ \A n \in 1..m : history[n] \in Nat
    BY <1>1, <1>2, <1>4
  <2> HIDE DEF m
  <2>2. /\ SubSeq(history, 1, m) \in Seq(Nat)
        /\ Len(SubSeq(history, 1, m)) = IF 1 <= m THEN m - 1 + 1 ELSE 0
        /\ \A n \in 1 .. (m - 1 + 1) : SubSeq(history, 1, m)[n] = history[1 + n - 1]
    BY <2>1, SubSeqProperties
  <2>3. Len(SubSeq(history, 1, m)) = m /\ DOMAIN SubSeq(history, 1, m) = 1..m
    BY <2>1, <2>2
  <2>4. \A n \in 1..m : SubSeq(history, 1, m)[n] = history[n]
    BY <2>1, <2>2
  <2>5. 1..m \subseteq DOMAIN history
    BY <1>1, <2>1 DEF m
  <2> QED
    BY <2>2, <2>3, <2>4, <2>5 DEF Front, m
<1>5. ASSUME history # <<>>, Len(history) # 1
      PROVE  history[Len(history) - 1] \in 0..top
  <2> DEFINE m == Len(history) - 1
  <2>1. m \in 1..Len(history)
    BY <1>1, <1>2, <1>5
  <2> HIDE DEF m
  <2>2. history[m] \in 0..top
    BY <1>1, <2>1
  <2> QED
    BY <2>2 DEF m
<1>6. history # <<>> => (IF Len(history) = 1 THEN Root ELSE history[Len(history) - 1]) \in 0..top
  <2>1. CASE Len(history) = 1
    BY <1>1, <2>1 DEF Root
  <2>2. CASE Len(history) # 1
    BY <1>5, <2>2
  <2> QED
    BY <2>1, <2>2
<1>7. history # <<>> => Len(history) \in Nat \ {0}
  BY <1>1, <1>2
<1> QED
  BY <1>3, <1>4, <1>5, <1>6, <1>7

LEMMA InitType ==
  ASSUME Init
  PROVE  TypeInv
<1>1. obj \in Worlds /\ top = Len(obj)
  BY DEF Init
<1>2. /\ obj \in Seq([name : NameSet, parent : Nat, dir : BOOLEAN])
      /\ \A i \in DOMAIN obj : obj[i].parent < i
  BY <1>1, WorldsAssumption
<1>3. DevOK
  <2> DEFINE S == [name : NameSet, parent : Nat, dir : BOOLEAN]
  <2>1. obj \in Seq(S)
    BY <1>2
  <2> HIDE DEF S
  <2>2. Len(obj) \in Nat /\ DOMAIN obj = 1..Len(obj) /\ \A i \in DOMAIN obj : obj[i] \in S
    BY <2>1
  <2> QED
    BY <1>1, <1>2, <2>2 DEF DevOK, S
<1>4. ModelOK
  <2>1. model = [parent |-> Root, rows |-> Listing(Root)]
    BY DEF Init
  <2>2. Root \in Nat /\ Root <= top
    BY <1>3 DEF Root, DevOK
  <2> QED
    BY <1>3, <2>1, <2>2, ListingFacts DEF ModelOK
<1>5. WindowOK /\ FlagsOK
  <2>1. DOMAIN <<>> = {} /\ <<>> \in Seq(Nat)
    OBVIOUS
  <2>2. 0 \in 0..MaxTurns /\ 0 \in 0..MaxFaults
    BY BoundsAssumption
  <2>3. WindowOK
    BY <2>1, <2>2 DEF Init, WindowOK
  <2>4. FlagsOK
    BY <2>2 DEF Init, FlagsOK
  <2> QED
    BY <2>3, <2>4
<1>6. JobOK
  <2>1. job = [kind |-> "none", cmds |-> <<>>, rest |-> <<>>, base |-> 0]
    BY DEF Init
  <2>2. <<>> \in Seq(JobCmds) /\ <<>> \in Seq(JobItems) /\ DOMAIN <<>> = {}
    OBVIOUS
  <2>3. top \in Nat
    BY <1>3 DEF DevOK
  <2> QED
    BY <2>1, <2>2, <2>3 DEF JobOK
<1>7. QueueOK /\ MapsOK
  <2>1. queue = <<>> /\ dirs = <<>>
    BY DEF Init
  <2>2. DOMAIN <<>> = {} /\ <<>> \in Seq(JobCmds \cup Ends)
    OBVIOUS
  <2> QED
    BY <2>1, <2>2 DEF QueueOK, MapsOK
<1>8. WorkOK /\ TargetOK /\ QuietOK
  BY DEF Init, WorkOK, TargetOK, QuietOK, Idle, Busy
<1> QED
  BY <1>3, <1>4, <1>5, <1>6, <1>7, <1>8 DEF TypeInv

LEMMA EnterType ==
  ASSUME TypeInv, NEW k, Enter(k)
  PROVE  TypeInv'
<1> DEFINE i == model.rows[k].id
<1>1. /\ gui = "idle" /\ turns < MaxTurns /\ turns' = turns + 1
      /\ i \in DOMAIN obj /\ SetParent(i) /\ history' = Append(history, i)
      /\ UNCHANGED <<device, gui, job, attached, answer, worker, aborted, done, library, past>>
  BY DEF Enter, Turn
<1> HIDE DEF i
<1>2. DevOK' /\ top' >= top /\ top' = top /\ top \in Nat /\ DevOK
  BY <1>1, DeviceKept DEF TypeInv, DevOK
<1>3. i \in 0..top
  BY <1>1, <1>2 DEF DevOK
<1>4. ModelOK' /\ (Succeeds \/ Fails)
  BY <1>1, <1>2, <1>3, SetParentOK, SetParentFacts
<1>5. WindowOK'
  <2>1. history \in Seq(Nat) /\ turns \in Nat /\ MaxTurns \in Nat /\ WindowOK
    BY BoundsAssumption DEF TypeInv, WindowOK
  <2>2. turns' \in 0..MaxTurns
    BY <1>1, <2>1
  <2>3. i \in Nat
    BY <1>3
  <2>4. history' \in Seq(Nat) /\ \A n \in DOMAIN history' : history'[n] = i \/ (n \in DOMAIN history /\ history'[n] = history[n])
    BY <1>1, <2>1, <2>3
  <2> QED
    BY <1>1, <1>2, <1>3, <2>1, <2>2, <2>4 DEF WindowOK
<1>6. FlagsOK'
  BY <1>1, <1>4, FlagsKept DEF TypeInv, FlagsOK, past
<1>7. QueueOK' /\ WorkOK' /\ MapsOK' /\ TargetOK' /\ JobOK' /\ QuietOK'
  BY <1>1, <1>2, RestKeeps DEF worker, maps
<1> QED
  BY <1>2, <1>4, <1>5, <1>6, <1>7 DEF TypeInv

LEMMA BackType ==
  ASSUME TypeInv, Back
  PROVE  TypeInv'
<1> DEFINE p == IF Len(history) = 1 THEN Root ELSE history[Len(history) - 1]
<1>1. /\ gui = "idle" /\ turns < MaxTurns /\ turns' = turns + 1
      /\ history # <<>> /\ history' = Front(history) /\ SetParent(p)
      /\ UNCHANGED <<device, gui, job, attached, answer, worker, aborted, done, library, past>>
  BY DEF Back, Turn
<1>2. DevOK' /\ top' >= top /\ top' = top /\ top \in Nat /\ DevOK
  BY <1>1, DeviceKept DEF TypeInv, DevOK
<1>3. p \in 0..top
  BY <1>1, HistoryFacts
<1> HIDE DEF p
<1>4. ModelOK' /\ (Succeeds \/ Fails)
  BY <1>1, <1>2, <1>3, SetParentOK, SetParentFacts
<1>5. WindowOK'
  <2>1. turns \in Nat /\ MaxTurns \in Nat /\ WindowOK
    BY BoundsAssumption DEF TypeInv, WindowOK
  <2>2. turns' \in 0..MaxTurns
    BY <1>1, <2>1
  <2>3. history' \in Seq(Nat) /\ \A n \in DOMAIN history' : n \in DOMAIN history /\ history'[n] = history[n]
    BY <1>1, HistoryFacts
  <2> QED
    BY <1>1, <1>2, <2>1, <2>2, <2>3 DEF WindowOK
<1>6. FlagsOK'
  BY <1>1, <1>4, FlagsKept DEF TypeInv, FlagsOK, past
<1>7. QueueOK' /\ WorkOK' /\ MapsOK' /\ TargetOK' /\ JobOK' /\ QuietOK'
  BY <1>1, <1>2, RestKeeps DEF worker, maps
<1> QED
  BY <1>2, <1>4, <1>5, <1>6, <1>7 DEF TypeInv

(* A turn of the user that leaves the history alone.                       *)
LEMMA TurnKeeps ==
  ASSUME TypeInv, Turn, Succeeds \/ Fails, DevOK', ModelOK', top' >= top,
         UNCHANGED <<gui, job, attached, history, answer, worker, aborted, done, pressed>>
  PROVE  TypeInv'
<1>1. top \in Nat /\ top' \in Nat /\ gui = "idle" /\ turns < MaxTurns /\ turns' = turns + 1
  BY DEF TypeInv, DevOK, Turn
<1>2. WindowOK'
  <2>1. turns \in Nat /\ MaxTurns \in Nat /\ WindowOK
    BY BoundsAssumption DEF TypeInv, WindowOK
  <2>2. turns' \in 0..MaxTurns
    BY <1>1, <2>1
  <2>3. \A n \in DOMAIN history : history[n] \in 0..top'
    BY <1>1, <2>1 DEF WindowOK
  <2> QED
    BY <1>1, <2>1, <2>2, <2>3 DEF WindowOK
<1>3. FlagsOK'
  BY FlagsKept DEF TypeInv, FlagsOK
<1>4. QueueOK' /\ WorkOK' /\ MapsOK' /\ TargetOK' /\ JobOK' /\ QuietOK'
  BY <1>1, RestKeeps DEF worker, maps
<1> QED
  BY <1>2, <1>3, <1>4 DEF TypeInv

LEMMA DeleteSelectedType ==
  ASSUME TypeInv, NEW k, DeleteSelected(k)
  PROVE  TypeInv'
<1> DEFINE S == {i \in DOMAIN obj' : obj'[i].parent = model.parent}
<1>1. /\ Turn /\ k \in DOMAIN model.rows
      /\ \/ Succeeds /\ obj' = Deleted(model.rows[k].id)
         \/ Fails /\ UNCHANGED obj
      /\ model' = [model EXCEPT !.rows = RowsOf(S)]
      /\ UNCHANGED <<top, gui, job, attached, history, answer, worker, aborted, done, library, past>>
  BY DEF DeleteSelected, Selected
<1>2. DevOK /\ ModelOK /\ top \in Nat /\ top' = top
  BY <1>1 DEF TypeInv, DevOK
<1>3. DevOK' /\ top' >= top
  BY <1>1, <1>2, DeletedOK DEF DevOK
<1>4. S \in SUBSET (1..top)
  BY <1>2, <1>3 DEF DevOK
<1> HIDE DEF S
<1>5. /\ RowsOf(S) \in Seq(RowSet)
      /\ \A n \in DOMAIN RowsOf(S) : RowsOf(S)[n].id \in S
  BY <1>2, <1>4, RowsOfFacts
<1>6. ModelOK'
  <2>1. model \in [parent : Nat, rows : Seq(RowSet)] /\ model.parent <= top
    BY <1>2 DEF ModelOK
  <2>2. model' \in [parent : Nat, rows : Seq(RowSet)] /\ model'.parent = model.parent /\ model'.rows = RowsOf(S)
    BY <1>1, <1>5, <2>1
  <2>3. \A n \in DOMAIN RowsOf(S) : RowsOf(S)[n].id <= top
    BY <1>2, <1>4, <1>5
  <2> QED
    BY <1>2, <2>1, <2>2, <2>3 DEF ModelOK
<1> QED
  BY <1>1, <1>3, <1>6, TurnKeeps DEF past

LEMMA RenamedFacts ==
  ASSUME DevOK, ModelOK, NEW k \in DOMAIN model.rows, NEW name \in NameSet, Renamed(k, name)
  PROVE  /\ Succeeds \/ Fails
         /\ DOMAIN obj' = DOMAIN obj
         /\ \A i \in DOMAIN obj : /\ obj'[i].parent = obj[i].parent /\ obj'[i].dir = obj[i].dir
                                  /\ obj'[i] \in [name : NameSet, parent : Nat, dir : BOOLEAN]
                                  /\ i # model.rows[k].id => obj'[i] = obj[i]
         /\ model' \in [parent : Nat, rows : Seq(RowSet)] /\ model'.parent = model.parent
         /\ DOMAIN model'.rows = DOMAIN model.rows
         /\ model'.rows[k].id = model.rows[k].id /\ model'.rows[k].name = Unknown
         /\ \A l \in DOMAIN model.rows : l # k => model'.rows[l] = model.rows[l]
<1>1. \A i \in DOMAIN obj : obj[i] \in [name : NameSet, parent : Nat, dir : BOOLEAN]
  BY DEF DevOK
<1>2. /\ DOMAIN obj' = DOMAIN obj
      /\ \A i \in DOMAIN obj : \/ obj'[i] = obj[i]
                               \/ i = model.rows[k].id /\ obj'[i] = [obj[i] EXCEPT !.name = name]
  BY DEF Renamed
<1>3. \A i \in DOMAIN obj : /\ obj'[i].parent = obj[i].parent /\ obj'[i].dir = obj[i].dir
                            /\ obj'[i] \in [name : NameSet, parent : Nat, dir : BOOLEAN]
                            /\ i # model.rows[k].id => obj'[i] = obj[i]
  BY <1>1, <1>2
<1>4. model \in [parent : Nat, rows : Seq(RowSet)] /\ model.rows \in Seq(RowSet)
  BY DEF ModelOK
<1>5. model' = [model EXCEPT !.rows[k].name = Unknown]
  BY DEF Renamed
<1> DEFINE R == [model.rows EXCEPT ![k] = [model.rows[k] EXCEPT !.name = Unknown]]
<1>6. model' = [model EXCEPT !.rows = R]
  BY <1>5
<1>7. model.rows[k] \in RowSet
  BY <1>4, RowFacts
<1>8. [model.rows[k] EXCEPT !.name = Unknown] \in RowSet
      /\ [model.rows[k] EXCEPT !.name = Unknown].id = model.rows[k].id
      /\ [model.rows[k] EXCEPT !.name = Unknown].name = Unknown
  BY <1>7 DEF RowSet
<1>9. /\ R \in Seq(RowSet) /\ DOMAIN R = DOMAIN model.rows
      /\ R[k] = [model.rows[k] EXCEPT !.name = Unknown]
      /\ \A l \in DOMAIN model.rows : l # k => R[l] = model.rows[l]
  BY <1>4, <1>8
<1> HIDE DEF R
<1>10. model' \in [parent : Nat, rows : Seq(RowSet)] /\ model'.parent = model.parent /\ model'.rows = R
  BY <1>4, <1>6, <1>9
<1>11. Succeeds \/ Fails
  BY DEF Renamed
<1> QED
  BY <1>2, <1>3, <1>8, <1>9, <1>10, <1>11

LEMMA RenameSelectedType ==
  ASSUME TypeInv, NEW k, NEW name \in Names, RenameSelected(k, name)
  PROVE  TypeInv'
<1>1. /\ Turn /\ k \in DOMAIN model.rows /\ Renamed(k, name)
      /\ UNCHANGED <<top, gui, job, attached, history, answer, worker, aborted, done, library, sent,
                     refused, pressed>>
  BY DEF RenameSelected, Selected
<1>2. DevOK /\ ModelOK /\ top \in Nat /\ name \in NameSet
  BY NamesAssumption DEF TypeInv, DevOK
<1>3. /\ Succeeds \/ Fails
      /\ DOMAIN obj' = DOMAIN obj
      /\ \A i \in DOMAIN obj : /\ obj'[i].parent = obj[i].parent
                               /\ obj'[i] \in [name : NameSet, parent : Nat, dir : BOOLEAN]
      /\ model' \in [parent : Nat, rows : Seq(RowSet)] /\ model'.parent = model.parent
      /\ DOMAIN model'.rows = DOMAIN model.rows
      /\ model'.rows[k].id = model.rows[k].id
      /\ \A l \in DOMAIN model.rows : l # k => model'.rows[l] = model.rows[l]
  BY <1>1, <1>2, RenamedFacts
<1>4. DevOK' /\ top' >= top
  BY <1>1, <1>2, <1>3 DEF DevOK
<1>5. ModelOK'
  BY <1>1, <1>2, <1>3 DEF ModelOK
<1> QED
  BY <1>1, <1>3, <1>4, <1>5, TurnKeeps DEF past

LEMMA CreateFolderType ==
  ASSUME TypeInv, NEW name \in Names, CreateFolder(name)
  PROVE  TypeInv'
<1> DEFINE rows == RowsLookedUp(name, 0)
<1>1. /\ Turn
      /\ \/ Succeeds /\ model' = [model EXCEPT !.rows = rows] /\ UNCHANGED device
         \/ /\ Succeeds
            /\ obj' = Created(model.parent, name, TRUE) /\ top' = top + 1
            /\ model' = [model EXCEPT !.rows = Append(rows, [id |-> top + 1, name |-> Unknown])]
         \/ Fails /\ model' = [model EXCEPT !.rows = rows] /\ UNCHANGED device
      /\ UNCHANGED <<gui, job, attached, history, answer, worker, aborted, done, library, past>>
  BY DEF CreateFolder
<1>2. DevOK /\ ModelOK /\ top \in Nat /\ name \in NameSet
  BY NamesAssumption DEF TypeInv, DevOK
<1>3. /\ rows \in Seq(RowSet) /\ DOMAIN rows = DOMAIN model.rows
      /\ \A k \in DOMAIN rows : rows[k].id = model.rows[k].id
  BY <1>2, LookedUpFacts
<1> HIDE DEF rows
<1>4. CASE (Succeeds \/ Fails) /\ model' = [model EXCEPT !.rows = rows] /\ UNCHANGED device
  <2>1. DevOK' /\ top' >= top /\ top' = top
    BY <1>4, DeviceKept
  <2>2. ModelOK'
    BY <1>2, <1>3, <1>4, <2>1, RowsNamedOK
  <2> QED
    BY <1>1, <1>4, <2>1, <2>2, TurnKeeps DEF past
<1>5. CASE /\ Succeeds
           /\ obj' = Created(model.parent, name, TRUE) /\ top' = top + 1
           /\ model' = [model EXCEPT !.rows = Append(rows, [id |-> top + 1, name |-> Unknown])]
  <2>1. model.parent \in 0..top /\ TRUE \in BOOLEAN /\ model \in [parent : Nat, rows : Seq(RowSet)]
    BY <1>2 DEF ModelOK
  <2> DEFINE p == model.parent
  <2>2. p \in 0..top /\ obj' = Created(p, name, TRUE)
    BY <1>5, <2>1
  <2> HIDE DEF p
  <2>3. DevOK'
    BY <1>2, <1>5, <2>1, <2>2, CreatedOK
  <2>4. top' \in Nat /\ top' >= top
    BY <1>2, <1>5
  <2>5. ModelOK'
    <3>1. [id |-> top + 1, name |-> Unknown] \in RowSet
      BY <1>2 DEF RowSet
    <3> DEFINE R == Append(rows, [id |-> top + 1, name |-> Unknown])
    <3>2. /\ R \in Seq(RowSet)
          /\ \A k \in DOMAIN R : R[k].id = top + 1 \/ (k \in DOMAIN model.rows /\ R[k].id = model.rows[k].id)
      BY <1>3, <3>1
    <3> HIDE DEF R
    <3>3. model' \in [parent : Nat, rows : Seq(RowSet)] /\ model'.parent = model.parent /\ model'.rows = R
      BY <1>5, <2>1, <3>2 DEF R
    <3>4. \A k \in DOMAIN model.rows : model.rows[k].id <= top /\ model.rows[k].id \in Nat
      BY <1>2, <2>1, RowFacts DEF ModelOK
    <3>5. \A k \in DOMAIN R : R[k].id <= top'
      BY <1>2, <1>5, <3>2, <3>4
    <3>6. model.parent <= top'
      BY <1>2, <1>5, <2>1
    <3> QED
      BY <3>3, <3>5, <3>6 DEF ModelOK
  <2> QED
    BY <1>1, <1>5, <2>3, <2>4, <2>5, TurnKeeps DEF past
<1> QED
  BY <1>1, <1>4, <1>5

(* Jobs for several directories are all of one kind.                       *)
Selection(js) ==
  /\ js \in Seq(JobItems) /\ js # <<>>
  /\ \A n \in DOMAIN js : js[n].kind = js[1].kind
  /\ js[1].kind \in {"upload", "download"} => Len(js) = 1

LEMMA SelectionFacts ==
  ASSUME NEW js, Selection(js)
  PROVE  /\ Head(js) \in JobItems /\ Head(js).kind \in Kinds
         /\ Head(js).kind = "album" => Head(js).name \in NameSet
         /\ Head(js).cmds \in Seq(JobCmds)
         /\ \A n \in DOMAIN Head(js).cmds : Head(js).cmds[n].op \in Commands(Head(js).kind)
         /\ Tail(js) \in Seq(JobItems) /\ \A n \in DOMAIN Tail(js) : Tail(js)[n].kind = Head(js).kind
         /\ Tail(js) # <<>> => Head(js).kind \in {"album", "import"}
<1>1. js \in Seq(JobItems) /\ js # <<>>
  BY DEF Selection
<1>2. Len(js) \in Nat \ {0}
  BY <1>1, EmptySeq
<1>3. /\ Head(js) = js[1] /\ js[1] \in JobItems /\ DOMAIN js = 1..Len(js)
      /\ Tail(js) \in Seq(JobItems) /\ Len(Tail(js)) = Len(js) - 1
      /\ \A n \in 1..(Len(js) - 1) : Tail(js)[n] = js[n + 1]
  BY <1>1, <1>2
<1>4. /\ js[1].kind \in Kinds /\ js[1].cmds \in Seq(JobCmds)
      /\ js[1].kind = "album" => js[1].name \in NameSet
      /\ \A n \in DOMAIN js[1].cmds : js[1].cmds[n].op \in Commands(js[1].kind)
  BY <1>3, JobsAssumption DEF Kinds
<1>5. \A n \in DOMAIN Tail(js) : Tail(js)[n].kind = js[1].kind
  <2> TAKE n \in DOMAIN Tail(js)
  <2>1. n \in 1..(Len(js) - 1) /\ n + 1 \in DOMAIN js
    BY <1>2, <1>3
  <2> QED
    BY <1>3, <2>1 DEF Selection
<1>6. Tail(js) # <<>> => js[1].kind \in {"album", "import"}
  <2>1. Tail(js) # <<>> => Len(js) # 1
    <3>1. Len(js) = 1 => Len(Tail(js)) = 0
      BY <1>3
    <3> QED
      BY <1>3, <3>1, EmptySeq
  <2> QED
    BY <1>4, <2>1 DEF Selection, Kinds
<1> QED
  BY <1>3, <1>4, <1>5, <1>6

LEMMA JobsAreSelections ==
  ASSUME NEW js \in Jobs
  PROVE  Selection(js)
BY JobsAssumption DEF Selection

LEMMA RestIsSelection ==
  ASSUME TypeInv, gui = "next"
  PROVE  Selection(job.rest) /\ Head(job.rest).kind = job.kind /\ job.kind \in {"album", "import"}
<1>1. /\ job.rest \in Seq(JobItems) /\ job.rest # <<>> /\ job.kind \in {"album", "import"}
      /\ \A n \in DOMAIN job.rest : job.rest[n].kind = job.kind
  BY DEF TypeInv, JobOK, QuietOK
<1>2. Len(job.rest) \in Nat \ {0} /\ 1 \in DOMAIN job.rest /\ Head(job.rest) = job.rest[1]
  BY <1>1, EmptySeq
<1> QED
  BY <1>1, <1>2 DEF Selection

LEMMA BeginFacts ==
  ASSUME TypeInv, NEW js, Selection(js), NEW home, Begin(js, home)
  PROVE  /\ gui' = "dialog" /\ pressed' = FALSE
         /\ job'.kind = Head(js).kind /\ job'.kind \in Kinds /\ job'.base = top
         /\ DOMAIN queue' = 1..(Len(Head(js).cmds) + 1) /\ Len(queue') = Len(Head(js).cmds) + 1
         /\ Len(Head(js).cmds) \in Nat
         /\ queue'[Len(queue')] = [op |-> "finish", id |-> home]
         /\ \A n \in 1..Len(Head(js).cmds) : /\ queue'[n] = Head(js).cmds[n] /\ queue'[n] \in JobCmds
                                             /\ queue'[n].op \in Commands(job'.kind)
<1>1. /\ Head(js).cmds \in Seq(JobCmds) /\ Head(js).kind \in Kinds
      /\ \A n \in DOMAIN Head(js).cmds : Head(js).cmds[n].op \in Commands(Head(js).kind)
  BY SelectionFacts
<1> DEFINE cmds == Head(js).cmds
           last == [op |-> "finish", id |-> home]
<1>2. /\ job' = [kind |-> Head(js).kind, cmds |-> cmds, rest |-> Tail(js), base |-> top]
      /\ gui' = "dialog" /\ pressed' = FALSE /\ queue' = Append(cmds, last)
  BY DEF Begin
<1>3. job'.kind = Head(js).kind /\ job'.base = top
  BY <1>2
<1> HIDE DEF last
<1>4. cmds \in Seq(JobCmds)
  BY <1>1
<1> HIDE DEF cmds
<1>5. /\ Len(cmds) \in Nat /\ DOMAIN cmds = 1..Len(cmds) /\ \A n \in 1..Len(cmds) : cmds[n] \in JobCmds
      /\ Len(queue') = Len(cmds) + 1 /\ queue'[Len(cmds) + 1] = last
      /\ DOMAIN queue' = 1..(Len(cmds) + 1)
      /\ \A n \in 1..Len(cmds) : queue'[n] = cmds[n]
  BY <1>2, <1>4
<1> QED
  BY <1>1, <1>2, <1>3, <1>5 DEF cmds, last

(* A job begins.                                                           *)
LEMMA BeginKeeps ==
  ASSUME TypeInv, gui \in {"idle", "next"}, NEW js, Selection(js), NEW home \in 0..top', Begin(js, home),
         DevOK', ModelOK', top' >= top, turns' \in 0..MaxTurns, answer' \in {"none", "yes", "no"},
         history' \in Seq(Nat), \A n \in DOMAIN history' : history'[n] \in 0..top',
         attached' \in BOOLEAN, UNCHANGED <<work, maps, flags, faults>>
  PROVE  TypeInv'
<1>1. /\ gui' = "dialog" /\ pressed' = FALSE /\ job'.kind \in Kinds /\ Len(Head(js).cmds) \in Nat
      /\ DOMAIN queue' = 1..(Len(Head(js).cmds) + 1) /\ Len(queue') = Len(Head(js).cmds) + 1
      /\ queue'[Len(queue')] = [op |-> "finish", id |-> home]
      /\ \A n \in 1..Len(Head(js).cmds) : queue'[n] \in JobCmds /\ queue'[n].op \in Commands(job'.kind)
  BY BeginFacts
<1>2. top \in Nat /\ top' \in Nat
  BY DEF TypeInv, DevOK
<1>3. WindowOK' /\ FlagsOK'
  BY <1>1 DEF TypeInv, WindowOK, FlagsOK, flags
<1>4. JobOK'
  <2>1. job' = [kind |-> Head(js).kind, cmds |-> Head(js).cmds, rest |-> Tail(js), base |-> top]
    BY DEF Begin
  <2>2. /\ Head(js).kind \in Kinds /\ Head(js).cmds \in Seq(JobCmds) /\ Tail(js) \in Seq(JobItems)
        /\ \A n \in DOMAIN Tail(js) : Tail(js)[n].kind = Head(js).kind
        /\ Tail(js) # <<>> => Head(js).kind \in {"album", "import"}
    BY SelectionFacts
  <2> QED
    BY <1>2, <2>1, <2>2 DEF JobOK
<1>5. QueueOK'
  <2> DEFINE m == Len(Head(js).cmds)
             S == JobCmds \cup Ends
  <2>1. [op |-> "finish", id |-> home] \in Ends /\ [op |-> "finish", id |-> home].id <= top'
    BY <1>2 DEF Ends
  <2>2. \A n \in 1..(m + 1) : queue'[n] \in S
    BY <1>1, <2>1
  <2>3. queue' = Append(Head(js).cmds, [op |-> "finish", id |-> home])
    BY DEF Begin
  <2>4. Head(js).cmds \in Seq(S) /\ [op |-> "finish", id |-> home] \in S
    <3>1. Head(js).cmds \in Seq(JobCmds)
      BY SelectionFacts
    <3>2. JobCmds \subseteq S
      OBVIOUS
    <3> QED
      BY <2>1, <3>1, <3>2, SeqMonotonic
  <2> HIDE DEF S
  <2>5. queue' \in Seq(S)
    BY <2>3, <2>4, AppendProperties
  <2>6. \A n \in DOMAIN queue' :
          IF n = Len(queue') THEN queue'[n] \in Ends /\ queue'[n].id <= top'
          ELSE queue'[n] \in JobCmds /\ queue'[n].op \in Commands(job'.kind)
    BY <1>1, <2>1
  <2> QED
    BY <2>5, <2>6 DEF QueueOK, S
<1>6. work = Idle /\ work' = Idle /\ ~done' /\ dirs' = dirs
  BY DEF TypeInv, QuietOK, Busy, flags, maps
<1>7. WorkOK' /\ work'.at = "idle" /\ TargetOK' /\ MapsOK'
  <2>1. WorkOK' /\ work'.at = "idle"
    BY <1>6, IdleOK
  <2>2. MapsOK'
    BY <1>2, <1>6, MapsKept DEF TypeInv
  <2> QED
    BY <2>1, <2>2 DEF TargetOK
<1>8. QuietOK'
  <2>1. queue' # <<>>
    <3>1. Len(queue') # 0 /\ Len(<<>>) = 0
      BY <1>1
    <3> QED
      BY <3>1
  <2> QED
    BY <1>1, <1>6, <1>7, <2>1 DEF QuietOK, Busy, Kinds, OfFinish
<1> QED
  BY <1>3, <1>4, <1>5, <1>7, <1>8 DEF TypeInv

LEMMA StartUploadType ==
  ASSUME TypeInv, NEW js \in Jobs, StartUpload(js)
  PROVE  TypeInv'
<1>1. /\ gui = "idle" /\ turns < MaxTurns /\ turns' = turns + 1 /\ Begin(js, model.parent)
      /\ attached' = FALSE /\ answer' = "none"
      /\ UNCHANGED <<device, history, model, work, maps, flags, library, events, faults>>
  BY DEF StartUpload, Turn, Upload
<1>2. DevOK' /\ ModelOK' /\ top' >= top /\ top' = top
  BY <1>1, DeviceKept
<1>3. model.parent \in 0..top' /\ turns' \in 0..MaxTurns
  BY <1>1, <1>2, BoundsAssumption DEF TypeInv, ModelOK, WindowOK
<1>4. history' \in Seq(Nat) /\ \A n \in DOMAIN history' : history'[n] \in 0..top'
  BY <1>1, <1>2 DEF TypeInv, WindowOK
<1> QED
  BY <1>1, <1>2, <1>3, <1>4, BeginKeeps, JobsAreSelections

LEMMA StartDownloadType ==
  ASSUME TypeInv, NEW js \in Jobs, StartDownload(js)
  PROVE  TypeInv'
<1>1. /\ gui = "idle" /\ turns < MaxTurns /\ turns' = turns + 1 /\ Begin(js, model.parent)
      /\ UNCHANGED <<device, attached, history, answer, model, work, maps, flags, library, events, faults>>
  BY DEF StartDownload, Turn
<1>2. DevOK' /\ ModelOK' /\ top' >= top /\ top' = top
  BY <1>1, DeviceKept
<1>3. model.parent \in 0..top' /\ turns' \in 0..MaxTurns
  BY <1>1, <1>2, BoundsAssumption DEF TypeInv, ModelOK, WindowOK
<1>4. /\ history' \in Seq(Nat) /\ \A n \in DOMAIN history' : history'[n] \in 0..top'
      /\ attached' \in BOOLEAN /\ answer' \in {"none", "yes", "no"}
  BY <1>1, <1>2 DEF TypeInv, WindowOK, FlagsOK
<1> QED
  BY <1>1, <1>2, <1>3, <1>4, BeginKeeps, JobsAreSelections

LEMMA ImportMusicType ==
  ASSUME TypeInv, gui \in {"idle", "next"}, turns' \in 0..MaxTurns, NEW js, Selection(js), ImportMusic(js)
  PROVE  TypeInv'
<1>1. /\ Begin(js, Root)
      /\ UNCHANGED <<device, attached, history, answer, model, work, maps, flags, library, faults>>
  BY DEF ImportMusic
<1>2. DevOK' /\ ModelOK' /\ top' >= top /\ top' = top
  BY <1>1, DeviceKept
<1>3. Root \in 0..top'
  BY <1>2 DEF DevOK, Root
<1>4. /\ history' \in Seq(Nat) /\ \A n \in DOMAIN history' : history'[n] \in 0..top'
      /\ attached' \in BOOLEAN /\ answer' \in {"none", "yes", "no"}
  BY <1>1, <1>2 DEF TypeInv, WindowOK, FlagsOK
<1> QED
  BY <1>1, <1>2, <1>3, <1>4, BeginKeeps

(* uploadAlbum: the folder of the album, and what is stored in it.         *)
AlbumRow(js) == Found(Head(js).name, 0)
AlbumFolder(js) == IF AlbumRow(js) = 0 THEN top + 1 ELSE model.rows[AlbumRow(js)].id
AlbumMade(js) == IF AlbumRow(js) = 0 THEN Created(model.parent, Head(js).name, TRUE) ELSE obj
AlbumTop(js) == IF AlbumRow(js) = 0 THEN top + 1 ELSE top
AlbumAsks(js) == \E i \in DOMAIN AlbumMade(js) :
                     AlbumMade(js)[i].parent = AlbumFolder(js) /\ AlbumMade(js)[i].name = Cover
CoverIn(p) == [name |-> Cover, parent |-> p, dir |-> FALSE]
FolderIn(p, n) == [name |-> n, parent |-> p, dir |-> TRUE]

LEMMA AlbumParts ==
  ASSUME TypeInv, NEW js, UploadAlbum(js)
  PROVE  /\ history' = Append(history, AlbumFolder(js))
         /\ \/ /\ ~AlbumAsks(js)
               /\ obj' = Put(AlbumMade(js), AlbumTop(js) + 1, CoverIn(AlbumFolder(js)))
               /\ top' = AlbumTop(js) + 1
            \/ obj' = AlbumMade(js) /\ top' = AlbumTop(js)
         /\ model' = [parent |-> AlbumFolder(js),
                      rows |-> RowsOf({i \in DOMAIN obj' : obj'[i].parent = AlbumFolder(js)})]
         /\ \/ /\ gui' = "stuck"
               /\ UNCHANGED <<job, queue, attached, answer, sent, refused, pressed>>
            \/ Upload(js, AlbumFolder(js))
         /\ UNCHANGED <<work, maps, flags, library, events, faults>>
<1> DEFINE k == AlbumRow(js)
           folder == AlbumFolder(js)
           made == AlbumMade(js)
           id == IF k = 0 THEN top + 2 ELSE top + 1
<1>1. top \in Nat
  BY DEF TypeInv, DevOK
<1>2. id = AlbumTop(js) + 1 /\ id - 1 = AlbumTop(js)
  BY <1>1 DEF AlbumTop
<1>3. /\ history' = Append(history, folder)
      /\ IF Head(js).cover /\ ~AlbumAsks(js)
         THEN /\ obj' = Put(made, id, [name |-> Cover, parent |-> folder, dir |-> FALSE])
              /\ top' = id
         ELSE obj' = made /\ top' = id - 1
      /\ model' = [parent |-> folder,
                   rows |-> RowsOf({i \in DOMAIN obj' : obj'[i].parent = folder})]
      /\ IF AlbumAsks(js)
         THEN gui' = "stuck" /\ UNCHANGED <<job, queue, attached, answer, sent, refused, pressed>>
         ELSE Upload(js, folder)
      /\ UNCHANGED <<work, maps, flags, library, events, faults>>
  BY DEF UploadAlbum, AlbumRow, AlbumFolder, AlbumMade, AlbumAsks
<1> HIDE DEF k, folder, made, id
<1>4. \/ /\ ~AlbumAsks(js) /\ obj' = Put(made, id, CoverIn(folder)) /\ top' = id
      \/ obj' = made /\ top' = id - 1
  BY <1>3 DEF CoverIn
<1>5. \/ gui' = "stuck" /\ UNCHANGED <<job, queue, attached, answer, sent, refused, pressed>>
      \/ Upload(js, folder)
  BY <1>3
<1> QED
  BY <1>2, <1>3, <1>4, <1>5 DEF folder, made

LEMMA AlbumFacts ==
  ASSUME TypeInv, NEW js, Selection(js), Head(js).kind = "album", UploadAlbum(js)
  PROVE  /\ Head(js).name \in NameSet
         /\ AlbumFolder(js) \in 0..top' /\ top' \in Nat /\ top' >= top
         /\ AlbumRow(js) # 0 => /\ AlbumRow(js) \in DOMAIN model.rows
                                /\ AlbumFolder(js) = model.rows[AlbumRow(js)].id
         /\ DOMAIN obj \subseteq DOMAIN obj' /\ \A i \in DOMAIN obj : obj'[i] = obj[i]
         /\ \A i \in DOMAIN obj' \ DOMAIN obj :
              /\ i > top /\ i <= top'
              /\ \/ /\ AlbumRow(js) = 0 /\ i = AlbumFolder(js)
                    /\ obj'[i] = FolderIn(model.parent, Head(js).name)
                 \/ /\ i > AlbumFolder(js) /\ obj'[i] = CoverIn(AlbumFolder(js))
                    /\ i = AlbumTop(js) + 1 /\ ~AlbumAsks(js)
         /\ DevOK' /\ ModelOK'
<1> DEFINE folder == AlbumFolder(js)
           made == AlbumMade(js)
           m == AlbumTop(js)
<1>1. DevOK /\ ModelOK /\ top \in Nat /\ DOMAIN obj \subseteq 1..top
  BY DEF TypeInv, DevOK
<1>2. Head(js).name \in NameSet
  BY SelectionFacts
<1>3. AlbumRow(js) # 0 => AlbumRow(js) \in DOMAIN model.rows /\ folder = model.rows[AlbumRow(js)].id
  BY <1>1, FoundFacts DEF AlbumRow, AlbumFolder
<1>4. m \in Nat /\ m >= top /\ m <= top + 1 /\ folder \in 0..m
  <2>1. CASE AlbumRow(js) = 0
    BY <1>1, <2>1 DEF AlbumTop, AlbumFolder
  <2>2. CASE AlbumRow(js) # 0
    <3>1. model.rows \in Seq(RowSet) /\ \A k \in DOMAIN model.rows : model.rows[k].id <= top
      BY <1>1 DEF ModelOK
    <3>2. folder \in Nat /\ folder <= top /\ m = top
      BY <1>3, <2>2, <3>1, RowFacts DEF AlbumTop
    <3> QED
      BY <1>1, <3>2
  <2> QED
    BY <2>1, <2>2
<1>5. /\ DOMAIN obj \subseteq DOMAIN made /\ DOMAIN made \subseteq 1..m
      /\ \A i \in DOMAIN obj : made[i] = obj[i]
      /\ \A i \in DOMAIN made \ DOMAIN obj : /\ AlbumRow(js) = 0 /\ i = folder /\ i > top
                                             /\ made[i] = FolderIn(model.parent, Head(js).name)
  <2>1. CASE AlbumRow(js) = 0
    <3> DEFINE rec == [name |-> Head(js).name, parent |-> model.parent, dir |-> TRUE]
               x == top + 1
    <3>1. made = Put(obj, x, rec) /\ m = x /\ folder = x
      BY <2>1 DEF AlbumMade, AlbumTop, AlbumFolder, Created
    <3>2. rec = FolderIn(model.parent, Head(js).name)
      BY DEF FolderIn
    <3>3. x \in Nat /\ x > top /\ x \notin DOMAIN obj /\ 1..x = 1..top \cup {x}
      BY <1>1
    <3> HIDE DEF rec, x
    <3>4. DOMAIN made = DOMAIN obj \cup {x} /\ made[x] = rec /\ \A i \in DOMAIN obj : i # x => made[i] = obj[i]
      BY <3>1 DEF Put
    <3>5. DOMAIN made \subseteq 1..m
      BY <1>1, <3>1, <3>3, <3>4
    <3> QED
      BY <2>1, <3>1, <3>2, <3>3, <3>4, <3>5
  <2>2. CASE AlbumRow(js) # 0
    BY <1>1, <2>2 DEF AlbumMade, AlbumTop
  <2> QED
    BY <2>1, <2>2
<1>6. \/ ~AlbumAsks(js) /\ obj' = Put(made, m + 1, CoverIn(folder)) /\ top' = m + 1
      \/ obj' = made /\ top' = m
  BY AlbumParts
<1>7. model' = [parent |-> folder, rows |-> RowsOf({i \in DOMAIN obj' : obj'[i].parent = folder})]
  BY AlbumParts
<1> HIDE DEF folder, made, m
<1>8. top' \in Nat /\ top' >= m /\ top' >= top /\ folder \in 0..top'
  BY <1>1, <1>4, <1>6
<1>9. /\ DOMAIN made \subseteq DOMAIN obj' /\ DOMAIN obj' \subseteq 1..top'
      /\ \A i \in DOMAIN made : obj'[i] = made[i]
      /\ \A i \in DOMAIN obj' \ DOMAIN made : /\ i > folder /\ i > top /\ obj'[i] = CoverIn(folder)
                                              /\ i = m + 1 /\ ~AlbumAsks(js)
  <2>1. CASE obj' = made /\ top' = m
    BY <1>5, <2>1
  <2>2. CASE ~AlbumAsks(js) /\ obj' = Put(made, m + 1, CoverIn(folder)) /\ top' = m + 1
    <3> DEFINE x == m + 1
               rec == CoverIn(folder)
    <3>1. x \in Nat /\ x > folder /\ x > top /\ x \notin DOMAIN made /\ 1..x = 1..m \cup {x}
      BY <1>1, <1>4, <1>5
    <3>2. obj' = Put(made, x, rec) /\ top' = x
      BY <2>2
    <3> HIDE DEF x, rec
    <3>3. DOMAIN obj' = DOMAIN made \cup {x} /\ obj'[x] = rec /\ \A i \in DOMAIN made : i # x => obj'[i] = made[i]
      BY <3>2 DEF Put
    <3> QED
      BY <1>5, <2>2, <3>1, <3>2, <3>3 DEF rec, x
  <2> QED
    BY <1>6, <2>1, <2>2
<1>10. DOMAIN obj \subseteq DOMAIN obj' /\ \A i \in DOMAIN obj : obj'[i] = obj[i]
  BY <1>5, <1>9
<1>11. \A i \in DOMAIN obj' \ DOMAIN obj :
              /\ i > top /\ i <= top'
              /\ \/ /\ AlbumRow(js) = 0 /\ i = folder
                    /\ obj'[i] = FolderIn(model.parent, Head(js).name)
                 \/ /\ i > folder /\ obj'[i] = CoverIn(folder) /\ i = m + 1 /\ ~AlbumAsks(js)
  <2> TAKE i \in DOMAIN obj' \ DOMAIN obj
  <2>1. i <= top'
    BY <1>8, <1>9
  <2>2. CASE i \in DOMAIN made
    BY <1>5, <1>9, <2>1, <2>2
  <2>3. CASE i \notin DOMAIN made
    BY <1>9, <2>1, <2>3
  <2> QED
    BY <2>2, <2>3
<1>12. DevOK'
  <2>1. \A i \in DOMAIN obj' : obj'[i] \in [name : NameSet, parent : Nat, dir : BOOLEAN] /\ obj'[i].parent < i
    <3> TAKE i \in DOMAIN obj'
    <3>1. CASE i \in DOMAIN obj
      BY <1>1, <1>10, <3>1 DEF DevOK
    <3>2. CASE i \notin DOMAIN obj
      <4>1. model.parent \in Nat /\ model.parent <= top /\ Cover \in NameSet /\ folder \in Nat
            /\ TRUE \in BOOLEAN /\ FALSE \in BOOLEAN
        BY <1>1, <1>4, NamesAssumption DEF ModelOK
      <4>2. /\ FolderIn(model.parent, Head(js).name) \in [name : NameSet, parent : Nat, dir : BOOLEAN]
            /\ FolderIn(model.parent, Head(js).name).parent = model.parent
            /\ CoverIn(folder) \in [name : NameSet, parent : Nat, dir : BOOLEAN]
            /\ CoverIn(folder).parent = folder
        BY <1>2, <4>1 DEF FolderIn, CoverIn
      <4>3. i \in Nat
        BY <1>9
      <4> QED
        BY <1>1, <1>11, <3>2, <4>1, <4>2, <4>3
    <3> QED
      BY <3>1, <3>2
  <2> QED
    BY <1>8, <1>9, <2>1 DEF DevOK
<1>13. ModelOK'
  <2> DEFINE S == {i \in DOMAIN obj' : obj'[i].parent = folder}
  <2>1. S \in SUBSET (1..top')
    BY <1>9
  <2>2. model' = [parent |-> folder, rows |-> RowsOf(S)]
    BY <1>7
  <2> HIDE DEF S
  <2>3. RowsOf(S) \in Seq(RowSet) /\ \A n \in DOMAIN RowsOf(S) : RowsOf(S)[n].id \in S
    BY <1>8, <2>1, RowsOfFacts
  <2>4. \A n \in DOMAIN RowsOf(S) : RowsOf(S)[n].id <= top'
    BY <1>8, <2>1, <2>3
  <2>5. folder \in Nat /\ folder <= top'
    BY <1>8
  <2> QED
    BY <2>2, <2>3, <2>4, <2>5 DEF ModelOK
<1> QED
  BY <1>2, <1>3, <1>8, <1>10, <1>11, <1>12, <1>13 DEF folder, m

LEMMA UploadAlbumType ==
  ASSUME TypeInv, gui \in {"idle", "next"}, turns' \in 0..MaxTurns, NEW js, Selection(js),
         Head(js).kind = "album", UploadAlbum(js)
  PROVE  TypeInv'
<1>1. /\ AlbumFolder(js) \in 0..top' /\ top' \in Nat /\ top' >= top /\ DevOK' /\ ModelOK'
  BY AlbumFacts
<1>2. history' \in Seq(Nat) /\ \A n \in DOMAIN history' : history'[n] \in 0..top'
  <2> DEFINE f == AlbumFolder(js)
  <2>1. history \in Seq(Nat) /\ \A n \in DOMAIN history : history[n] \in 0..top
    BY DEF TypeInv, WindowOK
  <2>2. history' = Append(history, f)
    BY AlbumParts
  <2>3. f \in Nat /\ f \in 0..top' /\ top \in Nat /\ top' \in Nat /\ top' >= top
    BY <1>1 DEF TypeInv, DevOK
  <2> HIDE DEF f
  <2>4. history' \in Seq(Nat) /\ \A n \in DOMAIN history' : history'[n] = f \/ (n \in DOMAIN history /\ history'[n] = history[n])
    BY <2>1, <2>2, <2>3
  <2>5. \A n \in DOMAIN history : history[n] \in 0..top'
    BY <2>1, <2>3
  <2> QED
    BY <2>3, <2>4, <2>5
<1>3. UNCHANGED <<work, maps, flags, library, events, faults>>
  BY AlbumParts
<1>4. CASE Upload(js, AlbumFolder(js))
  <2>1. Begin(js, AlbumFolder(js)) /\ attached' = FALSE /\ answer' = "none"
    BY <1>4 DEF Upload
  <2>2. attached' \in BOOLEAN /\ answer' \in {"none", "yes", "no"}
    BY <2>1
  <2> QED
    BY <1>1, <1>2, <1>3, <2>1, <2>2, BeginKeeps
<1>5. CASE gui' = "stuck" /\ UNCHANGED <<job, queue, attached, answer, sent, refused, pressed>>
  <2>1. WindowOK'
    BY <1>2, <1>5 DEF TypeInv, WindowOK
  <2>2. FlagsOK'
    BY <1>3, <1>5 DEF TypeInv, FlagsOK, flags
  <2>3. QueueOK' /\ WorkOK' /\ MapsOK' /\ TargetOK' /\ JobOK'
    BY <1>1, <1>3, <1>5, RestKeeps DEF maps
  <2>4. QuietOK'
    <3>1. queue' = <<>> /\ work' = Idle /\ work'.at = "idle" /\ dirs' = <<>> /\ ~done'
      BY <1>3, <1>5, IdleOK DEF TypeInv, QuietOK, Busy, maps, flags
    <3> QED
      BY <1>5, <3>1 DEF QuietOK, Busy
  <2> QED
    BY <1>1, <2>1, <2>2, <2>3, <2>4 DEF TypeInv
<1> QED
  BY <1>4, <1>5, AlbumParts

LEMMA StartAlbumType ==
  ASSUME TypeInv, NEW js \in Jobs, StartAlbum(js)
  PROVE  TypeInv'
<1>1. gui = "idle" /\ turns < MaxTurns /\ turns' = turns + 1 /\ Head(js).kind = "album" /\ UploadAlbum(js)
  BY DEF StartAlbum, Turn
<1>2. turns' \in 0..MaxTurns
  BY <1>1, BoundsAssumption DEF TypeInv, WindowOK
<1> QED
  BY <1>1, <1>2, UploadAlbumType, JobsAreSelections

LEMMA StartImportType ==
  ASSUME TypeInv, NEW js \in Jobs, StartImport(js)
  PROVE  TypeInv'
<1>1. gui = "idle" /\ turns < MaxTurns /\ turns' = turns + 1 /\ ImportMusic(js)
  BY DEF StartImport, Turn
<1>2. turns' \in 0..MaxTurns
  BY <1>1, BoundsAssumption DEF TypeInv, WindowOK
<1> QED
  BY <1>1, <1>2, ImportMusicType, JobsAreSelections

LEMMA NextSelectedType ==
  ASSUME TypeInv, NextSelected
  PROVE  TypeInv'
<1>1. /\ gui = "next" /\ turns' = turns
      /\ IF Head(job.rest).kind = "album" THEN UploadAlbum(job.rest) ELSE ImportMusic(job.rest)
  BY DEF NextSelected
<1>2. turns' \in 0..MaxTurns
  BY <1>1 DEF TypeInv, WindowOK
<1>3. Selection(job.rest)
  BY <1>1, RestIsSelection
<1> DEFINE js == job.rest
<1>4. Selection(js) /\ IF Head(js).kind = "album" THEN UploadAlbum(js) ELSE ImportMusic(js)
  BY <1>1, <1>3
<1> HIDE DEF js
<1>5. CASE Head(js).kind = "album"
  BY <1>1, <1>2, <1>4, <1>5, UploadAlbumType
<1>6. CASE Head(js).kind # "album"
  BY <1>1, <1>2, <1>4, <1>6, ImportMusicType
<1> QED
  BY <1>5, <1>6

(* The job of an album has put its folder behind the history.              *)
AlbumOK == Busy /\ job.kind = "album" => history # <<>>

LEMMA DialogClosesType ==
  ASSUME TypeInv, AlbumOK, DialogCloses
  PROVE  TypeInv'
<1> DEFINE p == IF Len(history) = 1 THEN Root ELSE history[Len(history) - 1]
<1>1. /\ gui = "dialog" /\ done /\ done' = FALSE /\ gui' = IF job.rest = <<>> THEN "idle" ELSE "next"
      /\ attached' = TRUE
      /\ history' = IF job.kind = "album" THEN Front(history) ELSE history
      /\ CASE job.kind = "upload" -> SetParent(model.parent)
           [] job.kind = "album" -> SetParent(p)
           [] OTHER -> UNCHANGED <<model, cancelled, faults>>
      /\ UNCHANGED <<device, job, turns, answer, worker, aborted, library, past>>
  BY DEF DialogCloses
<1>2. DevOK' /\ top' >= top /\ top' = top /\ top \in Nat /\ DevOK /\ ModelOK
      /\ (model' = model => ModelOK')
  BY <1>1, DeviceKept DEF TypeInv, DevOK
<1>3. job.kind = "album" => history # <<>>
  BY <1>1 DEF AlbumOK, Busy
<1>4. job.kind = "album" => p \in 0..top
  BY <1>3, HistoryFacts
<1> HIDE DEF p
<1>5. ModelOK' /\ (Succeeds \/ Fails \/ UNCHANGED <<cancelled, faults>>)
  <2>1. CASE job.kind = "upload"
    <3>1. SetParent(model.parent) /\ model.parent \in 0..top
      BY <1>1, <1>2, <2>1 DEF ModelOK
    <3> QED
      BY <1>2, <3>1, SetParentOK, SetParentFacts
  <2>2. CASE job.kind = "album"
    <3>1. SetParent(p) /\ p \in 0..top
      BY <1>1, <1>4, <2>2
    <3> QED
      BY <1>2, <3>1, SetParentOK, SetParentFacts
  <2>3. CASE job.kind \notin {"upload", "album"}
    BY <1>1, <1>2, <2>3
  <2> QED
    BY <2>1, <2>2, <2>3
<1>6. WindowOK'
  <2>1. history' \in Seq(Nat) /\ \A n \in DOMAIN history' : n \in DOMAIN history /\ history'[n] = history[n]
    <3>1. CASE job.kind = "album"
      BY <1>1, <1>3, <3>1, HistoryFacts
    <3>2. CASE job.kind # "album"
      BY <1>1, <3>2 DEF TypeInv, WindowOK
    <3> QED
      BY <3>1, <3>2
  <2>2. gui' \in {"idle", "next"}
    BY <1>1
  <2> QED
    BY <1>1, <1>2, <2>1, <2>2 DEF TypeInv, WindowOK
<1>7. FlagsOK'
  BY <1>1, <1>5, FlagsKept DEF TypeInv, FlagsOK, past
<1>8. QueueOK' /\ WorkOK' /\ MapsOK' /\ TargetOK' /\ JobOK'
  BY <1>1, <1>2, RestKeeps DEF worker, maps
<1>9. QuietOK'
  <2>1. queue = <<>> /\ work = Idle /\ dirs = <<>>
    BY <1>1 DEF TypeInv, QuietOK
  <2>2. queue' = <<>> /\ work' = Idle /\ dirs' = <<>> /\ work'.at = "idle"
    BY <1>1, <2>1, IdleOK DEF worker, maps
  <2>3. gui' \in {"idle", "next"} /\ (gui' = "next" => job'.rest # <<>>) /\ ~done'
    BY <1>1
  <2> QED
    BY <2>2, <2>3 DEF QuietOK, Busy
<1> QED
  BY <1>2, <1>5, <1>6, <1>7, <1>8, <1>9 DEF TypeInv

LEMMA AnswerType ==
  ASSUME TypeInv, NEW yes \in BOOLEAN, NEW forAll \in BOOLEAN, Answer(yes, forAll)
  PROVE  TypeInv'
<1>1. /\ gui = "ask" /\ gui' = "dialog"
      /\ answer' = IF forAll THEN (IF yes THEN "yes" ELSE "no") ELSE answer
      /\ \/ work' = [work EXCEPT !.at = "delete"]
         \/ work' = Idle
      /\ UNCHANGED <<device, job, turns, attached, history, model, queue, maps, flags, pressed, faults>>
  BY DEF Answer
<1>2. DevOK' /\ ModelOK' /\ top' >= top /\ top' = top /\ top \in Nat
  BY <1>1, DeviceKept DEF TypeInv, DevOK
<1>3. work.at = "ask" /\ work.at # "idle" /\ WorkOK /\ WorkOK /\ work.at \notin OfFinish /\ work.cmd.op = "send"
  BY <1>1, WorkFacts DEF TypeInv, QuietOK, WorkOK, OfSend, OfFinish, Idle
<1>4. WindowOK' /\ FlagsOK'
  <2>1. answer' \in {"none", "yes", "no"}
    BY <1>1 DEF TypeInv, WindowOK
  <2> QED
    BY <1>1, <1>2, <2>1 DEF TypeInv, WindowOK, FlagsOK, flags
<1>5. JobOK' /\ QueueOK' /\ MapsOK'
  BY <1>1, <1>2 DEF TypeInv, JobOK, QueueOK, MapsOK, maps
<1>6. /\ WorkOK'
      /\ \/ work'.at = "idle"
         \/ work'.at = "delete" /\ work'.cmd = work.cmd
  <2>1. CASE work' = Idle
    BY <2>1, IdleOK
  <2>2. CASE work' = [work EXCEPT !.at = "delete"]
    <3>1. GoOn("delete")
      BY <2>2 DEF GoOn
    <3>2. MovedTo("delete")
      BY <1>2, <1>3, <3>1, GoesOn
    <3>3. StageFor("delete")
      BY <1>3, StageSteps DEF OfSend
    <3> QED
      BY <1>1, <1>2, <1>3, <3>2, <3>3, WorkOnOK DEF MovedTo
  <2> QED
    BY <1>1, <2>1, <2>2
<1>7. TargetOK'
  <2>1. Front(work.cmd.path) \in DOMAIN dirs
    BY <1>3 DEF TypeInv, TargetOK
  <2> QED
    BY <1>1, <1>6, <2>1 DEF TargetOK, maps
<1>8. QuietOK'
  <2>1. Busy /\ ~done /\ queue # <<>> /\ job.kind # "none"
    <3>1. Busy /\ work # Idle
      BY <1>1, <1>3 DEF Busy, Idle
    <3> QED
      BY <1>3, <3>1 DEF TypeInv, QuietOK
  <2>2. work'.at \notin OfFinish /\ work'.at # "ask"
    BY <1>6 DEF OfFinish
  <2> QED
    BY <1>1, <2>1, <2>2 DEF QuietOK, Busy, flags
<1> QED
  BY <1>2, <1>4, <1>5, <1>6, <1>7, <1>8 DEF TypeInv

LEMMA RepaintFacts ==
  ASSUME TypeInv, NEW k \in DOMAIN model.rows,
         model' = [model EXCEPT !.rows[k].name = InfoOf(model.rows[k].id)]
  PROVE  /\ model' \in [parent : Nat, rows : Seq(RowSet)] /\ model'.parent = model.parent
         /\ DOMAIN model'.rows = DOMAIN model.rows
         /\ model'.rows[k].id = model.rows[k].id /\ model'.rows[k].name = InfoOf(model.rows[k].id)
         /\ \A l \in DOMAIN model.rows : l # k => model'.rows[l] = model.rows[l]
<1> DEFINE n == InfoOf(model.rows[k].id)
<1>1. DevOK /\ model \in [parent : Nat, rows : Seq(RowSet)] /\ model.rows \in Seq(RowSet)
  BY DEF TypeInv, ModelOK
<1>2. n \in NameSet \cup {Unknown, Missing}
  BY <1>1, InfoOfFacts
<1>3. model.rows[k] \in RowSet
  BY <1>1, RowFacts
<1> HIDE DEF n
<1> DEFINE r == [model.rows[k] EXCEPT !.name = n]
           R == [model.rows EXCEPT ![k] = r]
<1>4. model' = [model EXCEPT !.rows = R]
  BY DEF n
<1>5. r \in RowSet /\ r.id = model.rows[k].id /\ r.name = n
  BY <1>2, <1>3 DEF RowSet
<1> HIDE DEF r
<1>6. R \in Seq(RowSet) /\ DOMAIN R = DOMAIN model.rows /\ R[k] = r /\ \A l \in DOMAIN model.rows : l # k => R[l] = model.rows[l]
  BY <1>1, <1>5
<1> HIDE DEF R
<1>7. model' \in [parent : Nat, rows : Seq(RowSet)] /\ model'.parent = model.parent /\ model'.rows = R
  BY <1>1, <1>4, <1>6
<1> QED
  BY <1>5, <1>6, <1>7 DEF n

LEMMA RepaintType ==
  ASSUME TypeInv, NEW k, Repaint(k)
  PROVE  TypeInv'
<1>1. /\ gui = "dialog" /\ work.at \in {"idle", "pause"} /\ k \in DOMAIN model.rows
      /\ model' = [model EXCEPT !.rows[k].name = InfoOf(model.rows[k].id)]
      /\ work' = IF work.at = "pause" THEN [work EXCEPT !.between = TRUE] ELSE work
      /\ UNCHANGED <<device, window, queue, maps, flags, library, past, faults>>
  BY DEF Repaint
<1>2. DevOK' /\ top' >= top /\ top' = top /\ top \in Nat
  BY <1>1, DeviceKept DEF TypeInv, DevOK
<1>3. /\ model' \in [parent : Nat, rows : Seq(RowSet)] /\ model'.parent = model.parent
      /\ DOMAIN model'.rows = DOMAIN model.rows
      /\ model'.rows[k].id = model.rows[k].id
      /\ \A l \in DOMAIN model.rows : l # k => model'.rows[l] = model.rows[l]
  BY <1>1, RepaintFacts
<1>4. ModelOK'
  <2>1. model.parent <= top /\ \A l \in DOMAIN model.rows : model.rows[l].id <= top
    BY DEF TypeInv, ModelOK
  <2>2. \A l \in DOMAIN model'.rows : model'.rows[l].id = model.rows[l].id
    BY <1>3
  <2> QED
    BY <1>2, <1>3, <2>1, <2>2 DEF ModelOK
<1>5. WindowOK' /\ FlagsOK' /\ JobOK' /\ QueueOK' /\ MapsOK'
  BY <1>1, <1>2 DEF TypeInv, WindowOK, FlagsOK, JobOK, QueueOK, MapsOK, window, flags, past, maps
<1>6. WorkOK' /\ work'.at = work.at /\ (work.at # "idle" => work'.cmd = work.cmd)
  <2>1. CASE work.at = "pause"
    <3>1. /\ WorkOK /\ work.at # "idle" /\ DOMAIN work = Parts /\ work.id \in 0..top
          /\ work.between \in BOOLEAN /\ work.reset \in BOOLEAN
      BY <2>1, WorkFacts DEF TypeInv
    <3>2. /\ DOMAIN work' = Parts /\ work'.at = "pause" /\ work'.cmd = work.cmd /\ work'.id = work.id
          /\ work'.reset = work.reset /\ work'.between = TRUE
      BY <1>1, <2>1, <3>1 DEF Parts
    <3>3. StageFor("pause")
      BY <2>1, <3>1, StageSteps DEF OfData
    <3>4. work'.between \in BOOLEAN
      BY <3>2
    <3> QED
      BY <1>1, <1>2, <2>1, <3>1, <3>2, <3>3, <3>4, WorkOnOK DEF window
  <2>2. CASE work.at # "pause"
    <3>1. work' = work /\ work = Idle
      BY <1>1, <2>2, WorkFacts DEF TypeInv
    <3>2. work' = Idle
      BY <3>1
    <3> QED
      BY <3>1, <3>2, IdleOK
  <2> QED
    BY <2>1, <2>2
<1>7. TargetOK'
  BY <1>1, <1>6 DEF TypeInv, TargetOK, maps
<1>8. QuietOK'
  <2>1. (work = Idle <=> work.at = "idle") /\ (work' = Idle <=> work'.at = "idle")
    <3>1. WorkOK /\ WorkOK'
      BY <1>6 DEF TypeInv
    <3>2. work' = Idle => work'.at = "idle"
      BY DEF Idle
    <3>3. work'.at = "idle" => work' = Idle
      BY <1>1, <1>6, <3>1, WorkFacts
    <3> QED
      BY <3>1, <3>2, <3>3, WorkFacts
  <2> QED
    BY <1>1, <1>6, <2>1 DEF TypeInv, QuietOK, Busy, window, flags, maps
<1> QED
  BY <1>2, <1>4, <1>5, <1>6, <1>7, <1>8 DEF TypeInv

LEMMA AbortPressedType ==
  ASSUME TypeInv, AbortPressed
  PROVE  TypeInv'
<1>1. /\ gui = "dialog" /\ pressed' = TRUE /\ aborted' = TRUE
      /\ \/ cancelled' = TRUE /\ gui' = gui
         \/ gui' = "crashed" /\ cancelled' = cancelled
      /\ UNCHANGED <<device, job, turns, attached, history, answer, model, worker, done, faults>>
  BY DEF AbortPressed
<1>2. DevOK' /\ ModelOK' /\ top' >= top /\ top' = top /\ top \in Nat
  BY <1>1, DeviceKept DEF TypeInv, DevOK
<1>3. WindowOK' /\ FlagsOK'
  <2>1. WindowOK'
    BY <1>1, <1>2 DEF TypeInv, WindowOK
  <2>2. pressed' \in BOOLEAN /\ aborted' \in BOOLEAN /\ cancelled' \in BOOLEAN
    BY <1>1 DEF TypeInv, FlagsOK
  <2> QED
    BY <1>1, <2>1, <2>2 DEF TypeInv, FlagsOK
<1>4. QueueOK' /\ WorkOK' /\ MapsOK' /\ TargetOK' /\ JobOK'
  BY <1>1, <1>2, RestKeeps DEF worker, maps
<1>5. QuietOK'
  BY <1>1 DEF TypeInv, QuietOK, Busy, worker, maps
<1> QED
  BY <1>2, <1>3, <1>4, <1>5 DEF TypeInv

LEMMA StutterType ==
  ASSUME TypeInv, UNCHANGED vars
  PROVE  TypeInv'
<1>1. UNCHANGED <<device, window, model, worker, flags, past, faults>>
  BY DEF vars
<1>2. DevOK' /\ ModelOK' /\ top' >= top /\ top' = top /\ top \in Nat
  BY <1>1, DeviceKept DEF TypeInv, DevOK
<1>3. WindowOK' /\ FlagsOK'
  BY <1>1, <1>2 DEF TypeInv, WindowOK, FlagsOK, window, flags, past
<1>4. QueueOK' /\ WorkOK' /\ MapsOK' /\ TargetOK' /\ JobOK' /\ QuietOK'
  BY <1>1, <1>2, RestKeeps DEF worker, maps, window, flags
<1> QED
  BY <1>2, <1>3, <1>4 DEF TypeInv

----------------------------------------------------------------------------
(* The type invariant, and who looks at the model                          *)

(* What every step of the worker leaves alone.                             *)
WorkerShape ==
  /\ Alive /\ UNCHANGED <<job, turns, history, answer, attached, pressed>> /\ gui' \in {gui, "ask"}
  /\ \/ work'.at = "idle"
     \/ work.at = "idle" /\ ~work'.between
     \/ /\ work.at # "idle" /\ work'.between = work.between
        /\ work'.cmd = work.cmd \/ (work.at \in OfFinish /\ work'.cmd.op = "finish")

LEMMA TakeCommandShape ==
  ASSUME TypeInv, TakeCommand
  PROVE  WorkerShape
<1>1. Alive /\ work = Idle /\ UNCHANGED <<window, past>>
  BY DEF TakeCommand
<1>2. work.at = "idle"
  BY <1>1 DEF Idle
<1>3. work' = Idle \/ \E s, c : work' = [at |-> s, cmd |-> c, id |-> 0, between |-> FALSE, reset |-> FALSE]
  BY DEF TakeCommand
<1>4. work' = Idle => work'.at = "idle"
  BY DEF Idle
<1>5. work'.at = "idle" \/ ~work'.between
  BY <1>3, <1>4
<1> QED
  BY <1>1, <1>2, <1>5 DEF WorkerShape, window, past

LEMMA GoesOnShape ==
  ASSUME TypeInv, Alive, work.at # "idle", UNCHANGED <<job, turns, history, answer, attached, pressed>>,
         gui' \in {gui, "ask"},
         \/ work' = Idle \/ work' = work
         \/ \E a : GoOn(a)
         \/ /\ DOMAIN work' = Parts /\ work'.cmd = work.cmd /\ work'.between = work.between
  PROVE  WorkerShape
<1>1. work' = Idle => work'.at = "idle"
  BY DEF Idle
<1>2. ASSUME NEW a, GoOn(a)
      PROVE  work'.cmd = work.cmd /\ work'.between = work.between
  BY <1>2, GoOnFacts DEF TypeInv
<1>3. work' = work => work'.cmd = work.cmd /\ work'.between = work.between
  OBVIOUS
<1> QED
  BY <1>1, <1>2, <1>3 DEF WorkerShape

LEMMA FindFileShape ==
  ASSUME TypeInv, FindFile
  PROVE  WorkerShape
<1>1. /\ Alive /\ work.at = "find"
      /\ UNCHANGED <<job, turns, history, answer, attached, pressed>>
  BY DEF FindFile
<1>2. PICK bad : LET k == Found(Last(path), bad)
                 IN  /\ LookUp(Last(path), bad)
                     /\ IF k = 0 THEN GoOn("open") /\ UNCHANGED <<gui, refused>>
                        ELSE IF answer = "no"
                        THEN work' = Idle /\ refused' = refused \cup {path} /\ UNCHANGED gui
                        ELSE /\ work' = [work EXCEPT !.id = model.rows[k].id,
                                             !.at = IF answer = "yes" THEN "delete" ELSE "ask"]
                             /\ gui' = IF answer = "yes" THEN gui ELSE "ask"
                             /\ UNCHANGED refused
  BY DEF FindFile
<1>3. DOMAIN work = Parts /\ work.at # "idle"
  BY <1>1, WorkFacts DEF TypeInv
<1>4. \/ work' = Idle \/ GoOn("open")
      \/ \E i, a : work' = [work EXCEPT !.id = i, !.at = a]
  BY <1>2
<1>5. ASSUME NEW i, NEW a, work' = [work EXCEPT !.id = i, !.at = a]
      PROVE  DOMAIN work' = Parts /\ work'.cmd = work.cmd /\ work'.between = work.between
  BY <1>3, <1>5 DEF Parts
<1>6. gui' \in {gui, "ask"}
  BY <1>2
<1> QED
  BY <1>1, <1>3, <1>4, <1>5, <1>6, GoesOnShape

LEMMA DeleteOldShape ==
  ASSUME TypeInv, DeleteOld
  PROVE  WorkerShape
<1>1. /\ Alive /\ work.at = "delete" /\ UNCHANGED <<window, past>>
      /\ work' = Idle \/ work' = [work EXCEPT !.at = "open", !.reset = TRUE]
  BY DEF DeleteOld
<1>2. DOMAIN work = Parts /\ work.at # "idle"
  BY <1>1, WorkFacts DEF TypeInv
<1>3. work' = [work EXCEPT !.at = "open", !.reset = TRUE] =>
        DOMAIN work' = Parts /\ work'.cmd = work.cmd /\ work'.between = work.between
  BY <1>2 DEF Parts
<1> QED
  BY <1>1, <1>2, <1>3, GoesOnShape DEF window, past

LEMMA AnnounceShape ==
  ASSUME TypeInv, Announce
  PROVE  WorkerShape
<1>1. /\ Alive /\ work.at = "announce" /\ UNCHANGED <<window, past>>
      /\ work' = Idle \/ work' = [work EXCEPT !.at = "pause", !.id = top + 1]
  BY DEF Announce
<1>2. DOMAIN work = Parts /\ work.at # "idle"
  BY <1>1, WorkFacts DEF TypeInv
<1>3. work' = [work EXCEPT !.at = "pause", !.id = top + 1] =>
        DOMAIN work' = Parts /\ work'.cmd = work.cmd /\ work'.between = work.between
  BY <1>2 DEF Parts
<1> QED
  BY <1>1, <1>2, <1>3, GoesOnShape DEF window, past

LEMMA ChooseCoverShape ==
  ASSUME TypeInv, NEW d, ChooseCover(d)
  PROVE  WorkerShape
<1>1. /\ Alive /\ work.at = "covers" /\ UNCHANGED <<window, past>>
      /\ \/ work' = work
         \/ \E c : work' = [work EXCEPT !.at = "cover", !.cmd = c] /\ c.op = "finish"
  <2>1. Alive /\ work.at = "covers" /\ UNCHANGED <<window, past>>
    BY DEF ChooseCover
  <2>2. CASE UNCHANGED work
    BY <2>1, <2>2
  <2>3. CASE \E e \in CoversFor(d) :
               work' = [work EXCEPT !.at = "cover",
                          !.cmd = [op |-> "finish", id |-> @.id, path |-> covers[e].path, album |-> albums[d]]]
    <3>1. PICK e : work' = [work EXCEPT !.at = "cover",
                          !.cmd = [op |-> "finish", id |-> @.id, path |-> covers[e].path, album |-> albums[d]]]
      BY <2>3
    <3> DEFINE c == [op |-> "finish", id |-> work.cmd.id, path |-> covers[e].path, album |-> albums[d]]
    <3>2. DOMAIN work = Parts
      BY <2>1, WorkFacts DEF TypeInv
    <3>3. work' = [work EXCEPT !.at = "cover", !.cmd = c] /\ c.op = "finish"
      BY <3>1, <3>2 DEF Parts
    <3> QED
      BY <2>1, <3>3
  <2> QED
    BY <2>1, <2>2, <2>3 DEF ChooseCover
<1>2. DOMAIN work = Parts /\ work.at # "idle" /\ work.at \in OfFinish
  BY <1>1, WorkFacts DEF TypeInv, OfFinish
<1>3. CASE work' = work
  BY <1>1, <1>2, <1>3, GoesOnShape DEF window, past
<1>4. ASSUME NEW c, work' = [work EXCEPT !.at = "cover", !.cmd = c], c.op = "finish"
      PROVE  WorkerShape
  <2>1. work'.between = work.between /\ work'.cmd.op = "finish"
    BY <1>2, <1>4 DEF Parts
  <2> QED
    BY <1>1, <1>2, <2>1 DEF WorkerShape, window, past
<1> QED
  BY <1>1, <1>3, <1>4

LEMMA WorkerShapeHolds ==
  ASSUME TypeInv, Worker
  PROVE  WorkerShape
<1>1. CASE EnterFolder
  BY <1>1, GoesOnShape DEF EnterFolder, window, past
<1>2. CASE OpenFile
  BY <1>2, GoesOnShape DEF OpenFile, window, past
<1>3. CASE BeginData
  BY <1>3, GoesOnShape DEF BeginData, window, past
<1>4. CASE SendData
  BY <1>4, GoesOnShape DEF SendData, window
<1>5. CASE Relist
  BY <1>5, GoesOnShape DEF Relist, window, past
<1>6. CASE LookUpFolder
  <2>1. /\ Alive /\ work.at = "lookup" /\ UNCHANGED <<window, past>>
        /\ work' = Idle \/ GoOn("make")
    BY <1>6 DEF LookUpFolder
  <2> QED
    BY <2>1, GoesOnShape DEF window, past
<1>7. CASE MakeFolder
  BY <1>7, GoesOnShape DEF MakeFolder, window, past
<1>8. CASE Prepare
  BY <1>8, GoesOnShape DEF Prepare, window
<1>9. CASE CreateTrack
  BY <1>9, GoesOnShape DEF CreateTrack, window, past
<1>10. CASE SendTrack
  BY <1>10, GoesOnShape DEF SendTrack, window
<1>11. CASE AddTrack
  BY <1>11, GoesOnShape DEF AddTrack, window, past
<1>12. CASE Download
  BY <1>12, GoesOnShape DEF Download, window, past
<1>13. CASE SetTime
  BY <1>13, GoesOnShape DEF SetTime, window
<1>14. CASE TimeNotThere
  BY <1>14, GoesOnShape DEF TimeNotThere, window, worker
<1>15. CASE Finish
  BY <1>15, GoesOnShape DEF Finish, window, past
<1>16. CASE SetCover
  BY <1>16, GoesOnShape DEF SetCover, window, past
<1>17. CASE Finished
  BY <1>17, GoesOnShape DEF Finished, FinishEnds, FinishStays, window, past
<1> QED
  BY <1>1, <1>2, <1>3, <1>4, <1>5, <1>6, <1>7, <1>8, <1>9, <1>10, <1>11, <1>12, <1>13, <1>14, <1>15,
     <1>16, <1>17, TakeCommandShape, FindFileShape, DeleteOldShape, AnnounceShape, ChooseCoverShape
     DEF Worker

LEMMA WorkerKeepsType ==
  ASSUME TypeInv, Worker
  PROVE  TypeInv'
BY TakeCommandType, EnterFolderType, FindFileType, DeleteOldType, OpenFileType, AnnounceType, BeginDataType,
   SendDataType, RelistType, LookUpFolderType, MakeFolderType, PrepareType, CreateTrackType, SendTrackType,
   AddTrackType, DownloadType, TimeNotThereType, SetTimeType, FinishType, SetCoverType, FinishedType,
   ChooseCoverType DEF Worker

(* The view looks away while files are sent: nothing comes between the two *)
(* requests a file is sent with.                                           *)
ViewInv ==
  /\ Uploading => ~attached
  /\ work.at # "idle" /\ work.cmd.op = "send" => ~work.between

Inv1 == TypeInv /\ AlbumOK /\ ViewInv

(* Worker steps, and turns that begin no job.                              *)
LEMMA WorkerKeepsView ==
  ASSUME Inv1, Worker
  PROVE  AlbumOK' /\ ViewInv'
<1>1. WorkerShape
  BY WorkerShapeHolds DEF Inv1
<1>2. Busy /\ job' = job /\ history' = history /\ attached' = attached
  BY <1>1 DEF WorkerShape, Alive, Busy
<1>3. AlbumOK' /\ (Uploading' => ~attached')
  BY <1>2 DEF Inv1, AlbumOK, ViewInv, Uploading
<1>4. work'.at # "idle" /\ work'.cmd.op = "send" => ~work'.between
  BY <1>1 DEF Inv1, ViewInv, WorkerShape
<1> QED
  BY <1>3, <1>4 DEF ViewInv

LEMMA TurnKeepsView ==
  ASSUME Inv1, UNCHANGED work,
         gui' \in {"idle", "next", "stuck"} \/ (Busy /\ UNCHANGED <<job, history, attached>>)
  PROVE  AlbumOK' /\ ViewInv'
<1>1. AlbumOK' /\ (Uploading' => ~attached')
  BY DEF Inv1, AlbumOK, ViewInv, Uploading, Busy
<1> QED
  BY <1>1 DEF Inv1, ViewInv

LEMMA BeginKeepsView ==
  ASSUME Inv1, gui \in {"idle", "next"}, UNCHANGED work, NEW js, Selection(js), NEW home, Begin(js, home),
         Head(js).kind \in {"upload", "album"} => ~attached', Head(js).kind = "album" => history' # <<>>
  PROVE  AlbumOK' /\ ViewInv'
<1>1. job'.kind = Head(js).kind
  BY BeginFacts DEF Inv1
<1> QED
  BY <1>1 DEF Inv1, AlbumOK, ViewInv, Uploading

LEMMA UploadAlbumKeepsView ==
  ASSUME Inv1, gui \in {"idle", "next"}, NEW js, Selection(js), UploadAlbum(js)
  PROVE  AlbumOK' /\ ViewInv'
<1>1. UNCHANGED work /\ history' = Append(history, AlbumFolder(js))
  BY AlbumParts DEF Inv1
<1>2. history' # <<>>
  <2> DEFINE f == AlbumFolder(js)
  <2>1. history \in Seq(Nat) /\ history' = Append(history, f)
    BY <1>1 DEF Inv1, TypeInv, WindowOK
  <2> HIDE DEF f
  <2>2. Len(history') = Len(history) + 1 /\ Len(history) \in Nat
    BY <2>1
  <2> QED
    BY <2>2
<1>3. CASE Upload(js, AlbumFolder(js))
  <2>1. Begin(js, AlbumFolder(js)) /\ ~attached'
    BY <1>3 DEF Upload
  <2> QED
    BY <1>1, <1>2, <2>1, BeginKeepsView
<1>4. CASE gui' = "stuck"
  BY <1>1, <1>4, TurnKeepsView
<1> QED
  BY <1>3, <1>4, AlbumParts DEF Inv1

LEMMA RepaintKeepsView ==
  ASSUME Inv1, NEW k, Repaint(k)
  PROVE  AlbumOK' /\ ViewInv'
<1>1. /\ attached /\ gui = "dialog" /\ work.at \in {"idle", "pause"}
      /\ work' = IF work.at = "pause" THEN [work EXCEPT !.between = TRUE] ELSE work
      /\ UNCHANGED window
  BY DEF Repaint
<1>2. AlbumOK' /\ (Uploading' => ~attached')
  BY <1>1 DEF Inv1, AlbumOK, ViewInv, Uploading, Busy, window
<1>3. CASE work.at = "idle"
  BY <1>1, <1>2, <1>3 DEF Inv1, ViewInv
<1>4. CASE work.at = "pause"
  <2>1. job.kind \notin {"upload", "album"} /\ job.kind \in Kinds
    BY <1>1 DEF Inv1, ViewInv, Uploading, Busy, TypeInv, JobOK, QuietOK
  <2>2. work.cmd.op \in Commands(job.kind) /\ DOMAIN work = Parts
    <3>1. work.at \notin OfFinish /\ work.at # "idle" /\ WorkOK
      BY <1>4 DEF OfFinish, Inv1, TypeInv
    <3> QED
      BY <3>1, WorkFacts
  <2>3. work.cmd.op # "send"
    BY <2>1, <2>2, CommandsFacts DEF Kinds
  <2>4. work'.cmd = work.cmd
    BY <1>1, <1>4, <2>2 DEF Parts
  <2> QED
    BY <1>2, <2>3, <2>4 DEF ViewInv
<1> QED
  BY <1>1, <1>3, <1>4

LEMMA AnswerKeepsView ==
  ASSUME Inv1, NEW yes \in BOOLEAN, NEW forAll \in BOOLEAN, Answer(yes, forAll)
  PROVE  AlbumOK' /\ ViewInv'
<1>1. /\ gui = "ask" /\ UNCHANGED <<job, attached, history>>
      /\ GoOn("delete") \/ work' = Idle
  BY DEF Answer, GoOn
<1>2. AlbumOK' /\ (Uploading' => ~attached')
  BY <1>1 DEF Inv1, AlbumOK, ViewInv, Uploading, Busy
<1>3. work.at # "idle" /\ WorkOK
  BY <1>1 DEF Inv1, TypeInv, QuietOK
<1>4. CASE GoOn("delete")
  <2>1. work'.cmd = work.cmd /\ work'.between = work.between
    BY <1>3, <1>4, GoOnFacts
  <2> QED
    BY <1>2, <1>3, <2>1 DEF Inv1, ViewInv
<1>5. CASE work' = Idle
  BY <1>2, <1>5, IdleOK DEF ViewInv
<1> QED
  BY <1>1, <1>4, <1>5

LEMMA Inv1Next ==
  ASSUME Inv1, [Next]_vars
  PROVE  Inv1'
<1>0. TypeInv /\ AlbumOK
  BY DEF Inv1
<1>1. CASE Worker
  BY <1>0, <1>1, WorkerKeepsType, WorkerKeepsView DEF Inv1
<1>2. CASE DialogCloses
  <2>1. gui' \in {"idle", "next"} /\ UNCHANGED work
    BY <1>2 DEF DialogCloses, worker
  <2> QED
    BY <1>0, <1>2, <2>1, DialogClosesType, TurnKeepsView DEF Inv1
<1>3. CASE NextSelected
  <2>1. gui = "next" /\ UNCHANGED work /\ Selection(job.rest) /\ Head(job.rest).kind \in {"album", "import"}
    <3>1. gui = "next"
      BY <1>3 DEF NextSelected
    <3>2. CASE UploadAlbum(job.rest)
      BY <1>0, <3>1, <3>2, RestIsSelection, AlbumParts
    <3>3. CASE ImportMusic(job.rest)
      BY <1>0, <3>1, <3>3, RestIsSelection DEF ImportMusic
    <3> QED
      BY <1>3, <3>2, <3>3 DEF NextSelected
  <2>2. CASE UploadAlbum(job.rest)
    BY <1>0, <1>3, <2>1, <2>2, NextSelectedType, UploadAlbumKeepsView DEF Inv1
  <2>3. CASE ImportMusic(job.rest) /\ Head(job.rest).kind # "album"
    <3>1. Begin(job.rest, Root)
      BY <2>3 DEF ImportMusic
    <3>2. AlbumOK' /\ ViewInv'
      BY <2>1, <2>3, <3>1, BeginKeepsView
    <3> QED
      BY <1>0, <1>3, <3>2, NextSelectedType DEF Inv1
  <2> QED
    BY <1>3, <2>2, <2>3 DEF NextSelected
<1>4. ASSUME NEW yes \in BOOLEAN, NEW forAll \in BOOLEAN, Answer(yes, forAll)
      PROVE  Inv1'
  BY <1>0, <1>4, AnswerType, AnswerKeepsView DEF Inv1
<1>5. ASSUME NEW k \in DOMAIN model.rows, Enter(k)
      PROVE  Inv1'
  <2>1. gui' = "idle" /\ UNCHANGED work
    BY <1>5 DEF Enter, Turn, worker
  <2> QED
    BY <1>0, <1>5, <2>1, EnterType, TurnKeepsView DEF Inv1
<1>6. ASSUME NEW k \in DOMAIN model.rows, DeleteSelected(k)
      PROVE  Inv1'
  <2>1. gui' = "idle" /\ UNCHANGED work
    BY <1>6 DEF DeleteSelected, Selected, Turn, worker
  <2> QED
    BY <1>0, <1>6, <2>1, DeleteSelectedType, TurnKeepsView DEF Inv1
<1>7. ASSUME NEW k \in DOMAIN model.rows, Repaint(k)
      PROVE  Inv1'
  BY <1>0, <1>7, RepaintType, RepaintKeepsView DEF Inv1
<1>8. ASSUME NEW name \in Names, CreateFolder(name)
      PROVE  Inv1'
  <2>1. gui' = "idle" /\ UNCHANGED work
    BY <1>8 DEF CreateFolder, Turn, worker
  <2> QED
    BY <1>0, <1>8, <2>1, CreateFolderType, TurnKeepsView DEF Inv1
<1>9. ASSUME NEW name \in Names, NEW k \in DOMAIN model.rows, RenameSelected(k, name)
      PROVE  Inv1'
  <2>1. gui' = "idle" /\ UNCHANGED work
    BY <1>9 DEF RenameSelected, Selected, Turn, worker
  <2> QED
    BY <1>0, <1>9, <2>1, RenameSelectedType, TurnKeepsView DEF Inv1
<1>10. CASE Back
  <2>1. gui' = "idle" /\ UNCHANGED work
    BY <1>10 DEF Back, Turn, worker
  <2> QED
    BY <1>0, <1>10, <2>1, BackType, TurnKeepsView DEF Inv1
<1>11. ASSUME NEW js \in Jobs, StartUpload(js)
       PROVE  Inv1'
  <2>1. gui = "idle" /\ Begin(js, model.parent) /\ ~attached' /\ UNCHANGED work /\ Head(js).kind = "upload"
    BY <1>11 DEF StartUpload, Turn, Upload
  <2>2. AlbumOK' /\ ViewInv'
    BY <2>1, BeginKeepsView, JobsAreSelections
  <2> QED
    BY <1>0, <1>11, <2>2, StartUploadType DEF Inv1
<1>12. ASSUME NEW js \in Jobs, StartAlbum(js)
       PROVE  Inv1'
  <2>1. gui = "idle" /\ UploadAlbum(js)
    BY <1>12 DEF StartAlbum, Turn
  <2>2. AlbumOK' /\ ViewInv'
    BY <2>1, UploadAlbumKeepsView, JobsAreSelections
  <2> QED
    BY <1>0, <1>12, <2>2, StartAlbumType DEF Inv1
<1>13. ASSUME NEW js \in Jobs, StartImport(js)
       PROVE  Inv1'
  <2>1. gui = "idle" /\ Begin(js, Root) /\ UNCHANGED work /\ Head(js).kind = "import"
    BY <1>13 DEF StartImport, Turn, ImportMusic
  <2>2. AlbumOK' /\ ViewInv'
    BY <2>1, BeginKeepsView, JobsAreSelections
  <2> QED
    BY <1>0, <1>13, <2>2, StartImportType DEF Inv1
<1>14. ASSUME NEW js \in Jobs, StartDownload(js)
       PROVE  Inv1'
  <2>1. gui = "idle" /\ Begin(js, model.parent) /\ UNCHANGED work /\ Head(js).kind = "download"
    BY <1>14 DEF StartDownload, Turn
  <2>2. AlbumOK' /\ ViewInv'
    BY <2>1, BeginKeepsView, JobsAreSelections
  <2> QED
    BY <1>0, <1>14, <2>2, StartDownloadType DEF Inv1
<1>15. CASE AbortPressed
  <2>1. Busy /\ UNCHANGED <<job, history, attached, work>>
    BY <1>15 DEF AbortPressed, Busy, worker
  <2> QED
    BY <1>0, <1>15, <2>1, AbortPressedType, TurnKeepsView DEF Inv1
<1>16. CASE UNCHANGED vars
  <2>1. TypeInv'
    BY <1>0, <1>16, StutterType
  <2>2. UNCHANGED <<gui, job, history, attached, work>>
    BY <1>16 DEF vars, window, worker
  <2> QED
    BY <2>1, <2>2 DEF Inv1, AlbumOK, ViewInv, Uploading, Busy
<1> QED
  BY <1>1, <1>2, <1>3, <1>4, <1>5, <1>6, <1>7, <1>8, <1>9, <1>10, <1>11, <1>12, <1>13, <1>14, <1>15, <1>16
     DEF Next, Replies, Rest

(* Whatever happens, every state is made as the code makes it: type        *)
(* correctness, with the view off the model while files are uploaded.      *)
THEOREM TypesHold == Spec => []Inv1
<1>1. ASSUME Init
      PROVE  Inv1
  <2>1. TypeInv
    BY <1>1, InitType
  <2>2. gui = "idle" /\ work.at = "idle"
    BY <1>1 DEF Init, Idle
  <2> QED
    BY <2>1, <2>2 DEF Inv1, AlbumOK, ViewInv, Uploading, Busy
<1> QED
  BY <1>1, Inv1Next, PTL DEF Spec

(* In an upload no other request comes between SendObjectInfo and          *)
(* SendObject: the window takes its view off the model (mainwindow.cpp)    *)
(* before the worker begins (commandqueue.cpp).                            *)
THEOREM UploadsUninterrupted == Spec => []Uninterrupted
<1>1. Inv1 => Uninterrupted
  BY DEF Inv1, ViewInv, Uninterrupted
<1> QED
  BY <1>1, TypesHold, PTL

----------------------------------------------------------------------------
(* Places: the rows are those of the folder on show, a file at work is for *)
(* that folder, and the job ends where it began.                           *)

RowsOK ==
  /\ \A k, l \in DOMAIN model.rows : model.rows[k].id = model.rows[l].id => k = l
  /\ \A k \in DOMAIN model.rows :
       /\ model.rows[k].id > model.parent
       /\ model.rows[k].id \in DOMAIN obj =>
            /\ obj[model.rows[k].id].parent = model.parent
            /\ model.rows[k].name \in {Unknown, Missing, obj[model.rows[k].id].name}

Sending == work.at # "idle" /\ work.cmd.op = "send"
Placed == {"find", "ask", "delete", "open", "announce", "pause", "data", "relist"}

StageOK ==
  /\ Sending /\ work.at \in Placed => model.parent = dirs[Front(path)]
  /\ ReplacedInPlace
  /\ Sending /\ work.at \in OfData =>
       /\ \A k \in DOMAIN model.rows : model.rows[k].id # work.id
       /\ work.id > model.parent
       /\ work.id \in DOMAIN obj => obj[work.id] = [name |-> Last(path), parent |-> model.parent, dir |-> FALSE]

(* Where the job ends.                                                     *)
Home == IF queue # <<>> THEN queue[Len(queue)].id
        ELSE IF work.at # "idle" THEN work.cmd.id ELSE model.parent
Located(h) == h = Shown \/ ("import" \in events /\ h = Root)

LocOK ==
  /\ \A n \in DOMAIN history : history[n] >= 1
  /\ gui = "idle" => Located(model.parent)
  /\ Busy /\ job.kind # "album" => Located(Home)
  /\ work.at \in {"covers", "cover"} => model.parent = Home

PlaceInv == RowsOK /\ StageOK /\ LocOK

(* Objects stay as they are, go, or are new.                               *)
OnlyNew ==
  \A i \in DOMAIN obj' : (i \in DOMAIN obj /\ obj'[i] = obj[i]) \/ i > top

LEMMA OnlyNewFacts ==
  ASSUME DevOK
  PROVE  /\ obj' = obj => OnlyNew
         /\ \A i : obj' = Deleted(i) => OnlyNew
         /\ \A p, n, b : obj' = Created(p, n, b) => OnlyNew
<1>1. obj' = obj => OnlyNew
  BY DEF OnlyNew
<1>2. \A i : obj' = Deleted(i) => OnlyNew
  BY DeletedFacts DEF OnlyNew
<1>3. ASSUME NEW p, NEW n, NEW b, obj' = Created(p, n, b)
      PROVE  OnlyNew
  <2>1. top \in Nat /\ top + 1 > top
    BY DEF DevOK
  <2> QED
    BY <1>3, <2>1 DEF OnlyNew, Created, Put
<1> QED
  BY <1>1, <1>2, <1>3

LEMMA RowsKept ==
  ASSUME DevOK, ModelOK, RowsOK, OnlyNew, model' = model
  PROVE  RowsOK'
<1>1. /\ model.rows \in Seq(RowSet) /\ \A k \in DOMAIN model.rows : model.rows[k].id <= top
      /\ top \in Nat
  BY DEF ModelOK, DevOK
<1>2. \A k \in DOMAIN model.rows : ~(model.rows[k].id > top)
  BY <1>1, RowFacts
<1> QED
  BY <1>2 DEF RowsOK, OnlyNew

LEMMA RowsFresh ==
  ASSUME DevOK, NEW p \in 0..top, SetParent(p), obj' = obj
  PROVE  RowsOK'
BY SetParentFacts DEF RowsOK

LEMMA RowsRead ==
  ASSUME DevOK, ModelOK, RowsOK, NEW name, NEW bad, obj' = obj,
         model'.parent = model.parent, model'.rows = RowsLookedUp(name, bad)
  PROVE  RowsOK'
<1> DEFINE R == RowsLookedUp(name, bad)
<1>1. /\ DOMAIN R = DOMAIN model.rows
      /\ \A k \in DOMAIN model.rows : R[k].id = model.rows[k].id /\ R[k].name \in {model.rows[k].name, Named(bad)[k]}
  BY LookedUpFacts
<1>2. model'.rows = R
  OBVIOUS
<1> HIDE DEF R
<1>3. ASSUME NEW k \in DOMAIN model.rows, model.rows[k].id \in DOMAIN obj
      PROVE  R[k].name \in {Unknown, Missing, obj[model.rows[k].id].name}
  <2>1. model.rows[k].name \in {Unknown, Missing, obj[model.rows[k].id].name}
    BY <1>3 DEF RowsOK
  <2>2. /\ model.rows[k].name # Unknown => Named(bad)[k] = model.rows[k].name
        /\ model.rows[k].name = Unknown => Named(bad)[k] \in {Missing, InfoOf(model.rows[k].id)}
    BY NamedFacts
  <2>3. InfoOf(model.rows[k].id) = obj[model.rows[k].id].name
    BY <1>3 DEF InfoOf
  <2> QED
    BY <1>1, <2>1, <2>2, <2>3
<1> QED
  BY <1>1, <1>2, <1>3 DEF RowsOK

(* A row more, for an object that has none.                                *)
LEMMA RowsGrow ==
  ASSUME DevOK, ModelOK, RowsOK, OnlyNew, NEW p, NEW i \in Nat, model' = RowAdded(p, i),
         p = model.parent =>
            /\ i > model.parent /\ \A k \in DOMAIN model.rows : model.rows[k].id # i
            /\ i \in DOMAIN obj' => obj'[i].parent = model.parent
  PROVE  RowsOK'
<1>1. CASE p # model.parent
  BY <1>1, RowAddedFacts, RowsKept
<1>2. CASE p = model.parent
  <2> DEFINE n == Len(model.rows) + 1
  <2>1. /\ model'.parent = model.parent
        /\ DOMAIN model'.rows = DOMAIN model.rows \cup {n}
        /\ n \notin DOMAIN model.rows
        /\ model'.rows[n] = [id |-> i, name |-> Unknown]
        /\ \A k \in DOMAIN model.rows : model'.rows[k] = model.rows[k]
    BY <1>2, RowAddedFacts
  <2> HIDE DEF n
  <2>2. model'.rows[n].id = i /\ model'.rows[n].name = Unknown
    BY <2>1
  <2>3. /\ model.rows \in Seq(RowSet) /\ \A k \in DOMAIN model.rows : model.rows[k].id <= top
        /\ top \in Nat
    BY DEF ModelOK, DevOK
  <2>4. \A k \in DOMAIN model.rows : ~(model.rows[k].id > top)
    BY <2>3, RowFacts
  <2>5. \A k, l \in DOMAIN model'.rows : model'.rows[k].id = model'.rows[l].id => k = l
    BY <1>2, <2>1, <2>2 DEF RowsOK
  <2>6. ASSUME NEW k \in DOMAIN model'.rows
        PROVE  /\ model'.rows[k].id > model'.parent
               /\ model'.rows[k].id \in DOMAIN obj' =>
                    /\ obj'[model'.rows[k].id].parent = model'.parent
                    /\ model'.rows[k].name \in {Unknown, Missing, obj'[model'.rows[k].id].name}
    <3>1. CASE k = n
      BY <1>2, <2>1, <2>2, <3>1
    <3>2. CASE k \in DOMAIN model.rows
      BY <2>1, <2>4, <3>2 DEF RowsOK, OnlyNew
    <3> QED
      BY <2>1, <2>6, <3>1, <3>2
  <2> QED
    BY <2>5, <2>6 DEF RowsOK
<1> QED
  BY <1>1, <1>2

(* The rows of what is in a folder now.                                    *)
LEMMA RowsListed ==
  ASSUME DevOK', NEW p, NEW S, \A i : i \in S <=> i \in DOMAIN obj' /\ obj'[i].parent = p,
         model'.parent = p, model'.rows = RowsOf(S)
  PROVE  /\ RowsOK'
         /\ \A k \in DOMAIN model'.rows : model'.rows[k].name = Unknown /\ model'.rows[k].id \in DOMAIN obj'
         /\ \A i \in DOMAIN obj' : obj'[i].parent = p => \E k \in DOMAIN model'.rows : model'.rows[k].id = i
<1> DEFINE m == top'
<1>1. S \in SUBSET (1..m) /\ m \in Nat
  BY DEF DevOK
<1>2. \A i \in S : i \in DOMAIN obj' /\ obj'[i].parent = p /\ i > p
  BY DEF DevOK
<1> HIDE DEF m
<1>3. /\ \A k \in DOMAIN RowsOf(S) : RowsOf(S)[k].id \in S /\ RowsOf(S)[k].name = Unknown
      /\ \A k, l \in DOMAIN RowsOf(S) : RowsOf(S)[k].id = RowsOf(S)[l].id => k = l
      /\ \A i \in S : \E k \in DOMAIN RowsOf(S) : RowsOf(S)[k].id = i
  BY <1>1, RowsOfFacts
<1>4. \A i \in DOMAIN obj' : obj'[i].parent = p => i \in S
  OBVIOUS
<1> QED
  BY <1>2, <1>3, <1>4 DEF RowsOK

(* What a step says of the folder on show, and of the file at work.        *)
ShowOK == RowsOK /\ StageOK
Inv2 == Inv1 /\ PlaceInv

LEMMA NotSending ==
  ASSUME TypeInv', ~Sending' \/ work'.at \in {"enter", "covers"}, work'.at \notin {"ask", "delete"}
  PROVE  StageOK'
BY DEF StageOK, ReplacedInPlace, Placed, OfData

LEMMA EnterFolderPlace ==
  ASSUME Inv2, EnterFolder
  PROVE  ShowOK'
<1> DEFINE p == dirs[Front(path)]
<1>1. SetParent(p) /\ GoOn("find") /\ work.at = "enter" /\ UNCHANGED <<device, dirs>>
  BY DEF EnterFolder, maps
<1>2. TypeInv /\ DevOK /\ WorkOK /\ work.at # "idle" /\ work.cmd.op = "send"
  BY <1>1 DEF Inv2, Inv1, TypeInv, WorkOK, Idle, OfSend
<1>3. p \in 0..top
  BY <1>2, TargetFacts
<1>4. path' = path /\ work'.at = "find"
  BY <1>1, <1>2, GoOnFacts DEF path
<1>5. p' = p
  BY <1>1, <1>4
<1> HIDE DEF p
<1>6. RowsOK' /\ model'.parent = p
  BY <1>1, <1>2, <1>3, RowsFresh, SetParentFacts DEF device
<1>7. model'.parent = dirs'[Front(path')]
  BY <1>5, <1>6 DEF p
<1>8. StageOK'
  BY <1>4, <1>7 DEF StageOK, ReplacedInPlace, OfData
<1> QED
  BY <1>6, <1>8 DEF ShowOK

LEMMA FindFilePlace ==
  ASSUME Inv2, FindFile
  PROVE  ShowOK'
<1>1. work.at = "find" /\ UNCHANGED <<device, dirs>>
  BY DEF FindFile, maps
<1>2. PICK bad : LET k == Found(Last(path), bad)
                 IN  /\ LookUp(Last(path), bad)
                     /\ IF k = 0 THEN GoOn("open") /\ UNCHANGED <<gui, refused>>
                        ELSE IF answer = "no"
                        THEN work' = Idle /\ refused' = refused \cup {path} /\ UNCHANGED gui
                        ELSE /\ work' = [work EXCEPT !.id = model.rows[k].id,
                                             !.at = IF answer = "yes" THEN "delete" ELSE "ask"]
                             /\ gui' = IF answer = "yes" THEN gui ELSE "ask"
                             /\ UNCHANGED refused
  BY DEF FindFile
<1>3. TypeInv /\ DevOK /\ ModelOK /\ WorkOK /\ RowsOK /\ StageOK
  BY DEF Inv2, Inv1, TypeInv, PlaceInv
<1>4. DOMAIN work = Parts /\ work.at # "idle" /\ work.cmd.op = "send"
  BY <1>1, <1>3, WorkFacts DEF WorkOK, Idle, OfSend
<1> DEFINE k == Found(Last(path), bad)
           i == model.rows[k].id
<1>5. LookUp(Last(path), bad)
  BY <1>2
<1>6. /\ model'.parent = model.parent /\ model'.rows = RowsLookedUp(Last(path), bad)
      /\ DOMAIN model'.rows = DOMAIN model.rows
      /\ \A l \in DOMAIN model.rows : model'.rows[l].id = model.rows[l].id
  BY <1>3, <1>5, LookUpFacts, LookedUpFacts
<1>7. RowsOK'
  BY <1>1, <1>3, <1>6, RowsRead DEF device
<1>8. Last(path) \in NameSet /\ Last(path) \notin {Unknown, Missing}
  BY <1>3, <1>4, TargetFacts DEF NameSet
<1>9. ASSUME k # 0, i \in DOMAIN obj
      PROVE  obj[i].name = Last(path) /\ obj[i].parent = model.parent
  <2>1. k \in DOMAIN model.rows /\ Named(bad)[k] = Last(path)
    BY <1>3, <1>9, FoundFacts
  <2>2. obj[i].parent = model.parent /\ model.rows[k].name \in {Unknown, Missing, obj[i].name}
    BY <1>3, <1>9, <2>1 DEF RowsOK
  <2>3. InfoOf(i) = obj[i].name
    BY <1>9 DEF InfoOf
  <2>4. /\ model.rows[k].name # Unknown => Named(bad)[k] = model.rows[k].name
        /\ model.rows[k].name = Unknown => Named(bad)[k] \in {Missing, InfoOf(i)}
    BY <1>3, <2>1, NamedFacts
  <2> QED
    BY <1>8, <2>1, <2>2, <2>3, <2>4
<1>10. model.parent = dirs[Front(path)]
  BY <1>1, <1>3, <1>4 DEF StageOK, Sending, Placed
<1>11. \/ work' = Idle
       \/ GoOn("open")
       \/ k # 0 /\ work' = [work EXCEPT !.id = i, !.at = IF answer = "yes" THEN "delete" ELSE "ask"]
  BY <1>2
<1> HIDE DEF k, i
<1>12. StageOK'
  <2>1. CASE work' = Idle
    <3>1. work'.at = "idle"
      BY <2>1 DEF Idle
    <3> QED
      BY <3>1 DEF StageOK, ReplacedInPlace, Sending
  <2>2. CASE GoOn("open")
    <3>1. work'.at = "open" /\ path' = path
      BY <1>3, <1>4, <2>2, GoOnFacts DEF path
    <3> QED
      BY <1>1, <1>6, <1>10, <3>1 DEF StageOK, ReplacedInPlace, OfData
  <2>3. CASE k # 0 /\ work' = [work EXCEPT !.id = i, !.at = IF answer = "yes" THEN "delete" ELSE "ask"]
    <3>1. work'.at \in {"delete", "ask"} /\ work'.id = i /\ work'.cmd = work.cmd
      BY <1>4, <2>3 DEF Parts
    <3>2. path' = path
      BY <3>1 DEF path
    <3> QED
      BY <1>1, <1>6, <1>9, <1>10, <2>3, <3>1, <3>2 DEF StageOK, ReplacedInPlace, OfData, device
  <2> QED
    BY <1>11, <2>1, <2>2, <2>3
<1> QED
  BY <1>7, <1>12 DEF ShowOK

LEMMA IdlePlace ==
  ASSUME work' = Idle
  PROVE  StageOK'
<1>1. work'.at = "idle"
  BY DEF Idle
<1> QED
  BY <1>1 DEF StageOK, ReplacedInPlace, Sending

LEMMA DeleteOldPlace ==
  ASSUME Inv2, DeleteOld
  PROVE  ShowOK'
<1>1. /\ work.at = "delete" /\ UNCHANGED <<model, dirs>> /\ (obj' = Deleted(work.id) \/ obj' = obj)
      /\ work' = Idle \/ work' = [work EXCEPT !.at = "open", !.reset = TRUE]
  BY DEF DeleteOld, maps
<1>2. TypeInv /\ DevOK /\ ModelOK /\ WorkOK /\ RowsOK /\ StageOK
  BY DEF Inv2, Inv1, TypeInv, PlaceInv
<1>3. DOMAIN work = Parts /\ work.at # "idle" /\ work.cmd.op = "send"
  BY <1>1, <1>2, WorkFacts DEF WorkOK, Idle, OfSend
<1>4. RowsOK'
  BY <1>1, <1>2, OnlyNewFacts, RowsKept
<1>5. CASE work' = [work EXCEPT !.at = "open", !.reset = TRUE]
  <2>1. work'.at = "open" /\ work'.cmd = work.cmd
    BY <1>3, <1>5 DEF Parts
  <2>2. path' = path
    BY <2>1 DEF path
  <2>3. model.parent = dirs[Front(path)]
    BY <1>1, <1>2, <1>3 DEF StageOK, Sending, Placed
  <2> QED
    BY <1>1, <1>4, <2>1, <2>2, <2>3 DEF ShowOK, StageOK, ReplacedInPlace, OfData
<1> QED
  BY <1>1, <1>4, <1>5, IdlePlace DEF ShowOK

LEMMA OpenFilePlace ==
  ASSUME Inv2, OpenFile
  PROVE  ShowOK'
<1>1. /\ work.at = "open" /\ UNCHANGED <<model, dirs, obj>>
      /\ work' = Idle \/ GoOn("announce")
  BY DEF OpenFile, maps, device
<1>2. TypeInv /\ DevOK /\ ModelOK /\ WorkOK /\ RowsOK /\ StageOK
  BY DEF Inv2, Inv1, TypeInv, PlaceInv
<1>3. work.at # "idle" /\ work.cmd.op = "send"
  BY <1>1, <1>2, WorkFacts DEF WorkOK, Idle, OfSend
<1>4. RowsOK'
  BY <1>1, <1>2, OnlyNewFacts, RowsKept
<1>5. CASE GoOn("announce")
  <2>1. work'.at = "announce" /\ path' = path
    BY <1>2, <1>3, <1>5, GoOnFacts DEF path
  <2>2. model.parent = dirs[Front(path)]
    BY <1>1, <1>2, <1>3 DEF StageOK, Sending, Placed
  <2> QED
    BY <1>1, <1>4, <2>1, <2>2 DEF ShowOK, StageOK, ReplacedInPlace, OfData
<1> QED
  BY <1>1, <1>4, <1>5, IdlePlace DEF ShowOK

LEMMA AnnouncePlace ==
  ASSUME Inv2, Announce
  PROVE  ShowOK'
<1>1. /\ work.at = "announce" /\ UNCHANGED <<model, dirs>>
      /\ \/ /\ obj' = Created(dirs[Front(path)], Last(path), FALSE) /\ top' = top + 1
            /\ work' = [work EXCEPT !.at = "pause", !.id = top + 1]
         \/ work' = Idle /\ obj' = obj
  BY DEF Announce, maps, device
<1>2. TypeInv /\ DevOK /\ ModelOK /\ WorkOK /\ RowsOK /\ StageOK
  BY DEF Inv2, Inv1, TypeInv, PlaceInv
<1>3. DOMAIN work = Parts /\ work.at # "idle" /\ work.cmd.op = "send"
  BY <1>1, <1>2, WorkFacts DEF WorkOK, Idle, OfSend
<1>4. RowsOK'
  BY <1>1, <1>2, OnlyNewFacts, RowsKept
<1>5. CASE /\ obj' = Created(dirs[Front(path)], Last(path), FALSE) /\ top' = top + 1
           /\ work' = [work EXCEPT !.at = "pause", !.id = top + 1]
  <2>1. work'.at = "pause" /\ work'.cmd = work.cmd /\ work'.id = top + 1
    BY <1>3, <1>5 DEF Parts
  <2>2. path' = path
    BY <2>1 DEF path
  <2>3. model.parent = dirs[Front(path)]
    BY <1>1, <1>2, <1>3 DEF StageOK, Sending, Placed
  <2>4. dirs[Front(path)] \in 0..top /\ Last(path) \in NameSet /\ FALSE \in BOOLEAN
    BY <1>2, <1>3, TargetFacts
  <2>5. obj'[top + 1] = [name |-> Last(path), parent |-> dirs[Front(path)], dir |-> FALSE]
    BY <1>2, <1>5, <2>4, CreatedOK
  <2>6. top \in Nat /\ model.parent <= top /\ model.parent \in Nat /\ model.rows \in Seq(RowSet)
        /\ \A k \in DOMAIN model.rows : model.rows[k].id <= top
    BY <1>2 DEF DevOK, ModelOK
  <2>7. top + 1 > model.parent /\ \A k \in DOMAIN model.rows : model.rows[k].id # top + 1
    BY <2>6, RowFacts
  <2> QED
    BY <1>1, <1>4, <2>1, <2>2, <2>3, <2>5, <2>7 DEF ShowOK, StageOK, ReplacedInPlace, OfData
<1> QED
  BY <1>1, <1>4, <1>5, IdlePlace DEF ShowOK

LEMMA BeginDataPlace ==
  ASSUME Inv2, BeginData
  PROVE  ShowOK'
<1>1. /\ work.at = "pause" /\ UNCHANGED <<model, dirs, obj>> /\ GoOn("data")
  BY DEF BeginData, maps, device
<1>2. TypeInv /\ DevOK /\ ModelOK /\ WorkOK /\ RowsOK /\ StageOK
  BY DEF Inv2, Inv1, TypeInv, PlaceInv
<1>3. RowsOK'
  BY <1>1, <1>2, OnlyNewFacts, RowsKept
<1>4. work'.at = "data" /\ path' = path /\ work'.id = work.id /\ work'.cmd = work.cmd
  BY <1>1, <1>2, GoOnFacts DEF path
<1>5. StageOK'
  <2>1. ASSUME work.cmd.op = "send"
        PROVE  /\ model.parent = dirs[Front(path)]
               /\ \A k \in DOMAIN model.rows : model.rows[k].id # work.id
               /\ work.id > model.parent
               /\ work.id \in DOMAIN obj => obj[work.id] = [name |-> Last(path), parent |-> model.parent, dir |-> FALSE]
    BY <1>1, <1>2, <2>1 DEF StageOK, Sending, Placed, OfData
  <2> QED
    BY <1>1, <1>4, <2>1 DEF StageOK, ReplacedInPlace, Sending
<1> QED
  BY <1>3, <1>5 DEF ShowOK

LEMMA SendDataPlace ==
  ASSUME Inv2, SendData
  PROVE  ShowOK'
<1>1. /\ work.at = "data" /\ work.cmd.op = "send" /\ UNCHANGED dirs
      /\ \/ /\ model' = RowAdded(dirs[Front(path)], work.id)
            /\ GoOn("relist") \/ work' = Idle
            /\ obj' = obj
         \/ /\ obj' \in {obj, Deleted(work.id)}
            /\ work' = Idle /\ model' = model
  BY DEF SendData, maps
<1>2. TypeInv /\ DevOK /\ ModelOK /\ WorkOK /\ RowsOK /\ StageOK
  BY DEF Inv2, Inv1, TypeInv, PlaceInv
<1>3. CASE obj' \in {obj, Deleted(work.id)} /\ work' = Idle /\ model' = model
  BY <1>2, <1>3, OnlyNewFacts, RowsKept, IdlePlace DEF ShowOK
<1>4. CASE /\ model' = RowAdded(dirs[Front(path)], work.id)
           /\ GoOn("relist") \/ work' = Idle
           /\ obj' = obj
  <2>1. /\ model.parent = dirs[Front(path)]
        /\ \A k \in DOMAIN model.rows : model.rows[k].id # work.id
        /\ work.id > model.parent
        /\ work.id \in DOMAIN obj => obj[work.id] = [name |-> Last(path), parent |-> model.parent, dir |-> FALSE]
    BY <1>1, <1>2 DEF StageOK, Sending, Placed, OfData
  <2>2. work.id \in DOMAIN obj => obj[work.id].parent = model.parent
    BY <2>1
  <2>3. work.id \in Nat
    BY <1>1, <1>2, WorkFacts
  <2> DEFINE p == model.parent
             i == work.id
  <2>4. model' = RowAdded(p, i) /\ i \in Nat
    BY <1>4, <2>1, <2>3
  <2>5. i > model.parent /\ (\A k \in DOMAIN model.rows : model.rows[k].id # i) /\ OnlyNew
        /\ (i \in DOMAIN obj' => obj'[i].parent = model.parent)
    BY <1>2, <1>4, <2>1, <2>2, OnlyNewFacts
  <2> HIDE DEF i, p
  <2>6. RowsOK' /\ (p # model.parent => model' = model) /\ (p = model.parent => model'.parent = model.parent)
    BY <1>2, <2>4, <2>5, RowsGrow, RowAddedFacts
  <2>7. CASE GoOn("relist")
    <3>1. work'.at = "relist" /\ path' = path
      BY <1>1, <1>2, <2>7, GoOnFacts DEF path
    <3> QED
      BY <1>1, <2>1, <2>6, <3>1 DEF ShowOK, StageOK, ReplacedInPlace, OfData, p
  <2> QED
    BY <1>4, <2>6, <2>7, IdlePlace DEF ShowOK
<1> QED
  BY <1>1, <1>3, <1>4

LEMMA RelistPlace ==
  ASSUME Inv2, Relist
  PROVE  ShowOK'
<1>1. SetParent(model.parent) /\ obj' = obj /\ work' = Idle
  BY DEF Relist, device
<1>2. DevOK /\ model.parent \in 0..top
  BY DEF Inv2, Inv1, TypeInv, ModelOK, DevOK
<1> QED
  BY <1>1, <1>2, RowsFresh, IdlePlace DEF ShowOK

(* Neither the folder on show nor the devices change.                      *)
LEMMA ElsewherePlace ==
  ASSUME Inv2, UNCHANGED <<obj, model>>,
         work'.at \notin {"ask", "delete"}, ~Sending' \/ work'.at \notin Placed
  PROVE  ShowOK'
<1>1. RowsOK'
  BY OnlyNewFacts, RowsKept DEF Inv2, Inv1, TypeInv, PlaceInv
<1>2. StageOK'
  BY DEF StageOK, ReplacedInPlace, Placed, OfData
<1> QED
  BY <1>1, <1>2 DEF ShowOK

LEMMA TakeCommandPlace ==
  ASSUME Inv2, TakeCommand
  PROVE  ShowOK'
<1> DEFINE cmd == Head(queue)
<1>1. /\ work = Idle /\ queue # <<>> /\ UNCHANGED <<obj, model>>
      /\ work' = IF FirstStep(cmd) = "idle" THEN Idle
                 ELSE [at |-> FirstStep(cmd), cmd |-> cmd, id |-> 0, between |-> FALSE, reset |-> FALSE]
      /\ dirs' = IF cmd.op \in {"send", "mkdir"} /\ ~aborted THEN Mapped(cmd.path) ELSE dirs
  BY DEF TakeCommand, device
<1>2. cmd.op \in {"finish", "import", "get", "send", "mkdir"}
  BY <1>1, HeadFacts DEF Inv2, Inv1
<1> HIDE DEF cmd
<1>3. CASE FirstStep(cmd) = "idle"
  <2>1. work'.at = "idle"
    BY <1>1, <1>3 DEF Idle
  <2> QED
    BY <1>1, <2>1, ElsewherePlace DEF Placed
<1>4. CASE FirstStep(cmd) \notin {"idle", "find"}
  <2>1. work'.at = FirstStep(cmd)
    BY <1>1, <1>4
  <2>2. FirstStep(cmd) \in {"finish", "prepare", "get", "enter", "lookup"}
    BY <1>2, <1>4, FirstStepFacts
  <2> QED
    BY <1>1, <2>1, <2>2, ElsewherePlace DEF Placed
<1>5. CASE FirstStep(cmd) = "find"
  <2>1. cmd.op = "send" /\ ~aborted /\ model.parent = Mapped(cmd.path)[Front(cmd.path)]
    BY <1>2, <1>5, FirstStepFacts
  <2>2. work'.at = "find" /\ path' = cmd.path /\ dirs' = Mapped(cmd.path)
    BY <1>1, <1>5, <2>1 DEF path
  <2>3. RowsOK'
    BY <1>1, OnlyNewFacts, RowsKept DEF Inv2, Inv1, TypeInv, PlaceInv
  <2>4. model'.parent = dirs'[Front(path')]
    BY <1>1, <2>1, <2>2
  <2> QED
    BY <2>2, <2>3, <2>4 DEF ShowOK, StageOK, ReplacedInPlace, OfData
<1> QED
  BY <1>3, <1>4, <1>5

LEMMA LookUpFolderPlace ==
  ASSUME Inv2, LookUpFolder
  PROVE  ShowOK'
<1>1. /\ work.at = "lookup" /\ UNCHANGED obj
      /\ work' = Idle \/ GoOn("make")
  BY DEF LookUpFolder, device
<1>2. PICK bad : LookUp(Last(path), bad)
  BY DEF LookUpFolder
<1>3. TypeInv /\ DevOK /\ ModelOK /\ WorkOK /\ RowsOK
  BY DEF Inv2, Inv1, TypeInv, PlaceInv
<1>4. RowsOK'
  BY <1>1, <1>2, <1>3, LookUpFacts, RowsRead
<1>5. CASE GoOn("make")
  <2>1. work'.at = "make"
    BY <1>1, <1>3, <1>5, GoOnFacts
  <2> QED
    BY <1>4, <2>1 DEF ShowOK, StageOK, ReplacedInPlace, Placed, OfData
<1> QED
  BY <1>1, <1>4, <1>5, IdlePlace DEF ShowOK

LEMMA MakeFolderPlace ==
  ASSUME Inv2, MakeFolder
  PROVE  ShowOK'
<1> DEFINE p == dirs[Front(path)]
<1>1. /\ work.at = "make" /\ work' = Idle
      /\ \/ /\ obj' = Created(p, Last(path), TRUE) /\ top' = top + 1
            /\ model' = RowAdded(p, top + 1)
         \/ obj' = obj /\ model' = model
  BY DEF MakeFolder, device
<1>2. TypeInv /\ DevOK /\ ModelOK /\ RowsOK /\ work.at # "idle" /\ work.cmd.op = "mkdir"
  BY <1>1 DEF Inv2, Inv1, TypeInv, PlaceInv, WorkOK, Idle, OfMkdir
<1>3. p \in 0..top /\ Last(path) \in NameSet /\ TRUE \in BOOLEAN
  BY <1>2, TargetFacts
<1> HIDE DEF p
<1>4. CASE obj' = Created(p, Last(path), TRUE) /\ top' = top + 1 /\ model' = RowAdded(p, top + 1)
  <2> DEFINE i == top + 1
  <2>1. OnlyNew /\ obj'[i] = [name |-> Last(path), parent |-> p, dir |-> TRUE]
    BY <1>2, <1>3, <1>4, OnlyNewFacts, CreatedOK
  <2>2. obj'[i].parent = p
    BY <2>1
  <2>3. top \in Nat /\ model.parent <= top /\ model.parent \in Nat /\ model.rows \in Seq(RowSet)
        /\ \A k \in DOMAIN model.rows : model.rows[k].id <= top
    BY <1>2 DEF DevOK, ModelOK
  <2>4. i \in Nat /\ i > model.parent /\ \A k \in DOMAIN model.rows : model.rows[k].id # i
    BY <2>3, RowFacts
  <2>5. model' = RowAdded(p, i)
    BY <1>4
  <2> HIDE DEF i
  <2>6. RowsOK'
    BY <1>2, <2>1, <2>2, <2>4, <2>5, RowsGrow
  <2> QED
    BY <1>1, <2>6, IdlePlace DEF ShowOK
<1>5. CASE obj' = obj /\ model' = model
  BY <1>1, <1>2, <1>5, OnlyNewFacts, RowsKept, IdlePlace DEF ShowOK
<1> QED
  BY <1>1, <1>4, <1>5

(* Music and downloads are not put where the rows are.                     *)
LEMMA OthersPlace ==
  ASSUME Inv2, Prepare \/ CreateTrack \/ SendTrack \/ AddTrack \/ Download \/ TimeNotThere \/ SetTime
               \/ SetCover \/ Finished \/ \E d : ChooseCover(d)
  PROVE  ShowOK'
<1>1. TypeInv /\ WorkOK
  BY DEF Inv2, Inv1, TypeInv
<1>2. CASE Prepare
  <2>1. /\ UNCHANGED <<obj, model>> /\ work.at = "prepare" /\ work.cmd.op = "import"
        /\ work' = Idle \/ GoOn("create")
    BY <1>1, <1>2 DEF Prepare, device, WorkOK, Idle, OfImport
  <2>2. work' = Idle => work'.at = "idle"
    BY DEF Idle
  <2>3. GoOn("create") => work'.at = "create"
    BY <1>1, <2>1, GoOnFacts
  <2> QED
    BY <2>1, <2>2, <2>3, ElsewherePlace DEF Placed
<1>3. CASE CreateTrack
  <2>1. /\ UNCHANGED <<obj, model>> /\ work.at = "create" /\ work.cmd.op = "import"
        /\ work' = Idle \/ GoOn("pause")
    BY <1>1, <1>3 DEF CreateTrack, device, WorkOK, Idle, OfImport
  <2>2. work' = Idle => work'.at = "idle"
    BY DEF Idle
  <2>3. GoOn("pause") => work'.at = "pause" /\ work'.cmd.op = "import"
    BY <1>1, <2>1, GoOnFacts
  <2>4. work'.at \notin {"ask", "delete"} /\ (~Sending' \/ work'.at \notin Placed)
    BY <2>1, <2>2, <2>3 DEF Sending
  <2> QED
    BY <2>1, <2>4, ElsewherePlace
<1>4. CASE SendTrack
  <2>1. UNCHANGED <<obj, model>> /\ work.at = "data" /\ GoOn("add")
    BY <1>4 DEF SendTrack, device
  <2>2. work'.at = "add"
    BY <1>1, <2>1, GoOnFacts
  <2> QED
    BY <2>1, <2>2, ElsewherePlace DEF Placed
<1>5. CASE AddTrack
  <2>1. UNCHANGED <<obj, model>> /\ work' = Idle
    BY <1>5 DEF AddTrack, device
  <2>2. work'.at = "idle"
    BY <2>1 DEF Idle
  <2> QED
    BY <2>1, <2>2, ElsewherePlace DEF Placed
<1>6. CASE Download
  <2>1. UNCHANGED <<obj, model>> /\ work.at = "get" /\ (work' = Idle \/ GoOn("mtime"))
    BY <1>6 DEF Download, device
  <2>2. work' = Idle => work'.at = "idle"
    BY DEF Idle
  <2>3. GoOn("mtime") => work'.at = "mtime"
    BY <1>1, <2>1, GoOnFacts
  <2> QED
    BY <2>1, <2>2, <2>3, ElsewherePlace DEF Placed
<1>7. CASE TimeNotThere
  <2>1. UNCHANGED <<obj, model>> /\ work.at = "mtime" /\ work' = work
    BY <1>7 DEF TimeNotThere, device, worker
  <2> QED
    BY <2>1, ElsewherePlace DEF Placed
<1>8. CASE SetTime
  <2>1. UNCHANGED <<obj, model>> /\ work' = Idle
    BY <1>8 DEF SetTime, device
  <2>2. work'.at = "idle"
    BY <2>1 DEF Idle
  <2> QED
    BY <2>1, <2>2, ElsewherePlace DEF Placed
<1>9. CASE SetCover
  <2>1. UNCHANGED <<obj, model>> /\ work.at = "cover" /\ GoOn("covers")
    BY <1>9 DEF SetCover, device
  <2>2. work'.at = "covers"
    BY <1>1, <2>1, GoOnFacts
  <2> QED
    BY <2>1, <2>2, ElsewherePlace DEF Placed
<1>10. CASE Finished
  <2>1. UNCHANGED <<obj, model>> /\ work' = Idle
    BY <1>10 DEF Finished, FinishStays, device
  <2>2. work'.at = "idle"
    BY <2>1 DEF Idle
  <2> QED
    BY <2>1, <2>2, ElsewherePlace DEF Placed
<1>11. ASSUME NEW d, ChooseCover(d)
       PROVE  ShowOK'
  <2>1. /\ UNCHANGED <<obj, model>> /\ work.at = "covers"
        /\ work' = work \/ \E c : work' = [work EXCEPT !.at = "cover", !.cmd = c]
    <3>1. UNCHANGED <<obj, model>> /\ work.at = "covers"
      BY <1>11 DEF ChooseCover, device
    <3>2. CASE work' = work
      BY <3>1, <3>2
    <3>3. CASE \E e \in CoversFor(d) :
             work' = [work EXCEPT !.at = "cover",
                          !.cmd = [op |-> "finish", id |-> @.id, path |-> covers[e].path, album |-> albums[d]]]
      <4>1. PICK e : work' = [work EXCEPT !.at = "cover",
                          !.cmd = [op |-> "finish", id |-> @.id, path |-> covers[e].path, album |-> albums[d]]]
        BY <3>3
      <4> DEFINE c == [op |-> "finish", id |-> work.cmd.id, path |-> covers[e].path, album |-> albums[d]]
      <4>2. DOMAIN work = Parts
        BY <1>1, <3>1, WorkFacts
      <4>3. work' = [work EXCEPT !.at = "cover", !.cmd = c]
        BY <4>1, <4>2 DEF Parts
      <4> QED
        BY <3>1, <4>3
    <3> QED
      BY <1>11, <3>1, <3>2, <3>3 DEF ChooseCover
  <2>2. DOMAIN work = Parts
    BY <1>1, <2>1, WorkFacts
  <2>3. work'.at \in {"covers", "cover"}
    BY <2>1, <2>2 DEF Parts
  <2> QED
    BY <2>1, <2>3, ElsewherePlace DEF Placed
<1> QED
  BY <1>2, <1>3, <1>4, <1>5, <1>6, <1>7, <1>8, <1>9, <1>10, <1>11

LEMMA FinishPlace ==
  ASSUME Inv2, Finish
  PROVE  ShowOK' /\ model'.parent = work.cmd.id /\ work'.cmd = work.cmd /\ work'.at = "covers"
<1>1. SetParent(work.cmd.id) /\ obj' = obj /\ GoOn("covers") /\ work.at = "finish"
  BY DEF Finish, device
<1>2. DevOK /\ work.cmd.id \in 0..top /\ work.at # "idle" /\ WorkOK
  BY <1>1, WorkFacts DEF Inv2, Inv1, TypeInv, DevOK, OfFinish
<1>3. RowsOK' /\ model'.parent = work.cmd.id
  BY <1>1, <1>2, RowsFresh, SetParentFacts
<1>4. work'.at = "covers" /\ work'.cmd = work.cmd
  BY <1>1, <1>2, GoOnFacts
<1> QED
  BY <1>3, <1>4 DEF ShowOK, StageOK, ReplacedInPlace, Placed, OfData

LEMMA WorkerPlace ==
  ASSUME Inv2, Worker
  PROVE  ShowOK'
BY TakeCommandPlace, EnterFolderPlace, FindFilePlace, DeleteOldPlace, OpenFilePlace, AnnouncePlace,
   BeginDataPlace, SendDataPlace, RelistPlace, LookUpFolderPlace, MakeFolderPlace, OthersPlace, FinishPlace
   DEF Worker

(* The user's steps.                                                       *)
LEMMA TurnIdle ==
  ASSUME Inv1, gui \in {"idle", "next"}
  PROVE  work = Idle /\ queue = <<>> /\ dirs = <<>> /\ ~Busy /\ ~done
BY DEF Inv1, TypeInv, QuietOK, Busy

LEMMA ShowPlace ==
  ASSUME Inv2, gui \in {"idle", "next"}, UNCHANGED work, NEW p \in 0..top, SetParent(p), obj' = obj
  PROVE  ShowOK' /\ model'.parent = p
<1>1. DevOK
  BY DEF Inv2, Inv1, TypeInv
<1>2. work' = Idle
  BY TurnIdle DEF Inv2
<1> QED
  BY <1>1, <1>2, RowsFresh, IdlePlace, SetParentFacts DEF ShowOK

LEMMA DeleteSelectedPlace ==
  ASSUME Inv2, NEW k, DeleteSelected(k)
  PROVE  ShowOK' /\ model'.parent = model.parent
<1> DEFINE S == {i \in DOMAIN obj' : obj'[i].parent = model.parent}
           p == model.parent
<1>1. gui = "idle" /\ UNCHANGED work /\ model' = [model EXCEPT !.rows = RowsOf(S)]
  BY DEF DeleteSelected, Selected, Turn, worker
<1>2. model'.parent = p /\ model'.rows = RowsOf(S)
  BY <1>1 DEF Inv2, Inv1, TypeInv, ModelOK
<1>3. \A i : i \in S <=> i \in DOMAIN obj' /\ obj'[i].parent = p
  OBVIOUS
<1>4. DevOK'
  BY DeleteSelectedType DEF Inv2, Inv1, TypeInv
<1>5. p = model.parent
  OBVIOUS
<1> HIDE DEF S, p
<1>6. RowsOK'
  BY <1>2, <1>3, <1>4, RowsListed
<1>7. work' = Idle
  BY <1>1, TurnIdle DEF Inv2
<1> QED
  BY <1>2, <1>5, <1>6, <1>7, IdlePlace DEF ShowOK

LEMMA RenameSelectedPlace ==
  ASSUME Inv2, NEW k, NEW name \in Names, RenameSelected(k, name)
  PROVE  ShowOK' /\ model'.parent = model.parent
<1>1. gui = "idle" /\ UNCHANGED work /\ k \in DOMAIN model.rows /\ Renamed(k, name)
  BY DEF RenameSelected, Selected, Turn, worker
<1>2. DevOK /\ ModelOK /\ RowsOK /\ name \in NameSet
  BY NamesAssumption DEF Inv2, Inv1, TypeInv, PlaceInv
<1>3. /\ DOMAIN obj' = DOMAIN obj
      /\ \A i \in DOMAIN obj : /\ obj'[i].parent = obj[i].parent
                               /\ i # model.rows[k].id => obj'[i] = obj[i]
      /\ model'.parent = model.parent
      /\ DOMAIN model'.rows = DOMAIN model.rows
      /\ model'.rows[k].id = model.rows[k].id /\ model'.rows[k].name = Unknown
      /\ \A l \in DOMAIN model.rows : l # k => model'.rows[l] = model.rows[l]
  BY <1>1, <1>2, RenamedFacts
<1>4. \A l \in DOMAIN model.rows : model'.rows[l].id = model.rows[l].id
  BY <1>3
<1>5. RowsOK'
  <2>1. ASSUME NEW l \in DOMAIN model.rows, model.rows[l].id \in DOMAIN obj
        PROVE  model'.rows[l].name \in {Unknown, Missing, obj'[model.rows[l].id].name}
    <3>1. CASE l = k
      BY <1>3, <3>1
    <3>2. CASE l # k
      <4>1. model.rows[l].id # model.rows[k].id
        BY <1>1, <1>2, <3>2 DEF RowsOK
      <4> QED
        BY <1>2, <1>3, <2>1, <3>2, <4>1 DEF RowsOK
    <3> QED
      BY <3>1, <3>2
  <2> QED
    BY <1>2, <1>3, <1>4, <2>1 DEF RowsOK
<1>6. work' = Idle
  BY <1>1, TurnIdle DEF Inv2
<1> QED
  BY <1>3, <1>5, <1>6, IdlePlace DEF ShowOK

LEMMA CreateFolderPlace ==
  ASSUME Inv2, NEW name \in Names, CreateFolder(name)
  PROVE  ShowOK' /\ model'.parent = model.parent
<1> DEFINE rows == RowsLookedUp(name, 0)
           i == top + 1
           n == Len(model.rows) + 1
<1>1. /\ gui = "idle" /\ UNCHANGED work
      /\ \/ model' = [model EXCEPT !.rows = rows] /\ UNCHANGED device
         \/ /\ obj' = Created(model.parent, name, TRUE) /\ top' = top + 1
            /\ model' = [model EXCEPT !.rows = Append(rows, [id |-> i, name |-> Unknown])]
  BY DEF CreateFolder, Turn, worker
<1>2. DevOK /\ ModelOK /\ RowsOK /\ name \in NameSet /\ model.rows \in Seq(RowSet)
  BY NamesAssumption DEF Inv2, Inv1, TypeInv, PlaceInv, ModelOK
<1>3. /\ rows \in Seq(RowSet) /\ DOMAIN rows = DOMAIN model.rows /\ Len(rows) = Len(model.rows)
      /\ \A k \in DOMAIN model.rows : rows[k].id = model.rows[k].id /\ rows[k].name \in {model.rows[k].name, Named(0)[k]}
  BY <1>2, LookedUpFacts
<1>4. work' = Idle
  BY <1>1, TurnIdle DEF Inv2
<1>5. CASE model' = [model EXCEPT !.rows = rows] /\ UNCHANGED device
  <2>1. model'.parent = model.parent /\ model'.rows = RowsLookedUp(name, 0) /\ obj' = obj
    BY <1>2, <1>5 DEF ModelOK, device
  <2> QED
    BY <1>2, <1>4, <2>1, RowsRead, IdlePlace DEF ShowOK
<1>6. CASE /\ obj' = Created(model.parent, name, TRUE) /\ top' = top + 1
           /\ model' = [model EXCEPT !.rows = Append(rows, [id |-> i, name |-> Unknown])]
  <2> DEFINE r == [id |-> i, name |-> Unknown]
  <2>1. r.id = i /\ r.name = Unknown /\ r \in RowSet
    BY <1>2 DEF RowSet, DevOK
  <2>2. model' = [model EXCEPT !.rows = Append(rows, r)] /\ model \in [parent : Nat, rows : Seq(RowSet)]
    BY <1>2, <1>6 DEF ModelOK
  <2>3. model.parent \in 0..top /\ TRUE \in BOOLEAN /\ top \in Nat
        /\ \A k \in DOMAIN model.rows : model.rows[k].id <= top
    BY <1>2 DEF ModelOK, DevOK
  <2>4. OnlyNew /\ obj'[i] = [name |-> name, parent |-> model.parent, dir |-> TRUE]
    BY <1>2, <1>6, <2>3, OnlyNewFacts, CreatedOK
  <2>5. obj'[i].parent = model.parent /\ i > model.parent
    BY <2>3, <2>4
  <2>6. \A k \in DOMAIN model.rows : model.rows[k].id # i /\ ~(model.rows[k].id > top)
    BY <1>2, <2>3, RowFacts
  <2>7. \A k \in DOMAIN rows : model.rows[k].id \in DOMAIN obj =>
            rows[k].name \in {Unknown, Missing, obj[model.rows[k].id].name}
    <3> TAKE k \in DOMAIN rows
    <3> HAVE model.rows[k].id \in DOMAIN obj
    <3>1. model.rows[k].name \in {Unknown, Missing, obj[model.rows[k].id].name}
      BY <1>2, <1>3 DEF RowsOK
    <3>2. /\ model.rows[k].name # Unknown => Named(0)[k] = model.rows[k].name
          /\ model.rows[k].name = Unknown => Named(0)[k] \in {Missing, InfoOf(model.rows[k].id)}
      BY <1>2, <1>3, NamedFacts
    <3>3. InfoOf(model.rows[k].id) = obj[model.rows[k].id].name
      BY DEF InfoOf
    <3> QED
      BY <1>3, <3>1, <3>2, <3>3
  <2> HIDE DEF r, rows
  <2>8. /\ DOMAIN Append(rows, r) = DOMAIN rows \cup {n} /\ Append(rows, r)[n] = r /\ n \notin DOMAIN rows
        /\ \A k \in DOMAIN rows : Append(rows, r)[k] = rows[k]
    BY <1>3, <2>1
  <2> HIDE DEF n, i
  <2>9. model'.parent = model.parent /\ model'.rows = Append(rows, r)
    BY <2>2
  <2> DEFINE R == Append(rows, r)
  <2>10. model'.rows = R /\ DOMAIN R = DOMAIN rows \cup {n} /\ R[n] = r /\ n \notin DOMAIN rows
         /\ \A k \in DOMAIN rows : R[k] = rows[k]
    BY <2>8, <2>9
  <2> HIDE DEF R
  <2>11. \A k, l \in DOMAIN R : R[k].id = R[l].id => k = l
    BY <1>2, <1>3, <2>1, <2>6, <2>10 DEF RowsOK
  <2>12. ASSUME NEW k \in DOMAIN R
         PROVE  /\ R[k].id > model.parent
                /\ R[k].id \in DOMAIN obj' =>
                    /\ obj'[R[k].id].parent = model.parent
                    /\ R[k].name \in {Unknown, Missing, obj'[R[k].id].name}
    <3>1. CASE k = n
      BY <2>1, <2>5, <2>10, <3>1
    <3>2. CASE k \in DOMAIN rows
      BY <1>2, <1>3, <2>4, <2>6, <2>7, <2>10, <3>2 DEF RowsOK, OnlyNew
    <3> QED
      BY <2>10, <2>12, <3>1, <3>2
  <2>13. RowsOK'
    BY <2>9, <2>10, <2>11, <2>12 DEF RowsOK
  <2> QED
    BY <1>4, <2>9, <2>13, IdlePlace DEF ShowOK
<1> QED
  BY <1>1, <1>5, <1>6

LEMMA UploadAlbumPlace ==
  ASSUME Inv2, gui \in {"idle", "next"}, NEW js, Selection(js), Head(js).kind = "album", UploadAlbum(js)
  PROVE  ShowOK' /\ model'.parent = AlbumFolder(js) /\ AlbumFolder(js) >= 1
<1> DEFINE S == {i \in DOMAIN obj' : obj'[i].parent = AlbumFolder(js)}
           p == AlbumFolder(js)
<1>1. UNCHANGED work /\ model' = [parent |-> p, rows |-> RowsOf(S)]
  BY AlbumParts DEF Inv2, Inv1
<1>2. model'.parent = p /\ model'.rows = RowsOf(S)
  BY <1>1
<1>3. \A i : i \in S <=> i \in DOMAIN obj' /\ obj'[i].parent = p
  OBVIOUS
<1>4. DevOK' /\ (AlbumRow(js) # 0 => AlbumRow(js) \in DOMAIN model.rows /\ AlbumFolder(js) = model.rows[AlbumRow(js)].id)
  BY AlbumFacts DEF Inv2, Inv1
<1>5. p = AlbumFolder(js)
  OBVIOUS
<1> HIDE DEF S, p
<1>6. RowsOK'
  BY <1>2, <1>3, <1>4, RowsListed
<1>7. work' = Idle
  BY <1>1, TurnIdle DEF Inv2
<1>8. AlbumFolder(js) >= 1
  <2>1. top \in Nat /\ model.parent \in Nat /\ model.rows \in Seq(RowSet) /\ RowsOK
    BY DEF Inv2, Inv1, TypeInv, DevOK, ModelOK, PlaceInv
  <2>2. CASE AlbumRow(js) = 0
    BY <2>1, <2>2 DEF AlbumFolder
  <2>3. CASE AlbumRow(js) # 0
    BY <1>4, <2>1, <2>3, RowFacts DEF RowsOK
  <2> QED
    BY <2>2, <2>3
<1> QED
  BY <1>2, <1>5, <1>6, <1>7, <1>8, IdlePlace DEF ShowOK

LEMMA RepaintPlace ==
  ASSUME Inv2, NEW k, Repaint(k)
  PROVE  ShowOK' /\ model'.parent = model.parent /\ (work' = work \/ (work.at = "pause" /\ work'.at = "pause" /\ work'.cmd = work.cmd))
<1>1. /\ attached /\ gui = "dialog" /\ work.at \in {"idle", "pause"} /\ k \in DOMAIN model.rows
      /\ model' = [model EXCEPT !.rows[k].name = InfoOf(model.rows[k].id)]
      /\ work' = IF work.at = "pause" THEN [work EXCEPT !.between = TRUE] ELSE work
      /\ obj' = obj
  BY DEF Repaint, device
<1>2. TypeInv /\ ViewInv /\ RowsOK /\ WorkOK /\ DevOK
  BY DEF Inv2, Inv1, PlaceInv, TypeInv
<1>3. /\ model'.parent = model.parent
      /\ DOMAIN model'.rows = DOMAIN model.rows
      /\ model'.rows[k].id = model.rows[k].id /\ model'.rows[k].name = InfoOf(model.rows[k].id)
      /\ \A l \in DOMAIN model.rows : l # k => model'.rows[l] = model.rows[l]
  BY <1>1, <1>2, RepaintFacts
<1>4. RowsOK'
  <2>1. \A l \in DOMAIN model.rows : model'.rows[l].id = model.rows[l].id
    BY <1>3
  <2>2. \A l \in DOMAIN model.rows : model.rows[l].id \in DOMAIN obj =>
            model'.rows[l].name \in {Unknown, Missing, obj[model.rows[l].id].name}
    BY <1>2, <1>3 DEF RowsOK, InfoOf
  <2> QED
    BY <1>1, <1>2, <1>3, <2>1, <2>2 DEF RowsOK
<1>5. CASE work.at = "idle"
  <2>1. work' = work /\ work = Idle
    BY <1>1, <1>2, <1>5, WorkFacts
  <2> QED
    BY <1>3, <1>4, <2>1, IdlePlace DEF ShowOK
<1>6. CASE work.at = "pause"
  <2>1. job.kind \notin {"upload", "album"} /\ job.kind \in Kinds
    BY <1>1, <1>2 DEF ViewInv, Uploading, Busy, TypeInv, JobOK, QuietOK
  <2>2. work.cmd.op \in Commands(job.kind) /\ DOMAIN work = Parts
    <3>1. work.at \notin OfFinish /\ work.at # "idle"
      BY <1>6 DEF OfFinish
    <3> QED
      BY <1>2, <3>1, WorkFacts
  <2>3. work.cmd.op # "send"
    BY <2>1, <2>2, CommandsFacts DEF Kinds
  <2>4. work'.cmd = work.cmd /\ work'.at = "pause"
    BY <1>1, <1>6, <2>2 DEF Parts
  <2> QED
    BY <1>3, <1>4, <1>6, <2>3, <2>4 DEF ShowOK, StageOK, ReplacedInPlace, Sending
<1> QED
  BY <1>1, <1>5, <1>6

LEMMA AnswerPlace ==
  ASSUME Inv2, NEW yes \in BOOLEAN, NEW forAll \in BOOLEAN, Answer(yes, forAll)
  PROVE  ShowOK'
<1>1. /\ gui = "ask" /\ UNCHANGED <<obj, model, dirs>>
      /\ GoOn("delete") \/ work' = Idle
  BY DEF Answer, GoOn, device, maps
<1>2. WorkOK /\ StageOK /\ RowsOK /\ DevOK /\ ModelOK
  BY DEF Inv2, Inv1, TypeInv, PlaceInv
<1>3. work.at = "ask" /\ work.at # "idle" /\ Sending
  BY <1>1, <1>2 DEF Inv2, Inv1, TypeInv, QuietOK, WorkOK, Sending, OfSend, Idle
<1>4. RowsOK'
  BY <1>1, <1>2, OnlyNewFacts, RowsKept
<1>5. CASE GoOn("delete")
  <2>1. work'.at = "delete" /\ work'.id = work.id /\ path' = path
    BY <1>2, <1>3, <1>5, GoOnFacts DEF path
  <2>2. model.parent = dirs[Front(path)] /\ (work.id \in DOMAIN obj => obj[work.id].name = Last(path) /\ obj[work.id].parent = dirs[Front(path)])
    BY <1>2, <1>3 DEF StageOK, ReplacedInPlace, Placed
  <2> QED
    BY <1>1, <1>4, <2>1, <2>2 DEF ShowOK, StageOK, ReplacedInPlace, OfData
<1> QED
  BY <1>1, <1>4, <1>5, IdlePlace DEF ShowOK

LEMMA StillPlace ==
  ASSUME Inv2, UNCHANGED <<obj, model, work, dirs>>
  PROVE  ShowOK'
<1>1. RowsOK'
  BY OnlyNewFacts, RowsKept DEF Inv2, Inv1, TypeInv, PlaceInv
<1>2. StageOK'
  BY DEF Inv2, PlaceInv, StageOK, ReplacedInPlace, Sending, path
<1> QED
  BY <1>1, <1>2 DEF ShowOK

(* The job ends where it began.                                            *)
LEMMA WorkerRest ==
  ASSUME TypeInv, Worker
  PROVE  /\ events \subseteq events'
         /\ TakeCommand \/ (queue' = queue /\ work.at # "idle")
         /\ work.at \in OfFinish => Finish \/ SetCover \/ Finished \/ \E d : ChooseCover(d)
<1>1. TakeCommand => events' = events
  BY DEF TakeCommand, past
<1>2. TakeCommand => work.at = "idle"
  BY DEF TakeCommand, Idle
<1>3. EnterFolder => events' = events /\ queue' = queue /\ work.at = "enter"
  BY DEF EnterFolder, past
<1>4. FindFile => events' = events /\ queue' = queue /\ work.at = "find"
  BY DEF FindFile
<1>5. DeleteOld => events' = events /\ queue' = queue /\ work.at = "delete"
  BY DEF DeleteOld, past
<1>6. OpenFile => events' = events /\ queue' = queue /\ work.at = "open"
  BY DEF OpenFile, past
<1>7. Announce => events' = events /\ queue' = queue /\ work.at = "announce"
  BY DEF Announce, past
<1>8. BeginData => events' = events /\ queue' = queue /\ work.at = "pause"
  BY DEF BeginData, past
<1>9. SendData => events' = events /\ queue' = queue /\ work.at = "data"
  BY DEF SendData
<1>10. Relist => events' = events /\ queue' = queue /\ work.at = "relist"
  BY DEF Relist, past
<1>11. LookUpFolder => events' = events /\ queue' = queue /\ work.at = "lookup"
  BY DEF LookUpFolder, past
<1>12. MakeFolder => events' = events /\ queue' = queue /\ work.at = "make"
  BY DEF MakeFolder, past
<1>13. Prepare => events' = events /\ queue' = queue /\ work.at = "prepare"
  BY DEF Prepare
<1>14. CreateTrack => events' = events /\ queue' = queue /\ work.at = "create"
  BY DEF CreateTrack, past
<1>15. SendTrack => events' = events /\ queue' = queue /\ work.at = "data"
  BY DEF SendTrack
<1>16. AddTrack => events' = events /\ queue' = queue /\ work.at = "add"
  BY DEF AddTrack, past
<1>17. Download => events' = events /\ queue' = queue /\ work.at = "get"
  BY DEF Download, past
<1>18. SetTime => events' = events /\ queue' = queue /\ work.at = "mtime"
  BY DEF SetTime
<1>19. TimeNotThere => events \subseteq events' /\ queue' = queue /\ work.at = "mtime"
  BY DEF TimeNotThere, worker
<1>20. Finish => events' = events /\ queue' = queue /\ work.at = "finish"
  BY DEF Finish, past
<1>21. SetCover => events' = events /\ queue' = queue /\ work.at = "cover"
  BY DEF SetCover, past
<1>22. Finished => events' = events /\ queue' = queue /\ work.at = "covers"
  BY DEF Finished, FinishEnds, FinishStays, past
<1>23. \A d : ChooseCover(d) => events' = events /\ queue' = queue /\ work.at = "covers"
  BY DEF ChooseCover, past
<1> QED
  BY <1>1, <1>2, <1>3, <1>4, <1>5, <1>6, <1>7, <1>8, <1>9, <1>10, <1>11, <1>12, <1>13, <1>14, <1>15, <1>16,
     <1>17, <1>18, <1>19, <1>20, <1>21, <1>22, <1>23 DEF Worker, OfFinish

LEMMA TakeCommandHome ==
  ASSUME Inv2, TakeCommand
  PROVE  Home' = Home /\ work'.at \notin {"covers", "cover"}
<1> DEFINE cmd == Head(queue)
<1>1. /\ work = Idle /\ queue # <<>> /\ queue' = Tail(queue)
      /\ work' = IF FirstStep(cmd) = "idle" THEN Idle
                 ELSE [at |-> FirstStep(cmd), cmd |-> cmd, id |-> 0, between |-> FALSE, reset |-> FALSE]
  BY DEF TakeCommand
<1>2. /\ cmd.op \in {"finish", "import", "get", "send", "mkdir"} /\ Len(queue) \in Nat \ {0}
      /\ Len(queue) = 1 => cmd.op = "finish" /\ Tail(queue) = <<>>
      /\ Len(queue) # 1 => Tail(queue) # <<>>
      /\ Len(Tail(queue)) = Len(queue) - 1 /\ Tail(queue) \in Seq(JobCmds \cup Ends)
      /\ \A n \in DOMAIN Tail(queue) : Tail(queue)[n] = queue[n + 1]
      /\ cmd = queue[1]
  BY <1>1, HeadFacts DEF Inv2, Inv1
<1> HIDE DEF cmd
<1>3. FirstStep(cmd) \in {"idle", "finish", "prepare", "get", "enter", "find", "lookup"}
  BY <1>2, FirstStepFacts
<1>4. work'.at = FirstStep(cmd)
  BY <1>1 DEF Idle
<1>5. CASE Len(queue) = 1
  <2>1. FirstStep(cmd) = "finish" /\ queue' = <<>>
    BY <1>1, <1>2, <1>5, FirstStepFacts
  <2>2. work'.at = "finish" /\ work'.cmd = cmd
    BY <1>1, <2>1
  <2>3. Home' = work'.cmd.id
    BY <2>1, <2>2 DEF Home
  <2>4. Home = queue[1].id
    BY <1>1, <1>5 DEF Home
  <2> QED
    BY <1>2, <1>3, <1>4, <2>2, <2>3, <2>4
<1>6. CASE Len(queue) # 1
  <2> DEFINE q == Tail(queue)
             m == Len(queue) - 1
  <2>1. q # <<>> /\ queue' = q /\ Len(q) = m /\ m \in Nat /\ m # 0 /\ DOMAIN q = 1..m /\ m + 1 = Len(queue)
    BY <1>1, <1>2, <1>6
  <2>2. \A n \in DOMAIN q : q[n] = queue[n + 1]
    BY <1>2
  <2> HIDE DEF q, m
  <2>3. q[m] = queue[Len(queue)]
    BY <2>1, <2>2
  <2>4. Home' = queue'[Len(queue')].id
    BY <2>1 DEF Home
  <2>5. Home = queue[Len(queue)].id
    BY <1>1 DEF Home
  <2>6. queue'[Len(queue')] = queue[Len(queue)]
    BY <2>1, <2>3
  <2> QED
    BY <1>3, <1>4, <2>4, <2>5, <2>6
<1> QED
  BY <1>5, <1>6

LEMMA WorkerHome ==
  ASSUME Inv2, Worker
  PROVE  Home' = Home /\ (work'.at \in {"covers", "cover"} => model'.parent = Home')
<1>1. TypeInv /\ WorkOK /\ TypeInv' /\ LocOK /\ Alive
  BY WorkerKeepsType, WorkerShapeHolds DEF Inv2, Inv1, TypeInv, PlaceInv, WorkerShape
<1>2. CASE TakeCommand
  BY <1>2, TakeCommandHome
<1>3. CASE ~TakeCommand /\ work.at \notin OfFinish
  <2>1. queue' = queue /\ work.at # "idle"
    BY <1>1, <1>3, WorkerRest
  <2>2. Busy /\ ~done
    BY <1>1, <2>1, WorkFacts DEF TypeInv, QuietOK, Busy, Alive
  <2>3. queue # <<>>
    BY <1>1, <1>3, <2>2 DEF TypeInv, QuietOK
  <2>4. Home' = Home
    BY <2>1, <2>3 DEF Home
  <2>5. work'.at \notin OfFinish
    <3>1. SUFFICES ASSUME work'.at \in OfFinish PROVE FALSE
      OBVIOUS
    <3>2. work' # Idle
      BY <3>1 DEF Idle, OfFinish
    <3>3. Busy' /\ ~done'
      BY <1>1, <3>2 DEF TypeInv, QuietOK
    <3> QED
      BY <1>1, <2>1, <2>3, <3>1, <3>3 DEF TypeInv, QuietOK
  <2> QED
    BY <2>4, <2>5 DEF OfFinish
<1>4. CASE ~TakeCommand /\ work.at \in OfFinish
  <2>1. queue' = queue /\ work.at # "idle"
    BY <1>1, <1>4, WorkerRest
  <2>2. queue = <<>>
    <3>1. Busy /\ ~done
      BY <1>1, <2>1, WorkFacts DEF TypeInv, QuietOK, Busy, Alive
    <3> QED
      BY <1>1, <1>4, <3>1 DEF TypeInv, QuietOK
  <2>3. Home = work.cmd.id
    BY <2>1, <2>2 DEF Home
  <2>4. CASE Finish
    <3>1. model'.parent = work.cmd.id /\ work'.cmd = work.cmd /\ work'.at = "covers"
      BY <2>4, FinishPlace
    <3> QED
      BY <2>1, <2>2, <2>3, <3>1 DEF Home
  <2>5. CASE SetCover
    <3>1. work.at = "cover" /\ GoOn("covers") /\ model' = model
      BY <2>5 DEF SetCover
    <3>2. work'.cmd = work.cmd /\ work'.at = "covers"
      BY <1>1, <2>1, <3>1, GoOnFacts
    <3>3. model.parent = Home
      BY <1>1, <3>1 DEF LocOK
    <3>4. Home' = work'.cmd.id
      BY <2>1, <2>2, <3>2 DEF Home
    <3> QED
      BY <2>3, <3>1, <3>2, <3>3, <3>4
  <2>6. CASE Finished
    <3>1. work.at = "covers" /\ work' = Idle /\ model' = model
      BY <2>6 DEF Finished, FinishEnds, FinishStays
    <3>2. work'.at = "idle" /\ model.parent = Home
      BY <1>1, <3>1 DEF LocOK, Idle
    <3>3. Home' = model'.parent
      BY <2>1, <2>2, <3>2 DEF Home
    <3> QED
      BY <3>1, <3>2, <3>3
  <2>7. ASSUME NEW d, ChooseCover(d)
        PROVE  Home' = Home /\ (work'.at \in {"covers", "cover"} => model'.parent = Home')
    <3>1. work.at = "covers" /\ model' = model /\ model.parent = Home
      BY <1>1, <2>7 DEF ChooseCover, LocOK
    <3>2. work' = work \/ \E e : work' = [work EXCEPT !.at = "cover",
                          !.cmd = [op |-> "finish", id |-> @.id, path |-> covers[e].path, album |-> albums[d]]]
      BY <2>7 DEF ChooseCover
    <3>3. DOMAIN work = Parts
      BY <1>1, <2>1, WorkFacts
    <3>4. work'.cmd.id = work.cmd.id /\ work'.at \in {"covers", "cover"}
      <4>1. CASE work' = work
        BY <3>1, <4>1
      <4>2. ASSUME NEW e, work' = [work EXCEPT !.at = "cover",
                          !.cmd = [op |-> "finish", id |-> @.id, path |-> covers[e].path, album |-> albums[d]]]
            PROVE  work'.cmd.id = work.cmd.id /\ work'.at \in {"covers", "cover"}
        <5> DEFINE c == [op |-> "finish", id |-> work.cmd.id, path |-> covers[e].path, album |-> albums[d]]
        <5>1. work'.cmd = c /\ work'.at = "cover"
          BY <3>3, <4>2 DEF Parts
        <5>2. c.id = work.cmd.id
          OBVIOUS
        <5> QED
          BY <5>1, <5>2
      <4> QED
        BY <3>2, <4>1, <4>2
    <3>5. Home' = work'.cmd.id
      BY <2>1, <2>2, <3>4 DEF Home
    <3> QED
      BY <2>3, <3>1, <3>4, <3>5
  <2> QED
    BY <1>1, <1>4, <2>4, <2>5, <2>6, <2>7, WorkerRest
<1> QED
  BY <1>2, <1>3, <1>4

LEMMA WorkerLoc ==
  ASSUME Inv2, Worker
  PROVE  LocOK'
<1>1. /\ Alive /\ UNCHANGED <<job, history>> /\ gui' \in {gui, "ask"} /\ events \subseteq events'
  BY WorkerShapeHolds, WorkerRest DEF Inv2, Inv1, WorkerShape
<1>2. Home' = Home /\ (work'.at \in {"covers", "cover"} => model'.parent = Home')
  BY WorkerHome
<1>3. Busy /\ gui' # "idle"
  BY <1>1 DEF Alive, Busy
<1>4. LocOK
  BY DEF Inv2, PlaceInv
<1>5. \A h : Located(h) => Located(h)'
  BY <1>1 DEF Located, Shown
<1>6. Busy' /\ job'.kind # "album" => Located(Home)'
  BY <1>1, <1>2, <1>3, <1>4 DEF LocOK, Located, Shown
<1> QED
  BY <1>1, <1>2, <1>3, <1>4, <1>6 DEF LocOK

(* Turns that leave the worker and the folder on show alone.               *)
LEMMA TurnLoc ==
  ASSUME Inv2, UNCHANGED <<gui, work, queue, job, history>>, model'.parent = model.parent, events \subseteq events'
  PROVE  LocOK'
<1>1. LocOK
  BY DEF Inv2, PlaceInv
<1>2. Home' = Home
  BY DEF Home
<1>3. \A h : Located(h) => Located(h)'
  BY DEF Located, Shown
<1>4. (gui' = "idle" => Located(model.parent)') /\ (Busy' /\ job'.kind # "album" => Located(Home)')
  BY <1>1, <1>2 DEF LocOK, Located, Shown, Busy
<1> QED
  BY <1>1, <1>2, <1>4 DEF LocOK

(* A folder is shown that the history names.                               *)
LEMMA ShownLoc ==
  ASSUME Inv2, gui' = "idle", UNCHANGED work, work = Idle, model'.parent = Shown',
         \A n \in DOMAIN history' : history'[n] >= 1
  PROVE  LocOK'
<1>1. work'.at = "idle"
  BY DEF Idle
<1> QED
  BY <1>1 DEF LocOK, Located, Busy

LEMMA BeginLoc ==
  ASSUME Inv2, gui \in {"idle", "next"}, UNCHANGED work, NEW js, Selection(js), NEW home, Begin(js, home),
         \A n \in DOMAIN history' : history'[n] >= 1,
         Head(js).kind = "album" \/ home = Shown' \/ ("import" \in events' /\ home = Root)
  PROVE  LocOK'
<1>1. /\ gui' = "dialog" /\ job'.kind = Head(js).kind /\ Len(queue') = Len(Head(js).cmds) + 1
      /\ Len(Head(js).cmds) \in Nat /\ queue'[Len(queue')] = [op |-> "finish", id |-> home]
  BY BeginFacts DEF Inv2, Inv1
<1>2. queue' # <<>>
  <2>1. Len(queue') # 0 /\ Len(<<>>) = 0
    BY <1>1
  <2> QED
    BY <2>1
<1>3. Home' = home
  BY <1>1, <1>2 DEF Home
<1>4. work'.at = "idle"
  BY TurnIdle DEF Inv2, Idle
<1>5. Busy' /\ job'.kind # "album" => Located(Home)'
  BY <1>1, <1>3 DEF Located
<1> QED
  BY <1>1, <1>4, <1>5 DEF LocOK

LEMMA BackLoc ==
  ASSUME Inv2, Back
  PROVE  ShowOK' /\ LocOK'
<1> DEFINE p == IF Len(history) = 1 THEN Root ELSE history[Len(history) - 1]
<1>1. gui = "idle" /\ gui' = gui /\ UNCHANGED work /\ history # <<>> /\ history' = Front(history) /\ SetParent(p) /\ obj' = obj
  BY DEF Back, Turn, worker, device
<1>2. TypeInv /\ LocOK
  BY DEF Inv2, Inv1, PlaceInv
<1>3. /\ Len(history) \in Nat \ {0} /\ Front(history) \in Seq(Nat) /\ Len(Front(history)) = Len(history) - 1
      /\ \A n \in DOMAIN Front(history) : n \in DOMAIN history /\ Front(history)[n] = history[n]
      /\ p \in 0..top
  BY <1>1, <1>2, HistoryFacts
<1>4. p = Shown'
  <2> DEFINE f == Front(history)
  <2>1. f \in Seq(Nat) /\ Len(f) = Len(history) - 1 /\ history' = f /\ DOMAIN f = 1..Len(f)
        /\ \A n \in DOMAIN f : f[n] = history[n]
    BY <1>1, <1>3
  <2> HIDE DEF f
  <2>2. CASE Len(history) = 1
    <3>1. Len(f) = 0
      BY <2>1, <2>2
    <3>2. f = <<>>
      BY <2>1, <3>1, EmptySeq
    <3> QED
      BY <2>1, <2>2, <3>2 DEF Shown
  <2>3. CASE Len(history) # 1
    <3>1. Len(f) # 0 /\ f # <<>> /\ Len(f) \in DOMAIN f
      <4>1. Len(f) \in Nat \ {0} /\ Len(<<>>) = 0
        BY <1>3, <2>1, <2>3
      <4> QED
        BY <2>1, <4>1
    <3>2. Last(f) = history[Len(history) - 1]
      BY <2>1, <3>1 DEF Last
    <3> QED
      BY <2>1, <2>3, <3>1, <3>2 DEF Shown
  <2> QED
    BY <2>2, <2>3
<1>5. \A n \in DOMAIN history' : history'[n] >= 1
  BY <1>1, <1>2, <1>3 DEF LocOK
<1> HIDE DEF p
<1>6. ShowOK' /\ model'.parent = p
  BY <1>1, <1>3, ShowPlace
<1>7. work = Idle
  BY <1>1, TurnIdle DEF Inv2
<1> QED
  BY <1>1, <1>4, <1>5, <1>6, <1>7, ShownLoc

LEMMA EnterLoc ==
  ASSUME Inv2, NEW k, Enter(k)
  PROVE  ShowOK' /\ LocOK'
<1> DEFINE i == model.rows[k].id
<1>1. gui = "idle" /\ gui' = gui /\ UNCHANGED work /\ history' = Append(history, i) /\ SetParent(i) /\ obj' = obj
      /\ i \in DOMAIN obj
  BY DEF Enter, Turn, worker, device
<1> HIDE DEF i
<1>2. LocOK /\ history \in Seq(Nat) /\ i \in 0..top /\ i \in Nat /\ i >= 1
  BY <1>1 DEF Inv2, Inv1, PlaceInv, TypeInv, WindowOK, DevOK
<1>3. /\ history' \in Seq(Nat) /\ Len(history') = Len(history) + 1 /\ Len(history) \in Nat
      /\ history'[Len(history')] = i
      /\ \A n \in DOMAIN history' : history'[n] = i \/ (n \in DOMAIN history /\ history'[n] = history[n])
  BY <1>1, <1>2
<1>4. Shown' = i
  <2>1. Len(history') # 0 /\ Len(<<>>) = 0
    BY <1>3
  <2>2. history' # <<>>
    BY <2>1
  <2> QED
    BY <1>3, <2>2 DEF Shown, Last
<1>5. \A n \in DOMAIN history' : history'[n] >= 1
  BY <1>2, <1>3 DEF LocOK
<1>6. ShowOK' /\ model'.parent = i
  BY <1>1, <1>2, ShowPlace
<1>7. work = Idle
  BY <1>1, TurnIdle DEF Inv2
<1> QED
  BY <1>1, <1>4, <1>5, <1>6, <1>7, ShownLoc

LEMMA UploadAlbumLoc ==
  ASSUME Inv2, gui \in {"idle", "next"}, NEW js, Selection(js), Head(js).kind = "album", UploadAlbum(js)
  PROVE  ShowOK' /\ LocOK'
<1> DEFINE f == AlbumFolder(js)
<1>1. ShowOK' /\ model'.parent = f /\ f >= 1
  BY UploadAlbumPlace
<1>2. /\ UNCHANGED work /\ history' = Append(history, f)
      /\ Upload(js, f) \/ gui' = "stuck"
  BY AlbumParts DEF Inv2, Inv1
<1>3. f \in Nat
  BY AlbumFacts DEF Inv2, Inv1
<1> HIDE DEF f
<1>4. \A n \in DOMAIN history' : history'[n] >= 1
  <2>1. history \in Seq(Nat) /\ \A n \in DOMAIN history : history[n] >= 1
    BY DEF Inv2, Inv1, TypeInv, WindowOK, PlaceInv, LocOK
  <2>2. \A n \in DOMAIN history' : history'[n] = f \/ (n \in DOMAIN history /\ history'[n] = history[n])
    BY <1>2, <1>3, <2>1
  <2> QED
    BY <1>1, <2>1, <2>2
<1>5. CASE Upload(js, f)
  <2>1. Begin(js, f)
    BY <1>5 DEF Upload
  <2> QED
    BY <1>1, <1>2, <1>4, <2>1, BeginLoc
<1>6. CASE gui' = "stuck"
  <2>1. work'.at = "idle"
    BY <1>2, TurnIdle DEF Inv2, Idle
  <2> QED
    BY <1>1, <1>4, <1>6, <2>1 DEF LocOK, Busy
<1> QED
  BY <1>2, <1>5, <1>6

LEMMA ImportMusicLoc ==
  ASSUME Inv2, gui \in {"idle", "next"}, NEW js, Selection(js), ImportMusic(js)
  PROVE  ShowOK' /\ LocOK'
<1>1. /\ Begin(js, Root) /\ events' = events \cup {"import"} /\ UNCHANGED <<obj, model, work, dirs, history>>
  BY DEF ImportMusic, device, maps
<1>2. "import" \in events'
  BY <1>1
<1>3. \A n \in DOMAIN history' : history'[n] >= 1
  BY <1>1 DEF Inv2, PlaceInv, LocOK
<1> QED
  BY <1>1, <1>2, <1>3, StillPlace, BeginLoc

LEMMA StartLoc ==
  ASSUME Inv2, NEW js \in Jobs, StartUpload(js) \/ StartDownload(js)
  PROVE  ShowOK' /\ LocOK'
<1> DEFINE h == model.parent
<1>1. /\ gui = "idle" /\ Begin(js, h) /\ UNCHANGED <<obj, model, work, dirs, history, events>>
  BY DEF StartUpload, StartDownload, Turn, Upload, device, maps
<1>2. Located(h)
  BY <1>1 DEF Inv2, PlaceInv, LocOK
<1>3. h = Shown' \/ ("import" \in events' /\ h = Root)
  BY <1>1, <1>2 DEF Located, Shown
<1> HIDE DEF h
<1>4. \A n \in DOMAIN history' : history'[n] >= 1
  BY <1>1 DEF Inv2, PlaceInv, LocOK
<1> QED
  BY <1>1, <1>3, <1>4, StillPlace, BeginLoc, JobsAreSelections

LEMMA DialogClosesLoc ==
  ASSUME Inv2, DialogCloses
  PROVE  ShowOK' /\ LocOK'
<1> DEFINE p == IF Len(history) = 1 THEN Root ELSE history[Len(history) - 1]
<1>1. /\ gui = "dialog" /\ done /\ gui' = IF job.rest = <<>> THEN "idle" ELSE "next"
      /\ history' = IF job.kind = "album" THEN Front(history) ELSE history
      /\ CASE job.kind = "upload" -> SetParent(model.parent)
           [] job.kind = "album" -> SetParent(p)
           [] OTHER -> UNCHANGED <<model, cancelled, faults>>
      /\ UNCHANGED <<obj, job, work, dirs, queue, events>>
  BY DEF DialogCloses, worker, maps, device, past
<1>2. TypeInv /\ LocOK /\ AlbumOK /\ DevOK /\ ModelOK
  BY DEF Inv2, Inv1, TypeInv, PlaceInv
<1>3. work = Idle /\ queue = <<>> /\ Busy /\ work' = Idle
  BY <1>1, <1>2 DEF TypeInv, QuietOK, Busy
<1>4. Home = model.parent /\ work.at = "idle" /\ work'.at = "idle"
  BY <1>3 DEF Home, Idle
<1>5. gui' \in {"idle", "next"}
  BY <1>1
<1>6. CASE job.kind = "album"
  <2>1. history # <<>> /\ SetParent(p) /\ history' = Front(history)
    BY <1>1, <1>2, <1>3, <1>6 DEF AlbumOK
  <2>2. /\ Len(history) \in Nat \ {0} /\ Front(history) \in Seq(Nat) /\ Len(Front(history)) = Len(history) - 1
        /\ \A n \in DOMAIN Front(history) : n \in DOMAIN history /\ Front(history)[n] = history[n]
        /\ p \in 0..top
    BY <1>2, <2>1, HistoryFacts
  <2>3. p = Shown'
    <3> DEFINE f == Front(history)
    <3>1. f \in Seq(Nat) /\ Len(f) = Len(history) - 1 /\ history' = f /\ DOMAIN f = 1..Len(f)
          /\ \A n \in DOMAIN f : f[n] = history[n]
      BY <2>1, <2>2
    <3> HIDE DEF f
    <3>2. CASE Len(history) = 1
      <4>1. Len(f) = 0
        BY <3>1, <3>2
      <4>2. f = <<>>
        BY <3>1, <4>1, EmptySeq
      <4> QED
        BY <3>1, <3>2, <4>2 DEF Shown
    <3>3. CASE Len(history) # 1
      <4>1. Len(f) # 0 /\ f # <<>> /\ Len(f) \in DOMAIN f
        <5>1. Len(f) \in Nat \ {0} /\ Len(<<>>) = 0
          BY <2>2, <3>1, <3>3
        <5> QED
          BY <3>1, <5>1
      <4>2. Last(f) = history[Len(history) - 1]
        BY <3>1, <4>1 DEF Last
      <4> QED
        BY <3>1, <3>3, <4>1, <4>2 DEF Shown
    <3> QED
      BY <3>2, <3>3
  <2>4. \A n \in DOMAIN history' : history'[n] >= 1
    BY <1>2, <2>1, <2>2 DEF LocOK
  <2> HIDE DEF p
  <2>5. RowsOK' /\ model'.parent = p
    BY <1>1, <1>2, <2>1, <2>2, RowsFresh, SetParentFacts
  <2>6. StageOK'
    BY <1>3, IdlePlace
  <2> QED
    BY <1>4, <1>5, <2>3, <2>4, <2>5, <2>6 DEF ShowOK, LocOK, Located, Busy
<1>7. CASE job.kind # "album"
  <2>1. history' = history /\ Located(model.parent)
    BY <1>1, <1>2, <1>3, <1>4, <1>7 DEF LocOK
  <2>2. RowsOK' /\ model'.parent = model.parent
    <3>1. CASE job.kind = "upload"
      <4>1. SetParent(model.parent) /\ model.parent \in 0..top
        BY <1>1, <1>2, <3>1 DEF ModelOK, DevOK
      <4> QED
        BY <1>1, <1>2, <4>1, RowsFresh, SetParentFacts
    <3>2. CASE job.kind # "upload"
      <4>1. model' = model
        BY <1>1, <1>7, <3>2
      <4> QED
        BY <1>1, <4>1, StillPlace DEF ShowOK
    <3> QED
      BY <3>1, <3>2
  <2>3. StageOK'
    BY <1>3, IdlePlace
  <2>4. Located(model.parent)'
    BY <1>1, <2>1, <2>2 DEF Located, Shown
  <2> QED
    BY <1>2, <1>4, <1>5, <2>1, <2>2, <2>3, <2>4 DEF ShowOK, LocOK, Busy
<1> QED
  BY <1>6, <1>7

LEMMA RepaintLoc ==
  ASSUME Inv2, NEW k, Repaint(k)
  PROVE  ShowOK' /\ LocOK'
<1>1. /\ ShowOK' /\ model'.parent = model.parent
      /\ work' = work \/ (work.at = "pause" /\ work'.at = "pause" /\ work'.cmd = work.cmd)
  BY RepaintPlace
<1>2. UNCHANGED <<gui, queue, job, history, events>>
  BY DEF Repaint, window, past
<1>3. CASE work' = work
  BY <1>1, <1>2, <1>3, TurnLoc
<1>4. CASE work.at = "pause" /\ work'.at = "pause" /\ work'.cmd = work.cmd
  <2>1. LocOK
    BY DEF Inv2, PlaceInv
  <2>2. Home' = Home
    BY <1>1, <1>2, <1>4 DEF Home
  <2>3. (gui' = "idle" => Located(model.parent)') /\ (Busy' /\ job'.kind # "album" => Located(Home)')
    BY <1>1, <1>2, <2>1, <2>2 DEF LocOK, Located, Shown, Busy
  <2> QED
    BY <1>1, <1>2, <1>4, <2>1, <2>3 DEF LocOK
<1> QED
  BY <1>1, <1>3, <1>4

LEMMA AnswerLoc ==
  ASSUME Inv2, NEW yes \in BOOLEAN, NEW forAll \in BOOLEAN, Answer(yes, forAll)
  PROVE  LocOK'
<1>1. /\ gui = "ask" /\ gui' = "dialog" /\ UNCHANGED <<job, history, model, queue, events>>
      /\ GoOn("delete") \/ work' = Idle
  BY DEF Answer, GoOn
<1>2. TypeInv /\ WorkOK /\ LocOK
  BY DEF Inv2, Inv1, TypeInv, PlaceInv
<1>3. work.at = "ask" /\ work.at # "idle" /\ Busy /\ ~done /\ queue # <<>>
  <2>1. work.at = "ask" /\ work # Idle /\ Busy
    BY <1>1, <1>2 DEF TypeInv, QuietOK, Busy, Idle
  <2>2. work.at \notin OfFinish
    BY <2>1 DEF OfFinish
  <2> QED
    BY <1>2, <2>1, <2>2 DEF TypeInv, QuietOK
<1>4. work'.at \in {"delete", "idle"}
  BY <1>1, <1>2, <1>3, GoOnFacts DEF Idle
<1>5. Home' = Home
  BY <1>1, <1>3 DEF Home
<1>6. Busy' /\ job'.kind # "album" => Located(Home)'
  BY <1>1, <1>2, <1>3, <1>5 DEF LocOK, Located, Shown
<1> QED
  BY <1>1, <1>2, <1>4, <1>6 DEF LocOK

LEMMA AbortPressedLoc ==
  ASSUME Inv2, AbortPressed
  PROVE  ShowOK' /\ LocOK'
<1>1. /\ gui = "dialog" /\ gui' \in {"dialog", "crashed"} /\ events \subseteq events'
      /\ UNCHANGED <<obj, model, work, dirs, queue, job, history>>
  BY DEF AbortPressed, device, worker, maps
<1>2. LocOK
  BY DEF Inv2, PlaceInv
<1>3. Home' = Home
  BY <1>1 DEF Home
<1>4. Busy' /\ job'.kind # "album" => Located(Home)'
  BY <1>1, <1>2, <1>3 DEF LocOK, Located, Shown, Busy
<1> QED
  BY <1>1, <1>2, <1>3, <1>4, StillPlace DEF LocOK

LEMMA Inv2Next ==
  ASSUME Inv2, [Next]_vars
  PROVE  Inv2'
<1>0. Inv1'
  BY Inv1Next DEF Inv2
<1>1. CASE Worker
  BY <1>0, <1>1, WorkerPlace, WorkerLoc DEF Inv2, PlaceInv, ShowOK
<1>2. CASE DialogCloses
  BY <1>0, <1>2, DialogClosesLoc DEF Inv2, PlaceInv, ShowOK
<1>3. CASE NextSelected
  <2>1. gui = "next" /\ IF Head(job.rest).kind = "album" THEN UploadAlbum(job.rest) ELSE ImportMusic(job.rest)
    BY <1>3 DEF NextSelected
  <2>2. Selection(job.rest)
    BY <2>1, RestIsSelection DEF Inv2, Inv1
  <2> DEFINE js == job.rest
  <2>3. Selection(js) /\ IF Head(js).kind = "album" THEN UploadAlbum(js) ELSE ImportMusic(js)
    BY <2>1, <2>2
  <2> HIDE DEF js
  <2>4. ShowOK' /\ LocOK'
    BY <2>1, <2>3, UploadAlbumLoc, ImportMusicLoc
  <2> QED
    BY <1>0, <2>4 DEF Inv2, PlaceInv, ShowOK
<1>4. ASSUME NEW yes \in BOOLEAN, NEW forAll \in BOOLEAN, Answer(yes, forAll)
      PROVE  Inv2'
  BY <1>0, <1>4, AnswerPlace, AnswerLoc DEF Inv2, PlaceInv, ShowOK
<1>5. ASSUME NEW k \in DOMAIN model.rows, Enter(k)
      PROVE  Inv2'
  BY <1>0, <1>5, EnterLoc DEF Inv2, PlaceInv, ShowOK
<1>6. ASSUME NEW k \in DOMAIN model.rows, DeleteSelected(k)
      PROVE  Inv2'
  <2>1. UNCHANGED <<gui, work, queue, job, history, events>>
    BY <1>6 DEF DeleteSelected, Selected, Turn, worker, past
  <2> QED
    BY <1>0, <1>6, <2>1, DeleteSelectedPlace, TurnLoc DEF Inv2, PlaceInv, ShowOK
<1>7. ASSUME NEW k \in DOMAIN model.rows, Repaint(k)
      PROVE  Inv2'
  BY <1>0, <1>7, RepaintLoc DEF Inv2, PlaceInv, ShowOK
<1>8. ASSUME NEW name \in Names, CreateFolder(name)
      PROVE  Inv2'
  <2>1. UNCHANGED <<gui, work, queue, job, history, events>>
    BY <1>8 DEF CreateFolder, Turn, worker, past
  <2> QED
    BY <1>0, <1>8, <2>1, CreateFolderPlace, TurnLoc DEF Inv2, PlaceInv, ShowOK
<1>9. ASSUME NEW name \in Names, NEW k \in DOMAIN model.rows, RenameSelected(k, name)
      PROVE  Inv2'
  <2>1. UNCHANGED <<gui, work, queue, job, history>> /\ events \subseteq events'
    BY <1>9 DEF RenameSelected, Selected, Turn, worker
  <2> QED
    BY <1>0, <1>9, <2>1, RenameSelectedPlace, TurnLoc DEF Inv2, PlaceInv, ShowOK
<1>10. CASE Back
  BY <1>0, <1>10, BackLoc DEF Inv2, PlaceInv, ShowOK
<1>11. ASSUME NEW js \in Jobs, StartUpload(js) \/ StartDownload(js)
       PROVE  Inv2'
  BY <1>0, <1>11, StartLoc DEF Inv2, PlaceInv, ShowOK
<1>12. ASSUME NEW js \in Jobs, StartAlbum(js)
       PROVE  Inv2'
  <2>1. gui = "idle" /\ UploadAlbum(js) /\ Head(js).kind = "album"
    BY <1>12 DEF StartAlbum, Turn
  <2> QED
    BY <1>0, <2>1, UploadAlbumLoc, JobsAreSelections DEF Inv2, PlaceInv, ShowOK
<1>13. ASSUME NEW js \in Jobs, StartImport(js)
       PROVE  Inv2'
  <2>1. gui = "idle" /\ ImportMusic(js)
    BY <1>13 DEF StartImport, Turn
  <2> QED
    BY <1>0, <2>1, ImportMusicLoc, JobsAreSelections DEF Inv2, PlaceInv, ShowOK
<1>14. CASE AbortPressed
  BY <1>0, <1>14, AbortPressedLoc DEF Inv2, PlaceInv, ShowOK
<1>15. CASE UNCHANGED vars
  <2>1. UNCHANGED <<obj, model, gui, work, dirs, queue, job, history, events>>
    BY <1>15 DEF vars, device, window, worker, maps, past
  <2>2. ShowOK' /\ LocOK'
    BY <2>1, StillPlace, TurnLoc
  <2> QED
    BY <1>0, <2>2 DEF Inv2, PlaceInv, ShowOK
<1> QED
  BY <1>1, <1>2, <1>3, <1>4, <1>5, <1>6, <1>7, <1>8, <1>9, <1>10, <1>11, <1>12, <1>13, <1>14, <1>15
     DEF Next, Replies, Rest

LEMMA Inv2Init ==
  ASSUME Init
  PROVE  Inv2
<1>1. TypeInv
  BY InitType
<1>2. gui = "idle" /\ work.at = "idle" /\ history = <<>> /\ model = [parent |-> Root, rows |-> Listing(Root)]
  BY DEF Init, Idle
<1>3. Inv1
  BY <1>1, <1>2 DEF Inv1, AlbumOK, ViewInv, Uploading, Busy
<1>4. RowsOK
  BY <1>1, <1>2, ListingFacts DEF RowsOK, TypeInv
<1>5. StageOK
  BY <1>2 DEF StageOK, Sending, ReplacedInPlace
<1>6. LocOK
  <2>1. DOMAIN <<>> = {}
    OBVIOUS
  <2> QED
    BY <1>2, <2>1 DEF LocOK, Located, Shown, Busy
<1> QED
  BY <1>3, <1>4, <1>5, <1>6 DEF Inv2, PlaceInv

(* The rows on show, the file at work and the folder of the job belong     *)
(* together, whoever filled the model (mtpobjectsmodel.cpp).               *)
THEOREM PlacesHold == Spec => []Inv2
BY Inv2Init, Inv2Next, PTL DEF Spec

(* What is deleted for a new file is in the folder the file is for and has *)
(* its name, although it was found in rows that two threads fill           *)
(* (uploadFile in commandqueue.cpp).                                       *)
THEOREM OldFilesReplacedInPlace == Spec => []ReplacedInPlace
<1>1. Inv2 => ReplacedInPlace
  BY DEF Inv2, PlaceInv, StageOK
<1> QED
  BY <1>1, PlacesHold, PTL

(* A job leaves the folder on show as it was (finish in commandqueue.cpp), *)
(* unless it was an import.                                                *)
THEOREM LocationAlwaysKept == Spec => []LocationKept
<1>1. Inv2 => LocationKept
  BY DEF Inv2, PlaceInv, LocOK, Located, LocationKept
<1> QED
  BY <1>1, PlacesHold, PTL

(* Type correctness of the model.                                          *)
THEOREM TypesOK == Spec => []TypeOK
<1>1. ASSUME Inv2
      PROVE  TypeOK
  <2>1. TypeInv /\ RowsOK /\ LocOK /\ top \in Nat
    BY <1>1 DEF Inv2, Inv1, PlaceInv, TypeInv, DevOK
  <2>2. \A i \in DOMAIN obj : i \in 1 .. top /\ obj[i].parent \in 0 .. i - 1
    BY <2>1 DEF TypeInv, DevOK
  <2>3. /\ gui \in {"idle", "dialog", "ask", "next", "stuck", "crashed"} /\ turns \in 0 .. MaxTurns
        /\ answer \in {"none", "yes", "no"} /\ faults \in 0 .. MaxFaults
        /\ \A b \in {attached, aborted, cancelled, done, pressed} : b \in BOOLEAN
    BY <2>1 DEF TypeInv, WindowOK, FlagsOK
  <2>4. Range(history) \subseteq 1 .. top
    BY <2>1 DEF TypeInv, WindowOK, LocOK, Range
  <2>5. model.parent \in 0 .. top /\ \A k \in DOMAIN model.rows : model.rows[k].id \in 1 .. top
    <3>1. model.parent \in Nat /\ model.parent <= top /\ model.rows \in Seq(RowSet)
          /\ \A k \in DOMAIN model.rows : model.rows[k].id <= top
      BY <2>1 DEF TypeInv, ModelOK
    <3> QED
      BY <2>1, <3>1, RowFacts DEF RowsOK
  <2>6. work.at \in {"idle", "enter", "find", "ask", "delete", "open", "announce", "pause", "data",
                    "relist", "lookup", "make", "prepare", "create", "add", "get", "mtime", "finish", "covers",
                    "cover"}
    BY <2>1 DEF TypeInv, WorkOK, Idle, OfSend, OfData, OfMkdir, OfImport, OfGet, OfFinish
  <2>7. Range(dirs) \subseteq 0 .. top
    BY <2>1 DEF TypeInv, MapsOK, Range
  <2> QED
    BY <2>2, <2>3, <2>4, <2>5, <2>6, <2>7 DEF TypeOK
<1> QED
  BY <1>1, PlacesHold, PTL

----------------------------------------------------------------------------
(* Folders: what _directories says is so.                                  *)

Inner(d) == Len(d) > 0 /\ Front(d) \in DOMAIN dirs
Witness(i) == \E e \in DOMAIN dirs : Inner(e) /\ dirs[e] = i /\ obj[i].parent = dirs[Front(e)]
Rooted(r) == \A d \in DOMAIN dirs : d # r => Inner(d) /\ Len(d) > Len(r)
OnShow == Uploading => model.parent >= Home

(* The folders of the job hang together, below the one it began in.        *)
TreeOK ==
  /\ dirs # <<>> => Uploading /\ ~done /\ \E r \in DOMAIN dirs : Rooted(r)
  /\ \A d \in DOMAIN dirs :
       /\ dirs[d] >= Home
       /\ Inner(d) /\ dirs[d] \in DOMAIN obj =>
            obj[dirs[d]].name = Last(d) /\ (dirs[d] > job.base => Witness(dirs[d]))

(* A folder is made once.                                                  *)
OnceOK ==
  /\ \A n \in DOMAIN queue : queue[n].op = "mkdir" =>
       /\ ~(queue[n].path \in DOMAIN dirs /\ Inner(queue[n].path))
       /\ work.at \in OfMkdir => queue[n].path # path
  /\ \A m, n \in DOMAIN queue :
       queue[n].op = "mkdir" /\ queue[m].op = "mkdir" /\ queue[n].path = queue[m].path => m = n
  /\ work.at \in OfMkdir => path \notin DOMAIN dirs

(* What the job made is a folder it knows, or a file.                      *)
MadeOK ==
  Uploading /\ ~done => \A i \in DOMAIN obj : i > job.base =>
     IF obj[i].dir THEN i = Home \/ Witness(i) ELSE obj[i].name \in FileNames

DirsInv == OnShow /\ TreeOK /\ OnceOK /\ MadeOK

Inv3 == Inv2 /\ DirsInv
NewFiles == \A i \in DOMAIN obj' \ DOMAIN obj : ~obj'[i].dir /\ obj'[i].name \in FileNames

LEMMA NameFacts ==
  /\ Cover \in FileNames /\ Names \subseteq FolderNames
  /\ \A c \in JobCmds : c.op = "send" => Last(c.path) \in FileNames
  /\ \A c \in JobCmds : c.op = "mkdir" => Last(c.path) \in FolderNames
  /\ \A j \in JobItems : j.kind = "album" => j.name \in FolderNames
  /\ \A w \in Worlds : \A i \in DOMAIN w : w[i].dir => w[i].name \in FolderNames
<1>1. Cover \in FileNames /\ \A c \in JobCmds : c.op = "send" => Last(c.path) \in FileNames
  BY DEF FileNames
<1>2. Names \subseteq NewNames /\ \A c \in JobCmds : c.op = "mkdir" => Last(c.path) \in NewNames
  BY DEF NewNames
<1>3. \A j \in JobItems : j.kind = "album" => j.name \in NewNames
  BY DEF NewNames
<1>4. \A w \in Worlds : \A i \in DOMAIN w : w[i].dir => w[i].name \in DirNames(w)
  BY DEF DirNames
<1>5. \A w \in Worlds : DirNames(w) \subseteq FolderNames
  BY DEF FolderNames
<1>6. NewNames \subseteq FolderNames
  BY DEF FolderNames
<1> QED
  BY <1>1, <1>2, <1>3, <1>4, <1>5, <1>6

(* Steps that know no new folder.                                          *)
LEMMA DirsKept ==
  ASSUME Inv3, OnlyNew, NewFiles, UNCHANGED <<dirs, job, queue, done>>, Home' = Home, Busy, Busy', OnShow',
         work'.at \in OfMkdir => work.at \in OfMkdir /\ path' = path
  PROVE  DirsInv'
<1>1. DirsInv /\ DevOK /\ MapsOK /\ top \in Nat
  BY DEF Inv3, Inv2, Inv1, TypeInv, DevOK
<1>2. Uploading' <=> Uploading
  BY DEF Uploading
<1>3. \A d : Inner(d)' <=> Inner(d)
  BY DEF Inner
<1>4. \A i \in DOMAIN obj' : i \in DOMAIN obj /\ obj'[i] = obj[i] => (Witness(i)' <=> Witness(i))
  BY <1>3 DEF Witness
<1>5. \A d \in DOMAIN dirs : dirs[d] \in DOMAIN obj' => dirs[d] \in DOMAIN obj /\ obj'[dirs[d]] = obj[dirs[d]]
  <2> TAKE d \in DOMAIN dirs
  <2>1. dirs[d] \in 0..top
    BY <1>1 DEF MapsOK
  <2>2. ~(dirs[d] > top)
    BY <1>1, <2>1
  <2> QED
    BY <2>2 DEF OnlyNew
<1>6. TreeOK'
  <2>1. dirs' # <<>> => Uploading' /\ ~done' /\ \E r \in DOMAIN dirs' : Rooted(r)'
    BY <1>1, <1>2, <1>3 DEF DirsInv, TreeOK, Rooted
  <2>2. ASSUME NEW d \in DOMAIN dirs'
        PROVE  /\ dirs'[d] >= Home'
               /\ Inner(d)' /\ dirs'[d] \in DOMAIN obj' =>
                    obj'[dirs'[d]].name = Last(d) /\ (dirs'[d] > job'.base => Witness(dirs[d])')
    <3>1. d \in DOMAIN dirs /\ dirs'[d] = dirs[d] /\ dirs[d] >= Home
      BY <1>1, <2>2 DEF DirsInv, TreeOK
    <3>2. ASSUME Inner(d), dirs[d] \in DOMAIN obj'
          PROVE  obj'[dirs[d]].name = Last(d) /\ (dirs[d] > job.base => Witness(dirs[d])')
      <4>1. dirs[d] \in DOMAIN obj /\ obj'[dirs[d]] = obj[dirs[d]]
        BY <1>5, <3>1, <3>2
      <4>2. obj[dirs[d]].name = Last(d) /\ (dirs[d] > job.base => Witness(dirs[d]))
        BY <1>1, <3>1, <3>2, <4>1 DEF DirsInv, TreeOK
      <4>3. Witness(dirs[d]) => Witness(dirs[d])'
        BY <1>3, <4>1 DEF Witness
      <4> QED
        BY <4>1, <4>2, <4>3
    <3> QED
      BY <1>3, <3>1, <3>2
  <2> QED
    BY <2>1, <2>2 DEF TreeOK
<1>7. OnceOK'
  BY <1>1, <1>3 DEF DirsInv, OnceOK
<1>8. MadeOK'
  <2>1. SUFFICES ASSUME Uploading', ~done', NEW i \in DOMAIN obj', i > job.base
                PROVE  IF obj'[i].dir THEN i = Home' \/ Witness(i)' ELSE obj'[i].name \in FileNames
    BY DEF MadeOK
  <2>2. CASE i \in DOMAIN obj /\ obj'[i] = obj[i]
    <3>1. IF obj[i].dir THEN i = Home \/ Witness(i) ELSE obj[i].name \in FileNames
      BY <1>1, <1>2, <2>1, <2>2 DEF DirsInv, MadeOK
    <3> QED
      BY <1>4, <2>2, <3>1
  <2>3. CASE i \notin DOMAIN obj
    BY <2>3 DEF NewFiles
  <2>4. i \in DOMAIN obj => ~(i > top)
    BY <1>1 DEF DevOK
  <2> QED
    BY <2>2, <2>3, <2>4 DEF OnlyNew
<1> QED
  BY <1>6, <1>7, <1>8 DEF DirsInv

(* No job, no folders.                                                     *)
LEMMA DirsQuiet ==
  ASSUME TypeInv', ~Busy' \/ done'
  PROVE  DirsInv'
<1>1. queue' = <<>> /\ work' = Idle /\ dirs' = <<>>
  BY DEF TypeInv, QuietOK
<1>2. DOMAIN <<>> = {} /\ work'.at = "idle" /\ Home' = model'.parent
  BY <1>1 DEF Idle, Home
<1>3. TreeOK' /\ OnceOK'
  BY <1>1, <1>2 DEF TreeOK, OnceOK, OfMkdir
<1>4. MadeOK'
  BY DEF MadeOK, Uploading
<1>5. model'.parent >= Home'
  <2>1. model'.parent \in Nat
    BY DEF TypeInv, ModelOK
  <2> QED
    BY <1>2, <2>1
<1> QED
  BY <1>3, <1>4, <1>5 DEF DirsInv, OnShow

(* Steps of the worker that know no new folder.                            *)
LEMMA StepDirs ==
  ASSUME Inv3, Worker, UNCHANGED <<dirs, queue, done>>, OnlyNew, NewFiles,
         model'.parent = model.parent \/ model'.parent >= Home,
         work'.at \in OfMkdir => work.at \in OfMkdir /\ path' = path
  PROVE  DirsInv'
<1>1. Alive /\ UNCHANGED job /\ gui' \in {gui, "ask"} /\ Home' = Home
  BY WorkerShapeHolds, WorkerHome DEF Inv3, Inv2, Inv1, WorkerShape
<1>2. Busy /\ Busy' /\ (Uploading' <=> Uploading)
  BY <1>1 DEF Alive, Busy, Uploading
<1>3. OnShow'
  BY <1>1, <1>2 DEF Inv3, DirsInv, OnShow
<1> QED
  BY <1>1, <1>2, <1>3, DirsKept

LEMMA DeviceStays ==
  ASSUME Inv3
  PROVE  /\ obj' = obj => OnlyNew /\ NewFiles
         /\ \A i : obj' = Deleted(i) => OnlyNew /\ NewFiles
<1>1. DevOK
  BY DEF Inv3, Inv2, Inv1, TypeInv
<1>2. obj' = obj => NewFiles
  BY DEF NewFiles
<1>3. \A i : obj' = Deleted(i) => NewFiles
  BY DeletedFacts DEF NewFiles
<1> QED
  BY <1>1, <1>2, <1>3, OnlyNewFacts

LEMMA EnterFolderDirs ==
  ASSUME Inv3, EnterFolder
  PROVE  DirsInv'
<1> DEFINE p == dirs[Front(path)]
<1>1. work.at = "enter" /\ SetParent(p) /\ GoOn("find") /\ UNCHANGED <<obj, dirs, queue, done>> /\ Worker
  BY DEF EnterFolder, device, maps, Worker
<1>2. TypeInv /\ WorkOK /\ DevOK /\ TreeOK
  BY DEF Inv3, Inv2, Inv1, TypeInv, DirsInv
<1>3. work.at # "idle" /\ work.cmd.op = "send" /\ work'.at = "find"
  BY <1>1, <1>2, GoOnFacts DEF WorkOK, OfSend, Idle
<1>4. Front(path) \in DOMAIN dirs /\ p \in 0..top
  BY <1>2, <1>3, TargetFacts
<1>5. p >= Home
  BY <1>2, <1>4 DEF TreeOK
<1> HIDE DEF p
<1>6. model'.parent = p
  BY <1>1, <1>2, <1>4, SetParentFacts
<1> QED
  BY <1>1, <1>3, <1>5, <1>6, StepDirs, DeviceStays DEF OfMkdir

LEMMA FindFileDirs ==
  ASSUME Inv3, FindFile
  PROVE  DirsInv'
<1>1. /\ work.at = "find" /\ UNCHANGED <<obj, dirs, queue, done>> /\ Worker
  BY DEF FindFile, device, maps, Worker
<1>2. PICK bad : LET k == Found(Last(path), bad)
                 IN  /\ LookUp(Last(path), bad)
                     /\ IF k = 0 THEN GoOn("open") /\ UNCHANGED <<gui, refused>>
                        ELSE IF answer = "no"
                        THEN work' = Idle /\ refused' = refused \cup {path} /\ UNCHANGED gui
                        ELSE /\ work' = [work EXCEPT !.id = model.rows[k].id,
                                             !.at = IF answer = "yes" THEN "delete" ELSE "ask"]
                             /\ gui' = IF answer = "yes" THEN gui ELSE "ask"
                             /\ UNCHANGED refused
  BY DEF FindFile
<1>3. TypeInv /\ WorkOK /\ DevOK /\ ModelOK
  BY DEF Inv3, Inv2, Inv1, TypeInv
<1>4. DOMAIN work = Parts /\ work.at # "idle"
  BY <1>1, <1>3, WorkFacts
<1>5. \/ work' = Idle \/ GoOn("open")
      \/ \E i : \E a \in {"delete", "ask"} : work' = [work EXCEPT !.id = i, !.at = a]
  BY <1>2
<1>6. work'.at \in {"idle", "open", "delete", "ask"}
  <2>1. ASSUME NEW i, NEW a \in {"delete", "ask"}, work' = [work EXCEPT !.id = i, !.at = a]
        PROVE  work'.at = a
    BY <1>4, <2>1 DEF Parts
  <2>2. Idle.at = "idle"
    BY DEF Idle
  <2> QED
    BY <1>3, <1>4, <1>5, <2>1, <2>2, GoOnFacts
<1>7. model'.parent = model.parent
  BY <1>2, <1>3, LookUpFacts
<1> QED
  BY <1>1, <1>6, <1>7, StepDirs, DeviceStays DEF OfMkdir

LEMMA DeleteOldDirs ==
  ASSUME Inv3, DeleteOld
  PROVE  DirsInv'
<1>1. /\ work.at = "delete" /\ UNCHANGED <<model, dirs, queue, done>> /\ Worker
      /\ obj' = obj \/ obj' = Deleted(work.id)
      /\ work' = Idle \/ work' = [work EXCEPT !.at = "open", !.reset = TRUE]
  BY DEF DeleteOld, maps, Worker
<1>2. DOMAIN work = Parts
  BY <1>1, WorkFacts DEF Inv3, Inv2, Inv1, TypeInv
<1>3. work'.at \in {"idle", "open"}
  <2>1. work' = Idle => work'.at = "idle"
    BY DEF Idle
  <2>2. work' = [work EXCEPT !.at = "open", !.reset = TRUE] => work'.at = "open"
    BY <1>2 DEF Parts
  <2> QED
    BY <1>1, <2>1, <2>2
<1> QED
  BY <1>1, <1>3, StepDirs, DeviceStays DEF OfMkdir

LEMMA AnnounceDirs ==
  ASSUME Inv3, Announce
  PROVE  DirsInv'
<1> DEFINE p == dirs[Front(path)]
           n == Last(path)
<1>1. /\ work.at = "announce" /\ UNCHANGED <<model, dirs, queue, done>> /\ Worker
      /\ \/ /\ obj' = Created(p, n, FALSE)
            /\ work' = [work EXCEPT !.at = "pause", !.id = top + 1]
         \/ work' = Idle /\ obj' = obj
  BY DEF Announce, maps, Worker, device
<1>2. TypeInv /\ WorkOK /\ DevOK
  BY DEF Inv3, Inv2, Inv1, TypeInv
<1>3. DOMAIN work = Parts /\ work.at # "idle" /\ work.cmd.op = "send"
  BY <1>1, <1>2, WorkFacts DEF WorkOK, OfSend, Idle
<1>4. work'.at \in {"idle", "pause"}
  <2>1. work' = Idle => work'.at = "idle"
    BY DEF Idle
  <2>2. work' = [work EXCEPT !.at = "pause", !.id = top + 1] => work'.at = "pause"
    BY <1>3 DEF Parts
  <2> QED
    BY <1>1, <2>1, <2>2
<1>5. n \in FileNames
  <2>1. work.cmd \in JobCmds
    BY <1>2, <1>3, TargetFacts
  <2> QED
    BY <1>3, <2>1, NameFacts DEF path
<1> HIDE DEF p, n
<1>6. OnlyNew /\ NewFiles
  <2>1. CASE obj' = obj
    BY <2>1, DeviceStays
  <2>2. CASE obj' = Created(p, n, FALSE)
    <3>1. \A i \in DOMAIN obj' \ DOMAIN obj : obj'[i] = [name |-> n, parent |-> p, dir |-> FALSE]
      BY <2>2 DEF Created, Put
    <3>2. \A i \in DOMAIN obj' \ DOMAIN obj : ~obj'[i].dir /\ obj'[i].name = n
      BY <3>1
    <3> QED
      BY <1>2, <1>5, <2>2, <3>2, OnlyNewFacts DEF NewFiles
  <2> QED
    BY <1>1, <2>1, <2>2
<1> QED
  BY <1>1, <1>4, <1>6, StepDirs DEF OfMkdir

LEMMA SendDataDirs ==
  ASSUME Inv3, SendData
  PROVE  DirsInv'
<1> DEFINE p == dirs[Front(path)]
<1>1. /\ work.at = "data" /\ UNCHANGED <<dirs, queue, done>> /\ Worker
      /\ obj' = obj \/ obj' = Deleted(work.id)
      /\ model' = RowAdded(p, work.id) \/ model' = model
      /\ work' = Idle \/ GoOn("relist")
  BY DEF SendData, maps, Worker
<1>2. WorkOK /\ ModelOK /\ work.at # "idle" /\ work.id \in Nat
  BY <1>1, WorkFacts DEF Inv3, Inv2, Inv1, TypeInv
<1> HIDE DEF p
<1>3. work'.at \in {"idle", "relist"}
  BY <1>1, <1>2, GoOnFacts DEF Idle
<1>4. model'.parent = model.parent
  BY <1>1, <1>2, RowAddedFacts
<1> QED
  BY <1>1, <1>3, <1>4, StepDirs, DeviceStays DEF OfMkdir

(* Those that leave the device and the folder on show alone.               *)
LEMMA OthersDirs ==
  ASSUME Inv3, OpenFile \/ BeginData \/ Relist \/ Prepare \/ CreateTrack \/ SendTrack \/ AddTrack \/ Download
               \/ TimeNotThere \/ SetTime \/ Finish \/ SetCover \/ \E d \in DOMAIN albums : ChooseCover(d)
  PROVE  DirsInv'
<1>1. TypeInv /\ WorkOK /\ DevOK /\ ModelOK /\ work.at # "idle"
  <2>1. TypeInv /\ Worker
    BY DEF Inv3, Inv2, Inv1, Worker
  <2>2. ~TakeCommand
    <3>1. OpenFile \/ BeginData \/ Relist \/ Prepare \/ CreateTrack \/ SendTrack => work.at # "idle"
      BY DEF OpenFile, BeginData, Relist, Prepare, CreateTrack, SendTrack
    <3>2. AddTrack \/ Download \/ TimeNotThere \/ SetTime \/ Finish \/ SetCover => work.at # "idle"
      BY DEF AddTrack, Download, TimeNotThere, SetTime, Finish, SetCover
    <3>3. \A d : ChooseCover(d) => work.at # "idle"
      BY DEF ChooseCover
    <3>4. TakeCommand => work.at = "idle"
      BY DEF TakeCommand, Idle
    <3> QED
      BY <3>1, <3>2, <3>3, <3>4
  <2> QED
    BY <2>1, <2>2, WorkerRest DEF TypeInv
<1>2. UNCHANGED <<obj, dirs, queue, done>> /\ Worker
  BY DEF OpenFile, BeginData, Relist, Prepare, CreateTrack, SendTrack, AddTrack,
     Download, TimeNotThere, SetTime, Finish, SetCover, ChooseCover, Worker, device, maps, flags, worker
<1>3. model'.parent = model.parent \/ model'.parent >= Home
  <2>1. CASE Finish
    <3>1. work'.at = "covers" /\ Home' = Home
      BY <1>2, <2>1, FinishPlace, WorkerHome DEF Inv3
    <3>2. model'.parent = Home
      BY <1>2, <3>1, WorkerHome DEF Inv3
    <3>3. model'.parent \in Nat
      BY <1>2, WorkerKeepsType DEF Inv3, Inv2, Inv1, TypeInv, ModelOK
    <3> QED
      BY <3>2, <3>3
  <2>2. CASE Relist
    <3>1. SetParent(model.parent) /\ model.parent \in 0..top
      BY <1>1, <2>2 DEF Relist, ModelOK, DevOK
    <3> QED
      BY <1>1, <3>1, SetParentFacts
  <2>3. CASE ~Finish /\ ~Relist
    BY <2>3 DEF OpenFile, BeginData, Prepare, CreateTrack, SendTrack, AddTrack,
     Download, TimeNotThere, SetTime, SetCover, ChooseCover
  <2> QED
    BY <2>1, <2>2, <2>3
<1>4. work'.at \notin OfMkdir
  <2>1. \/ work' = Idle \/ \E a \in {"announce", "data", "create", "pause", "add", "mtime", "covers"} : GoOn(a)
        \/ work' = work /\ (TimeNotThere \/ \E d \in DOMAIN albums : ChooseCover(d))
        \/ work'.at = "cover"
    <3>1. \A d : ChooseCover(d) => work' = work \/ work'.at = "cover"
      <4> TAKE d
      <4>1. CASE work' = work
        BY <4>1
      <4>2. ASSUME NEW e, work' = [work EXCEPT !.at = "cover",
                          !.cmd = [op |-> "finish", id |-> @.id, path |-> covers[e].path, album |-> albums[d]]]
            PROVE  work'.at = "cover"
        <5>1. DOMAIN work = Parts
          BY <1>1, WorkFacts
        <5> QED
          BY <4>2, <5>1 DEF Parts
      <4> QED
        BY <4>1, <4>2 DEF ChooseCover
    <3>2. TimeNotThere => work' = work
      BY DEF TimeNotThere, worker
    <3>3. OpenFile => work' = Idle \/ GoOn("announce")
      BY DEF OpenFile
    <3>4. BeginData => GoOn("data")
      BY DEF BeginData
    <3>5. Relist \/ AddTrack \/ SetTime => work' = Idle
      BY DEF Relist, AddTrack, SetTime
    <3>6. Prepare => work' = Idle \/ GoOn("create")
      BY DEF Prepare
    <3>7. CreateTrack => work' = Idle \/ GoOn("pause")
      BY DEF CreateTrack
    <3>8. SendTrack => GoOn("add")
      BY DEF SendTrack
    <3>9. Download => work' = Idle \/ GoOn("mtime")
      BY DEF Download
    <3>10. Finish \/ SetCover => GoOn("covers")
      BY DEF Finish, SetCover
    <3> QED
      BY <3>1, <3>2, <3>3, <3>4, <3>5, <3>6, <3>7, <3>8, <3>9, <3>10
  <2>2. TimeNotThere => work.at = "mtime"
    BY DEF TimeNotThere
  <2>3. \A d : ChooseCover(d) => work.at = "covers"
    BY DEF ChooseCover
  <2> QED
    BY <1>1, <2>1, <2>2, <2>3, GoOnFacts DEF OfMkdir, Idle
<1> QED
  BY <1>2, <1>3, <1>4, StepDirs, DeviceStays

LEMMA FinishedDirs ==
  ASSUME Inv3, Finished
  PROVE  DirsInv'
<1>1. TypeInv' /\ done'
  BY WorkerKeepsType DEF Inv3, Inv2, Inv1, Worker, Finished
<1> QED
  BY <1>1, DirsQuiet

(* Taking a command enters the folder of the first one into the map.       *)
LEMMA TakeCommandDirs ==
  ASSUME Inv3, TakeCommand
  PROVE  DirsInv'
<1> DEFINE cmd == Head(queue)
<1>1. /\ Alive /\ work = Idle /\ queue # <<>> /\ queue' = Tail(queue) /\ UNCHANGED <<obj, job, done, gui, model>>
      /\ work' = IF FirstStep(cmd) = "idle" THEN Idle
                 ELSE [at |-> FirstStep(cmd), cmd |-> cmd, id |-> 0, between |-> FALSE, reset |-> FALSE]
      /\ dirs' = IF cmd.op \in {"send", "mkdir"} /\ ~aborted THEN Mapped(cmd.path) ELSE dirs
  BY DEF TakeCommand, device, window, flags
<1>2. TypeInv /\ OnShow /\ TreeOK /\ OnceOK /\ MadeOK
  BY DEF Inv3, Inv2, Inv1, DirsInv
<1>3. /\ cmd.op \in {"finish", "import", "get", "send", "mkdir"} /\ cmd = queue[1] /\ Len(queue) \in Nat \ {0}
      /\ cmd.op \in {"send", "mkdir"} => cmd \in JobCmds /\ cmd.path \in Paths /\ cmd.op \in Commands(job.kind)
      /\ \A n \in DOMAIN Tail(queue) : n + 1 \in DOMAIN queue /\ Tail(queue)[n] = queue[n + 1]
      /\ 1 \in DOMAIN queue /\ \A n \in DOMAIN Tail(queue) : n \in Nat \ {0}
  BY <1>1, <1>2, HeadFacts DEF TypeInv, QueueOK
<1>4. Home' = Home
  BY <1>1, TakeCommandHome DEF Inv3
<1>5. Busy /\ Busy' /\ ~done /\ (Uploading' <=> Uploading)
  BY <1>1, <1>2 DEF Alive, Busy, Uploading, TypeInv, QuietOK
<1> HIDE DEF cmd
<1>6. \/ dirs' = dirs
      \/ /\ dirs = <<>> /\ cmd.op \in {"send", "mkdir"} /\ cmd.path \in Paths /\ Uploading
         /\ dirs' = Put(dirs, Front(cmd.path), model.parent)
  <2>1. cmd.op \in {"send", "mkdir"} => Uploading
    <3>1. cmd.op \in {"send", "mkdir"} => job.kind \in {"upload", "album"}
      BY <1>2, <1>3, <1>5, CommandsFacts DEF TypeInv, JobOK, QuietOK, Kinds
    <3> QED
      BY <1>5, <3>1 DEF Uploading
  <2> QED
    BY <1>1, <1>3, <2>1 DEF Mapped
<1>7. /\ DOMAIN dirs \subseteq DOMAIN dirs' /\ \A d \in DOMAIN dirs : dirs'[d] = dirs[d]
      /\ \A d \in DOMAIN dirs' \ DOMAIN dirs : /\ dirs = <<>> /\ dirs' = Put(dirs, d, model.parent)
                                               /\ cmd.path \in Paths /\ d = Front(cmd.path) /\ Uploading
  <2>1. DOMAIN <<>> = {}
    OBVIOUS
  <2> QED
    BY <1>6, <2>1 DEF Put
<1>8. \A p \in Paths : Len(Front(p)) \in Nat /\ Len(p) = Len(Front(p)) + 1
  BY PathFacts
(* The folder that is entered first hangs below none.                      *)
<1>9. ASSUME NEW d \in DOMAIN dirs' \ DOMAIN dirs
      PROVE  DOMAIN dirs' = {d} /\ ~Inner(d)' /\ dirs'[d] = model.parent
  <2>1. dirs = <<>> /\ dirs' = Put(dirs, d, model.parent) /\ d = Front(cmd.path) /\ cmd.path \in Paths
    BY <1>7
  <2>2. DOMAIN dirs' = {d} /\ dirs'[d] = model.parent
    BY <2>1 DEF Put
  <2>3. d \in Seq(NameSet) /\ Len(d) \in Nat
    BY <2>1, PathFacts
  <2>4. Len(d) > 0 => Front(d) # d
    <3>1. SUFFICES ASSUME Len(d) > 0 PROVE Front(d) # d
      OBVIOUS
    <3>2. d \in Paths
      <4>1. d # <<>>
        BY <3>1
      <4> QED
        BY <2>3, <4>1 DEF Paths
    <3>3. Len(d) = Len(Front(d)) + 1 /\ Len(Front(d)) \in Nat
      BY <1>8, <3>2
    <3> QED
      BY <3>3
  <2> QED
    BY <2>2, <2>4 DEF Inner
<1>10. \A d \in DOMAIN dirs : Inner(d)' <=> Inner(d)
  <2> TAKE d \in DOMAIN dirs
  <2>1. dirs # <<>>
    OBVIOUS
  <2>2. dirs' = dirs
    BY <1>6, <2>1
  <2> QED
    BY <2>2 DEF Inner
<1>11. \A i : Witness(i) => Witness(i)'
  BY <1>1, <1>7, <1>10 DEF Witness, Inner
<1>12. OnShow'
  BY <1>1, <1>2, <1>4, <1>5 DEF OnShow
<1>13. TreeOK'
  <2>1. dirs' # <<>> => Uploading' /\ ~done' /\ \E r \in DOMAIN dirs' : Rooted(r)'
    <3>1. CASE dirs' = dirs
      BY <1>1, <1>2, <1>5, <3>1 DEF TreeOK, Rooted, Inner
    <3>2. CASE dirs' # dirs
      <4>1. PICK d : d \in DOMAIN dirs' \ DOMAIN dirs
        <5>1. DOMAIN <<>> = {} /\ Front(cmd.path) \in DOMAIN Put(dirs, Front(cmd.path), model.parent)
          BY DEF Put
        <5> QED
          BY <1>6, <3>2, <5>1
      <4>2. DOMAIN dirs' = {d} /\ Uploading
        BY <1>7, <1>9, <4>1
      <4>3. Rooted(d)'
        BY <4>2 DEF Rooted
      <4> QED
        BY <1>1, <1>5, <4>2, <4>3
    <3> QED
      BY <3>1, <3>2
  <2>2. ASSUME NEW d \in DOMAIN dirs'
        PROVE  /\ dirs'[d] >= Home'
               /\ Inner(d)' /\ dirs'[d] \in DOMAIN obj' =>
                    obj'[dirs'[d]].name = Last(d) /\ (dirs'[d] > job'.base => Witness(dirs[d])')
    <3>1. CASE d \in DOMAIN dirs
      <4>1. /\ dirs[d] >= Home
            /\ Inner(d) /\ dirs[d] \in DOMAIN obj =>
                    obj[dirs[d]].name = Last(d) /\ (dirs[d] > job.base => Witness(dirs[d]))
        BY <1>2, <3>1 DEF TreeOK
      <4>2. dirs'[d] = dirs[d] /\ (Inner(d)' <=> Inner(d))
        BY <1>7, <1>10, <3>1
      <4>3. Witness(dirs[d]) => Witness(dirs[d])'
        BY <1>1, <1>7, <1>10, <4>2 DEF Witness, Inner
      <4> QED
        BY <1>1, <1>4, <4>1, <4>2, <4>3
    <3>2. CASE d \notin DOMAIN dirs
      <4>1. ~Inner(d)' /\ dirs'[d] = model.parent /\ Uploading
        BY <1>7, <1>9, <3>2
      <4> QED
        BY <1>2, <1>4, <4>1 DEF OnShow
    <3> QED
      BY <3>1, <3>2
  <2> QED
    BY <2>1, <2>2 DEF TreeOK
<1>14. work'.at \in OfMkdir => cmd.op = "mkdir" /\ work'.cmd = cmd /\ path' = cmd.path /\ ~aborted
         /\ Front(cmd.path) \in DOMAIN dirs' /\ cmd.path \in Paths
  <2>1. SUFFICES ASSUME work'.at \in OfMkdir
                PROVE  cmd.op = "mkdir" /\ work'.cmd = cmd /\ ~aborted
                       /\ Front(cmd.path) \in DOMAIN dirs' /\ cmd.path \in Paths
    BY DEF path
  <2>2. Idle.at \notin OfMkdir
    BY DEF Idle, OfMkdir
  <2>3. work'.at = FirstStep(cmd) /\ work'.cmd = cmd /\ FirstStep(cmd) # "idle"
    BY <1>1, <2>1, <2>2
  <2>4. cmd.op = "mkdir"
    BY <1>3, <2>1, <2>3, FirstStepFacts DEF OfMkdir
  <2>5. ~aborted /\ Front(cmd.path) \in DOMAIN Mapped(cmd.path)
    BY <1>3, <2>3, <2>4, FirstStepFacts
  <2> QED
    BY <1>1, <1>3, <2>3, <2>4, <2>5
<1>15. OnceOK'
  <2>1. ASSUME NEW n \in DOMAIN queue, queue[n].op = "mkdir", NEW q, q = queue[n].path
        PROVE  ~(q \in DOMAIN dirs' /\ Len(q) > 0 /\ Front(q) \in DOMAIN dirs')
    <3>1. CASE q \in DOMAIN dirs
      <4>1. ~Inner(q)
        BY <1>2, <2>1, <3>1 DEF OnceOK
      <4>2. ~Inner(q)'
        BY <1>10, <3>1, <4>1
      <4> QED
        BY <4>2 DEF Inner
    <3>2. CASE q \in DOMAIN dirs' \ DOMAIN dirs
      <4>1. ~Inner(q)'
        BY <1>9, <3>2
      <4> QED
        BY <4>1 DEF Inner
    <3> QED
      BY <3>1, <3>2
  <2>2. \A n \in DOMAIN queue' : n + 1 \in DOMAIN queue /\ queue'[n] = queue[n + 1] /\ n + 1 # 1 /\ n \in Nat
    BY <1>1, <1>3
  <2>3. \A m, n \in DOMAIN queue' :
          queue'[n].op = "mkdir" /\ queue'[m].op = "mkdir" /\ queue'[n].path = queue'[m].path => m = n
    <3> TAKE m, n \in DOMAIN queue'
    <3>1. m + 1 = n + 1 => m = n
      BY <2>2
    <3> QED
      BY <1>2, <2>2, <3>1 DEF OnceOK
  <2>4. ASSUME work'.at \in OfMkdir
        PROVE  path' \notin DOMAIN dirs' /\ \A n \in DOMAIN queue' : queue'[n].op = "mkdir" => queue'[n].path # path'
    <3>1. queue[1].op = "mkdir" /\ path' = queue[1].path /\ cmd.path = queue[1].path /\ cmd.path \in Paths
          /\ Front(cmd.path) \in DOMAIN dirs'
      BY <1>3, <1>14, <2>4
    <3>2. \A n \in DOMAIN queue' : queue'[n].op = "mkdir" => queue'[n].path # path'
      BY <1>2, <1>3, <2>2, <3>1 DEF OnceOK
    <3>3. Len(cmd.path) > 0
      BY <3>1, PathFacts
    <3>4. cmd.path \notin DOMAIN dirs'
      BY <1>3, <2>1, <3>1, <3>3
    <3> QED
      BY <3>1, <3>2, <3>4
  <2>5. \A n \in DOMAIN queue' : queue'[n].op = "mkdir" =>
            ~(queue'[n].path \in DOMAIN dirs' /\ Len(queue'[n].path) > 0 /\ Front(queue'[n].path) \in DOMAIN dirs')
    BY <2>1, <2>2
  <2> QED
    BY <2>3, <2>4, <2>5 DEF OnceOK, Inner
<1>16. MadeOK'
  BY <1>1, <1>2, <1>4, <1>5, <1>11 DEF MadeOK
<1> QED
  BY <1>12, <1>13, <1>15, <1>16 DEF DirsInv

(* A folder more.                                                          *)
LEMMA FolderTaken ==
  ASSUME Inv3, work.at \in OfMkdir, NEW i, dirs' = Put(dirs, path, i)
  PROVE  /\ path \notin DOMAIN dirs /\ DOMAIN dirs' = DOMAIN dirs \cup {path} /\ dirs'[path] = i
         /\ \A d \in DOMAIN dirs : dirs'[d] = dirs[d] /\ (Inner(d)' <=> Inner(d))
         /\ Len(path) > 0 /\ Front(path) \in DOMAIN dirs'
         /\ \E r \in DOMAIN dirs' : Rooted(r)'
         /\ \A j : Witness(j) /\ obj'[j] = obj[j] => Witness(j)'
         /\ obj'[i].parent = dirs[Front(path)] => Witness(i)'
<1>1. TypeInv /\ WorkOK /\ TreeOK /\ OnceOK /\ MapsOK
  BY DEF Inv3, Inv2, Inv1, DirsInv, TypeInv
<1>2. work.cmd.op = "mkdir" /\ work.at # "idle"
  BY <1>1 DEF OfMkdir, WorkOK, Idle
<1>3. path \in Paths /\ path \in Seq(NameSet) /\ Front(path) \in DOMAIN dirs
  BY <1>1, <1>2, TargetFacts, WorkFacts DEF path, OfMkdir, OfFinish
<1>4. Len(path) \in Nat \ {0} /\ Len(Front(path)) = Len(path) - 1
  BY <1>3, PathFacts
<1>5. path \notin DOMAIN dirs
  BY <1>1 DEF OnceOK
<1> DEFINE p == path
           F(d) == Front(d)
<1>6. p \notin DOMAIN dirs /\ DOMAIN dirs' = DOMAIN dirs \cup {p} /\ dirs'[p] = i
      /\ \A d \in DOMAIN dirs : dirs'[d] = dirs[d]
  BY <1>5 DEF Put
<1>7. PICK r \in DOMAIN dirs : Rooted(r)
  <2>1. dirs # <<>>
    BY <1>3
  <2> QED
    BY <1>1, <2>1 DEF TreeOK
<1>8. \A d \in DOMAIN dirs : d \in Seq(NameSet) /\ Len(d) \in Nat
  BY <1>1 DEF MapsOK
<1>9. Len(path) > Len(r)
  BY <1>3, <1>4, <1>7, <1>8 DEF Rooted
<1>10. ASSUME NEW d \in DOMAIN dirs
       PROVE  Inner(d)' <=> Inner(d)
  <2>1. CASE d = r
    <3>1. SUFFICES ASSUME Len(r) > 0 PROVE Front(r) # path
      BY <1>6, <2>1 DEF Inner
    <3>2. r \in Paths
      <4>1. r # <<>>
        BY <3>1
      <4> QED
        BY <1>8, <4>1 DEF Paths
    <3>3. Len(Front(r)) = Len(r) - 1 /\ Len(r) \in Nat
      BY <1>8, <3>2, PathFacts
    <3> QED
      BY <1>4, <1>9, <3>3
  <2>2. CASE d # r
    BY <1>6, <1>7, <2>2 DEF Rooted, Inner
  <2> QED
    BY <2>1, <2>2
<1>11. Len(path) > 0 /\ Front(path) \in DOMAIN dirs' /\ Front(path) \in DOMAIN dirs
  BY <1>3, <1>4, <1>6
<1>12. PICK q : q = path
  OBVIOUS
<1>13. Inner(q)' /\ dirs'[q] = i /\ q \notin DOMAIN dirs /\ DOMAIN dirs' = DOMAIN dirs \cup {q}
       /\ dirs'[Front(q)] = dirs[Front(path)]
  BY <1>6, <1>11, <1>12 DEF Inner
<1>14. Rooted(r)'
  <2> SUFFICES ASSUME NEW d \in DOMAIN dirs', d # r PROVE Inner(d)' /\ Len(d) > Len(r)
    BY DEF Rooted
  <2>1. CASE d \in DOMAIN dirs
    BY <1>7, <1>10, <2>1 DEF Rooted
  <2>2. CASE d = q
    BY <1>9, <1>12, <1>13, <2>2
  <2> QED
    BY <1>13, <2>1, <2>2
<1>15. ASSUME NEW j, Witness(j), obj'[j] = obj[j]
       PROVE  Witness(j)'
  <2>1. PICK e \in DOMAIN dirs : Inner(e) /\ dirs[e] = j /\ obj[j].parent = dirs[Front(e)]
    BY <1>15 DEF Witness
  <2>2. Inner(e)' /\ dirs'[e] = j /\ dirs'[Front(e)] = dirs[Front(e)] /\ e \in DOMAIN dirs'
    BY <1>6, <1>10, <2>1 DEF Inner
  <2> QED
    BY <1>15, <2>1, <2>2 DEF Witness
<1>16. obj'[i].parent = dirs[Front(path)] => Witness(i)'
  BY <1>13 DEF Witness
<1> QED
  BY <1>6, <1>7, <1>10, <1>11, <1>14, <1>15, <1>16

LEMMA DirsGrow ==
  ASSUME Inv3, work.at \in OfMkdir, NEW i \in Nat, i >= Home, dirs' = Put(dirs, path, i), OnlyNew,
         UNCHANGED <<job, queue, done>>, Busy, Busy', Home' = Home, OnShow', work' = Idle,
         i \in DOMAIN obj' => obj'[i].name = Last(path) /\ (i > job.base => Witness(i)'),
         \A j \in DOMAIN obj' \ DOMAIN obj : obj'[j].dir /\ Witness(j)'
  PROVE  DirsInv'
<1>1. DirsInv /\ DevOK /\ MapsOK /\ top \in Nat /\ WorkOK /\ TypeInv
  BY DEF Inv3, Inv2, Inv1, TypeInv, DevOK
<1>2. Uploading' <=> Uploading
  BY DEF Uploading
<1>3. PICK q : q = path
  OBVIOUS
<1>4. /\ q \notin DOMAIN dirs /\ DOMAIN dirs' = DOMAIN dirs \cup {q} /\ dirs'[q] = i
      /\ \A d \in DOMAIN dirs : dirs'[d] = dirs[d] /\ (Inner(d)' <=> Inner(d))
      /\ Len(q) > 0 /\ Front(q) \in DOMAIN dirs'
      /\ \E r \in DOMAIN dirs' : Rooted(r)'
      /\ \A j : Witness(j) /\ obj'[j] = obj[j] => Witness(j)'
  BY <1>3, FolderTaken
<1>5. Uploading /\ ~done
  <2>1. dirs # <<>>
    <3>1. work.cmd.op = "mkdir" /\ work.at # "idle"
      BY <1>1 DEF OfMkdir, WorkOK, Idle
    <3>2. Front(path) \in DOMAIN dirs
      BY <1>1, <3>1, TargetFacts
    <3> QED
      BY <3>2
  <2> QED
    BY <1>1, <2>1 DEF DirsInv, TreeOK
<1>6. TreeOK'
  <2>1. ASSUME NEW d \in DOMAIN dirs'
        PROVE  /\ dirs'[d] >= Home'
               /\ Inner(d)' /\ dirs'[d] \in DOMAIN obj' =>
                    obj'[dirs'[d]].name = Last(d) /\ (dirs'[d] > job'.base => Witness(dirs[d])')
    <3>1. CASE d = q
      BY <1>3, <1>4, <3>1 DEF Witness
    <3>2. CASE d \in DOMAIN dirs
      <4>1. dirs'[d] = dirs[d] /\ dirs[d] >= Home /\ (Inner(d)' <=> Inner(d))
        BY <1>1, <1>4, <3>2 DEF DirsInv, TreeOK
      <4>2. ASSUME Inner(d), dirs[d] \in DOMAIN obj'
            PROVE  obj'[dirs[d]].name = Last(d) /\ (dirs[d] > job.base => Witness(dirs[d])')
        <5>1. dirs[d] \in DOMAIN obj /\ obj'[dirs[d]] = obj[dirs[d]]
          <6>1. dirs[d] \in 0..top
            BY <1>1, <3>2 DEF MapsOK
          <6>2. ~(dirs[d] > top)
            BY <1>1, <6>1
          <6> QED
            BY <4>2, <6>2 DEF OnlyNew
        <5>2. obj[dirs[d]].name = Last(d) /\ (dirs[d] > job.base => Witness(dirs[d]))
          BY <1>1, <3>2, <4>2, <5>1 DEF DirsInv, TreeOK
        <5>3. PICK j : j = dirs[d]
          OBVIOUS
        <5>4. Witness(j) => Witness(j)'
          BY <1>4, <5>1, <5>3
        <5> QED
          BY <4>1, <5>1, <5>2, <5>3, <5>4 DEF Witness
      <4> QED
        BY <4>1, <4>2
    <3> QED
      BY <1>4, <3>1, <3>2
  <2> QED
    BY <1>2, <1>4, <1>5, <2>1 DEF TreeOK
<1>7. OnceOK'
  <2>1. ASSUME NEW n \in DOMAIN queue, queue[n].op = "mkdir", NEW d, d = queue[n].path
        PROVE  ~(d \in DOMAIN dirs' /\ Len(d) > 0 /\ Front(d) \in DOMAIN dirs')
    <3>1. d # q
      BY <1>1, <1>3, <2>1 DEF DirsInv, OnceOK
    <3>2. d \in DOMAIN dirs => ~Inner(d)'
      BY <1>1, <1>4, <2>1 DEF DirsInv, OnceOK
    <3> QED
      BY <1>4, <3>1, <3>2 DEF Inner
  <2>2. work'.at \notin OfMkdir
    BY DEF Idle, OfMkdir
  <2>3. \A n \in DOMAIN queue' : queue'[n].op = "mkdir" =>
            ~(queue'[n].path \in DOMAIN dirs' /\ Len(queue'[n].path) > 0 /\ Front(queue'[n].path) \in DOMAIN dirs')
    BY <2>1
  <2> QED
    BY <1>1, <2>2, <2>3 DEF DirsInv, OnceOK, Inner
<1>8. MadeOK'
  <2>1. SUFFICES ASSUME NEW j \in DOMAIN obj', j > job.base
                PROVE  IF obj'[j].dir THEN j = Home \/ Witness(j)' ELSE obj'[j].name \in FileNames
    BY DEF MadeOK
  <2>2. CASE j \in DOMAIN obj /\ obj'[j] = obj[j]
    BY <1>1, <1>4, <1>5, <2>1, <2>2 DEF DirsInv, MadeOK
  <2>3. j \in DOMAIN obj => ~(j > top)
    BY <1>1 DEF DevOK
  <2> QED
    BY <2>2, <2>3 DEF OnlyNew
<1> QED
  BY <1>6, <1>7, <1>8 DEF DirsInv

(* The row that is found shows the name that is looked for.                *)
LEMMA FoundName ==
  ASSUME Inv2, NEW name \in NameSet, NEW bad, Found(name, bad) # 0
  PROVE  /\ Found(name, bad) \in DOMAIN model.rows
         /\ model.rows[Found(name, bad)].id > model.parent
         /\ model.rows[Found(name, bad)].id \in DOMAIN obj =>
              obj[model.rows[Found(name, bad)].id].name = name
              /\ obj[model.rows[Found(name, bad)].id].parent = model.parent
<1>1. DevOK /\ ModelOK /\ RowsOK
  BY DEF Inv2, Inv1, TypeInv, PlaceInv
<1> DEFINE k == Found(name, bad)
<1>2. k \in DOMAIN model.rows /\ Named(bad)[k] = name /\ name \notin {Unknown, Missing}
  BY <1>1, FoundFacts DEF NameSet
<1> HIDE DEF k
<1>3. model.rows[k].id > model.parent
  BY <1>1, <1>2 DEF RowsOK
<1>4. ASSUME model.rows[k].id \in DOMAIN obj
      PROVE  obj[model.rows[k].id].name = name /\ obj[model.rows[k].id].parent = model.parent
  <2>1. model.rows[k].name \in {Unknown, Missing, obj[model.rows[k].id].name} /\ obj[model.rows[k].id].parent = model.parent
    BY <1>1, <1>2, <1>4 DEF RowsOK
  <2>2. /\ model.rows[k].name # Unknown => Named(bad)[k] = model.rows[k].name
        /\ model.rows[k].name = Unknown => Named(bad)[k] \in {Missing, InfoOf(model.rows[k].id)}
    BY <1>1, <1>2, NamedFacts
  <2>3. InfoOf(model.rows[k].id) = obj[model.rows[k].id].name
    BY <1>4 DEF InfoOf
  <2> QED
    BY <1>2, <2>1, <2>2, <2>3
<1> QED
  BY <1>2, <1>3, <1>4 DEF k

LEMMA LookUpFolderDirs ==
  ASSUME Inv3, KindsApart, LookUpFolder
  PROVE  DirsInv'
<1>1. PICK bad : LET k == Found(Last(path), bad)
                 IN  /\ LookUp(Last(path), bad)
                     /\ IF k = 0 THEN GoOn("make") /\ UNCHANGED dirs
                        ELSE work' = Idle /\ dirs' = Put(dirs, path, model.rows[k].id)
  BY DEF LookUpFolder
<1>2. work.at = "lookup" /\ UNCHANGED <<obj, queue, done>> /\ Worker
  BY DEF LookUpFolder, device, Worker
<1>3. TypeInv /\ WorkOK /\ DevOK /\ ModelOK /\ OnShow /\ MadeOK /\ RowsOK /\ TreeOK
  BY DEF Inv3, Inv2, Inv1, TypeInv, DirsInv, PlaceInv
<1>4. work.at \in OfMkdir /\ work.at # "idle" /\ work.cmd.op = "mkdir"
  BY <1>2, <1>3 DEF WorkOK, OfMkdir, Idle
<1>5. model'.parent = model.parent
  BY <1>1, <1>3, LookUpFacts
<1> DEFINE name == Last(path)
           k == Found(name, bad)
<1>6. name \in NameSet /\ name \in FolderNames /\ name \notin FileNames /\ Front(path) \in DOMAIN dirs
  <2>1. work.cmd \in JobCmds /\ name \in NameSet /\ Front(path) \in DOMAIN dirs
    BY <1>3, <1>4, TargetFacts
  <2>2. name \in FolderNames
    BY <1>4, <2>1, NameFacts DEF path
  <2> QED
    BY <2>1, <2>2 DEF KindsApart
<1>7. CASE k = 0
  <2>1. GoOn("make") /\ dirs' = dirs
    BY <1>1, <1>7
  <2>2. work'.at \in OfMkdir => path' = path
    BY <1>3, <1>4, <2>1, GoOnFacts DEF path
  <2> QED
    BY <1>2, <1>4, <1>5, <2>1, <2>2, StepDirs, DeviceStays
<1>8. CASE k # 0
  <2>1. PICK i : i = model.rows[k].id
    OBVIOUS
  <2>2. work' = Idle /\ dirs' = Put(dirs, path, i)
    BY <1>1, <1>8, <2>1
  <2> HIDE DEF name
  <2>3. /\ k \in DOMAIN model.rows /\ i > model.parent
        /\ i \in DOMAIN obj => obj[i].name = name
    BY <1>6, <1>8, <2>1, FoundName DEF Inv3
  <2>4. i \in Nat
    BY <1>3, <2>1, <2>3, RowFacts DEF ModelOK
  <2> HIDE DEF k
  <2>5. /\ Alive /\ UNCHANGED job /\ gui' \in {gui, "ask"} /\ Home' = Home
    BY <1>2, WorkerShapeHolds, WorkerHome DEF Inv3, Inv2, Inv1, WorkerShape
  <2>6. Uploading /\ ~done
    <3>1. dirs # <<>>
      BY <1>6
    <3> QED
      BY <1>3, <3>1 DEF TreeOK
  <2>7. Busy /\ Busy' /\ OnShow' /\ model.parent >= Home
    BY <1>3, <1>5, <2>5, <2>6 DEF OnShow, Uploading, Busy
  <2>8. i > Home /\ i >= Home
    <3>1. Home \in Nat /\ model.parent \in Nat
      <4>1. model'.parent \in Nat /\ model.parent \in Nat
        BY <1>3, <1>5 DEF ModelOK
      <4>2. queue # <<>>
        BY <1>3, <1>4, <2>6, <2>7 DEF TypeInv, QuietOK, OfMkdir, OfFinish
      <4>3. queue[Len(queue)] \in Ends
        <5>1. queue \in Seq(JobCmds \cup Ends) /\ Len(queue) \in DOMAIN queue
          BY <1>3, <4>2 DEF TypeInv, QueueOK
        <5> QED
          BY <1>3, <5>1 DEF TypeInv, QueueOK
      <4> QED
        BY <4>1, <4>2, <4>3 DEF Home, Ends
    <3> QED
      BY <2>3, <2>4, <2>7, <3>1
  <2>9. i \in DOMAIN obj' => obj'[i].name = Last(path) /\ (i > job.base => Witness(i)')
    <3>1. SUFFICES ASSUME i \in DOMAIN obj
                  PROVE  obj[i].name = name /\ (i > job.base => Witness(i)')
      BY <1>2 DEF name
    <3>2. obj[i].name = name
      BY <2>3, <3>1
    <3>3. ASSUME i > job.base
          PROVE  Witness(i)
      <4>1. IF obj[i].dir THEN i = Home \/ Witness(i) ELSE obj[i].name \in FileNames
        BY <1>3, <2>6, <3>1, <3>3 DEF MadeOK
      <4>2. i # Home
        <5>1. i > model.parent /\ model.parent >= Home
          BY <2>3, <2>7
        <5> QED
          BY <2>4, <2>8
      <4> QED
        BY <1>6, <3>2, <4>1, <4>2
    <3>4. Witness(i) => Witness(i)'
      BY <1>2, <1>4, <2>2, FolderTaken
    <3> QED
      BY <3>2, <3>3, <3>4
  <2> QED
    BY <1>2, <1>4, <2>2, <2>4, <2>5, <2>7, <2>8, <2>9, DirsGrow, DeviceStays
<1> QED
  BY <1>7, <1>8

LEMMA HomeFacts ==
  ASSUME TypeInv
  PROVE  Home \in 0..top
<1>1. CASE queue # <<>>
  <2>1. queue \in Seq(JobCmds \cup Ends) /\ Len(queue) \in DOMAIN queue
    BY <1>1 DEF TypeInv, QueueOK
  <2>2. queue[Len(queue)] \in Ends /\ queue[Len(queue)].id <= top
    BY <2>1 DEF TypeInv, QueueOK
  <2>3. queue[Len(queue)].id \in Nat /\ top \in Nat
    BY <2>2 DEF Ends, TypeInv, DevOK
  <2> QED
    BY <1>1, <2>2, <2>3 DEF Home
<1>2. CASE queue = <<>> /\ work.at # "idle"
  <2>1. work # Idle
    BY <1>2 DEF Idle
  <2>2. Busy /\ ~done
    BY <2>1 DEF TypeInv, QuietOK
  <2>3. work.at \in OfFinish
    BY <1>2, <2>2 DEF TypeInv, QuietOK
  <2>4. work.cmd.id \in 0..top
    BY <1>2, <2>3, WorkFacts DEF TypeInv
  <2> QED
    BY <1>2, <2>4 DEF Home
<1>3. CASE queue = <<>> /\ work.at = "idle"
  BY <1>3 DEF Home, TypeInv, ModelOK, DevOK
<1> QED
  BY <1>1, <1>2, <1>3

LEMMA MakeFolderDirs ==
  ASSUME Inv3, MakeFolder
  PROVE  DirsInv'
<1> DEFINE p == dirs[Front(path)]
           n == Last(path)
<1>1. /\ work.at = "make" /\ UNCHANGED <<queue, done>> /\ Worker /\ work' = Idle
      /\ \/ /\ obj' = Created(p, n, TRUE)
            /\ top' = top + 1
            /\ dirs' = Put(dirs, path, top + 1)
            /\ model' = RowAdded(p, top + 1)
         \/ UNCHANGED <<obj, dirs, model>>
  BY DEF MakeFolder, Worker, device, maps
<1>2. TypeInv /\ WorkOK /\ DevOK /\ ModelOK /\ OnShow /\ TreeOK /\ top \in Nat
  BY DEF Inv3, Inv2, Inv1, TypeInv, DirsInv, DevOK
<1>3. work.at \in OfMkdir /\ work.at # "idle" /\ work.cmd.op = "mkdir" /\ work'.at \notin OfMkdir
  BY <1>1, <1>2 DEF WorkOK, OfMkdir, Idle
<1>4. n \in NameSet /\ Front(path) \in DOMAIN dirs /\ p \in 0..top
  BY <1>2, <1>3, TargetFacts
<1>5. CASE UNCHANGED <<obj, dirs, model>>
  BY <1>1, <1>3, <1>5, StepDirs, DeviceStays
<1>6. CASE /\ obj' = Created(p, n, TRUE) /\ top' = top + 1
           /\ dirs' = Put(dirs, path, top + 1) /\ model' = RowAdded(p, top + 1)
  <2>1. /\ Alive /\ UNCHANGED job /\ gui' \in {gui, "ask"} /\ Home' = Home
    BY <1>1, WorkerShapeHolds, WorkerHome DEF Inv3, Inv2, Inv1, WorkerShape
  <2>2. Uploading /\ ~done
    <3>1. dirs # <<>>
      BY <1>4
    <3> QED
      BY <1>2, <3>1 DEF TreeOK
  <2>3. PICK i : i = top + 1
    OBVIOUS
  <2>4. i \in Nat /\ i > top /\ dirs' = Put(dirs, path, i) /\ model' = RowAdded(p, i)
    BY <1>2, <1>6, <2>3
  <2>5. i >= Home
    BY <1>2, <2>4, HomeFacts
  <2>6. model'.parent = model.parent
    BY <1>2, <2>4, RowAddedFacts
  <2>7. Busy /\ Busy' /\ OnShow'
    BY <1>2, <2>1, <2>2, <2>6 DEF OnShow, Uploading, Busy
  <2>8. /\ DOMAIN obj' = DOMAIN obj \cup {i}
        /\ obj'[i] = [name |-> n, parent |-> p, dir |-> TRUE] /\ OnlyNew
    BY <1>2, <1>4, <1>6, <2>3, CreatedOK, OnlyNewFacts
  <2>9. obj'[i].name = n /\ obj'[i].parent = p /\ obj'[i].dir
    BY <2>8
  <2> HIDE DEF p, n
  <2>10. Witness(i)'
    <3>1. obj'[i].parent = dirs[Front(path)]
      BY <2>9 DEF p
    <3> QED
      BY <1>3, <2>4, <3>1, FolderTaken
  <2>11. \A j \in DOMAIN obj' \ DOMAIN obj : obj'[j].dir /\ Witness(j)'
    BY <2>8, <2>9, <2>10
  <2>12. i \in DOMAIN obj' => obj'[i].name = Last(path) /\ (i > job.base => Witness(i)')
    BY <2>9, <2>10 DEF n
  <2> QED
    BY <1>1, <1>3, <2>1, <2>4, <2>5, <2>7, <2>8, <2>11, <2>12, DirsGrow
<1> QED
  BY <1>1, <1>5, <1>6

LEMMA WorkerDirs ==
  ASSUME Inv3, KindsApart, Worker
  PROVE  DirsInv'
BY TakeCommandDirs, EnterFolderDirs, FindFileDirs, DeleteOldDirs, AnnounceDirs, SendDataDirs, OthersDirs,
   LookUpFolderDirs, MakeFolderDirs, FinishedDirs DEF Worker

(* The window's steps beside the worker.                                   *)
LEMMA BesideDirs ==
  ASSUME Inv3, UNCHANGED <<obj, dirs, job, queue, done>>, model'.parent = model.parent, Home' = Home, Busy, Busy',
         work'.at \in OfMkdir => work' = work
  PROVE  DirsInv'
<1>1. OnlyNew /\ NewFiles
  BY DeviceStays
<1>2. OnShow'
  BY DEF Inv3, DirsInv, OnShow, Uploading
<1> QED
  BY <1>1, <1>2, DirsKept DEF path

LEMMA AnswerDirs ==
  ASSUME Inv3, NEW yes \in BOOLEAN, NEW forAll \in BOOLEAN, Answer(yes, forAll)
  PROVE  DirsInv'
<1>1. /\ gui = "ask" /\ gui' = "dialog" /\ UNCHANGED <<obj, dirs, job, model, queue, done>>
      /\ GoOn("delete") \/ work' = Idle
  BY DEF Answer, GoOn, device, maps, flags
<1>2. TypeInv /\ WorkOK
  BY DEF Inv3, Inv2, Inv1, TypeInv
<1>3. work.at = "ask" /\ work.at # "idle" /\ Busy /\ ~done /\ queue # <<>>
  <2>1. work.at = "ask" /\ work # Idle /\ Busy
    BY <1>1, <1>2 DEF TypeInv, QuietOK, Busy, Idle
  <2>2. work.at \notin OfFinish
    BY <2>1 DEF OfFinish
  <2> QED
    BY <1>2, <2>1, <2>2 DEF TypeInv, QuietOK
<1>4. work'.at \in {"delete", "idle"}
  BY <1>1, <1>2, <1>3, GoOnFacts DEF Idle
<1>5. Home' = Home /\ Busy'
  BY <1>1, <1>3 DEF Home, Busy
<1> QED
  BY <1>1, <1>3, <1>4, <1>5, BesideDirs DEF OfMkdir

LEMMA RepaintDirs ==
  ASSUME Inv3, NEW k, Repaint(k)
  PROVE  DirsInv'
<1>1. /\ model'.parent = model.parent
      /\ work' = work \/ (work.at = "pause" /\ work'.at = "pause" /\ work'.cmd = work.cmd)
  BY RepaintPlace DEF Inv3
<1>2. UNCHANGED <<obj, dirs, gui, queue, job, done>> /\ gui = "dialog"
  BY DEF Repaint, window, device, maps, flags
<1>3. Home' = Home /\ Busy /\ Busy'
  BY <1>1, <1>2 DEF Home, Busy
<1>4. work'.at \in OfMkdir => work' = work
  BY <1>1 DEF OfMkdir
<1> QED
  BY <1>1, <1>2, <1>3, <1>4, BesideDirs

LEMMA AbortPressedDirs ==
  ASSUME Inv3, AbortPressed
  PROVE  DirsInv'
<1>1. /\ gui = "dialog" /\ gui' \in {"dialog", "crashed"}
      /\ UNCHANGED <<obj, model, work, dirs, queue, job, done>>
  BY DEF AbortPressed, device, worker, maps
<1>2. Home' = Home /\ Busy /\ Busy'
  BY <1>1 DEF Home, Busy
<1> QED
  BY <1>1, <1>2, BesideDirs

LEMMA BeginDirs ==
  ASSUME Inv3, TypeInv', gui \in {"idle", "next"}, UNCHANGED <<work, dirs>>, NEW js, Selection(js),
         NEW home, Begin(js, home), model'.parent >= home,
         \A i \in DOMAIN obj' : i > top => IF obj'[i].dir THEN i = home ELSE obj'[i].name \in FileNames
  PROVE  DirsInv'
<1>1. TypeInv /\ dirs' = <<>> /\ work'.at = "idle"
  BY TurnIdle DEF Inv3, Inv2, Inv1, Idle
<1>2. /\ job'.base = top
      /\ DOMAIN queue' = 1..(Len(Head(js).cmds) + 1) /\ Len(queue') = Len(Head(js).cmds) + 1
      /\ Len(Head(js).cmds) \in Nat
      /\ queue'[Len(queue')] = [op |-> "finish", id |-> home]
      /\ \A n \in 1..Len(Head(js).cmds) : queue'[n] = Head(js).cmds[n]
  BY <1>1, BeginFacts
<1>3. Head(js) \in JobItems /\ Head(js).cmds \in Seq(JobCmds)
  BY SelectionFacts
<1> DEFINE cmds == Head(js).cmds
           q == queue'
<1>4. \A k, l \in DOMAIN cmds :
        (cmds[k].op = "mkdir" /\ cmds[l].op = "mkdir" /\ cmds[k].path = cmds[l].path) => k = l
  BY <1>3, JobsAssumption
<1>5. Home' = home
  <2>1. Len(queue') # 0 /\ Len(<<>>) = 0
    BY <1>2
  <2>2. queue' # <<>>
    BY <2>1
  <2> QED
    BY <1>2, <2>2 DEF Home
<1>6. OnShow'
  BY <1>5 DEF OnShow
<1>7. DOMAIN dirs' = {}
  BY <1>1
<1>8. TreeOK'
  BY <1>1, <1>7 DEF TreeOK
<1>9. OnceOK'
  <2>1. ASSUME NEW n \in DOMAIN q, q[n].op = "mkdir"
        PROVE  n \in DOMAIN cmds /\ q[n] = cmds[n]
    <3>1. n # Len(q)
      BY <1>2, <2>1
    <3>2. n \in 1..Len(cmds) /\ DOMAIN cmds = 1..Len(cmds)
      BY <1>2, <1>3, <3>1
    <3> QED
      BY <1>2, <3>2
  <2>2. \A m, n \in DOMAIN q : q[n].op = "mkdir" /\ q[m].op = "mkdir" /\ q[n].path = q[m].path => m = n
    BY <1>4, <2>1
  <2>3. work'.at \notin OfMkdir
    BY <1>1 DEF OfMkdir
  <2> QED
    BY <1>7, <2>2, <2>3 DEF OnceOK
<1>10. MadeOK'
  BY <1>2, <1>5 DEF MadeOK
<1> QED
  BY <1>6, <1>8, <1>9, <1>10 DEF DirsInv

LEMMA UploadAlbumDirs ==
  ASSUME Inv3, TypeInv', gui \in {"idle", "next"}, NEW js, Selection(js), Head(js).kind = "album", UploadAlbum(js)
  PROVE  DirsInv'
<1> DEFINE f == AlbumFolder(js)
<1>1. TypeInv /\ top \in Nat
  BY DEF Inv3, Inv2, Inv1, TypeInv, DevOK
<1>2. /\ UNCHANGED <<work, dirs>> /\ (Upload(js, f) \/ gui' = "stuck")
  BY <1>1, AlbumParts DEF maps
<1>3. model'.parent = f
  BY UploadAlbumPlace DEF Inv3
<1>4. /\ f \in 0..top' /\ DOMAIN obj \subseteq DOMAIN obj'
      /\ \A i \in DOMAIN obj' \ DOMAIN obj :
           obj'[i] = CoverIn(f) \/ (i = f /\ obj'[i] = FolderIn(model.parent, Head(js).name))
  BY <1>1, AlbumFacts
<1> HIDE DEF f
<1>5. CASE gui' = "stuck"
  BY <1>5, DirsQuiet DEF Busy
<1>6. CASE Upload(js, f)
  <2>1. Begin(js, f)
    BY <1>6 DEF Upload
  <2>2. f >= f
    BY <1>4
  <2>3. ASSUME NEW i \in DOMAIN obj', i > top
        PROVE  IF obj'[i].dir THEN i = f ELSE obj'[i].name \in FileNames
    <3>1. i \notin DOMAIN obj
      BY <1>1, <2>3 DEF TypeInv, DevOK
    <3>2. CASE obj'[i] = CoverIn(f)
      <4>1. ~obj'[i].dir /\ obj'[i].name = Cover
        BY <3>2 DEF CoverIn
      <4> QED
        BY <4>1, NameFacts
    <3>3. CASE i = f /\ obj'[i] = FolderIn(model.parent, Head(js).name)
      BY <3>3 DEF FolderIn
    <3> QED
      BY <1>4, <3>1, <3>2, <3>3
  <2> QED
    BY <1>2, <1>3, <2>1, <2>2, <2>3, BeginDirs
<1> QED
  BY <1>2, <1>5, <1>6

LEMMA StartDirs ==
  ASSUME Inv3, TypeInv', gui \in {"idle", "next"}, NEW js, Selection(js), NEW home, home <= model.parent, Begin(js, home),
         UNCHANGED <<obj, model, work, dirs>>, home \in Nat
  PROVE  DirsInv'
<1>1. model.parent \in Nat /\ model'.parent >= home
  BY DEF Inv3, Inv2, Inv1, TypeInv, ModelOK
<1>2. \A i \in DOMAIN obj' : ~(i > top)
  BY DEF Inv3, Inv2, Inv1, TypeInv, DevOK
<1> QED
  BY <1>1, <1>2, BeginDirs

LEMMA Inv3Next ==
  ASSUME KindsApart, Inv3, [Next]_vars
  PROVE  Inv3'
<1>0. Inv2' /\ TypeInv'
  BY Inv2Next DEF Inv3, Inv2, Inv1
<1>1. CASE Worker
  BY <1>0, <1>1, WorkerDirs DEF Inv3
<1>2. CASE DialogCloses
  <2>1. gui' \in {"idle", "next"}
    BY <1>2 DEF DialogCloses
  <2> QED
    BY <1>0, <2>1, DirsQuiet DEF Inv3, Busy
<1>3. CASE NextSelected
  <2> DEFINE js == job.rest
  <2>1. gui = "next" /\ IF Head(js).kind = "album" THEN UploadAlbum(js) ELSE ImportMusic(js)
    BY <1>3 DEF NextSelected
  <2>2. Selection(js)
    BY <2>1, RestIsSelection DEF Inv3, Inv2, Inv1
  <2> HIDE DEF js
  <2>3. CASE ImportMusic(js)
    <3>1. Begin(js, Root) /\ UNCHANGED <<obj, model, work, dirs>> /\ Root \in Nat /\ Root <= model.parent
      BY <2>3 DEF ImportMusic, device, maps, Inv3, Inv2, Inv1, TypeInv, ModelOK, Root
    <3> QED
      BY <1>0, <2>1, <2>2, <3>1, StartDirs DEF Inv3
  <2> QED
    BY <1>0, <2>1, <2>2, <2>3, UploadAlbumDirs DEF Inv3
<1>4. ASSUME NEW yes \in BOOLEAN, NEW forAll \in BOOLEAN, Answer(yes, forAll)
      PROVE  Inv3'
  BY <1>0, <1>4, AnswerDirs DEF Inv3
<1>5. ASSUME NEW k, Repaint(k)
      PROVE  Inv3'
  BY <1>0, <1>5, RepaintDirs DEF Inv3
<1>6. ASSUME gui' = "idle"
      PROVE  Inv3'
  BY <1>0, <1>6, DirsQuiet DEF Inv3, Busy
<1>7. ASSUME NEW js \in Jobs, StartUpload(js) \/ StartDownload(js)
      PROVE  Inv3'
  <2> DEFINE h == model.parent
  <2>1. gui = "idle" /\ Begin(js, h) /\ UNCHANGED <<obj, model, work, dirs>>
    BY <1>7 DEF StartUpload, StartDownload, Turn, Upload, device, maps
  <2>2. h \in Nat /\ h <= model.parent
    BY DEF Inv3, Inv2, Inv1, TypeInv, ModelOK
  <2> HIDE DEF h
  <2> QED
    BY <1>0, <2>1, <2>2, StartDirs, JobsAreSelections DEF Inv3
<1>8. ASSUME NEW js \in Jobs, StartAlbum(js)
      PROVE  Inv3'
  <2>1. gui = "idle" /\ UploadAlbum(js) /\ Head(js).kind = "album"
    BY <1>8 DEF StartAlbum, Turn
  <2> QED
    BY <1>0, <2>1, UploadAlbumDirs, JobsAreSelections DEF Inv3
<1>9. ASSUME NEW js \in Jobs, StartImport(js)
      PROVE  Inv3'
  <2>1. /\ gui = "idle" /\ Begin(js, Root) /\ UNCHANGED <<obj, model, work, dirs>>
        /\ Root \in Nat /\ Root <= model.parent
    BY <1>9 DEF StartImport, Turn, ImportMusic, device, maps, Inv3, Inv2, Inv1, TypeInv, ModelOK, Root
  <2> QED
    BY <1>0, <2>1, StartDirs, JobsAreSelections DEF Inv3
<1>10. CASE AbortPressed
  BY <1>0, <1>10, AbortPressedDirs DEF Inv3
<1>11. CASE UNCHANGED vars
  <2>1. UNCHANGED <<obj, model, gui, work, dirs, queue, job, done>>
    BY <1>11 DEF vars, device, window, worker, maps, flags
  <2>2. CASE Busy
    <3>1. Home' = Home /\ Busy'
      BY <2>1, <2>2 DEF Home, Busy
    <3> QED
      BY <1>0, <2>1, <2>2, <3>1, BesideDirs DEF Inv3
  <2>3. CASE ~Busy
    BY <1>0, <2>1, <2>3, DirsQuiet DEF Inv3, Busy
  <2> QED
    BY <2>2, <2>3
<1>12. \A k : Enter(k) \/ DeleteSelected(k) => gui' = "idle"
  BY DEF Enter, DeleteSelected, Selected, Turn
<1>13. \A name, k : CreateFolder(name) \/ RenameSelected(k, name) => gui' = "idle"
  BY DEF CreateFolder, RenameSelected, Selected, Turn
<1>14. Back => gui' = "idle"
  BY DEF Back, Turn
<1>15. Next => \/ Worker \/ DialogCloses \/ NextSelected \/ AbortPressed \/ UNCHANGED vars
               \/ \E yes, forAll \in BOOLEAN : Answer(yes, forAll)
               \/ \E k : Repaint(k)
               \/ gui' = "idle"
               \/ \E js \in Jobs : StartUpload(js) \/ StartDownload(js) \/ StartAlbum(js) \/ StartImport(js)
  BY <1>12, <1>13, <1>14 DEF Next, Replies, Rest
<1> QED
  BY <1>1, <1>2, <1>3, <1>4, <1>5, <1>6, <1>7, <1>8, <1>9, <1>10, <1>11, <1>15

LEMMA Inv3Init ==
  ASSUME Init
  PROVE  Inv3
<1>1. Inv2
  BY Inv2Init
<1>2. gui = "idle" /\ dirs = <<>> /\ queue = <<>> /\ work.at = "idle"
  BY DEF Init, Idle
<1>3. DOMAIN dirs = {} /\ DOMAIN queue = {}
  BY <1>2
<1> QED
  BY <1>1, <1>2, <1>3 DEF Inv3, DirsInv, OnShow, TreeOK, OnceOK, MadeOK, Uploading, Busy, OfMkdir

(* The folders of a job are those its paths name, each made once           *)
(* (createDirectory), the invariant behind the next theorem.               *)
THEOREM FoldersHold == ASSUME KindsApart PROVE Spec => []Inv3
<1>1. Init => Inv3
  BY Inv3Init
<1>2. Inv3 /\ [Next]_vars => Inv3'
  BY Inv3Next
<1> QED
  BY <1>1, <1>2, PTL DEF Spec

(* Every folder of an upload has its name, and one the upload made is in   *)
(* the folder it was made for (createDirectory in commandqueue.cpp), if    *)
(* files and folders have names of their own.                              *)
THEOREM FoldersAlwaysInPlace == ASSUME KindsApart PROVE Spec => []FoldersInPlace
<1>1. Inv3 => FoldersInPlace
  BY DEF Inv3, DirsInv, TreeOK, Inner, Witness, FoldersInPlace
<1>2. Spec => []Inv3
  BY FoldersHold
<1> QED
  BY <1>1, <1>2, PTL

----------------------------------------------------------------------------
(* Files: as long as nothing failed, was aborted or renamed, the rows are  *)
(* all there is in the folder on show, so that a file of a name is found.  *)

Clean == faults = 0 /\ {"abort", "rename"} \cap events = {}
Pending(i) == Sending /\ work.at \in OfData /\ work.id = i
Resetting == Sending /\ work.at \in {"open", "announce", "pause", "data", "relist"} /\ work.reset

(* No two files of one name in a folder.                                   *)
FilesOK ==
  /\ \A i \in DOMAIN obj : obj[i].dir => obj[i].name \in FolderNames
  /\ \A i, j \in DOMAIN obj :
       obj[i].parent = obj[j].parent /\ obj[i].name = obj[j].name /\ ~obj[i].dir /\ ~obj[j].dir => i = j

(* The rows are all there is, but for the file that is just being sent, and *)
(* what was replaced is still among them until they are listed again.      *)
WholeOK ==
  /\ \A i \in DOMAIN obj : obj[i].parent = model.parent =>
       (\E k \in DOMAIN model.rows : model.rows[k].id = i) \/ Pending(i)
  /\ \A k \in DOMAIN model.rows :
       /\ model.rows[k].name = Missing => model.rows[k].id \notin DOMAIN obj
       /\ model.rows[k].name \notin {Unknown, Missing} => model.rows[k].id \in DOMAIN obj \/ Resetting

(* A file is asked about if there is one of its name, and made if there is none. *)
FileOK ==
  /\ Sending /\ work.at \in {"ask", "delete"} => work.id \in DOMAIN obj /\ ~obj[work.id].dir
  /\ Sending /\ work.at \in {"open", "announce"} =>
       \A i \in DOMAIN obj : obj[i].parent = model.parent /\ ~obj[i].dir => obj[i].name # Last(path)
  /\ Sending /\ work.at \in {"enter", "find", "ask", "delete"} => ~work.reset

CleanInv == Clean => ~cancelled /\ FilesOK /\ WholeOK /\ FileOK
Inv4 == Inv2 /\ CleanInv

LEMMA CleanFacts ==
  ASSUME Inv4, Clean', events \subseteq events', Succeeds \/ Fails \/ Refuses \/ UNCHANGED <<cancelled, faults>>
  PROVE  Clean /\ ~Fails /\ ~cancelled /\ ~cancelled' /\ FilesOK /\ WholeOK /\ FileOK
<1>1. faults \in Nat /\ faults' = 0 /\ {"abort", "rename"} \cap events' = {}
  BY BoundsAssumption DEF Inv4, Inv2, Inv1, TypeInv, FlagsOK, Clean
<1>2. faults = 0
  BY <1>1 DEF Succeeds, Fails, Refuses
<1>3. Clean
  BY <1>1, <1>2 DEF Clean
<1>4. ~cancelled /\ FilesOK /\ WholeOK /\ FileOK
  BY <1>3 DEF Inv4, CleanInv
<1>5. ~Fails
  BY <1>1, <1>2, <1>4 DEF Fails
<1>6. ~cancelled'
  BY <1>4, <1>5 DEF Succeeds, Refuses
<1> QED
  BY <1>3, <1>4, <1>5, <1>6

LEMMA FilesShrink ==
  ASSUME FilesOK, DOMAIN obj' \subseteq DOMAIN obj, \A i \in DOMAIN obj' : obj'[i] = obj[i]
  PROVE  FilesOK'
BY DEF FilesOK

LEMMA FilesGrow ==
  ASSUME FilesOK, NEW i, i \notin DOMAIN obj, DOMAIN obj' = DOMAIN obj \cup {i},
         \A j \in DOMAIN obj : obj'[j] = obj[j],
         IF obj'[i].dir THEN obj'[i].name \in FolderNames
         ELSE \A j \in DOMAIN obj : obj[j].parent = obj'[i].parent /\ ~obj[j].dir => obj[j].name # obj'[i].name
  PROVE  FilesOK'
<1>1. \A j \in DOMAIN obj' : obj'[j].dir => obj'[j].name \in FolderNames
  BY DEF FilesOK
<1>2. ASSUME NEW a \in DOMAIN obj', NEW b \in DOMAIN obj', obj'[a].parent = obj'[b].parent,
             obj'[a].name = obj'[b].name, ~obj'[a].dir, ~obj'[b].dir
      PROVE  a = b
  <2>1. CASE a \in DOMAIN obj /\ b \in DOMAIN obj
    BY <1>2, <2>1 DEF FilesOK
  <2>2. CASE a = i \/ b = i
    BY <1>2, <2>2
  <2> QED
    BY <2>1, <2>2
<1> QED
  BY <1>1, <1>2 DEF FilesOK

(* Fresh rows.                                                             *)
LEMMA WholeFresh ==
  ASSUME \A k \in DOMAIN model'.rows : model'.rows[k].name = Unknown,
         \A i \in DOMAIN obj' : obj'[i].parent = model'.parent => \E k \in DOMAIN model'.rows : model'.rows[k].id = i
  PROVE  WholeOK'
<1>1. Unknown # Missing
  BY DEF Unknown, Missing
<1> QED
  BY <1>1 DEF WholeOK

LEMMA WholeListed ==
  ASSUME DevOK, NEW p \in 0..top, SetParent(p), ~Fails, obj' = obj
  PROVE  WholeOK'
BY SetParentFacts, WholeFresh

LEMMA WholeKept ==
  ASSUME DevOK, ModelOK, WholeOK, model' = model, OnlyNew,
         \A i \in DOMAIN obj' \ DOMAIN obj : obj'[i].parent = model.parent => Pending(i)',
         \A i : Pending(i) => Pending(i)',
         Resetting' \/ (~Resetting /\ DOMAIN obj \subseteq DOMAIN obj')
  PROVE  WholeOK'
<1>1. top \in Nat /\ \A i \in DOMAIN obj : ~(i > top)
  BY DEF DevOK
<1>2. \A k \in DOMAIN model.rows : ~(model.rows[k].id > top)
  BY <1>1, RowFacts DEF ModelOK
<1>3. ASSUME NEW i \in DOMAIN obj', obj'[i].parent = model.parent
      PROVE  (\E k \in DOMAIN model.rows : model.rows[k].id = i) \/ Pending(i)'
  <2>1. CASE i \in DOMAIN obj
    BY <1>1, <1>3, <2>1 DEF OnlyNew, WholeOK
  <2>2. CASE i \notin DOMAIN obj
    BY <1>3, <2>2
  <2> QED
    BY <2>1, <2>2
<1>4. ASSUME NEW k \in DOMAIN model.rows
      PROVE  /\ model.rows[k].name = Missing => model.rows[k].id \notin DOMAIN obj'
             /\ model.rows[k].name \notin {Unknown, Missing} => model.rows[k].id \in DOMAIN obj' \/ Resetting'
  BY <1>2 DEF OnlyNew, WholeOK
<1> QED
  BY <1>3, <1>4 DEF WholeOK

(* Rows that get their names.                                              *)
LEMMA ReadNames ==
  ASSUME DevOK, ModelOK, WholeOK, ~Resetting, NEW name
  PROVE  /\ DOMAIN RowsLookedUp(name, 0) = DOMAIN model.rows
         /\ \A k \in DOMAIN model.rows :
              /\ RowsLookedUp(name, 0)[k].id = model.rows[k].id
              /\ RowsLookedUp(name, 0)[k].name = Missing => model.rows[k].id \notin DOMAIN obj
              /\ RowsLookedUp(name, 0)[k].name \notin {Unknown, Missing} => model.rows[k].id \in DOMAIN obj
<1> DEFINE R == RowsLookedUp(name, 0)
<1>1. /\ DOMAIN R = DOMAIN model.rows
      /\ \A k \in DOMAIN model.rows : R[k].id = model.rows[k].id /\ R[k].name \in {model.rows[k].name, Named(0)[k]}
  BY LookedUpFacts
<1> HIDE DEF R
<1>2. ASSUME NEW k \in DOMAIN model.rows
      PROVE  /\ R[k].name = Missing => model.rows[k].id \notin DOMAIN obj
             /\ R[k].name \notin {Unknown, Missing} => model.rows[k].id \in DOMAIN obj
  <2>1. k # 0
    BY RowFacts DEF ModelOK
  <2>2. /\ model.rows[k].name # Unknown => Named(0)[k] = model.rows[k].name
        /\ model.rows[k].name = Unknown => Named(0)[k] = InfoOf(model.rows[k].id)
    BY <2>1, NamedFacts
  <2>3. /\ InfoOf(model.rows[k].id) = Missing => model.rows[k].id \notin DOMAIN obj
        /\ InfoOf(model.rows[k].id) # Missing => model.rows[k].id \in DOMAIN obj
    BY DEF InfoOf, DevOK, NameSet
  <2>4. Unknown # Missing
    BY DEF Unknown, Missing
  <2>5. CASE model.rows[k].name # Unknown
    BY <1>1, <2>2, <2>5 DEF WholeOK
  <2>6. CASE model.rows[k].name = Unknown
    BY <1>1, <2>2, <2>3, <2>4, <2>6
  <2> QED
    BY <2>5, <2>6
<1> QED
  BY <1>1, <1>2 DEF R

LEMMA WholeRead ==
  ASSUME DevOK, ModelOK, WholeOK, ~Resetting, \A i : ~Pending(i), obj' = obj, NEW name,
         model'.parent = model.parent, model'.rows = RowsLookedUp(name, 0)
  PROVE  WholeOK'
<1> DEFINE R == RowsLookedUp(name, 0)
<1>1. /\ DOMAIN R = DOMAIN model.rows
      /\ \A k \in DOMAIN model.rows :
              /\ R[k].id = model.rows[k].id
              /\ R[k].name = Missing => model.rows[k].id \notin DOMAIN obj
              /\ R[k].name \notin {Unknown, Missing} => model.rows[k].id \in DOMAIN obj
  BY ReadNames
<1>2. model'.rows = R
  OBVIOUS
<1> HIDE DEF R
<1>3. \A i \in DOMAIN obj : obj[i].parent = model.parent => \E k \in DOMAIN model.rows : model.rows[k].id = i
  BY DEF WholeOK
<1>4. \A i \in DOMAIN obj : obj[i].parent = model.parent => \E k \in DOMAIN R : R[k].id = i
  BY <1>1, <1>3
<1> QED
  BY <1>1, <1>2, <1>4 DEF WholeOK

(* A row more.                                                             *)
LEMMA WholeGrown ==
  ASSUME DevOK, ModelOK, WholeOK, OnlyNew, NEW p, NEW i \in Nat, model' = RowAdded(p, i),
         DOMAIN obj \subseteq DOMAIN obj', \A j \in DOMAIN obj' \ DOMAIN obj : j = i /\ obj'[j].parent = p,
         \A j : Pending(j) => j = i /\ p = model.parent,
         Resetting => Resetting'
  PROVE  WholeOK'
<1> DEFINE n == Len(model.rows) + 1
<1>1. top \in Nat /\ \A j \in DOMAIN obj : ~(j > top)
  BY DEF DevOK
<1>2. \A k \in DOMAIN model.rows : ~(model.rows[k].id > top)
  BY <1>1, RowFacts DEF ModelOK
<1>3. /\ model'.parent = model.parent
      /\ \A k \in DOMAIN model.rows : k \in DOMAIN model'.rows /\ model'.rows[k] = model.rows[k]
      /\ \A k \in DOMAIN model'.rows \ DOMAIN model.rows : model'.rows[k].name = Unknown
      /\ p = model.parent => \E k \in DOMAIN model'.rows : model'.rows[k].id = i
  <2>1. CASE p # model.parent
    BY <2>1, RowAddedFacts
  <2>2. CASE p = model.parent
    <3>1. /\ model'.parent = model.parent
          /\ DOMAIN model'.rows = DOMAIN model.rows \cup {n}
          /\ model'.rows[n] = [id |-> i, name |-> Unknown]
          /\ \A k \in DOMAIN model.rows : model'.rows[k] = model.rows[k]
      BY <2>2, RowAddedFacts
    <3> HIDE DEF n
    <3>2. model'.rows[n].id = i /\ model'.rows[n].name = Unknown
      BY <3>1
    <3> QED
      BY <3>1, <3>2
  <2> QED
    BY <2>1, <2>2
<1>4. Unknown # Missing
  BY DEF Unknown, Missing
<1>5. ASSUME NEW j \in DOMAIN obj', obj'[j].parent = model.parent
      PROVE  \E k \in DOMAIN model'.rows : model'.rows[k].id = j
  <2>1. CASE j \in DOMAIN obj
    <3>1. obj[j].parent = model.parent
      BY <1>1, <1>5, <2>1 DEF OnlyNew
    <3>2. (\E k \in DOMAIN model.rows : model.rows[k].id = j) \/ Pending(j)
      BY <2>1, <3>1 DEF WholeOK
    <3> QED
      BY <1>3, <3>2
  <2>2. CASE j \notin DOMAIN obj
    BY <1>3, <1>5, <2>2
  <2> QED
    BY <2>1, <2>2
<1>6. ASSUME NEW k \in DOMAIN model'.rows
      PROVE  /\ model'.rows[k].name = Missing => model'.rows[k].id \notin DOMAIN obj'
             /\ model'.rows[k].name \notin {Unknown, Missing} => model'.rows[k].id \in DOMAIN obj' \/ Resetting'
  <2>1. CASE k \in DOMAIN model.rows
    <3>1. model'.rows[k] = model.rows[k] /\ ~(model.rows[k].id > top)
      BY <1>2, <1>3, <2>1
    <3> QED
      BY <2>1, <3>1 DEF OnlyNew, WholeOK
  <2>2. CASE k \notin DOMAIN model.rows
    BY <1>3, <1>4, <2>2
  <2> QED
    BY <2>1, <2>2
<1> QED
  BY <1>3, <1>5, <1>6 DEF WholeOK

(* Steps beside the files.                                                 *)
LEMMA ElsewhereClean ==
  ASSUME Inv4, events \subseteq events', Succeeds \/ Fails \/ Refuses \/ UNCHANGED <<cancelled, faults>>,
         UNCHANGED <<obj, model>>, ~Sending, ~Sending'
  PROVE  CleanInv'
<1> SUFFICES ASSUME Clean' PROVE ~cancelled' /\ FilesOK' /\ WholeOK' /\ FileOK'
  BY DEF CleanInv
<1>1. ~cancelled' /\ FilesOK /\ WholeOK
  BY CleanFacts
<1>2. DevOK /\ ModelOK
  BY DEF Inv4, Inv2, Inv1, TypeInv
<1>3. OnlyNew
  BY DEF OnlyNew
<1>4. WholeOK'
  BY <1>1, <1>2, <1>3, WholeKept DEF Pending, Resetting
<1>5. FilesOK'
  BY <1>1, FilesShrink
<1>6. FileOK'
  BY DEF FileOK
<1> QED
  BY <1>1, <1>4, <1>5, <1>6

LEMMA NotSendingStays ==
  ASSUME Inv4, Worker, work.at # "idle", work.cmd.op # "send"
  PROVE  ~Sending /\ ~Sending' /\ events \subseteq events'
<1>1. WorkerShape /\ events \subseteq events'
  BY WorkerShapeHolds, WorkerRest DEF Inv4, Inv2, Inv1
<1> QED
  BY <1>1 DEF WorkerShape, Sending

LEMMA OthersClean ==
  ASSUME Inv4, Prepare \/ CreateTrack \/ SendTrack \/ AddTrack \/ Download \/ TimeNotThere \/ SetTime
               \/ SetCover \/ Finished \/ \E d \in DOMAIN albums : ChooseCover(d)
  PROVE  CleanInv'
<1>1. UNCHANGED <<obj, model>> /\ Worker
  BY DEF Prepare, CreateTrack, SendTrack, AddTrack, Download, TimeNotThere, SetTime, SetCover, Finished,
     FinishEnds, FinishStays, ChooseCover, Worker, device, window
<1>2. Succeeds \/ Fails \/ Refuses \/ UNCHANGED <<cancelled, faults>>
  BY DEF Prepare, CreateTrack, SendTrack, AddTrack, Download, TimeNotThere, SetTime, SetCover, Finished,
     FinishEnds, FinishStays, ChooseCover, flags
<1>3. work.at # "idle" /\ work.cmd.op # "send"
  <2>1. WorkOK
    BY DEF Inv4, Inv2, Inv1, TypeInv
  <2>2. \/ work.at \in {"prepare", "create", "add", "get", "mtime", "covers", "cover"}
        \/ work.at = "data" /\ work.cmd.op = "import"
    BY DEF Prepare, CreateTrack, SendTrack, AddTrack, Download, TimeNotThere, SetTime, SetCover, Finished,
       FinishEnds, ChooseCover
  <2> QED
    BY <2>1, <2>2 DEF WorkOK, Idle, OfImport, OfGet, OfFinish
<1> QED
  BY <1>1, <1>2, <1>3, NotSendingStays, ElsewhereClean

LEMMA TakeCommandClean ==
  ASSUME Inv4, TakeCommand
  PROVE  CleanInv'
<1> SUFFICES ASSUME Clean' PROVE ~cancelled' /\ FilesOK' /\ WholeOK' /\ FileOK'
  BY DEF CleanInv
<1> DEFINE cmd == Head(queue)
<1>1. /\ work = Idle /\ queue # <<>> /\ UNCHANGED <<obj, model, cancelled, faults, events>>
      /\ work' = IF FirstStep(cmd) = "idle" THEN Idle
                 ELSE [at |-> FirstStep(cmd), cmd |-> cmd, id |-> 0, between |-> FALSE, reset |-> FALSE]
  BY DEF TakeCommand, device, flags, past
<1>2. ~cancelled' /\ FilesOK /\ WholeOK
  BY <1>1, CleanFacts
<1>3. DevOK /\ ModelOK /\ TypeInv
  BY DEF Inv4, Inv2, Inv1, TypeInv
<1>4. cmd.op \in {"finish", "import", "get", "send", "mkdir"}
  BY <1>1, <1>3, HeadFacts DEF Ends
<1> HIDE DEF cmd
<1>5. FirstStep(cmd) \in {"idle", "finish", "prepare", "get", "enter", "find", "lookup"}
  BY <1>4, FirstStepFacts
<1>6. work'.at \in {"idle", "finish", "prepare", "get", "enter", "find", "lookup"} /\ (work'.at # "idle" => ~work'.reset)
  BY <1>1, <1>5 DEF Idle
<1>7. ~Sending
  BY <1>1 DEF Sending, Idle
<1>8. OnlyNew
  BY <1>1 DEF OnlyNew
<1>9. WholeOK'
  BY <1>1, <1>2, <1>3, <1>7, <1>8, WholeKept DEF Pending, Resetting
<1>10. FilesOK'
  BY <1>1, <1>2, FilesShrink
<1>11. FileOK'
  BY <1>6 DEF FileOK, Sending
<1> QED
  BY <1>2, <1>9, <1>10, <1>11

(* A file at work.                                                         *)
LEMMA SendFacts ==
  ASSUME Inv2, work.at \in OfSend \/ (work.at \in OfData /\ work.cmd.op = "send")
  PROVE  /\ Sending /\ work.at # "idle" /\ DOMAIN work = Parts /\ work.id \in Nat
         /\ Last(path) \in NameSet /\ Last(path) \in FileNames
         /\ Front(path) \in DOMAIN dirs /\ dirs[Front(path)] \in 0..top
         /\ work.at \in Placed => model.parent = dirs[Front(path)]
         /\ ~work.between
<1>1. TypeInv /\ WorkOK /\ DevOK /\ StageOK /\ ViewInv
  BY DEF Inv2, Inv1, TypeInv, PlaceInv
<1>2. work.at # "idle" /\ work.cmd.op = "send"
  BY <1>1 DEF WorkOK, OfSend, OfData, Idle
<1>3. work.cmd \in JobCmds /\ Last(path) \in NameSet /\ Front(path) \in DOMAIN dirs /\ dirs[Front(path)] \in 0..top
  BY <1>1, <1>2, TargetFacts
<1>4. Last(path) \in FileNames
  BY <1>2, <1>3, NameFacts DEF path
<1>5. DOMAIN work = Parts /\ work.id \in Nat
  BY <1>1, <1>2, WorkFacts DEF DevOK
<1>6. Sending /\ ~work.between
  BY <1>1, <1>2 DEF Sending, ViewInv
<1>7. work.at \in Placed => model.parent = dirs[Front(path)]
  BY <1>1, <1>6 DEF StageOK
<1> QED
  BY <1>2, <1>3, <1>4, <1>5, <1>6, <1>7

LEMMA EnterFolderClean ==
  ASSUME Inv4, EnterFolder
  PROVE  CleanInv'
<1> SUFFICES ASSUME Clean' PROVE ~cancelled' /\ FilesOK' /\ WholeOK' /\ FileOK'
  BY DEF CleanInv
<1> DEFINE p == dirs[Front(path)]
<1>1. work.at = "enter" /\ SetParent(p) /\ GoOn("find") /\ UNCHANGED <<obj, events>>
  BY DEF EnterFolder, device, past
<1>2. Sending /\ work.at # "idle" /\ p \in 0..top
  BY <1>1, SendFacts DEF Inv4, OfSend
<1>3. DevOK /\ WorkOK
  BY DEF Inv4, Inv2, Inv1, TypeInv
<1> HIDE DEF p
<1>4. Succeeds \/ Fails
  BY <1>1, <1>2, <1>3, SetParentFacts
<1>5. ~cancelled' /\ ~Fails /\ FilesOK /\ FileOK
  BY <1>1, <1>4, CleanFacts
<1>6. WholeOK'
  BY <1>1, <1>2, <1>3, <1>5, WholeListed
<1>7. FilesOK'
  BY <1>1, <1>5, FilesShrink
<1>8. work'.at = "find" /\ ~work'.reset
  BY <1>1, <1>2, <1>3, <1>5, GoOnFacts DEF FileOK
<1>9. FileOK'
  BY <1>8 DEF FileOK
<1> QED
  BY <1>5, <1>6, <1>7, <1>9

LEMMA FindFileClean ==
  ASSUME Inv4, KindsApart, FindFile
  PROVE  CleanInv'
<1> SUFFICES ASSUME Clean' PROVE ~cancelled' /\ FilesOK' /\ WholeOK' /\ FileOK'
  BY DEF CleanInv
<1> DEFINE name == Last(path)
<1>1. PICK bad : LET k == Found(name, bad)
                 IN  /\ LookUp(name, bad)
                     /\ IF k = 0 THEN GoOn("open") /\ UNCHANGED <<gui, refused>>
                        ELSE IF answer = "no"
                        THEN work' = Idle /\ refused' = refused \cup {path} /\ UNCHANGED gui
                        ELSE /\ work' = [work EXCEPT !.id = model.rows[k].id,
                                             !.at = IF answer = "yes" THEN "delete" ELSE "ask"]
                             /\ gui' = IF answer = "yes" THEN gui ELSE "ask"
                             /\ UNCHANGED refused
  BY DEF FindFile
<1>2. work.at = "find" /\ UNCHANGED <<obj, events>>
  BY DEF FindFile, device
<1>3. /\ Sending /\ work.at # "idle" /\ DOMAIN work = Parts /\ name \in NameSet /\ name \in FileNames
  BY <1>2, SendFacts DEF Inv4, OfSend
<1>4. DevOK /\ ModelOK /\ WorkOK /\ RowsOK
  BY DEF Inv4, Inv2, Inv1, TypeInv, PlaceInv
<1>5. /\ Succeeds \/ Fails
      /\ model'.parent = model.parent /\ model'.rows = RowsLookedUp(name, bad)
      /\ bad # 0 => Fails
  <2>1. LookUp(name, bad)
    BY <1>1
  <2>2. bad # 0 => Fails
    BY <2>1 DEF LookUp
  <2> HIDE DEF name
  <2> QED
    BY <1>4, <2>1, <2>2, LookUpFacts
<1>6. ~cancelled' /\ ~Fails /\ FilesOK /\ WholeOK /\ FileOK /\ Clean
  BY <1>2, <1>5, CleanFacts
<1>7. bad = 0
  BY <1>5, <1>6
<1>8. ~Resetting /\ \A i : ~Pending(i)
  BY <1>2 DEF Resetting, Pending, OfData
<1>9. \A k \in DOMAIN model.rows : Named(0)[k] = IF model.rows[k].name # Unknown THEN model.rows[k].name
                                                 ELSE InfoOf(model.rows[k].id)
  BY <1>4, NamedFacts, RowFacts DEF ModelOK
<1> DEFINE k == Found(name, 0)
<1>10. \/ work' = Idle
       \/ k = 0 /\ GoOn("open")
       \/ /\ k # 0
          /\ \E a \in {"delete", "ask"} : work' = [work EXCEPT !.id = model.rows[k].id, !.at = a]
  BY <1>1, <1>7
<1>11. model'.rows = RowsLookedUp(name, 0)
  BY <1>5, <1>7
<1>12. name = Last(path)
  OBVIOUS
<1> HIDE DEF name
<1>13. /\ k = 0 => \A l \in DOMAIN model.rows : Named(0)[l] # name
       /\ k # 0 => k \in DOMAIN model.rows /\ Named(0)[k] = name
  BY <1>4, FoundFacts
<1> HIDE DEF k
<1>14. WholeOK'
  BY <1>2, <1>4, <1>5, <1>6, <1>8, <1>11, WholeRead
<1>15. FilesOK'
  BY <1>2, <1>6, FilesShrink
<1>16. name \notin {Unknown, Missing} /\ Unknown # Missing
  BY <1>3 DEF NameSet, Unknown, Missing
<1>17. CASE work' = Idle
  <2>1. ~Sending'
    BY <1>17 DEF Sending, Idle
  <2>2. FileOK'
    BY <1>17, <2>1 DEF FileOK, Idle
  <2> QED
    BY <1>6, <1>14, <1>15, <2>2
<1>18. CASE k = 0 /\ GoOn("open")
  <2>1. work'.at = "open" /\ work'.cmd = work.cmd
    BY <1>3, <1>4, <1>18, GoOnFacts
  <2>2. ASSUME NEW i \in DOMAIN obj, obj[i].parent = model.parent
        PROVE  obj[i].name # name
    <3>1. PICK l \in DOMAIN model.rows : model.rows[l].id = i
      BY <1>6, <1>8, <2>2 DEF WholeOK
    <3>2. model.rows[l].name \in {Unknown, obj[i].name}
      BY <1>4, <1>6, <2>2, <3>1 DEF RowsOK, WholeOK
    <3>3. Named(0)[l] = obj[i].name
      BY <1>9, <2>2, <3>1, <3>2 DEF InfoOf
    <3> QED
      BY <1>13, <1>18, <3>1, <3>3
  <2>3. Last(path') = name
    BY <1>12, <2>1 DEF path
  <2>4. FileOK'
    BY <1>2, <1>5, <2>1, <2>2, <2>3 DEF FileOK
  <2> QED
    BY <1>6, <1>14, <1>15, <2>4
<1>19. CASE k # 0 /\ \E a \in {"delete", "ask"} : work' = [work EXCEPT !.id = model.rows[k].id, !.at = a]
  <2>1. PICK i : i = model.rows[k].id
    OBVIOUS
  <2>2. PICK a \in {"delete", "ask"} : work' = [work EXCEPT !.id = i, !.at = a]
    BY <1>19, <2>1
  <2>3. work'.at \in {"delete", "ask"} /\ work'.id = i /\ work'.reset = work.reset /\ ~work.reset
    <3>1. work'.at = a /\ work'.id = i /\ work'.reset = work.reset
      BY <1>3, <2>2 DEF Parts
    <3>2. ~work.reset
      BY <1>2, <1>3, <1>6 DEF FileOK
    <3> QED
      BY <3>1, <3>2
  <2>4. i \in DOMAIN obj
    <3>1. CASE model.rows[k].name = Unknown
      BY <1>9, <1>13, <1>16, <1>19, <2>1, <3>1 DEF InfoOf
    <3>2. CASE model.rows[k].name # Unknown
      BY <1>6, <1>8, <1>9, <1>13, <1>16, <1>19, <2>1, <3>2 DEF WholeOK
    <3> QED
      BY <3>1, <3>2
  <2>5. obj[i].name = name
    <3>1. k = Found(name, 0)
      BY DEF k
    <3> QED
      BY <1>3, <1>19, <2>1, <2>4, <3>1, FoundName DEF Inv4
  <2>6. ~obj[i].dir
    BY <1>3, <1>6, <2>4, <2>5 DEF FilesOK, KindsApart
  <2>7. FileOK'
    BY <1>2, <2>3, <2>4, <2>6 DEF FileOK
  <2> QED
    BY <1>6, <1>14, <1>15, <2>7
<1> QED
  BY <1>10, <1>17, <1>18, <1>19

LEMMA DeleteOldClean ==
  ASSUME Inv4, DeleteOld
  PROVE  CleanInv'
<1> SUFFICES ASSUME Clean' PROVE ~cancelled' /\ FilesOK' /\ WholeOK' /\ FileOK'
  BY DEF CleanInv
<1>1. /\ work.at = "delete" /\ UNCHANGED <<model, events, dirs>>
      /\ \/ /\ Succeeds /\ obj' = Deleted(work.id)
            /\ work' = [work EXCEPT !.at = "open", !.reset = TRUE]
         \/ Fails
  BY DEF DeleteOld, past, maps
<1>2. Sending /\ DOMAIN work = Parts /\ model.parent = dirs[Front(path)]
  BY <1>1, SendFacts DEF Inv4, OfSend, Placed
<1>3. DevOK /\ ModelOK /\ ReplacedInPlace
  BY DEF Inv4, Inv2, Inv1, TypeInv, PlaceInv, StageOK
<1>4. ~cancelled' /\ ~Fails /\ FilesOK /\ WholeOK /\ FileOK
  BY <1>1, CleanFacts
<1>5. obj' = Deleted(work.id) /\ work' = [work EXCEPT !.at = "open", !.reset = TRUE]
  BY <1>1, <1>4
<1>6. work'.at = "open" /\ work'.reset = TRUE /\ work'.cmd = work.cmd
  BY <1>2, <1>5 DEF Parts
<1>7. Sending' /\ Resetting' /\ path' = path
  BY <1>2, <1>6 DEF Sending, Resetting, path
<1>8. /\ DOMAIN obj' \subseteq DOMAIN obj \ {work.id} /\ \A j \in DOMAIN obj' : obj'[j] = obj[j]
  BY <1>5, DeletedFacts
<1>9. OnlyNew
  BY <1>8 DEF OnlyNew
<1>10. \A i : ~Pending(i)
  BY <1>1 DEF Pending, OfData
<1>11. WholeOK'
  BY <1>1, <1>3, <1>4, <1>7, <1>8, <1>9, <1>10, WholeKept
<1>12. FilesOK'
  BY <1>4, <1>8, FilesShrink
<1>13. ASSUME NEW i \in DOMAIN obj', obj'[i].parent = model.parent, ~obj'[i].dir
       PROVE  obj'[i].name # Last(path)
  <2>1. /\ work.id \in DOMAIN obj /\ ~obj[work.id].dir
        /\ obj[work.id].name = Last(path) /\ obj[work.id].parent = model.parent
    BY <1>1, <1>2, <1>3, <1>4 DEF FileOK, ReplacedInPlace
  <2>2. i \in DOMAIN obj /\ i # work.id /\ obj'[i] = obj[i]
    BY <1>8
  <2> QED
    BY <1>4, <1>13, <2>1, <2>2 DEF FilesOK
<1>14. FileOK'
  BY <1>1, <1>6, <1>7, <1>13 DEF FileOK
<1> QED
  BY <1>4, <1>11, <1>12, <1>14

LEMMA OpenFileClean ==
  ASSUME Inv4, OpenFile
  PROVE  CleanInv'
<1> SUFFICES ASSUME Clean' PROVE ~cancelled' /\ FilesOK' /\ WholeOK' /\ FileOK'
  BY DEF CleanInv
<1>1. /\ work.at = "open" /\ UNCHANGED <<obj, model, cancelled, events, dirs>>
      /\ (GoOn("announce") /\ UNCHANGED faults) \/ faults' = faults + 1
  BY DEF OpenFile, device, flags, past, maps
<1>2. faults' = 0 /\ faults \in Nat
  BY BoundsAssumption DEF Clean, Inv4, Inv2, Inv1, TypeInv, FlagsOK
<1>3. GoOn("announce") /\ UNCHANGED faults
  BY <1>1, <1>2
<1>4. Sending /\ work.at # "idle"
  BY <1>1, SendFacts DEF Inv4, OfSend
<1>5. DevOK /\ ModelOK /\ WorkOK
  BY DEF Inv4, Inv2, Inv1, TypeInv
<1>6. ~cancelled' /\ FilesOK /\ WholeOK /\ FileOK
  BY <1>1, <1>3, CleanFacts
<1>7. work'.at = "announce" /\ work'.cmd = work.cmd /\ work'.reset = work.reset
  BY <1>3, <1>4, <1>5, GoOnFacts
<1>8. OnlyNew
  BY <1>1 DEF OnlyNew
<1>9. ~Pending(0) /\ \A i : ~Pending(i)
  BY <1>1 DEF Pending, OfData
<1>10. Sending' /\ (Resetting => Resetting') /\ path' = path
  BY <1>4, <1>7 DEF Sending, Resetting, path
<1>11. WholeOK'
  BY <1>1, <1>5, <1>6, <1>8, <1>9, <1>10, WholeKept
<1>12. FilesOK'
  BY <1>1, <1>6, FilesShrink
<1>13. FileOK'
  BY <1>1, <1>4, <1>6, <1>7, <1>10 DEF FileOK
<1> QED
  BY <1>6, <1>11, <1>12, <1>13

LEMMA BeginDataClean ==
  ASSUME Inv4, BeginData
  PROVE  CleanInv'
<1> SUFFICES ASSUME Clean' PROVE ~cancelled' /\ FilesOK' /\ WholeOK' /\ FileOK'
  BY DEF CleanInv
<1>1. /\ work.at = "pause" /\ UNCHANGED <<obj, model, cancelled, faults, events>> /\ GoOn("data")
  BY DEF BeginData, device, flags, past
<1>2. DevOK /\ ModelOK /\ WorkOK /\ work.at # "idle"
  BY <1>1 DEF Inv4, Inv2, Inv1, TypeInv, WorkOK, Idle
<1>3. ~cancelled' /\ FilesOK /\ WholeOK
  BY <1>1, CleanFacts
<1>4. work'.at = "data" /\ work'.cmd = work.cmd /\ work'.reset = work.reset /\ work'.id = work.id
  BY <1>1, <1>2, GoOnFacts
<1>5. OnlyNew
  BY <1>1 DEF OnlyNew
<1>6. (Resetting => Resetting') /\ \A i : Pending(i) => Pending(i)'
  BY <1>1, <1>4 DEF Sending, Resetting, Pending, OfData
<1>7. WholeOK'
  BY <1>1, <1>2, <1>3, <1>5, <1>6, WholeKept
<1>8. FilesOK'
  BY <1>1, <1>3, FilesShrink
<1>9. FileOK'
  BY <1>4 DEF FileOK
<1> QED
  BY <1>3, <1>7, <1>8, <1>9

LEMMA AnnounceClean ==
  ASSUME Inv4, Announce
  PROVE  CleanInv'
<1> SUFFICES ASSUME Clean' PROVE ~cancelled' /\ FilesOK' /\ WholeOK' /\ FileOK'
  BY DEF CleanInv
<1> DEFINE p == dirs[Front(path)]
           n == Last(path)
<1>1. /\ work.at = "announce" /\ UNCHANGED <<model, events>>
      /\ \/ /\ Succeeds /\ obj' = Created(p, n, FALSE) /\ top' = top + 1
            /\ work' = [work EXCEPT !.at = "pause", !.id = top + 1]
         \/ Fails
  BY DEF Announce, past
<1>2. Sending /\ DOMAIN work = Parts /\ model.parent = p /\ n \in NameSet /\ p \in 0..top
  BY <1>1, SendFacts DEF Inv4, OfSend, Placed
<1>3. DevOK /\ ModelOK
  BY DEF Inv4, Inv2, Inv1, TypeInv
<1>4. ~cancelled' /\ ~Fails /\ FilesOK /\ WholeOK /\ FileOK
  BY <1>1, CleanFacts
<1>5. PICK i : i = top + 1
  OBVIOUS
<1>6. obj' = Created(p, n, FALSE) /\ top' = top + 1 /\ work' = [work EXCEPT !.at = "pause", !.id = i]
  BY <1>1, <1>4, <1>5
<1>7. work'.at = "pause" /\ work'.id = i /\ work'.cmd = work.cmd /\ work'.reset = work.reset
  BY <1>2, <1>6 DEF Parts
<1>8. \A j \in DOMAIN obj : obj[j].parent = p /\ ~obj[j].dir => obj[j].name # n
  BY <1>1, <1>2, <1>4 DEF FileOK
<1> HIDE DEF p, n
<1>9. /\ DOMAIN obj' = DOMAIN obj \cup {i} /\ i \notin DOMAIN obj
      /\ obj'[i] = [name |-> n, parent |-> p, dir |-> FALSE] /\ \A j \in DOMAIN obj : obj'[j] = obj[j]
      /\ OnlyNew
  BY <1>2, <1>3, <1>5, <1>6, CreatedOK, OnlyNewFacts
<1>10. obj'[i].name = n /\ obj'[i].parent = p /\ ~obj'[i].dir
  BY <1>9
<1>11. Sending' /\ Pending(i)' /\ (Resetting => Resetting') /\ \A j : ~Pending(j)
  BY <1>1, <1>2, <1>7 DEF Sending, Pending, Resetting, OfData
<1>12. WholeOK'
  <2>1. \A j \in DOMAIN obj' \ DOMAIN obj : obj'[j].parent = model.parent => Pending(j)'
    BY <1>9, <1>11
  <2> QED
    BY <1>1, <1>3, <1>4, <1>9, <1>11, <2>1, WholeKept
<1>13. FilesOK'
  BY <1>4, <1>8, <1>9, <1>10, FilesGrow
<1>14. FileOK'
  BY <1>7 DEF FileOK
<1> QED
  BY <1>4, <1>12, <1>13, <1>14

LEMMA SendDataClean ==
  ASSUME Inv4, SendData
  PROVE  CleanInv'
<1> SUFFICES ASSUME Clean' PROVE ~cancelled' /\ FilesOK' /\ WholeOK' /\ FileOK'
  BY DEF CleanInv
<1> DEFINE p == dirs[Front(path)]
<1>1. /\ work.at = "data" /\ work.cmd.op = "send" /\ UNCHANGED events
      /\ \/ /\ Succeeds /\ obj' = obj /\ model' = RowAdded(p, work.id)
            /\ IF work.reset THEN GoOn("relist") ELSE work' = Idle
         \/ Fails \/ Refuses
  BY DEF SendData
<1>2. Sending /\ DOMAIN work = Parts /\ model.parent = p /\ work.id \in Nat /\ ~work.between /\ work.at # "idle"
  BY <1>1, SendFacts DEF Inv4, OfData, Placed
<1>3. DevOK /\ ModelOK /\ WorkOK
  BY DEF Inv4, Inv2, Inv1, TypeInv
<1>4. ~cancelled' /\ ~Fails /\ FilesOK /\ WholeOK
  BY <1>1, CleanFacts
<1>5. /\ obj' = obj /\ model' = RowAdded(p, work.id)
      /\ IF work.reset THEN GoOn("relist") ELSE work' = Idle
  BY <1>1, <1>2, <1>4 DEF Refuses
<1>6. work'.at \in {"relist", "idle"} /\ (Resetting => Resetting')
  <2>1. CASE work.reset
    <3>1. work'.at = "relist" /\ work'.cmd = work.cmd /\ work'.reset = work.reset
      BY <1>2, <1>3, <1>5, <2>1, GoOnFacts
    <3> QED
      BY <2>1, <3>1 DEF Resetting, Sending
  <2>2. CASE ~work.reset
    BY <1>5, <2>2 DEF Resetting, Idle
  <2> QED
    BY <2>1, <2>2
<1> HIDE DEF p
<1>7. OnlyNew
  BY <1>5 DEF OnlyNew
<1>8. PICK i : i = work.id
  OBVIOUS
<1>9. \A j : Pending(j) => j = i /\ p = model.parent
  BY <1>2, <1>8 DEF Pending
<1>10. WholeOK'
  BY <1>2, <1>3, <1>4, <1>5, <1>6, <1>7, <1>8, <1>9, WholeGrown
<1>11. FilesOK'
  BY <1>4, <1>5, FilesShrink
<1>12. FileOK'
  BY <1>6 DEF FileOK
<1> QED
  BY <1>4, <1>10, <1>11, <1>12

LEMMA RelistClean ==
  ASSUME Inv4, Relist \/ Finish
  PROVE  CleanInv'
<1> SUFFICES ASSUME Clean' PROVE ~cancelled' /\ FilesOK' /\ WholeOK' /\ FileOK'
  BY DEF CleanInv
<1>1. DevOK /\ ModelOK /\ WorkOK
  BY DEF Inv4, Inv2, Inv1, TypeInv
<1>2. UNCHANGED <<obj, events>>
  BY DEF Relist, Finish, device, past
<1>3. \E p \in 0..top : SetParent(p)
  <2>1. CASE Relist
    <3>1. SetParent(model.parent) /\ model.parent \in 0..top
      BY <1>1, <2>1 DEF Relist, ModelOK, DevOK
    <3> QED
      BY <3>1
  <2>2. CASE Finish
    <3>1. SetParent(work.cmd.id) /\ work.at = "finish"
      BY <2>2 DEF Finish
    <3>2. work.cmd.id \in 0..top
      BY <1>1, <3>1 DEF WorkOK, Idle, OfFinish
    <3> QED
      BY <3>1, <3>2
  <2> QED
    BY <2>1, <2>2
<1>4. PICK p \in 0..top : SetParent(p)
  BY <1>3
<1>5. Succeeds \/ Fails
  BY <1>1, <1>4, SetParentFacts
<1>6. ~cancelled' /\ ~Fails /\ FilesOK
  BY <1>2, <1>5, CleanFacts
<1>7. WholeOK'
  BY <1>1, <1>2, <1>4, <1>6, WholeListed
<1>8. FilesOK'
  BY <1>2, <1>6, FilesShrink
<1>9. work'.at \in {"idle", "covers"}
  <2>1. CASE Relist
    BY <2>1 DEF Relist, Idle
  <2>2. CASE Finish
    <3>1. GoOn("covers") /\ work.at = "finish"
      BY <2>2 DEF Finish
    <3> QED
      BY <1>1, <3>1, GoOnFacts
  <2> QED
    BY <2>1, <2>2
<1>10. FileOK'
  BY <1>9 DEF FileOK
<1> QED
  BY <1>6, <1>7, <1>8, <1>10

LEMMA LookUpFolderClean ==
  ASSUME Inv4, LookUpFolder
  PROVE  CleanInv'
<1> SUFFICES ASSUME Clean' PROVE ~cancelled' /\ FilesOK' /\ WholeOK' /\ FileOK'
  BY DEF CleanInv
<1> DEFINE name == Last(path)
<1>1. PICK bad : LookUp(name, bad)
  BY DEF LookUpFolder
<1>2. work.at = "lookup" /\ UNCHANGED <<obj, events>> /\ Worker
  BY DEF LookUpFolder, device, past, Worker
<1>3. DevOK /\ ModelOK /\ WorkOK
  BY DEF Inv4, Inv2, Inv1, TypeInv
<1>4. ~Sending /\ ~Sending'
  <2>1. work.at # "idle" /\ work.cmd.op # "send"
    BY <1>2, <1>3 DEF WorkOK, OfMkdir, Idle
  <2> QED
    BY <1>2, <2>1, NotSendingStays
<1>5. bad # 0 => Fails
  BY <1>1 DEF LookUp
<1> HIDE DEF name
<1>6. /\ Succeeds \/ Fails
      /\ model'.parent = model.parent /\ model'.rows = RowsLookedUp(name, bad)
  BY <1>1, <1>3, LookUpFacts
<1>7. ~cancelled' /\ ~Fails /\ FilesOK /\ WholeOK
  BY <1>2, <1>6, CleanFacts
<1>8. model'.rows = RowsLookedUp(name, 0)
  BY <1>5, <1>6, <1>7
<1>9. WholeOK'
  BY <1>2, <1>3, <1>4, <1>6, <1>7, <1>8, WholeRead DEF Resetting, Pending
<1>10. FilesOK'
  BY <1>2, <1>7, FilesShrink
<1>11. FileOK'
  BY <1>4 DEF FileOK
<1> QED
  BY <1>7, <1>9, <1>10, <1>11

LEMMA MakeFolderClean ==
  ASSUME Inv4, MakeFolder
  PROVE  CleanInv'
<1> SUFFICES ASSUME Clean' PROVE ~cancelled' /\ FilesOK' /\ WholeOK' /\ FileOK'
  BY DEF CleanInv
<1> DEFINE p == dirs[Front(path)]
           n == Last(path)
<1>1. /\ work.at = "make" /\ UNCHANGED events /\ work' = Idle
      /\ \/ /\ Succeeds /\ obj' = Created(p, n, TRUE) /\ top' = top + 1
            /\ model' = RowAdded(p, top + 1)
         \/ Fails
  BY DEF MakeFolder, past
<1>2. TypeInv /\ DevOK /\ ModelOK /\ WorkOK
  BY DEF Inv4, Inv2, Inv1, TypeInv
<1>3. work.at # "idle" /\ work.cmd.op = "mkdir"
  BY <1>1, <1>2 DEF WorkOK, OfMkdir, Idle
<1>4. ~Sending /\ ~Sending'
  BY <1>1, <1>3 DEF Sending, Idle
<1>5. n \in NameSet /\ n \in FolderNames /\ p \in 0..top
  <2>1. n \in NameSet /\ p \in 0..top /\ work.cmd \in JobCmds
    BY <1>2, <1>3, TargetFacts
  <2>2. n \in FolderNames
    BY <1>3, <2>1, NameFacts DEF path
  <2> QED
    BY <2>1, <2>2
<1>6. ~cancelled' /\ ~Fails /\ FilesOK /\ WholeOK
  BY <1>1, CleanFacts
<1>7. PICK i : i = top + 1
  OBVIOUS
<1>8. obj' = Created(p, n, TRUE) /\ top' = top + 1 /\ model' = RowAdded(p, i) /\ i \in Nat
  <2>1. top \in Nat
    BY <1>2 DEF DevOK
  <2>2. i \in Nat
    BY <1>7, <2>1
  <2>3. obj' = Created(p, n, TRUE) /\ top' = top + 1 /\ model' = RowAdded(p, top + 1)
    BY <1>1, <1>6
  <2> QED
    BY <1>7, <2>2, <2>3
<1> HIDE DEF p, n
<1>9. /\ DOMAIN obj' = DOMAIN obj \cup {i} /\ i \notin DOMAIN obj
      /\ obj'[i] = [name |-> n, parent |-> p, dir |-> TRUE] /\ \A j \in DOMAIN obj : obj'[j] = obj[j]
      /\ OnlyNew
  BY <1>2, <1>5, <1>7, <1>8, CreatedOK, OnlyNewFacts
<1>10. obj'[i].name = n /\ obj'[i].parent = p /\ obj'[i].dir
  BY <1>9
<1>11. WholeOK'
  BY <1>2, <1>4, <1>6, <1>8, <1>9, <1>10, WholeGrown DEF Pending, Resetting
<1>12. FilesOK'
  BY <1>5, <1>6, <1>9, <1>10, FilesGrow
<1>13. FileOK'
  BY <1>4 DEF FileOK
<1> QED
  BY <1>6, <1>11, <1>12, <1>13

LEMMA WorkerClean ==
  ASSUME Inv4, KindsApart, Worker
  PROVE  CleanInv'
BY TakeCommandClean, EnterFolderClean, FindFileClean, DeleteOldClean, OpenFileClean, AnnounceClean,
   BeginDataClean, SendDataClean, RelistClean, LookUpFolderClean, MakeFolderClean, OthersClean DEF Worker


(* Steps of the window.                                                    *)
LEMMA WindowClean ==
  ASSUME Inv4, events \subseteq events', Succeeds \/ Fails \/ Refuses \/ UNCHANGED <<cancelled, faults>>,
         ~Sending',
         ~Fails /\ FilesOK /\ WholeOK => FilesOK' /\ WholeOK'
  PROVE  CleanInv'
<1> SUFFICES ASSUME Clean' PROVE ~cancelled' /\ FilesOK' /\ WholeOK' /\ FileOK'
  BY DEF CleanInv
<1>1. ~cancelled' /\ ~Fails /\ FilesOK /\ WholeOK
  BY CleanFacts
<1>2. FileOK'
  BY DEF FileOK
<1> QED
  BY <1>1, <1>2

LEMMA StillSending ==
  ASSUME Inv4, gui \in {"idle", "next"} \/ work = Idle, UNCHANGED work
  PROVE  ~Sending /\ ~Sending' /\ ~Resetting /\ \A i : ~Pending(i)
<1>1. work = Idle
  BY TurnIdle DEF Inv4, Inv2
<1> QED
  BY <1>1 DEF Sending, Resetting, Pending, Idle

(* Another folder is shown.                                                *)
LEMMA ShowClean ==
  ASSUME Inv4, gui \in {"idle", "next"} \/ work = Idle, UNCHANGED <<work, obj, events>>, NEW p \in 0..top, SetParent(p)
  PROVE  CleanInv'
<1>1. ~Sending'
  BY StillSending
<1>2. DevOK
  BY DEF Inv4, Inv2, Inv1, TypeInv
<1>3. Succeeds \/ Fails
  BY <1>2, SetParentFacts
<1>4. ~Fails => WholeOK'
  BY <1>2, WholeListed
<1>5. FilesOK => FilesOK'
  BY FilesShrink
<1> QED
  BY <1>1, <1>3, <1>4, <1>5, WindowClean

LEMMA EnterClean ==
  ASSUME Inv4, NEW k, Enter(k)
  PROVE  CleanInv'
<1> DEFINE i == model.rows[k].id
<1>1. gui = "idle" /\ UNCHANGED <<work, obj, events>> /\ SetParent(i) /\ i \in DOMAIN obj
  BY DEF Enter, Turn, worker, device, past
<1> HIDE DEF i
<1>2. i \in 0..top
  BY <1>1 DEF Inv4, Inv2, Inv1, TypeInv, DevOK
<1> QED
  BY <1>1, <1>2, ShowClean

LEMMA BackClean ==
  ASSUME Inv4, Back
  PROVE  CleanInv'
<1> DEFINE p == IF Len(history) = 1 THEN Root ELSE history[Len(history) - 1]
<1>1. gui = "idle" /\ UNCHANGED <<work, obj, events>> /\ history # <<>> /\ SetParent(p)
  BY DEF Back, Turn, worker, device, past
<1>2. TypeInv
  BY DEF Inv4, Inv2, Inv1
<1>3. p \in 0..top
  BY <1>1, <1>2, HistoryFacts
<1> HIDE DEF p
<1> QED
  BY <1>1, <1>3, ShowClean

LEMMA DialogClosesClean ==
  ASSUME Inv4, DialogCloses
  PROVE  CleanInv'
<1> DEFINE p == IF Len(history) = 1 THEN Root ELSE history[Len(history) - 1]
<1>1. /\ gui = "dialog" /\ done
      /\ CASE job.kind = "upload" -> SetParent(model.parent)
           [] job.kind = "album" -> SetParent(p)
           [] OTHER -> UNCHANGED <<model, cancelled, faults>>
      /\ UNCHANGED <<obj, work, events>>
  BY DEF DialogCloses, worker, device, past
<1>2. TypeInv /\ AlbumOK /\ ModelOK /\ DevOK
  BY DEF Inv4, Inv2, Inv1, TypeInv
<1>3. work = Idle /\ Busy
  BY <1>1, <1>2 DEF TypeInv, QuietOK, Busy
<1>4. CASE job.kind = "album"
  <2>1. history # <<>> /\ SetParent(p)
    BY <1>1, <1>2, <1>3, <1>4 DEF AlbumOK
  <2>2. p \in 0..top
    BY <1>2, <2>1, HistoryFacts
  <2> HIDE DEF p
  <2> QED
    BY <1>1, <1>3, <2>1, <2>2, ShowClean
<1>5. CASE job.kind = "upload"
  <2>1. SetParent(model.parent) /\ model.parent \in 0..top
    BY <1>1, <1>2, <1>5 DEF ModelOK, DevOK
  <2> QED
    BY <1>1, <1>3, <2>1, ShowClean
<1>6. CASE job.kind \notin {"upload", "album"}
  <2>1. UNCHANGED <<model, cancelled, faults>>
    BY <1>1, <1>6
  <2>2. ~Sending /\ ~Sending'
    BY <1>1, <1>3, StillSending
  <2> QED
    BY <1>1, <2>1, <2>2, ElsewhereClean
<1> QED
  BY <1>4, <1>5, <1>6

LEMMA DeleteSelectedClean ==
  ASSUME Inv4, NEW k, DeleteSelected(k)
  PROVE  CleanInv'
<1> DEFINE S == {i \in DOMAIN obj' : obj'[i].parent = model.parent}
           p == model.parent
<1>1. /\ gui = "idle" /\ UNCHANGED <<work, events>> /\ model' = [model EXCEPT !.rows = RowsOf(S)]
      /\ (Succeeds /\ obj' = Deleted(model.rows[k].id)) \/ (Fails /\ obj' = obj)
  BY DEF DeleteSelected, Selected, Turn, worker, past
<1>2. model'.parent = p /\ model'.rows = RowsOf(S)
  BY <1>1 DEF Inv4, Inv2, Inv1, TypeInv, ModelOK
<1>3. \A i : i \in S <=> i \in DOMAIN obj' /\ obj'[i].parent = p
  OBVIOUS
<1>4. DevOK'
  BY DeleteSelectedType DEF Inv4, Inv2, Inv1, TypeInv
<1> HIDE DEF S, p
<1>5. WholeOK'
  BY <1>2, <1>3, <1>4, RowsListed, WholeFresh
<1>6. FilesOK => FilesOK'
  BY <1>1, DeletedFacts, FilesShrink
<1>7. ~Sending'
  BY <1>1, StillSending
<1> QED
  BY <1>1, <1>5, <1>6, <1>7, WindowClean

LEMMA CreateFolderClean ==
  ASSUME Inv4, NEW name \in Names, CreateFolder(name)
  PROVE  CleanInv'
<1> DEFINE rows == RowsLookedUp(name, 0)
           n == Len(model.rows) + 1
<1>1. PICK i : i = top + 1
  OBVIOUS
<1>2. /\ gui = "idle" /\ UNCHANGED <<work, events>> /\ (Succeeds \/ Fails)
      /\ \/ model' = [model EXCEPT !.rows = rows] /\ obj' = obj
         \/ /\ obj' = Created(model.parent, name, TRUE) /\ top' = top + 1
            /\ model' = [model EXCEPT !.rows = Append(rows, [id |-> i, name |-> Unknown])]
  BY <1>1 DEF CreateFolder, Turn, worker, past, device
<1>3. DevOK /\ ModelOK /\ name \in NameSet /\ name \in FolderNames /\ model \in [parent : Nat, rows : Seq(RowSet)]
  BY NamesAssumption, NameFacts DEF Inv4, Inv2, Inv1, TypeInv, ModelOK
<1>4. ~Sending /\ ~Sending' /\ ~Resetting /\ \A j : ~Pending(j)
  BY <1>2, StillSending
<1>5. CASE model' = [model EXCEPT !.rows = rows] /\ obj' = obj
  <2>1. model'.parent = model.parent /\ model'.rows = RowsLookedUp(name, 0)
    BY <1>3, <1>5
  <2>2. WholeOK => WholeOK'
    BY <1>3, <1>4, <1>5, <2>1, WholeRead
  <2>3. FilesOK => FilesOK'
    BY <1>5, FilesShrink
  <2> QED
    BY <1>2, <1>4, <2>2, <2>3, WindowClean
<1>6. CASE /\ obj' = Created(model.parent, name, TRUE) /\ top' = top + 1
           /\ model' = [model EXCEPT !.rows = Append(rows, [id |-> i, name |-> Unknown])]
  <2> DEFINE r == [id |-> i, name |-> Unknown]
  <2>1. r.id = i /\ r.name = Unknown /\ r \in RowSet
    BY <1>1, <1>3 DEF RowSet, DevOK
  <2>2. model.parent \in 0..top /\ top \in Nat /\ \A k \in DOMAIN model.rows : model.rows[k].id <= top
    BY <1>3 DEF ModelOK, DevOK
  <2>3. /\ DOMAIN obj' = DOMAIN obj \cup {i} /\ i \notin DOMAIN obj
        /\ obj'[i] = [name |-> name, parent |-> model.parent, dir |-> TRUE] /\ \A j \in DOMAIN obj : obj'[j] = obj[j]
    BY <1>1, <1>3, <1>6, <2>2, CreatedOK
  <2>4. obj'[i].name = name /\ obj'[i].parent = model.parent /\ obj'[i].dir
    BY <2>3
  <2>5. FilesOK => FilesOK'
    BY <1>3, <2>3, <2>4, FilesGrow
  <2>6. /\ rows \in Seq(RowSet) /\ DOMAIN rows = DOMAIN model.rows /\ Len(rows) = Len(model.rows)
        /\ \A k \in DOMAIN model.rows : rows[k].id = model.rows[k].id
    BY <1>3, LookedUpFacts
  <2>7. \A k \in DOMAIN model.rows : model.rows[k].id # i
    BY <1>1, <1>3, <2>2, RowFacts
  <2>8. ASSUME WholeOK
        PROVE  WholeOK'
    <3>1. \A k \in DOMAIN model.rows :
              /\ rows[k].name = Missing => model.rows[k].id \notin DOMAIN obj
              /\ rows[k].name \notin {Unknown, Missing} => model.rows[k].id \in DOMAIN obj
      BY <1>3, <1>4, <2>8, ReadNames
    <3>2. \A j \in DOMAIN obj : obj[j].parent = model.parent => \E k \in DOMAIN model.rows : model.rows[k].id = j
      BY <1>4, <2>8 DEF WholeOK
    <3> HIDE DEF r, rows
    <3>3. /\ DOMAIN Append(rows, r) = DOMAIN rows \cup {n} /\ Append(rows, r)[n] = r
          /\ \A k \in DOMAIN rows : Append(rows, r)[k] = rows[k]
      BY <2>1, <2>6
    <3> DEFINE R == Append(rows, r)
    <3>4. model'.parent = model.parent /\ model'.rows = R
      BY <1>3, <1>6, <2>1 DEF r
    <3> HIDE DEF R, n
    <3>5. /\ DOMAIN R = DOMAIN model.rows \cup {n} /\ R[n].id = i /\ R[n].name = Unknown
          /\ \A k \in DOMAIN model.rows : R[k].id = model.rows[k].id /\ R[k].name = rows[k].name
      BY <2>1, <2>6, <3>3 DEF R
    <3>6. \A j \in DOMAIN obj' : obj'[j].parent = model.parent => \E k \in DOMAIN R : R[k].id = j
      BY <2>3, <3>2, <3>5
    <3>7. Unknown # Missing
      BY DEF Unknown, Missing
    <3>8. \A k \in DOMAIN R :
             /\ R[k].name = Missing => R[k].id \notin DOMAIN obj'
             /\ R[k].name \notin {Unknown, Missing} => R[k].id \in DOMAIN obj'
      BY <2>3, <2>7, <3>1, <3>5, <3>7
    <3> QED
      BY <3>4, <3>6, <3>8 DEF WholeOK
  <2> QED
    BY <1>2, <1>4, <2>5, <2>8, WindowClean
<1> QED
  BY <1>2, <1>5, <1>6

LEMMA AlbumClear ==
  ASSUME DevOK, NEW js, ~AlbumAsks(js)
  PROVE  \A j \in DOMAIN obj : obj[j].parent = AlbumFolder(js) => obj[j].name # Cover
<1> DEFINE made == AlbumMade(js)
<1>1. \A j \in DOMAIN obj : j \in DOMAIN made /\ made[j] = obj[j]
  BY DEF AlbumMade, Created, Put, DevOK
<1>2. \A j \in DOMAIN made : ~(made[j].parent = AlbumFolder(js) /\ made[j].name = Cover)
  BY DEF AlbumAsks
<1> HIDE DEF made
<1> QED
  BY <1>1, <1>2

LEMMA UploadAlbumClean ==
  ASSUME Inv4, gui \in {"idle", "next"}, NEW js, Selection(js), Head(js).kind = "album", UploadAlbum(js)
  PROVE  CleanInv'
<1> DEFINE folder == AlbumFolder(js)
           S == {i \in DOMAIN obj' : obj'[i].parent = folder}
           name == Head(js).name
<1>1. TypeInv /\ DevOK
  BY DEF Inv4, Inv2, Inv1, TypeInv
<1>2. UNCHANGED <<work, events, cancelled, faults>> /\ model' = [parent |-> folder, rows |-> RowsOf(S)]
  BY <1>1, AlbumParts DEF flags
<1>3. model'.parent = folder /\ model'.rows = RowsOf(S) /\ \A i : i \in S <=> i \in DOMAIN obj' /\ obj'[i].parent = folder
  BY <1>2
<1>4. /\ DOMAIN obj \subseteq DOMAIN obj' /\ \A i \in DOMAIN obj : obj'[i] = obj[i]
      /\ \A i \in DOMAIN obj' \ DOMAIN obj :
            \/ obj'[i] = FolderIn(model.parent, name)
            \/ obj'[i] = CoverIn(folder) /\ i = AlbumTop(js) + 1 /\ ~AlbumAsks(js)
      /\ DevOK'
  BY <1>1, AlbumFacts
<1>5. name \in FolderNames
  <2>1. Head(js) \in JobItems
    BY SelectionFacts
  <2> QED
    BY <2>1, NameFacts
<1>6. PICK c : c = AlbumTop(js) + 1
  OBVIOUS
<1>7. ASSUME NEW i \in DOMAIN obj' \ DOMAIN obj
      PROVE  \/ obj'[i].dir = TRUE /\ obj'[i].name = name
             \/ /\ obj'[i].dir = FALSE /\ obj'[i].name = Cover /\ obj'[i].parent = folder /\ i = c
                /\ \A j \in DOMAIN obj : obj[j].parent = folder => obj[j].name # Cover
  <2>1. CASE obj'[i] = FolderIn(model.parent, name)
    BY <2>1 DEF FolderIn
  <2>2. CASE obj'[i] = CoverIn(folder) /\ i = AlbumTop(js) + 1 /\ ~AlbumAsks(js)
    <3>1. obj'[i].dir = FALSE /\ obj'[i].name = Cover /\ obj'[i].parent = folder
      BY <2>2 DEF CoverIn
    <3>2. \A j \in DOMAIN obj : obj[j].parent = folder => obj[j].name # Cover
      BY <1>1, <2>2, AlbumClear
    <3> QED
      BY <1>6, <2>2, <3>1, <3>2
  <2> QED
    BY <1>4, <2>1, <2>2
<1> HIDE DEF folder, S, name
<1>8. WholeOK'
  BY <1>3, <1>4, RowsListed, WholeFresh
<1>9. ASSUME FilesOK
      PROVE  FilesOK'
  <2>1. \A i \in DOMAIN obj' : obj'[i].dir => obj'[i].name \in FolderNames
    BY <1>4, <1>5, <1>7, <1>9 DEF FilesOK
  <2>2. ASSUME NEW a \in DOMAIN obj', NEW b \in DOMAIN obj', obj'[a].parent = obj'[b].parent,
               obj'[a].name = obj'[b].name, ~obj'[a].dir, ~obj'[b].dir
        PROVE  a = b
    <3>1. CASE a \in DOMAIN obj /\ b \in DOMAIN obj
      BY <1>4, <1>9, <2>2, <3>1 DEF FilesOK
    <3>2. CASE a \notin DOMAIN obj /\ b \notin DOMAIN obj
      <4>1. a \in DOMAIN obj' \ DOMAIN obj /\ b \in DOMAIN obj' \ DOMAIN obj
        BY <3>2
      <4>2. a = c
        BY <1>7, <2>2, <4>1
      <4>3. b = c
        BY <1>7, <2>2, <4>1
      <4> QED
        BY <4>2, <4>3
    <3>3. CASE a \in DOMAIN obj /\ b \notin DOMAIN obj
      BY <1>4, <1>7, <2>2, <3>3
    <3>4. CASE a \notin DOMAIN obj /\ b \in DOMAIN obj
      BY <1>4, <1>7, <2>2, <3>4
    <3> QED
      BY <3>1, <3>2, <3>3, <3>4
  <2> QED
    BY <2>1, <2>2 DEF FilesOK
<1>10. ~Sending'
  BY <1>2, StillSending
<1> QED
  BY <1>2, <1>8, <1>9, <1>10, WindowClean

LEMMA BeginClean ==
  ASSUME Inv4, gui \in {"idle", "next"}, UNCHANGED <<obj, model, work, cancelled, faults>>, events \subseteq events'
  PROVE  CleanInv'
<1>1. ~Sending /\ ~Sending'
  BY StillSending
<1> QED
  BY <1>1, ElsewhereClean

LEMMA AnswerClean ==
  ASSUME Inv4, NEW yes \in BOOLEAN, NEW forAll \in BOOLEAN, Answer(yes, forAll)
  PROVE  CleanInv'
<1> SUFFICES ASSUME Clean' PROVE ~cancelled' /\ FilesOK' /\ WholeOK' /\ FileOK'
  BY DEF CleanInv
<1>1. /\ gui = "ask" /\ UNCHANGED <<obj, model, cancelled, faults, events>>
      /\ GoOn("delete") \/ work' = Idle
  BY DEF Answer, GoOn, device, flags
<1>2. WorkOK /\ DevOK /\ ModelOK
  BY DEF Inv4, Inv2, Inv1, TypeInv
<1>3. work.at = "ask" /\ work.at # "idle" /\ Sending
  BY <1>1, <1>2 DEF Inv4, Inv2, Inv1, TypeInv, QuietOK, WorkOK, Sending, OfSend, Idle
<1>4. ~cancelled' /\ FilesOK /\ WholeOK /\ FileOK
  BY <1>1, CleanFacts
<1>5. OnlyNew /\ ~Resetting /\ \A i : ~Pending(i)
  BY <1>1, <1>3 DEF OnlyNew, Resetting, Pending, OfData
<1>6. FilesOK'
  BY <1>1, <1>4, FilesShrink
<1>7. WholeOK'
  BY <1>1, <1>2, <1>4, <1>5, WholeKept
<1>8. CASE GoOn("delete")
  <2>1. work'.at = "delete" /\ work'.id = work.id /\ work'.reset = work.reset
    BY <1>2, <1>3, <1>8, GoOnFacts
  <2>2. work.id \in DOMAIN obj /\ ~obj[work.id].dir /\ ~work.reset
    BY <1>3, <1>4 DEF FileOK
  <2>3. FileOK'
    BY <1>1, <2>1, <2>2 DEF FileOK
  <2> QED
    BY <1>4, <1>6, <1>7, <2>3
<1>9. CASE work' = Idle
  <2>1. FileOK'
    BY <1>9 DEF FileOK, Sending, Idle
  <2> QED
    BY <1>4, <1>6, <1>7, <2>1
<1> QED
  BY <1>1, <1>8, <1>9

LEMMA RepaintClean ==
  ASSUME Inv4, NEW k, Repaint(k)
  PROVE  CleanInv'
<1>1. /\ attached /\ gui = "dialog" /\ work.at \in {"idle", "pause"} /\ k \in DOMAIN model.rows
      /\ model' = [model EXCEPT !.rows[k].name = InfoOf(model.rows[k].id)]
      /\ UNCHANGED <<obj, cancelled, faults, events>>
  BY DEF Repaint, device, flags, past
<1>2. TypeInv /\ ViewInv /\ WorkOK /\ DevOK
  BY DEF Inv4, Inv2, Inv1, TypeInv
<1>3. work' = work \/ (work.at = "pause" /\ work'.at = "pause" /\ work'.cmd = work.cmd)
  BY RepaintPlace DEF Inv4
<1>4. /\ model'.parent = model.parent
      /\ DOMAIN model'.rows = DOMAIN model.rows
      /\ model'.rows[k].id = model.rows[k].id /\ model'.rows[k].name = InfoOf(model.rows[k].id)
      /\ \A l \in DOMAIN model.rows : l # k => model'.rows[l] = model.rows[l]
  BY <1>1, <1>2, RepaintFacts
<1>5. ~Sending
  <2>1. CASE work.at = "idle"
    BY <2>1 DEF Sending
  <2>2. CASE work.at = "pause"
    <3>1. job.kind \notin {"upload", "album"} /\ job.kind \in Kinds
      BY <1>1, <1>2 DEF ViewInv, Uploading, Busy, TypeInv, JobOK, QuietOK
    <3>2. work.cmd.op \in Commands(job.kind)
      <4>1. work.at \notin OfFinish /\ work.at # "idle"
        BY <2>2 DEF OfFinish
      <4> QED
        BY <1>2, <4>1, WorkFacts
    <3> QED
      BY <3>1, <3>2, CommandsFacts DEF Kinds, Sending
  <2> QED
    BY <1>1, <2>1, <2>2
<1>6. ~Sending'
  BY <1>3, <1>5 DEF Sending
<1>7. FilesOK => FilesOK'
  BY <1>1, FilesShrink
<1>8. ASSUME WholeOK
      PROVE  WholeOK'
  <2>1. /\ InfoOf(model.rows[k].id) = Missing => model.rows[k].id \notin DOMAIN obj
        /\ InfoOf(model.rows[k].id) # Missing => model.rows[k].id \in DOMAIN obj
    BY <1>2 DEF InfoOf, DevOK, NameSet
  <2>2. ~Resetting /\ \A i : ~Pending(i)
    BY <1>5 DEF Resetting, Pending
  <2>3. \A l \in DOMAIN model.rows : model'.rows[l].id = model.rows[l].id
    BY <1>4
  <2>4. \A i \in DOMAIN obj : obj[i].parent = model.parent => \E l \in DOMAIN model'.rows : model'.rows[l].id = i
    <3>1. \A i \in DOMAIN obj : obj[i].parent = model.parent => \E l \in DOMAIN model.rows : model.rows[l].id = i
      BY <1>8, <2>2 DEF WholeOK
    <3> QED
      BY <1>4, <2>3, <3>1
  <2>5. ASSUME NEW l \in DOMAIN model.rows
        PROVE  /\ model'.rows[l].name = Missing => model.rows[l].id \notin DOMAIN obj
               /\ model'.rows[l].name \notin {Unknown, Missing} => model.rows[l].id \in DOMAIN obj
    <3>1. CASE l = k
      BY <1>4, <2>1, <3>1
    <3>2. CASE l # k
      BY <1>4, <1>8, <2>2, <3>2 DEF WholeOK
    <3> QED
      BY <3>1, <3>2
  <2> QED
    BY <1>1, <1>4, <2>3, <2>4, <2>5 DEF WholeOK
<1> QED
  BY <1>1, <1>6, <1>7, <1>8, WindowClean

LEMMA Inv4Next ==
  ASSUME KindsApart, Inv4, [Next]_vars
  PROVE  Inv4'
<1>0. Inv2'
  BY Inv2Next DEF Inv4
<1> SUFFICES CleanInv'
  BY <1>0 DEF Inv4
<1>1. CASE Worker
  BY <1>1, WorkerClean
<1>2. CASE DialogCloses
  BY <1>2, DialogClosesClean
<1>3. CASE NextSelected
  <2> DEFINE js == job.rest
  <2>1. gui = "next" /\ IF Head(js).kind = "album" THEN UploadAlbum(js) ELSE ImportMusic(js)
    BY <1>3 DEF NextSelected
  <2>2. Selection(js)
    BY <2>1, RestIsSelection DEF Inv4, Inv2, Inv1
  <2> HIDE DEF js
  <2>3. CASE ImportMusic(js)
    <3>1. UNCHANGED <<obj, model, work, cancelled, faults>> /\ events \subseteq events'
      BY <2>3 DEF ImportMusic, device, flags
    <3> QED
      BY <2>1, <3>1, BeginClean
  <2> QED
    BY <2>1, <2>2, <2>3, UploadAlbumClean
<1>4. ASSUME NEW yes \in BOOLEAN, NEW forAll \in BOOLEAN, Answer(yes, forAll)
      PROVE  CleanInv'
  BY <1>4, AnswerClean
<1>5. ASSUME NEW k, Repaint(k)
      PROVE  CleanInv'
  BY <1>5, RepaintClean
<1>6. ASSUME NEW k, Enter(k) \/ DeleteSelected(k)
      PROVE  CleanInv'
  BY <1>6, EnterClean, DeleteSelectedClean
<1>7. CASE Back
  BY <1>7, BackClean
<1>8. ASSUME NEW name \in Names, CreateFolder(name)
      PROVE  CleanInv'
  BY <1>8, CreateFolderClean
<1>9. ASSUME NEW name, NEW k, RenameSelected(k, name)
      PROVE  CleanInv'
  BY <1>9 DEF RenameSelected, CleanInv, Clean
<1>10. CASE AbortPressed
  BY <1>10 DEF AbortPressed, CleanInv, Clean
<1>11. ASSUME NEW js \in Jobs, StartUpload(js) \/ StartDownload(js) \/ StartImport(js)
       PROVE  CleanInv'
  <2>1. /\ gui = "idle" /\ UNCHANGED <<obj, model, work, cancelled, faults>> /\ events \subseteq events'
    BY <1>11 DEF StartUpload, StartDownload, StartImport, Turn, ImportMusic, device, flags
  <2> QED
    BY <2>1, BeginClean
<1>12. ASSUME NEW js \in Jobs, StartAlbum(js)
       PROVE  CleanInv'
  <2>1. gui = "idle" /\ UploadAlbum(js) /\ Head(js).kind = "album"
    BY <1>12 DEF StartAlbum, Turn
  <2> QED
    BY <2>1, UploadAlbumClean, JobsAreSelections
<1>13. CASE UNCHANGED vars
  <2>1. UNCHANGED <<obj, model, work, cancelled, faults, events>>
    BY <1>13 DEF vars, device, window, worker, flags, past
  <2> QED
    BY <2>1 DEF Inv4, CleanInv, Clean, FilesOK, WholeOK, FileOK, Pending, Resetting, Sending, path
<1>14. Next => \/ Worker \/ DialogCloses \/ NextSelected \/ AbortPressed \/ Back \/ UNCHANGED vars
               \/ \E yes, forAll \in BOOLEAN : Answer(yes, forAll)
               \/ \E k : Repaint(k)
               \/ \E k : Enter(k) \/ DeleteSelected(k)
               \/ \E name \in Names : CreateFolder(name)
               \/ \E name, k : RenameSelected(k, name)
               \/ \E js \in Jobs : StartUpload(js) \/ StartDownload(js) \/ StartImport(js)
               \/ \E js \in Jobs : StartAlbum(js)
  BY DEF Next, Replies, Rest
<1> QED
  BY <1>1, <1>2, <1>3, <1>4, <1>5, <1>6, <1>7, <1>8, <1>9, <1>10, <1>11, <1>12, <1>13, <1>14

LEMMA Inv4Init ==
  ASSUME Init
  PROVE  Inv4
<1>1. Inv2
  BY Inv2Init
<1>2. obj \in Worlds /\ model = [parent |-> Root, rows |-> Listing(Root)] /\ work = Idle /\ cancelled = FALSE
  BY DEF Init
<1>3. DevOK
  BY <1>1 DEF Inv2, Inv1, TypeInv
<1>4. FilesOK
  BY <1>2, WorldsAssumption, NameFacts DEF FilesOK
<1>5. WholeOK
  <2>1. Unknown # Missing
    BY DEF Unknown, Missing
  <2>2. model.parent = Root /\ model.rows = Listing(Root)
    BY <1>2
  <2> QED
    BY <1>3, <2>1, <2>2, ListingFacts DEF WholeOK
<1>6. FileOK
  BY <1>2 DEF FileOK, Sending, Idle
<1> QED
  BY <1>1, <1>2, <1>4, <1>5, <1>6 DEF Inv4, CleanInv

(* As long as nothing failed, was aborted or renamed, the rows on show are *)
(* all there is in the folder, the invariant behind the next theorem.      *)
THEOREM FilesHold == ASSUME KindsApart PROVE Spec => []Inv4
<1>1. Init => Inv4
  BY Inv4Init
<1>2. Inv4 /\ [Next]_vars => Inv4'
  BY Inv4Next
<1> QED
  BY <1>1, <1>2, PTL DEF Spec

(* No folder gets two files of one name from an upload (uploadFile in      *)
(* commandqueue.cpp replaces the old one), if nothing fails, is aborted or *)
(* renamed, and files and folders have names of their own.                 *)
THEOREM FilesAlwaysUnique == ASSUME KindsApart PROVE Spec => []FilesUnique
<1>1. Inv4 => FilesUnique
  BY DEF Inv4, Inv2, Inv1, TypeInv, FlagsOK, CleanInv, Clean, FilesOK, FilesUnique
<1>2. Spec => []Inv4
  BY FilesHold
<1> QED
  BY <1>1, <1>2, PTL

(* All of it: whatever a job makes or deletes, it does so in the folder    *)
(* the path says, once, and leaves the folder on show as it was            *)
(* (mtpobjectsmodel.cpp, commandqueue.cpp).                                *)
THEOREM FilesAlwaysInPlace == ASSUME KindsApart PROVE Spec => []FilesInPlace
<1>1. Spec => []TypeOK
  BY TypesOK
<1>2. Spec => []ReplacedInPlace
  BY OldFilesReplacedInPlace
<1>3. Spec => []FoldersInPlace
  BY FoldersAlwaysInPlace
<1>4. Spec => []FilesUnique
  BY FilesAlwaysUnique
<1>5. Spec => []LocationKept
  BY LocationAlwaysKept
<1> QED
  BY <1>1, <1>2, <1>3, <1>4, <1>5, PTL DEF FilesInPlace
----------------------------------------------------------------------------
(* Complete: a job in which nothing fails and nobody presses abort does     *)
(* for each file what it is for.                                           *)

(* How many commands the worker has taken, and those it is done with.      *)
Taken == Len(job.cmds) + 1 - Len(queue)
Handled(n) == n \in DOMAIN job.cmds /\ n <= Taken /\ (n = Taken => work.at = "idle")

(* The queue is what is left of the job, and an abort is one of this job.  *)
FlowInv ==
  /\ Busy => /\ \E j \in JobItems : job.cmds = j.cmds /\ job.kind = j.kind
             /\ Len(queue) <= Len(job.cmds) + 1
             /\ \A n \in DOMAIN queue : n # Len(queue) => queue[n] = job.cmds[Taken + n]
             /\ work.at \notin OfFinish \cup {"idle"} => Taken \in DOMAIN job.cmds /\ work.cmd = job.cmds[Taken]
             /\ job.kind = "import" => attached
  /\ cancelled => pressed /\ InTransaction
  /\ aborted => pressed /\ Busy /\ (gui = "crashed" \/ ~done)
  /\ ~Busy \/ done => covers = <<>> /\ albums = <<>>
  /\ ~Busy => attached

Calm == Busy /\ ~pressed /\ faults = 0
Score(c) == GetCoverScore(c.file.words)

(* What has become of a command that is done with.                         *)
Served(c) ==
  /\ c.op = "get" => c.path \in DOMAIN sent
  /\ c.op = "send" => c.path \in DOMAIN sent \cup refused \/ Front(c.path) \notin Folders
  /\ c.op = "mkdir" /\ ~done => c.path \in DOMAIN dirs \/ c.path \notin Folders
  /\ IsSong(c) => c.path \in DOMAIN sent \cup listed
  /\ IsSong(c) /\ queue # <<>> => Front(c.path) \in DOMAIN albums
  /\ IsImage(c) /\ ~done => Front(c.path) \in DOMAIN covers /\ Score(c) <= covers[Front(c.path)].score

ServedOK == \A n \in DOMAIN job.cmds : Handled(n) => Served(job.cmds[n])

(* And of the one at work.                                                 *)
MidwayOK ==
  /\ Taken = 0 => dirs = <<>>
  /\ Uploading /\ ~done /\ Taken >= 1 /\ job.cmds # <<>> => Base \in DOMAIN dirs
  /\ work.at = "relist" => path \in DOMAIN sent
  /\ work.at # "idle" /\ work.cmd.op = "import" => IsSong(work.cmd)
  /\ work.at \in {"create", "pause", "data", "add"} /\ work.cmd.op = "import" =>
       Front(path) \in DOMAIN albums

(* Covers and albums are those of files of the job.                        *)
SourcesOK ==
  /\ \A e \in DOMAIN covers : \E n \in DOMAIN job.cmds :
       /\ IsImage(job.cmds[n]) /\ Front(job.cmds[n].path) = e
       /\ covers[e] = [path |-> job.cmds[n].path, score |-> Score(job.cmds[n])]
  /\ \A d \in DOMAIN albums : \E n \in DOMAIN job.cmds :
       /\ IsSong(job.cmds[n]) /\ Front(job.cmds[n].path) = d /\ albums[d] = job.cmds[n].album

Own(c) == {i \in Images : Front(i.path) = Front(c.path)}
Alone(c) ==
  /\ \A t \in Tracks : t.album = c.album <=> Front(t.path) = Front(c.path)
  /\ \A i \in Images : Front(i.path) = Front(Front(c.path)) => ~StartsWith(i.path, Front(c.path))
Best(c, p) == \E i \in Own(c) : p = i.path /\ \A other \in Own(c) : Score(other) <= Score(i)

(* The cover of an album is still to choose, chosen or there.              *)
ArtOK ==
  queue = <<>> => \A c \in Tracks : Own(c) # {} /\ Alone(c) =>
    /\ work.at = "cover" /\ work.cmd.album = c.album => Best(c, path)
    /\ \/ Front(c.path) \in DOMAIN albums
       \/ work.at = "cover" /\ work.cmd.album = c.album
       \/ c.album \in DOMAIN art /\ Best(c, art[c.album])

CalmInv == Calm => ServedOK /\ MidwayOK /\ SourcesOK /\ ArtOK
Inv5 == Inv1 /\ FlowInv /\ CalmInv

(* How good a cover is has a number.                                       *)
LEMMA ScoreFacts ==
  ASSUME NEW words
  PROVE  GetCoverScore(words) \in Nat
<1> DEFINE found == {n \in DOMAIN Numbers : Numbers[n] \in words}
           points == <<1001, 1000, 101, 100, 11, 10, 1>>
<1>1. DOMAIN Numbers = 1..7 /\ \A n \in 1..7 : points[n] \in Nat
  BY DEF Numbers
<1>2. found # {} => Min(found) \in 1..7
  <2>1. found \in SUBSET Nat
    BY <1>1
  <2>2. ASSUME found # {} PROVE Min(found) \in found
    <3> HIDE DEF found
    <3>1. \E k \in found : \A l \in found : k <= l
      BY <2>1, <2>2, Smallest
    <3> QED
      BY <3>1 DEF Min
  <2> QED
    BY <1>1, <2>2
<1> DEFINE number == IF found = {} THEN 0 ELSE points[Min(found)]
           worth(w, n) == IF w \in words THEN n ELSE 0
<1>3. number \in Nat
  BY <1>1, <1>2
<1>4. \A w, n : n \in Nat => worth(w, n) \in Nat
  OBVIOUS
<1>5. GetCoverScore(words) = number + worth("art", 10000) + worth("album", 10000) + worth("cover", 20000)
                               + worth("large", 20000) + worth("small", 10000) + worth("folder", 10000)
  BY DEF GetCoverScore
<1> HIDE DEF number, worth
<1> QED
  BY <1>3, <1>4, <1>5

(* The format of a file, by what its content or its name says.             *)
LEMMA MimeFacts ==
  ASSUME NEW m
  PROVE  /\ IsAudioFormat(ByMime(m)) <=> m \in MusicTypes
         /\ IsImageFormat(ByMime(m)) <=> m \in ImageTypes
         /\ m \in MusicTypes \cup ImageTypes \cup {"audio/mp4"} => ByMime(m) # Undefined
<1> USE DEF ByMime, Undefined, Association, Text, Aiff, Mp3, ExifJpeg, Bmp, Gif, Png, M4a, Wma, Ogg, Aac, Flac,
       Mp4, M3uPlaylist
<1>1. IsAudioFormat(ByMime(m)) <=> m \in MusicTypes
  BY DEF MusicTypes, IsAudioFormat
<1>2. IsImageFormat(ByMime(m)) <=> m \in ImageTypes
  BY DEF ImageTypes, IsImageFormat
<1>3. m \in MusicTypes \cup ImageTypes \cup {"audio/mp4"} => ByMime(m) # Undefined
  BY DEF MusicTypes, ImageTypes
<1> QED
  BY <1>1, <1>2, <1>3

LEMMA ExtensionFacts ==
  ASSUME NEW e
  PROVE  /\ IsAudioFormat(ByExtension(e)) <=> e \in {"mp3", "wma", "ogg", "flac", "aac", "wav", "m4a"}
         /\ IsImageFormat(ByExtension(e)) <=> e \in {"jpeg", "jpg", "gif", "bmp", "png"}
BY DEF ByExtension, IsAudioFormat, IsImageFormat, Undefined, Text, Aiff, Mp3, Asf, ThreeGp,
  ExifJpeg, Bmp, Gif, Png, M4a, Wma, Ogg, Aac, Flac, Wmv, Mp4

LEMMA ToldApart ==
  ASSUME FilesToldApart, NEW c \in JobCmds, c.op = "import"
  PROVE  /\ IsSong(c) <=> c.file.is = "music" /\ c.tagged /\ c.file.mime # "audio/mp4"
         /\ IsImage(c) <=> c.file.is = "image"
<1> DEFINE m == c.file.mime
           e == c.file.ext
           format == ObjectFormatFromFilename(c.file)
<1>1. format = IF e = "m3u" THEN M3uPlaylist ELSE IF ByMime(m) # Undefined THEN ByMime(m) ELSE ByExtension(e)
  BY DEF ObjectFormatFromFilename
<1>2. ~IsAudioFormat(M3uPlaylist) /\ ~IsImageFormat(M3uPlaylist)
  BY DEF IsAudioFormat, IsImageFormat, Undefined, Text, Aiff, Mp3, M4a, Wma, Ogg, Aac, Flac, M3uPlaylist
<1>3. /\ c.file.is = "music" <=> Says(c.file, MusicTypes \cup {"audio/mp4"},
                                      {"mp3", "wma", "ogg", "flac", "aac", "wav", "m4a"})
      /\ c.file.is = "image" <=> Says(c.file, ImageTypes, {"jpeg", "jpg", "gif", "bmp", "png"})
  BY DEF FilesToldApart
<1>4. "audio/mp4" \notin MusicTypes \cup ImageTypes
  BY DEF MusicTypes, ImageTypes
<1>5. IsAudioFormat(format) <=> c.file.is = "music" /\ m # "audio/mp4"
  <2>1. CASE e = "m3u"
    BY <1>1, <1>2, <1>3, <2>1 DEF Says
  <2>2. CASE e # "m3u" /\ ByMime(m) # Undefined
    BY <1>1, <1>3, <1>4, <2>2, MimeFacts DEF Says
  <2>3. CASE e # "m3u" /\ ByMime(m) = Undefined
    BY <1>1, <1>3, <1>4, <2>3, MimeFacts, ExtensionFacts DEF Says
  <2> QED
    BY <2>1, <2>2, <2>3
<1>6. IsImageFormat(format) <=> c.file.is = "image"
  BY <1>1, <1>2, <1>3, <1>4, MimeFacts, ExtensionFacts DEF Says
<1> QED
  BY <1>5, <1>6 DEF IsSong, IsImage

(* A file is not both music and an image.                                  *)
LEMMA KindsOfFile ==
  ASSUME NEW c
  PROVE  /\ IsSong(c) \/ IsImage(c) => c.op = "import"
         /\ ~(IsSong(c) /\ IsImage(c))
<1>1. \A f : IsAudioFormat(f) => ~IsImageFormat(f)
  BY DEF IsAudioFormat, IsImageFormat, Aiff, Mp3, M4a, Wma, Ogg, Aac, Flac
<1> QED
  BY <1>1 DEF IsSong, IsImage

(* The commands of the job at work.                                        *)
LEMMA JobFacts ==
  ASSUME TypeInv, FlowInv, Busy
  PROVE  /\ job.cmds \in Seq(JobCmds) /\ Len(job.cmds) \in Nat /\ DOMAIN job.cmds = 1..Len(job.cmds)
         /\ \A n \in DOMAIN job.cmds :
              /\ job.cmds[n] \in JobCmds /\ job.cmds[n].path \in Paths
              /\ job.cmds[n].op \in Commands(job.kind)
         /\ Len(queue) \in Nat /\ Taken \in Nat /\ Taken <= Len(job.cmds) + 1
         /\ queue = <<>> <=> Taken = Len(job.cmds) + 1
<1>1. job.cmds \in Seq(JobCmds) /\ queue \in Seq(JobCmds \cup Ends)
  BY DEF TypeInv, JobOK, QueueOK
<1>2. \A c \in JobCmds : c.path \in Paths
  BY JobsAssumption
<1>3. PICK j \in JobItems : job.cmds = j.cmds /\ job.kind = j.kind
  BY DEF FlowInv
<1>4. \A n \in DOMAIN job.cmds : job.cmds[n].op \in Commands(job.kind)
  BY <1>3, JobsAssumption
<1>5. Len(queue) \in Nat /\ Len(job.cmds) \in Nat /\ Len(queue) <= Len(job.cmds) + 1
  BY <1>1 DEF FlowInv
<1>6. queue = <<>> <=> Len(queue) = 0
  BY <1>1, EmptySeq
<1> QED
  BY <1>1, <1>2, <1>4, <1>5, <1>6 DEF Taken

(* The folder that holds one of the upload is one of the upload.           *)
LEMMA FolderAbove ==
  ASSUME Base \in Seq(NameSet), NEW d \in Paths, d \in Folders, d # Base
  PROVE  Front(d) \in Folders
<1>1. /\ IsPrefix(Base, d) /\ \A n \in Len(Base) + 1 .. Len(d) : SubSeq(d, 1, n) \in MadeFolders
  BY DEF Folders
<1>2. /\ d \in Seq(NameSet) /\ Len(d) \in Nat \ {0} /\ Len(Base) \in Nat
      /\ Front(d) \in Seq(NameSet) /\ Len(Front(d)) = Len(d) - 1 /\ Front(d) = SubSeq(d, 1, Len(d) - 1)
  BY PathFacts DEF Front
<1>3. Len(Base) <= Len(d) /\ \A n \in 1..Len(Base) : Base[n] = d[n]
  <2>1. Len(Base) <= Len(d) /\ SubSeq(Base, 1, Len(Base)) = SubSeq(d, 1, Len(Base))
    BY <1>1 DEF IsPrefix
  <2>2. \A n \in 1..Len(Base) : SubSeq(Base, 1, Len(Base))[n] = Base[n] /\ SubSeq(d, 1, Len(Base))[n] = d[n]
    BY <1>2, <2>1
  <2> QED
    BY <2>1, <2>2
<1>4. Len(Base) # Len(d)
  <2>1. ASSUME Len(Base) = Len(d) PROVE Base = d
    BY <1>2, <1>3, <2>1, SeqEqual
  <2> QED
    BY <2>1
<1>5. \A n \in 1..(Len(d) - 1) : Front(d)[n] = d[n]
  BY <1>2
<1>6. CASE Len(Base) = Len(d) - 1
  <2>1. Front(d) = Base
    BY <1>2, <1>3, <1>5, <1>6, SeqEqual
  <2> QED
    BY <2>1 DEF Folders
<1>7. CASE Len(Base) < Len(d) - 1
  <2>1. Len(d) - 1 \in Len(Base) + 1 .. Len(d)
    BY <1>2, <1>7
  <2>2. Front(d) \in MadeFolders
    BY <1>1, <1>2, <2>1
  <2>3. IsPrefix(Base, Front(d))
    <3>1. SubSeq(Base, 1, Len(Base)) = SubSeq(Front(d), 1, Len(Base))
      <4>1. /\ SubSeq(Base, 1, Len(Base)) \in Seq(NameSet) /\ Len(SubSeq(Base, 1, Len(Base))) = Len(Base)
            /\ \A n \in 1..Len(Base) : SubSeq(Base, 1, Len(Base))[n] = Base[n]
        BY <1>2
      <4>2. /\ SubSeq(Front(d), 1, Len(Base)) \in Seq(NameSet) /\ Len(SubSeq(Front(d), 1, Len(Base))) = Len(Base)
            /\ \A n \in 1..Len(Base) : SubSeq(Front(d), 1, Len(Base))[n] = Front(d)[n]
        BY <1>2, <1>7
      <4>3. \A n \in 1..Len(Base) : Base[n] = Front(d)[n]
        BY <1>2, <1>3, <1>5, <1>7
      <4> QED
        BY <4>1, <4>2, <4>3, SeqEqual
    <3> QED
      BY <1>2, <1>7, <3>1 DEF IsPrefix
  <2>4. ASSUME NEW n \in Len(Base) + 1 .. Len(Front(d))
        PROVE  SubSeq(Front(d), 1, n) \in MadeFolders
    <3>1. n \in Len(Base) + 1 .. Len(d) /\ n \in Nat /\ n <= Len(d) - 1
      BY <1>2
    <3>2. SubSeq(Front(d), 1, n) = SubSeq(d, 1, n)
      <4>1. /\ SubSeq(d, 1, n) \in Seq(NameSet) /\ Len(SubSeq(d, 1, n)) = n
            /\ \A i \in 1..n : SubSeq(d, 1, n)[i] = d[i]
        BY <1>2, <3>1
      <4>2. /\ SubSeq(Front(d), 1, n) \in Seq(NameSet) /\ Len(SubSeq(Front(d), 1, n)) = n
            /\ \A i \in 1..n : SubSeq(Front(d), 1, n)[i] = Front(d)[i]
        BY <1>2, <3>1
      <4>3. \A i \in 1..n : d[i] = Front(d)[i]
        BY <1>2, <1>5, <3>1
      <4> QED
        BY <4>1, <4>2, <4>3, SeqEqual
    <3> QED
      BY <1>1, <3>1, <3>2
  <2> QED
    BY <2>2, <2>3, <2>4 DEF Folders
<1> QED
  BY <1>2, <1>3, <1>4, <1>6, <1>7

(* The worker takes the next command, and no flag outlives its transaction. *)
LEMMA WorkerFlags ==
  ASSUME TypeInv, FlowInv, Worker
  PROVE  /\ ~cancelled'
         /\ aborted' = aborted \/ ~aborted'
         /\ Finished \/ done' = done
<1>1. cancelled => InTransaction
  BY DEF FlowInv
<1>2. cancelled \in BOOLEAN
  BY DEF TypeInv, FlagsOK
<1>3. Succeeds \/ Fails \/ Refuses => ~cancelled'
  BY <1>2 DEF Succeeds, Fails, Refuses
<1>4. ASSUME UNCHANGED cancelled, work.at \notin
               {"enter", "find", "delete", "announce", "data", "relist", "lookup", "make",
                "prepare", "create", "add", "get", "mtime", "finish", "cover"}
      PROVE  ~cancelled'
  BY <1>1, <1>4 DEF InTransaction
<1>5. TakeCommand => ~cancelled' /\ aborted' = aborted /\ done' = done
  <2>1. TakeCommand => work.at = "idle" /\ UNCHANGED <<aborted, cancelled, done>>
    BY DEF TakeCommand, Idle, flags
  <2> QED
    BY <1>4, <2>1
<1>6. EnterFolder \/ Relist => ~cancelled' /\ aborted' = aborted /\ done' = done
  BY <1>3 DEF EnterFolder, Relist, SetParent
<1>7. FindFile => ~cancelled' /\ aborted' = aborted /\ done' = done
  BY <1>3 DEF FindFile, LookUp
<1>8. DeleteOld \/ Announce \/ MakeFolder => ~cancelled' /\ aborted' = aborted /\ done' = done
  BY <1>3 DEF DeleteOld, Announce, MakeFolder
<1>9. OpenFile \/ BeginData => ~cancelled' /\ aborted' = aborted /\ done' = done
  <2>1. OpenFile \/ BeginData => work.at \in {"open", "pause"} /\ UNCHANGED <<aborted, cancelled, done>>
    BY DEF OpenFile, BeginData, flags
  <2> QED
    BY <1>4, <2>1
<1>10. SendData => ~cancelled' /\ aborted' = aborted /\ done' = done
  BY <1>3 DEF SendData
<1>11. LookUpFolder => ~cancelled' /\ aborted' = aborted /\ done' = done
  BY <1>3 DEF LookUpFolder, LookUp
<1>12. Prepare \/ CreateTrack \/ AddTrack => ~cancelled' /\ aborted' = aborted /\ done' = done
  BY <1>3 DEF Prepare, CreateTrack, AddTrack
<1>13. SendTrack => ~cancelled' /\ aborted' = aborted /\ done' = done
  BY <1>3 DEF SendTrack
<1>14. Download \/ SetTime \/ TimeNotThere => ~cancelled' /\ aborted' = aborted /\ done' = done
  BY <1>3 DEF Download, SetTime, TimeNotThere
<1>15. Finish => ~cancelled' /\ aborted' = aborted /\ done' = done
  BY <1>3 DEF Finish, SetParent
<1>16. SetCover => ~cancelled' /\ aborted' = aborted /\ done' = done
  BY <1>3 DEF SetCover
<1>17. Finished => ~cancelled' /\ ~aborted'
  <2>1. Finished => work.at = "covers" /\ ~aborted' /\ UNCHANGED cancelled
    BY DEF Finished, FinishEnds, FinishStays
  <2> QED
    BY <1>4, <2>1
<1>18. ASSUME NEW d, ChooseCover(d)
       PROVE  ~cancelled' /\ aborted' = aborted /\ done' = done
  <2>1. work.at = "covers" /\ UNCHANGED <<aborted, cancelled, done>>
    BY <1>18 DEF ChooseCover, flags
  <2> QED
    BY <1>4, <2>1
<1> QED
  BY <1>5, <1>6, <1>7, <1>8, <1>9, <1>10, <1>11, <1>12, <1>13, <1>14, <1>15, <1>16, <1>17, <1>18 DEF Worker

(* What is left of the job after the next command.                         *)
LEMMA TakenNext ==
  ASSUME TypeInv, FlowInv, Busy, queue # <<>>, queue' = Tail(queue), job' = job
  PROVE  /\ Taken' = Taken + 1 /\ Len(queue') = Len(queue) - 1 /\ Len(queue) \in Nat \ {0}
         /\ \A n \in DOMAIN queue' : n # Len(queue') => queue'[n] = job.cmds[Taken' + n]
         /\ Len(queue) # 1 => Taken + 1 \in DOMAIN job.cmds /\ Head(queue) = job.cmds[Taken + 1]
<1>1. /\ Len(queue) \in Nat \ {0} /\ Len(queue') = Len(queue) - 1
      /\ \A n \in DOMAIN queue' : n + 1 \in DOMAIN queue /\ queue'[n] = queue[n + 1]
  BY HeadFacts
<1>2. Len(job.cmds) \in Nat /\ DOMAIN job.cmds = 1..Len(job.cmds) /\ Taken \in Nat
  BY JobFacts
<1>3. Taken' = Taken + 1
  BY <1>1, <1>2 DEF Taken
<1>4. \A n \in DOMAIN queue : n # Len(queue) => queue[n] = job.cmds[Taken + n]
  BY DEF FlowInv
<1>5. queue \in Seq(JobCmds \cup Ends)
  BY DEF TypeInv, QueueOK
<1>6. /\ DOMAIN queue = 1..Len(queue) /\ Head(queue) = queue[1]
  BY <1>5, <1>1
<1>7. ASSUME NEW n \in DOMAIN queue', n # Len(queue')
      PROVE  queue'[n] = job.cmds[Taken' + n]
  <2>1. n + 1 \in DOMAIN queue /\ n + 1 # Len(queue) /\ n \in Int /\ queue'[n] = queue[n + 1]
    BY <1>1, <1>6, <1>7
  <2>2. Taken + (n + 1) = Taken' + n
    BY <1>2, <1>3, <2>1
  <2> QED
    BY <1>4, <2>1, <2>2
<1>8. Len(queue) # 1 => Taken + 1 \in DOMAIN job.cmds /\ Head(queue) = job.cmds[Taken + 1]
  <2>1. ASSUME Len(queue) # 1
        PROVE  Taken + 1 \in 1..Len(job.cmds) /\ 1 \in DOMAIN queue
    BY <1>1, <1>2, <1>6, <2>1 DEF Taken
  <2> QED
    BY <1>2, <1>4, <1>6, <2>1
<1> QED
  BY <1>1, <1>3, <1>7, <1>8

LEMMA WorkerFlow ==
  ASSUME Inv1, FlowInv, Worker
  PROVE  FlowInv'
<1>0. TypeInv /\ TypeInv'
  BY WorkerKeepsType DEF Inv1
<1>1. /\ Alive /\ UNCHANGED <<job, attached, pressed>> /\ gui' \in {gui, "ask"}
      /\ \/ work'.at = "idle"
         \/ work.at = "idle"
         \/ work.at # "idle" /\ (work'.cmd = work.cmd \/ (work.at \in OfFinish /\ work'.cmd.op = "finish"))
  BY <1>0, WorkerShapeHolds DEF WorkerShape
<1>2. TakeCommand \/ (queue' = queue /\ work.at # "idle")
  BY <1>0, WorkerRest
<1>3. ~cancelled' /\ (aborted' = aborted \/ ~aborted') /\ (Finished \/ done' = done)
  BY <1>0, WorkerFlags
<1>4. Busy /\ Busy' /\ gui # "crashed"
  BY <1>1 DEF Busy, Alive
<1>5. ~done
  <2>1. Worker => work # Idle \/ queue # <<>>
    BY <1>0, <1>2, WorkFacts DEF TakeCommand, TypeInv
  <2> QED
    BY <1>0, <2>1 DEF TypeInv, QuietOK
<1>6. aborted' => pressed' /\ Busy' /\ (gui' = "crashed" \/ ~done')
  <2>1. Finished => ~aborted'
    BY DEF Finished
  <2> QED
    BY <1>1, <1>3, <1>4, <1>5, <2>1 DEF FlowInv
<1>7. ~Busy' \/ done' => covers' = <<>> /\ albums' = <<>>
  <2>1. Finished => covers' = <<>> /\ albums' = <<>>
    BY DEF Finished
  <2> QED
    BY <1>3, <1>4, <1>5, <2>1
<1>8. CASE TakeCommand
  <2>1. queue # <<>> /\ queue' = Tail(queue) /\ work = Idle
        /\ work' = IF FirstStep(Head(queue)) = "idle" THEN Idle
                   ELSE [at |-> FirstStep(Head(queue)), cmd |-> Head(queue), id |-> 0, between |-> FALSE,
                         reset |-> FALSE]
    BY <1>8 DEF TakeCommand
  <2>2. /\ Taken' = Taken + 1 /\ Len(queue') = Len(queue) - 1 /\ Len(queue) \in Nat \ {0}
        /\ \A n \in DOMAIN queue' : n # Len(queue') => queue'[n] = job.cmds[Taken' + n]
        /\ Len(queue) # 1 => Taken + 1 \in DOMAIN job.cmds /\ Head(queue) = job.cmds[Taken + 1]
    BY <1>0, <1>1, <1>4, <2>1, TakenNext
  <2>3. ASSUME work'.at \notin OfFinish \cup {"idle"}
        PROVE  Taken' \in DOMAIN job.cmds /\ work'.cmd = job.cmds[Taken']
    <3>1. Idle.at = "idle"
      BY DEF Idle
    <3>2. work'.at = FirstStep(Head(queue)) /\ work'.cmd = Head(queue)
      BY <2>1, <2>3, <3>1
    <3>3. Len(queue) # 1
      <4>1. Len(queue) = 1 => Head(queue).op = "finish"
        BY <1>0, <2>1, HeadFacts
      <4>2. Head(queue).op = "finish" => FirstStep(Head(queue)) = "finish"
        BY DEF FirstStep
      <4> QED
        BY <2>3, <3>2, <4>1, <4>2 DEF OfFinish
    <3> QED
      BY <2>2, <3>2, <3>3
  <2>4. Len(queue') <= Len(job.cmds) + 1
    <3>1. Len(queue) <= Len(job.cmds) + 1 /\ Len(job.cmds) \in Nat
      BY <1>0, <1>4, JobFacts DEF FlowInv
    <3> QED
      BY <2>2, <3>1
  <2>5. (\E j \in JobItems : job.cmds = j.cmds /\ job.kind = j.kind) /\ (job.kind = "import" => attached)
    BY <1>4 DEF FlowInv
  <2> QED
    BY <1>1, <1>3, <1>4, <1>6, <1>7, <2>2, <2>3, <2>4, <2>5 DEF FlowInv
<1>9. CASE queue' = queue /\ work.at # "idle"
  <2>1. Taken' = Taken
    BY <1>1, <1>9 DEF Taken
  <2>2. ASSUME work'.at \notin OfFinish \cup {"idle"}
        PROVE  Taken \in DOMAIN job.cmds /\ work'.cmd = job.cmds[Taken]
    <3>1. ~done'
      <4>1. Finished => work' = Idle
        BY DEF Finished
      <4>2. work' = Idle => work'.at = "idle"
        BY DEF Idle
      <4> QED
        BY <1>3, <1>5, <2>2, <4>1, <4>2
    <3>2. queue' # <<>>
      BY <1>0, <1>4, <2>2, <3>1 DEF TypeInv, QuietOK
    <3>3. work.at \notin OfFinish
      BY <1>0, <1>4, <1>5, <1>9, <3>2 DEF TypeInv, QuietOK
    <3> QED
      BY <1>1, <1>4, <1>9, <2>2, <3>3 DEF FlowInv
  <2>3. /\ \E j \in JobItems : job.cmds = j.cmds /\ job.kind = j.kind
        /\ Len(queue) <= Len(job.cmds) + 1
        /\ \A n \in DOMAIN queue : n # Len(queue) => queue[n] = job.cmds[Taken + n]
        /\ job.kind = "import" => attached
    BY <1>4 DEF FlowInv
  <2> QED
    BY <1>1, <1>3, <1>4, <1>6, <1>7, <1>9, <2>1, <2>2, <2>3 DEF FlowInv
<1> QED
  BY <1>2, <1>8, <1>9

(* At rest nothing is left of a job.                                       *)
LEMMA AtRest ==
  ASSUME Inv1, FlowInv, gui \in {"idle", "next"} \/ (gui = "dialog" /\ done)
  PROVE  /\ work = Idle /\ work.at = "idle" /\ queue = <<>> /\ dirs = <<>> /\ ~cancelled /\ ~aborted
         /\ covers = <<>> /\ albums = <<>>
         /\ gui # "dialog" => attached
<1>1. ~Busy \/ done
  BY DEF Busy
<1>2. work = Idle /\ queue = <<>> /\ dirs = <<>>
  BY <1>1 DEF Inv1, TypeInv, QuietOK
<1>3. work.at = "idle"
  BY <1>2 DEF Idle
<1>4. ~cancelled
  BY <1>3 DEF FlowInv, InTransaction
<1>5. ~aborted
  BY <1>1 DEF FlowInv, Busy
<1>6. gui # "dialog" => ~Busy
  BY DEF Busy
<1> QED
  BY <1>1, <1>2, <1>3, <1>4, <1>5, <1>6 DEF FlowInv

LEMMA RestFlow ==
  ASSUME Inv1, FlowInv, gui \in {"idle", "next"} \/ (gui = "dialog" /\ done), ~Busy',
         Succeeds \/ Fails \/ UNCHANGED cancelled, UNCHANGED <<aborted, covers, albums>>,
         attached' \/ (attached' = attached /\ gui # "dialog")
  PROVE  FlowInv'
<1>1. /\ ~cancelled /\ covers = <<>> /\ albums = <<>> /\ ~aborted
      /\ gui # "dialog" => attached
  BY AtRest
<1>2. ~cancelled'
  BY <1>1 DEF Succeeds, Fails
<1> QED
  BY <1>1, <1>2 DEF FlowInv

LEMMA BeginFlow ==
  ASSUME Inv1, FlowInv, gui \in {"idle", "next"}, NEW js, Selection(js), NEW home, Begin(js, home),
         UNCHANGED <<work, maps, flags>>, Head(js).kind = "import" => attached'
  PROVE  FlowInv' /\ Taken' = 0 /\ queue' # <<>>
<1>1. /\ work.at = "idle" /\ ~cancelled /\ ~aborted /\ covers = <<>> /\ albums = <<>>
      /\ ~done
  BY AtRest, TurnIdle
<1>2. /\ Head(js) \in JobItems /\ Head(js).cmds \in Seq(JobCmds)
  BY SelectionFacts
<1>3. job'.cmds = Head(js).cmds /\ job'.kind = Head(js).kind /\ gui' = "dialog"
  BY DEF Begin
<1>4. /\ DOMAIN queue' = 1..(Len(Head(js).cmds) + 1) /\ Len(queue') = Len(Head(js).cmds) + 1
      /\ Len(Head(js).cmds) \in Nat
      /\ \A n \in 1..Len(Head(js).cmds) : queue'[n] = Head(js).cmds[n]
  BY BeginFacts DEF Inv1
<1>5. Taken' = 0
  BY <1>3, <1>4 DEF Taken
<1>6. \A n \in DOMAIN queue' : n # Len(queue') => queue'[n] = job'.cmds[Taken' + n]
  <2>1. ASSUME NEW n \in DOMAIN queue', n # Len(queue')
        PROVE  n \in 1..Len(Head(js).cmds) /\ 0 + n = n
    BY <1>4, <2>1
  <2> QED
    BY <1>3, <1>4, <1>5, <2>1
<1>7. queue' # <<>>
  <2>1. Len(<<>>) = 0 /\ Len(queue') # 0
    BY <1>4
  <2> QED
    BY <2>1
<1>8. Busy' /\ UNCHANGED <<work, covers, albums, cancelled, aborted, done>>
  BY <1>3 DEF Busy, maps, flags
<1>9. FlowInv'
  <2>1. \E j \in JobItems : job'.cmds = j.cmds /\ job'.kind = j.kind
    BY <1>2, <1>3
  <2>2. Len(queue') <= Len(job'.cmds) + 1
    BY <1>3, <1>4
  <2>3. job'.kind = "import" => attached'
    BY <1>3
  <2> QED
    BY <1>1, <1>6, <1>8, <2>1, <2>2, <2>3 DEF FlowInv
<1> QED
  BY <1>5, <1>7, <1>9

(* Steps of the window while a job is on.                                  *)
LEMMA BesideFlow ==
  ASSUME Inv1, FlowInv, Busy, Busy', UNCHANGED <<job, queue, covers, albums, done, attached, aborted>>,
         gui # "crashed",
         work'.at = "idle" \/ (work'.cmd = work.cmd /\ work'.at # "idle" /\ work.at # "idle"
                               /\ (work'.at \in OfFinish <=> work.at \in OfFinish)),
         ~cancelled', pressed => pressed'
  PROVE  FlowInv'
<1>1. Taken' = Taken
  BY DEF Taken
<1>2. aborted' => pressed' /\ Busy' /\ ~done'
  BY DEF FlowInv
<1>3. ~Busy' \/ done' => covers' = <<>> /\ albums' = <<>>
  BY DEF FlowInv
<1>4. /\ \E j \in JobItems : job.cmds = j.cmds /\ job.kind = j.kind
      /\ Len(queue) <= Len(job.cmds) + 1
      /\ \A n \in DOMAIN queue : n # Len(queue) => queue[n] = job.cmds[Taken + n]
      /\ work.at \notin OfFinish \cup {"idle"} => Taken \in DOMAIN job.cmds /\ work.cmd = job.cmds[Taken]
      /\ job.kind = "import" => attached
  BY DEF FlowInv
<1>5. work'.at \notin OfFinish \cup {"idle"} => Taken \in DOMAIN job.cmds /\ work'.cmd = job.cmds[Taken]
  BY <1>4
<1> QED
  BY <1>1, <1>2, <1>3, <1>4, <1>5 DEF FlowInv

LEMMA RepaintKeeps ==
  ASSUME Inv1, NEW k, Repaint(k)
  PROVE  /\ gui = "dialog" /\ gui' = gui /\ work'.at = work.at /\ (work.at # "idle" => work'.cmd = work.cmd)
         /\ work.at \in {"idle", "pause"}
         /\ UNCHANGED <<window, queue, maps, flags, library, past, faults>>
<1>1. /\ gui = "dialog" /\ work.at \in {"idle", "pause"}
      /\ work' = IF work.at = "pause" THEN [work EXCEPT !.between = TRUE] ELSE work
      /\ UNCHANGED <<window, queue, maps, flags, library, past, faults>>
  BY DEF Repaint
<1>2. work.at # "idle" => DOMAIN work = Parts
  BY WorkFacts DEF Inv1, TypeInv
<1> QED
  BY <1>1, <1>2 DEF window, Parts

LEMMA RepaintFlow ==
  ASSUME Inv1, FlowInv, NEW k, Repaint(k)
  PROVE  FlowInv'
<1>1. /\ gui = "dialog" /\ gui' = gui /\ work'.at = work.at /\ (work.at # "idle" => work'.cmd = work.cmd)
      /\ work.at \in {"idle", "pause"}
      /\ UNCHANGED <<job, attached, queue, covers, albums, done, aborted, cancelled, pressed>>
  BY RepaintKeeps DEF window, maps, flags, past
<1>2. ~cancelled
  BY <1>1 DEF FlowInv, InTransaction
<1> QED
  BY <1>1, <1>2, BesideFlow DEF Busy

LEMMA AnswerKeeps ==
  ASSUME Inv1, NEW yes, NEW forAll, Answer(yes, forAll)
  PROVE  /\ gui = "ask" /\ gui' = "dialog" /\ work.at = "ask" /\ work.cmd.op = "send"
         /\ \/ work'.at = "delete" /\ work'.cmd = work.cmd /\ UNCHANGED refused
            \/ work'.at = "idle" /\ refused' = refused \cup {path}
         /\ UNCHANGED <<job, attached, queue, maps, flags, library, sent, pressed, faults>>
<1>1. /\ gui = "ask" /\ gui' = "dialog"
      /\ \/ GoOn("delete") /\ UNCHANGED refused
         \/ work' = Idle /\ refused' = refused \cup {path}
      /\ UNCHANGED <<job, attached, queue, maps, flags, library, sent, pressed, faults>>
  BY DEF Answer, GoOn, path
<1>2. work.at = "ask" /\ WorkOK
  BY <1>1 DEF Inv1, TypeInv, QuietOK
<1>3. work # Idle /\ work.at \in OfSend
  BY <1>2 DEF Idle, OfSend
<1>4. work.cmd.op = "send"
  BY <1>2, <1>3 DEF WorkOK
<1>5. GoOn("delete") => work'.at = "delete" /\ work'.cmd = work.cmd
  BY <1>2, GoOnFacts
<1> QED
  BY <1>1, <1>2, <1>4, <1>5, IdleOK

LEMMA AnswerFlow ==
  ASSUME Inv1, FlowInv, NEW yes, NEW forAll, Answer(yes, forAll)
  PROVE  FlowInv'
<1>1. /\ gui = "ask" /\ gui' = "dialog" /\ work.at = "ask"
      /\ (work'.at = "delete" /\ work'.cmd = work.cmd) \/ work'.at = "idle"
      /\ UNCHANGED <<job, attached, queue, covers, albums, done, aborted, cancelled, pressed>>
  BY AnswerKeeps DEF maps, flags
<1>2. ~cancelled
  BY <1>1 DEF FlowInv, InTransaction
<1> QED
  BY <1>1, <1>2, BesideFlow DEF Busy, OfFinish

LEMMA AbortPressedFlow ==
  ASSUME Inv1, FlowInv, AbortPressed
  PROVE  FlowInv'
<1>1. /\ gui = "dialog" /\ ~pressed /\ pressed' /\ aborted'
      /\ IF InTransaction THEN cancelled' /\ UNCHANGED gui ELSE gui' = "crashed" /\ UNCHANGED cancelled
      /\ UNCHANGED <<job, attached, queue, work, covers, albums, done>>
  BY DEF AbortPressed, worker, maps
<1>2. ~cancelled
  BY <1>1 DEF FlowInv
<1>3. Busy /\ Busy' /\ Taken' = Taken /\ InTransaction' = InTransaction
  BY <1>1 DEF Busy, Taken, InTransaction
<1>4. cancelled' => InTransaction'
  BY <1>1, <1>2, <1>3
<1>5. gui' = "crashed" \/ ~done'
  <2>1. InTransaction => work.at # "idle"
    BY DEF InTransaction
  <2>2. work.at # "idle" => ~done
    BY DEF Inv1, TypeInv, QuietOK, Idle
  <2> QED
    BY <1>1, <2>1, <2>2
<1>6. /\ \E j \in JobItems : job.cmds = j.cmds /\ job.kind = j.kind
      /\ Len(queue) <= Len(job.cmds) + 1
      /\ \A n \in DOMAIN queue : n # Len(queue) => queue[n] = job.cmds[Taken + n]
      /\ work.at \notin OfFinish \cup {"idle"} => Taken \in DOMAIN job.cmds /\ work.cmd = job.cmds[Taken]
      /\ job.kind = "import" => attached
      /\ done => covers = <<>> /\ albums = <<>>
  BY <1>3 DEF FlowInv
<1> QED
  BY <1>1, <1>3, <1>4, <1>5, <1>6 DEF FlowInv

LEMMA StutterFlow ==
  ASSUME FlowInv, UNCHANGED vars
  PROVE  FlowInv'
<1>1. UNCHANGED <<gui, job, attached, queue, work, covers, albums, done, aborted, cancelled, pressed>>
  BY DEF vars, window, worker, maps, flags, past
<1> QED
  BY <1>1 DEF FlowInv, Busy, Taken, InTransaction

LEMMA UploadAlbumFlow ==
  ASSUME Inv1, FlowInv, gui \in {"idle", "next"}, NEW js, Selection(js), Head(js).kind = "album", UploadAlbum(js)
  PROVE  FlowInv' /\ (gui' = "stuck" \/ (Taken' = 0 /\ queue' # <<>>))
<1>1. UNCHANGED <<work, maps, flags>>
  BY AlbumParts DEF Inv1
<1>2. CASE gui' = "stuck" /\ attached' = attached
  <2>1. ~Busy' /\ gui # "dialog" /\ UNCHANGED <<cancelled, aborted, covers, albums>>
    BY <1>1, <1>2 DEF Busy, maps, flags
  <2> QED
    BY <1>2, <2>1, RestFlow
<1>3. CASE Upload(js, AlbumFolder(js))
  <2>1. Begin(js, AlbumFolder(js))
    BY <1>3 DEF Upload
  <2> QED
    BY <1>1, <2>1, BeginFlow
<1> QED
  BY <1>2, <1>3, AlbumParts DEF Inv1

LEMMA FlowNext ==
  ASSUME Inv1, FlowInv, [Next]_vars
  PROVE  FlowInv'
<1>1. CASE Worker
  BY <1>1, WorkerFlow
<1>2. CASE DialogCloses
  <2>1. /\ gui = "dialog" /\ done /\ gui' \in {"idle", "next"} /\ attached'
        /\ Succeeds \/ Fails \/ UNCHANGED cancelled
        /\ UNCHANGED <<aborted, covers, albums>>
    <3>1. /\ gui = "dialog" /\ done /\ gui' \in {"idle", "next"} /\ attached'
          /\ UNCHANGED <<aborted, covers, albums>>
      BY <1>2 DEF DialogCloses, worker, maps
    <3>2. (\E p : SetParent(p)) \/ UNCHANGED cancelled
      BY <1>2 DEF DialogCloses
    <3> QED
      BY <3>1, <3>2 DEF SetParent
  <2> QED
    BY <2>1, RestFlow DEF Busy
<1>3. CASE NextSelected
  <2> DEFINE js == job.rest
  <2>1. gui = "next" /\ IF Head(js).kind = "album" THEN UploadAlbum(js) ELSE ImportMusic(js)
    BY <1>3 DEF NextSelected
  <2>2. Selection(js)
    BY <2>1, RestIsSelection DEF Inv1
  <2> HIDE DEF js
  <2>3. CASE ImportMusic(js)
    <3>1. Begin(js, Root) /\ UNCHANGED <<work, maps, flags, attached>>
      BY <2>3 DEF ImportMusic
    <3> QED
      BY <2>1, <2>2, <3>1, BeginFlow, AtRest
  <2> QED
    BY <2>1, <2>2, <2>3, UploadAlbumFlow
<1>4. ASSUME NEW yes \in BOOLEAN, NEW forAll \in BOOLEAN, Answer(yes, forAll)
      PROVE  FlowInv'
  BY <1>4, AnswerFlow
<1>5. ASSUME NEW k, Repaint(k)
      PROVE  FlowInv'
  BY <1>5, RepaintFlow
<1>6. ASSUME NEW k, Enter(k) \/ Back \/ DeleteSelected(k)
      PROVE  FlowInv'
  <2>1. /\ gui = "idle" /\ gui' = "idle" /\ UNCHANGED <<aborted, covers, albums, attached>>
        /\ Succeeds \/ Fails
    BY <1>6 DEF Enter, Back, DeleteSelected, Selected, Turn, SetParent, worker, maps
  <2> QED
    BY <2>1, RestFlow DEF Busy
<1>7. ASSUME NEW name, NEW k, CreateFolder(name) \/ RenameSelected(k, name)
      PROVE  FlowInv'
  <2>1. /\ gui = "idle" /\ gui' = "idle" /\ UNCHANGED <<aborted, covers, albums, attached>>
        /\ Succeeds \/ Fails
    BY <1>7 DEF CreateFolder, RenameSelected, Renamed, Selected, Turn, worker, maps
  <2> QED
    BY <2>1, RestFlow DEF Busy
<1>8. CASE AbortPressed
  BY <1>8, AbortPressedFlow
<1>9. ASSUME NEW js \in Jobs, StartUpload(js) \/ StartDownload(js) \/ StartImport(js)
      PROVE  FlowInv'
  <2>1. /\ gui = "idle" /\ UNCHANGED <<work, maps, flags>>
        /\ \E home : Begin(js, home)
        /\ Head(js).kind = "upload" \/ attached' = attached
    BY <1>9 DEF StartUpload, StartDownload, StartImport, Turn, ImportMusic, Upload
  <2>2. attached
    BY <2>1, AtRest
  <2> QED
    BY <2>1, <2>2, BeginFlow, JobsAreSelections
<1>10. ASSUME NEW js \in Jobs, StartAlbum(js)
       PROVE  FlowInv'
  <2>1. gui = "idle" /\ UploadAlbum(js) /\ Head(js).kind = "album"
    BY <1>10 DEF StartAlbum, Turn
  <2> QED
    BY <2>1, UploadAlbumFlow, JobsAreSelections
<1>11. CASE UNCHANGED vars
  BY <1>11, StutterFlow
<1>12. Next => \/ Worker \/ DialogCloses \/ NextSelected \/ AbortPressed \/ UNCHANGED vars
               \/ \E yes, forAll \in BOOLEAN : Answer(yes, forAll)
               \/ \E k : Repaint(k)
               \/ \E k : Enter(k) \/ Back \/ DeleteSelected(k)
               \/ \E name, k : CreateFolder(name) \/ RenameSelected(k, name)
               \/ \E js \in Jobs : StartUpload(js) \/ StartDownload(js) \/ StartImport(js)
               \/ \E js \in Jobs : StartAlbum(js)
  BY DEF Next, Replies, Rest
<1> QED
  BY <1>1, <1>2, <1>3, <1>4, <1>5, <1>6, <1>7, <1>8, <1>9, <1>10, <1>11, <1>12

(* In a job in which nothing fails, nothing did so far.                    *)
LEMMA CalmStep ==
  ASSUME Inv5, Calm', Alive, pressed' = pressed,
         Succeeds \/ Fails \/ Refuses \/ (faults \in Nat => faults' >= faults)
  PROVE  /\ Calm /\ ServedOK /\ MidwayOK /\ SourcesOK /\ ArtOK
         /\ ~Fails /\ ~aborted /\ Busy
         /\ work.at # "idle" => ~done /\ (queue = <<>> <=> work.at \in OfFinish)
<1>0. Inv1 /\ TypeInv /\ FlowInv /\ CalmInv
  BY DEF Inv5, Inv1
<1>1. faults \in Nat /\ faults' = 0 /\ ~pressed
  BY <1>0, BoundsAssumption DEF TypeInv, FlagsOK, Calm
<1>2. faults = 0
  BY <1>1 DEF Succeeds, Fails, Refuses
<1>3. Busy
  BY DEF Alive, Busy
<1>4. Calm
  BY <1>1, <1>2, <1>3 DEF Calm
<1>5. ~cancelled /\ ~aborted
  BY <1>0, <1>1 DEF FlowInv
<1>6. ~Fails
  BY <1>1, <1>2, <1>5 DEF Fails
<1>7. work.at # "idle" => ~done
  BY <1>0 DEF TypeInv, QuietOK, Idle
<1> QED
  BY <1>0, <1>3, <1>4, <1>5, <1>6, <1>7 DEF CalmInv, TypeInv, QuietOK

(* What has become of a command stays so while the worker goes on.         *)
Grown ==
  /\ UNCHANGED job
  /\ DOMAIN sent \subseteq DOMAIN sent' /\ refused \subseteq refused' /\ listed \subseteq listed'
  /\ ~done' => /\ ~done /\ DOMAIN dirs \subseteq DOMAIN dirs'
               /\ \A e \in DOMAIN covers : e \in DOMAIN covers' /\ covers[e].score <= covers'[e].score
  /\ queue' # <<>> => queue # <<>> /\ DOMAIN albums \subseteq DOMAIN albums'

CoverScores == \A e \in DOMAIN covers : covers[e].score \in Nat

LEMMA SourcesScored ==
  ASSUME SourcesOK
  PROVE  CoverScores
<1>1. ASSUME NEW e \in DOMAIN covers
      PROVE  covers[e].score \in Nat
  <2>1. PICK n \in DOMAIN job.cmds : covers[e] = [path |-> job.cmds[n].path, score |-> Score(job.cmds[n])]
    BY DEF SourcesOK
  <2>2. covers[e].score = Score(job.cmds[n])
    BY <2>1
  <2> QED
    BY <2>2, ScoreFacts DEF Score
<1> QED
  BY <1>1 DEF CoverScores

LEMMA FoldersSame ==
  ASSUME job' = job
  PROVE  Folders' = Folders /\ Base' = Base
BY DEF Folders, Base, MadeFolders

LEMMA StillServed ==
  ASSUME NEW c, Served(c), Grown, CoverScores, CoverScores'
  PROVE  Served(c)'
<1>1. Folders' = Folders
  BY FoldersSame DEF Grown
<1>2. /\ c.op = "get" => c.path \in DOMAIN sent'
      /\ c.op = "send" => c.path \in DOMAIN sent' \cup refused' \/ Front(c.path) \notin Folders
      /\ c.op = "mkdir" /\ ~done' => c.path \in DOMAIN dirs' \/ c.path \notin Folders
      /\ IsSong(c) => c.path \in DOMAIN sent' \cup listed'
      /\ IsSong(c) /\ queue' # <<>> => Front(c.path) \in DOMAIN albums'
  BY DEF Served, Grown
<1>3. IsImage(c) /\ ~done' => Front(c.path) \in DOMAIN covers' /\ Score(c) <= covers'[Front(c.path)].score
  <2>1. Score(c) \in Nat
    BY ScoreFacts DEF Score
  <2>2. IsImage(c) /\ ~done' => /\ Front(c.path) \in DOMAIN covers /\ Score(c) <= covers[Front(c.path)].score
                                /\ Front(c.path) \in DOMAIN covers'
                                /\ covers[Front(c.path)].score <= covers'[Front(c.path)].score
    BY DEF Served, Grown
  <2> QED
    BY <2>1, <2>2 DEF CoverScores
<1> QED
  BY <1>1, <1>2, <1>3 DEF Served

(* What becomes of the command at work.                                    *)
LEMMA NowServed ==
  ASSUME NEW c,
         c.op = "get" => c.path \in DOMAIN sent',
         c.op = "send" => c.path \in DOMAIN sent' \cup refused',
         c.op = "mkdir" => c.path \in DOMAIN dirs',
         c.op = "import" => /\ IsSong(c) /\ c.path \in DOMAIN sent' \cup listed'
                            /\ Front(c.path) \in DOMAIN albums'
  PROVE  Served(c)'
BY KindsOfFile DEF Served

LEMMA RegisteredFacts ==
  ASSUME NEW c, c = work.cmd, albums' = albums \/ (IsSong(c) /\ albums' = Registered)
  PROVE  /\ DOMAIN albums \subseteq DOMAIN albums'
         /\ \A d \in DOMAIN albums' : \/ d \in DOMAIN albums /\ albums'[d] = albums[d]
                                      \/ IsSong(c) /\ d = Front(c.path) /\ albums'[d] = c.album
         /\ albums' = Registered => Front(c.path) \in DOMAIN albums'
<1> DEFINE p == Front(c.path)
           y == c.album
<1>1. Registered = IF p \in DOMAIN albums THEN albums ELSE Put(albums, p, y)
  BY DEF Registered, path
<1> HIDE DEF p, y
<1>2. /\ DOMAIN Put(albums, p, y) = DOMAIN albums \cup {p} /\ Put(albums, p, y)[p] = y
      /\ \A z \in DOMAIN albums : z # p => Put(albums, p, y)[z] = albums[z]
  BY DEF Put
<1>3. CASE albums' = albums
  <2>1. albums' = Registered => p \in DOMAIN albums
    BY <1>1, <1>2, <1>3
  <2> QED
    BY <1>3, <2>1 DEF p
<1>4. CASE IsSong(c) /\ albums' = Put(albums, p, y) /\ p \notin DOMAIN albums
  <2>1. \A d \in DOMAIN albums' : (d \in DOMAIN albums /\ albums'[d] = albums[d]) \/ (d = p /\ albums'[d] = y)
    BY <1>2, <1>4
  <2> QED
    BY <1>2, <1>4, <2>1 DEF p, y
<1> QED
  BY <1>1, <1>3, <1>4

(* A step on a command, which goes on or is done with.                     *)
LEMMA OnCommand ==
  ASSUME Inv5, Calm', Calm, work.at # "idle", work.at \notin OfFinish,
         UNCHANGED <<job, queue, covers, done>>,
         DOMAIN sent \subseteq DOMAIN sent', refused \subseteq refused', listed \subseteq listed',
         DOMAIN dirs \subseteq DOMAIN dirs',
         albums' = albums \/ (IsSong(work.cmd) /\ albums' = Registered),
         NEW c, c = work.cmd,
         \/ work'.at = "idle" /\ Served(c)'
         \/ /\ work'.at # "idle" /\ work'.cmd = c
            /\ work'.at = "relist" => c.path \in DOMAIN sent'
            /\ work'.at \in {"create", "pause", "data", "add"} /\ c.op = "import" =>
                 Front(c.path) \in DOMAIN albums'
  PROVE  CalmInv'
<1>0. Inv1 /\ TypeInv /\ FlowInv /\ Busy /\ Busy' /\ ServedOK /\ MidwayOK /\ SourcesOK
  BY DEF Inv5, Inv1, Calm, CalmInv
<1>1. ~done /\ queue # <<>> /\ queue' # <<>>
  BY <1>0 DEF TypeInv, QuietOK, Idle
<1>2. /\ Taken \in Nat /\ DOMAIN job.cmds = 1..Len(job.cmds)
      /\ Taken \in DOMAIN job.cmds /\ c = job.cmds[Taken]
  BY <1>0, JobFacts DEF FlowInv
<1>3. Taken' = Taken
  BY DEF Taken
<1>4. DOMAIN albums \subseteq DOMAIN albums'
  BY RegisteredFacts
<1>5. SourcesOK'
  <2>1. \A e \in DOMAIN covers' : \E n \in DOMAIN job'.cmds :
          /\ IsImage(job'.cmds[n]) /\ Front(job'.cmds[n].path) = e
          /\ covers'[e] = [path |-> job'.cmds[n].path, score |-> Score(job'.cmds[n])]
    BY <1>0 DEF SourcesOK
  <2>2. ASSUME NEW d \in DOMAIN albums'
        PROVE  \E n \in DOMAIN job'.cmds :
                 IsSong(job'.cmds[n]) /\ Front(job'.cmds[n].path) = d /\ albums'[d] = job'.cmds[n].album
    <3>1. CASE d \in DOMAIN albums /\ albums'[d] = albums[d]
      BY <1>0, <3>1 DEF SourcesOK
    <3>2. CASE IsSong(c) /\ d = Front(c.path) /\ albums'[d] = c.album
      BY <1>2, <3>2
    <3>3. \/ d \in DOMAIN albums /\ albums'[d] = albums[d]
          \/ IsSong(c) /\ d = Front(c.path) /\ albums'[d] = c.album
      BY RegisteredFacts
    <3> QED
      BY <3>1, <3>2, <3>3
  <2> QED
    BY <2>1, <2>2 DEF SourcesOK
<1>6. CoverScores /\ CoverScores'
  BY <1>0, SourcesScored DEF CoverScores
<1>7. Grown
  <2>1. \A e \in DOMAIN covers : covers[e].score <= covers'[e].score
    BY <1>6 DEF CoverScores
  <2> QED
    BY <1>1, <1>4, <2>1 DEF Grown
<1>8. ServedOK'
  <2> SUFFICES ASSUME NEW n \in DOMAIN job.cmds, Handled(n)'
               PROVE  Served(job.cmds[n])'
    BY DEF ServedOK
  <2>1. PICK b : b = job.cmds[n]
    OBVIOUS
  <2>2. n <= Taken /\ (n = Taken => work'.at = "idle")
    BY <1>3 DEF Handled
  <2>3. Served(b)'
    <3>1. CASE n = Taken
      BY <1>2, <2>1, <2>2, <3>1
    <3>2. CASE n # Taken
      <4>1. Served(b)
        BY <1>0, <2>1, <2>2, <3>2 DEF ServedOK, Handled
      <4> QED
        BY <1>6, <1>7, <4>1, StillServed
    <3> QED
      BY <3>1, <3>2
  <2> QED
    BY <2>1, <2>3 DEF Served
<1>9. MidwayOK'
  <2>1. Taken' # 0
    BY <1>2, <1>3
  <2>2. Uploading' /\ ~done' /\ Taken' >= 1 /\ job'.cmds # <<>> => Base' \in DOMAIN dirs'
    BY <1>0, <1>3, FoldersSame DEF MidwayOK, Uploading
  <2>3. work'.at # "idle" /\ work'.cmd.op = "import" => IsSong(work'.cmd)
    BY <1>0 DEF MidwayOK
  <2> QED
    BY <2>1, <2>2, <2>3 DEF MidwayOK, path
<1>10. ArtOK'
  BY <1>1 DEF ArtOK
<1> QED
  BY <1>5, <1>8, <1>9, <1>10 DEF CalmInv

(* The command goes on.                                                    *)
Loading == {"create", "pause", "data", "add"}

LEMMA Onward ==
  ASSUME Inv5, Alive, work.at # "idle", work.at \notin OfFinish,
         UNCHANGED <<job, queue, maps, done, refused, listed, pressed>>, DOMAIN sent \subseteq DOMAIN sent',
         Succeeds \/ Fails \/ Refuses \/ (faults \in Nat => faults' >= faults),
         NEW a, a # "idle", a # "relist", work'.at = a, work'.cmd = work.cmd,
         a \in Loading => work.at \in Loading \/ work.cmd.op # "import"
  PROVE  CalmInv'
<1> SUFFICES ASSUME Calm' PROVE CalmInv'
  BY DEF CalmInv
<1>1. Calm /\ MidwayOK
  BY CalmStep
<1>2. PICK c : c = work.cmd
  OBVIOUS
<1>3. UNCHANGED <<dirs, covers, albums>>
  BY DEF maps
<1>4. a \in Loading /\ c.op = "import" => Front(c.path) \in DOMAIN albums
  BY <1>1, <1>2 DEF MidwayOK, Loading, path
<1> QED
  BY <1>1, <1>2, <1>3, <1>4, OnCommand DEF Loading

(* The command is done with.                                               *)
LEMMA Through ==
  ASSUME Inv5, Calm', Calm, work.at # "idle", work.at \notin OfFinish,
         UNCHANGED <<job, queue, covers, albums, done>>,
         DOMAIN sent \subseteq DOMAIN sent', refused \subseteq refused', listed \subseteq listed',
         DOMAIN dirs \subseteq DOMAIN dirs',
         NEW c, c = work.cmd, work'.at = "idle",
         c.op = "get" => c.path \in DOMAIN sent',
         c.op = "send" => c.path \in DOMAIN sent' \cup refused',
         c.op = "mkdir" => c.path \in DOMAIN dirs',
         c.op = "import" => c.path \in DOMAIN sent' \cup listed' /\ Front(c.path) \in DOMAIN albums
  PROVE  CalmInv'
<1>1. c.op = "import" => IsSong(c)
  BY DEF Inv5, CalmInv, MidwayOK
<1>2. Served(c)'
  BY <1>1, NowServed
<1> QED
  BY <1>2, OnCommand

LEMMA GoingOnComplete ==
  ASSUME Inv5, EnterFolder \/ OpenFile \/ BeginData \/ Announce \/ CreateTrack \/ Download \/ TimeNotThere
  PROVE  CalmInv'
<1> SUFFICES ASSUME Calm' PROVE CalmInv'
  BY DEF CalmInv
<1>0. TypeInv /\ WorkOK
  BY DEF Inv5, Inv1, TypeInv
<1>1. CASE EnterFolder
  <2>1. /\ Alive /\ work.at = "enter" /\ GoOn("find")
        /\ UNCHANGED <<job, queue, maps, done, sent, refused, listed, pressed>> /\ (Succeeds \/ Fails)
    BY <1>1 DEF EnterFolder, SetParent, window, library, past
  <2>2. work'.at = "find" /\ work'.cmd = work.cmd
    BY <1>0, <2>1, GoOnFacts
  <2> QED
    BY <2>1, <2>2, Onward DEF OfFinish, Loading
<1>2. CASE OpenFile
  <2>1. /\ Alive /\ work.at = "open" /\ UNCHANGED <<job, queue, maps, done, sent, refused, listed, pressed>>
        /\ \/ GoOn("announce") /\ UNCHANGED faults
           \/ faults' = faults + 1
    BY <1>2 DEF OpenFile, window, library, past, flags
  <2>2. faults \in Nat => faults' >= faults
    BY <2>1
  <2>3. Calm /\ Calm'
    BY <2>1, <2>2, CalmStep
  <2>4. GoOn("announce")
    BY <2>1, <2>3 DEF Calm
  <2>5. work'.at = "announce" /\ work'.cmd = work.cmd
    BY <1>0, <2>1, <2>4, GoOnFacts
  <2> QED
    BY <2>1, <2>2, <2>5, Onward DEF OfFinish, Loading
<1>3. CASE BeginData
  <2>1. /\ Alive /\ work.at = "pause" /\ GoOn("data") /\ UNCHANGED faults
        /\ UNCHANGED <<job, queue, maps, done, sent, refused, listed, pressed>>
    BY <1>3 DEF BeginData, window, library, past, flags
  <2>2. work'.at = "data" /\ work'.cmd = work.cmd /\ (faults \in Nat => faults' >= faults)
    BY <1>0, <2>1, GoOnFacts
  <2> QED
    BY <2>1, <2>2, Onward DEF OfFinish, Loading
<1>4. CASE Announce
  <2>1. /\ Alive /\ work.at = "announce" /\ UNCHANGED <<job, queue, maps, done, sent, refused, listed, pressed>>
        /\ (Succeeds /\ work' = [work EXCEPT !.at = "pause", !.id = top + 1]) \/ Fails
    BY <1>4 DEF Announce, window, library, past
  <2>2. ~Fails
    BY <2>1, CalmStep
  <2>3. work'.at = "pause" /\ work'.cmd = work.cmd
    BY <1>0, <2>1, <2>2, WorkFacts DEF Parts
  <2>4. work.cmd.op = "send"
    BY <1>0, <2>1 DEF WorkOK, OfSend, Idle
  <2> QED
    BY <2>1, <2>3, <2>4, Onward DEF OfFinish, Loading
<1>5. CASE CreateTrack
  <2>1. /\ Alive /\ work.at = "create" /\ UNCHANGED <<job, queue, maps, done, sent, refused, listed, pressed>>
        /\ (Succeeds /\ GoOn("pause")) \/ Fails
    BY <1>5 DEF CreateTrack, window, library, past
  <2>2. ~Fails
    BY <2>1, CalmStep
  <2>3. work'.at = "pause" /\ work'.cmd = work.cmd
    BY <1>0, <2>1, <2>2, GoOnFacts
  <2> QED
    BY <2>1, <2>3, Onward DEF OfFinish, Loading
<1>6. CASE Download
  <2>1. /\ Alive /\ work.at = "get" /\ UNCHANGED <<job, queue, maps, done, sent, refused, listed, pressed>>
        /\ (Succeeds /\ GoOn("mtime")) \/ Fails
    BY <1>6 DEF Download, window, library, past
  <2>2. ~Fails
    BY <2>1, CalmStep
  <2>3. work'.at = "mtime" /\ work'.cmd = work.cmd
    BY <1>0, <2>1, <2>2, GoOnFacts
  <2> QED
    BY <2>1, <2>3, Onward DEF OfFinish, Loading
<1>7. CASE TimeNotThere
  <2>1. /\ Alive /\ work.at = "mtime" /\ UNCHANGED <<job, queue, work, maps, done, sent, refused, listed, pressed>>
        /\ Succeeds \/ Fails
    BY <1>7 DEF TimeNotThere, window, library, worker
  <2> QED
    BY <2>1, Onward DEF OfFinish, Loading
<1> QED
  BY <1>1, <1>2, <1>3, <1>4, <1>5, <1>6, <1>7

LEMMA FindFileComplete ==
  ASSUME Inv5, FindFile
  PROVE  CalmInv'
<1> SUFFICES ASSUME Calm' PROVE CalmInv'
  BY DEF CalmInv
<1>0. TypeInv /\ WorkOK
  BY DEF Inv5, Inv1, TypeInv
<1>1. /\ Alive /\ work.at = "find"
      /\ UNCHANGED <<job, queue, maps, done, sent, listed, pressed>> /\ (Succeeds \/ Fails)
      /\ \/ GoOn("open") /\ UNCHANGED refused
         \/ work' = Idle /\ refused' = refused \cup {path}
         \/ \E i, a : /\ a \in {"delete", "ask"} /\ work' = [work EXCEPT !.id = i, !.at = a]
                      /\ UNCHANGED refused
  <2>1. PICK bad \in 0 .. Len(model.rows) :
          LET k == Found(Last(path), bad)
          IN  /\ LookUp(Last(path), bad)
              /\ IF k = 0 THEN GoOn("open") /\ UNCHANGED <<gui, refused>>
                 ELSE IF answer = "no"
                 THEN work' = Idle /\ refused' = refused \cup {path} /\ UNCHANGED gui
                 ELSE /\ work' = [work EXCEPT !.id = model.rows[k].id,
                                             !.at = IF answer = "yes" THEN "delete" ELSE "ask"]
                      /\ gui' = IF answer = "yes" THEN gui ELSE "ask"
                      /\ UNCHANGED refused
    BY DEF FindFile
  <2>2. Succeeds \/ Fails
    BY <2>1 DEF LookUp
  <2>3. \/ GoOn("open") /\ UNCHANGED refused
        \/ work' = Idle /\ refused' = refused \cup {path}
        \/ \E i, a : /\ a \in {"delete", "ask"} /\ work' = [work EXCEPT !.id = i, !.at = a]
                     /\ UNCHANGED refused
    BY <2>1
  <2>4. Alive /\ work.at = "find" /\ UNCHANGED <<job, queue, maps, done, sent, listed, pressed>>
    BY DEF FindFile, library
  <2> QED
    BY <2>2, <2>3, <2>4
<1>2. work.at # "idle" /\ work.at \notin OfFinish /\ work.cmd.op = "send"
  <2>1. work.at = "find"
    BY <1>1
  <2> QED
    BY <1>0, <2>1 DEF WorkOK, OfSend, OfFinish, Idle
<1>3. CASE GoOn("open") /\ UNCHANGED refused
  <2>1. work'.at = "open" /\ work'.cmd = work.cmd
    BY <1>0, <1>2, <1>3, GoOnFacts
  <2> QED
    BY <1>1, <1>2, <1>3, <2>1, Onward DEF Loading
<1>4. ASSUME NEW i, NEW a, a \in {"delete", "ask"}, work' = [work EXCEPT !.id = i, !.at = a], UNCHANGED refused
      PROVE  CalmInv'
  <2>1. work'.at = a /\ work'.cmd = work.cmd
    BY <1>0, <1>2, <1>4, WorkFacts DEF Parts
  <2> QED
    BY <1>1, <1>2, <1>4, <2>1, Onward DEF Loading
<1>5. CASE work' = Idle /\ refused' = refused \cup {path}
  <2>1. PICK c : c = work.cmd
    OBVIOUS
  <2>2. Calm /\ work'.at = "idle" /\ c.path \in refused' /\ c.op = "send"
    BY <1>1, <1>2, <1>5, <2>1, CalmStep DEF Idle, path
  <2> QED
    BY <1>1, <1>2, <1>5, <2>1, <2>2, Through DEF maps
<1> QED
  BY <1>1, <1>3, <1>4, <1>5

LEMMA DeleteOldComplete ==
  ASSUME Inv5, DeleteOld
  PROVE  CalmInv'
<1> SUFFICES ASSUME Calm' PROVE CalmInv'
  BY DEF CalmInv
<1>0. TypeInv /\ WorkOK
  BY DEF Inv5, Inv1, TypeInv
<1>1. /\ Alive /\ work.at = "delete" /\ UNCHANGED <<job, queue, maps, done, sent, refused, listed, pressed>>
      /\ (Succeeds /\ work' = [work EXCEPT !.at = "open", !.reset = TRUE]) \/ Fails
  BY DEF DeleteOld, window, library, past
<1>2. ~Fails
  BY <1>1, CalmStep
<1>3. work'.at = "open" /\ work'.cmd = work.cmd
  BY <1>0, <1>1, <1>2, WorkFacts DEF Parts
<1> QED
  BY <1>1, <1>3, Onward DEF OfFinish, Loading

LEMMA SendDataComplete ==
  ASSUME Inv5, SendData
  PROVE  CalmInv'
<1> SUFFICES ASSUME Calm' PROVE CalmInv'
  BY DEF CalmInv
<1>0. TypeInv /\ WorkOK /\ ViewInv
  BY DEF Inv5, Inv1, TypeInv
<1>1. /\ Alive /\ work.at = "data" /\ work.cmd.op = "send"
      /\ UNCHANGED <<job, queue, maps, done, refused, listed, pressed>>
      /\ \/ Succeeds /\ sent' = Put(sent, path, work.id) /\ (GoOn("relist") \/ work' = Idle)
         \/ Fails \/ Refuses
  BY DEF SendData, window, library
<1>2. ~Refuses
  BY <1>0, <1>1 DEF ViewInv, Refuses
<1>3. Calm /\ ~Fails
  BY <1>1, CalmStep
<1>4. PICK c : c = work.cmd
  OBVIOUS
<1>5. DOMAIN sent' = DOMAIN sent \cup {c.path}
  <2>1. sent' = Put(sent, path, work.id)
    BY <1>1, <1>2, <1>3
  <2> QED
    BY <1>4, <2>1 DEF Put, path
<1>6. CASE work' = Idle
  BY <1>1, <1>3, <1>4, <1>5, <1>6, IdleOK, Through DEF OfFinish, maps
<1>7. CASE GoOn("relist")
  <2>1. work'.at = "relist" /\ work'.cmd = c
    BY <1>0, <1>1, <1>4, <1>7, GoOnFacts
  <2> QED
    BY <1>1, <1>3, <1>4, <1>5, <2>1, OnCommand DEF OfFinish, maps
<1> QED
  BY <1>1, <1>2, <1>3, <1>6, <1>7

LEMMA RelistComplete ==
  ASSUME Inv5, Relist
  PROVE  CalmInv'
<1> SUFFICES ASSUME Calm' PROVE CalmInv'
  BY DEF CalmInv
<1>1. /\ Alive /\ work.at = "relist" /\ work' = Idle /\ (Succeeds \/ Fails)
      /\ UNCHANGED <<job, queue, maps, done, sent, refused, listed, pressed>>
  BY DEF Relist, SetParent, window, library, past
<1>2. Calm /\ MidwayOK
  BY <1>1, CalmStep
<1>3. PICK c : c = work.cmd
  OBVIOUS
<1>4. c.op = "send" /\ c.path \in DOMAIN sent
  <2>1. WorkOK
    BY DEF Inv5, Inv1, TypeInv
  <2> QED
    BY <1>1, <1>2, <1>3, <2>1 DEF MidwayOK, WorkOK, OfSend, Idle, path
<1> QED
  BY <1>1, <1>2, <1>3, <1>4, IdleOK, Through DEF OfFinish, maps

LEMMA LookUpFolderComplete ==
  ASSUME Inv5, LookUpFolder
  PROVE  CalmInv'
<1> SUFFICES ASSUME Calm' PROVE CalmInv'
  BY DEF CalmInv
<1>0. TypeInv /\ WorkOK
  BY DEF Inv5, Inv1, TypeInv
<1>1. /\ Alive /\ work.at = "lookup" /\ (Succeeds \/ Fails)
      /\ UNCHANGED <<job, queue, covers, albums, done, sent, refused, listed, pressed>>
      /\ \/ GoOn("make") /\ UNCHANGED dirs
         \/ work' = Idle /\ \E i : dirs' = Put(dirs, path, i)
  <2>1. /\ Alive /\ work.at = "lookup" /\ (Succeeds \/ Fails)
        /\ UNCHANGED <<job, queue, covers, albums, done, sent, refused, listed, pressed>>
    BY DEF LookUpFolder, LookUp, window, library, past
  <2>2. \/ GoOn("make") /\ UNCHANGED dirs
        \/ work' = Idle /\ \E i : dirs' = Put(dirs, path, i)
    BY DEF LookUpFolder
  <2> QED
    BY <2>1, <2>2
<1>2. Calm
  BY <1>1, CalmStep
<1>3. PICK c : c = work.cmd
  OBVIOUS
<1>4. work.at # "idle" /\ work.at \notin OfFinish /\ c.op = "mkdir"
  BY <1>0, <1>1, <1>3 DEF WorkOK, OfMkdir, OfFinish, Idle
<1>5. CASE GoOn("make") /\ UNCHANGED dirs
  <2>1. work'.at = "make" /\ work'.cmd = c
    BY <1>0, <1>3, <1>4, <1>5, GoOnFacts
  <2> QED
    BY <1>1, <1>2, <1>3, <1>4, <1>5, <2>1, OnCommand
<1>6. ASSUME NEW i, work' = Idle, dirs' = Put(dirs, path, i)
      PROVE  CalmInv'
  <2>1. DOMAIN dirs' = DOMAIN dirs \cup {c.path}
    BY <1>3, <1>6 DEF Put, path
  <2> QED
    BY <1>1, <1>2, <1>3, <1>4, <1>6, <2>1, IdleOK, Through
<1> QED
  BY <1>1, <1>5, <1>6

LEMMA MakeFolderComplete ==
  ASSUME Inv5, MakeFolder
  PROVE  CalmInv'
<1> SUFFICES ASSUME Calm' PROVE CalmInv'
  BY DEF CalmInv
<1>0. TypeInv /\ WorkOK
  BY DEF Inv5, Inv1, TypeInv
<1>1. /\ Alive /\ work.at = "make" /\ work' = Idle
      /\ UNCHANGED <<job, queue, covers, albums, done, sent, refused, listed, pressed>>
      /\ (Succeeds /\ dirs' = Put(dirs, path, top + 1)) \/ Fails
  BY DEF MakeFolder, window, library, past
<1>2. Calm /\ ~Fails
  BY <1>1, CalmStep
<1>3. PICK c : c = work.cmd
  OBVIOUS
<1>4. work.at # "idle" /\ work.at \notin OfFinish /\ c.op = "mkdir"
  BY <1>0, <1>1, <1>3 DEF WorkOK, OfMkdir, OfFinish, Idle
<1>5. DOMAIN dirs' = DOMAIN dirs \cup {c.path}
  <2>1. dirs' = Put(dirs, path, top + 1)
    BY <1>1, <1>2
  <2> QED
    BY <1>3, <2>1 DEF Put, path
<1> QED
  BY <1>1, <1>2, <1>3, <1>4, <1>5, IdleOK, Through

LEMMA PrepareComplete ==
  ASSUME Inv5, Prepare
  PROVE  CalmInv'
<1> SUFFICES ASSUME Calm' PROVE CalmInv'
  BY DEF CalmInv
<1>0. TypeInv /\ WorkOK
  BY DEF Inv5, Inv1, TypeInv
<1>1. /\ Alive /\ work.at = "prepare"
      /\ UNCHANGED <<job, queue, covers, dirs, done, refused, listed, pressed>>
      /\ \/ /\ Succeeds /\ albums' = Registered
            /\ IF path \in listed THEN work' = Idle /\ sent' = Put(sent, path, 0)
               ELSE GoOn("create") /\ UNCHANGED sent
         \/ Fails
  BY DEF Prepare, window
<1>2. Calm /\ ~Fails /\ MidwayOK
  BY <1>1, CalmStep
<1>3. PICK c : c = work.cmd
  OBVIOUS
<1>4. work.at # "idle" /\ work.at \notin OfFinish /\ c.op = "import"
  <2>1. work.at = "prepare"
    BY <1>1
  <2> QED
    BY <1>0, <1>3, <2>1 DEF WorkOK, OfImport, OfFinish, Idle
<1>5. IsSong(c) /\ albums' = Registered
  BY <1>1, <1>2, <1>3, <1>4 DEF MidwayOK
<1>6. Front(c.path) \in DOMAIN albums'
  BY <1>3, <1>5, RegisteredFacts
<1>7. CASE work' = Idle /\ sent' = Put(sent, path, 0)
  <2>1. DOMAIN sent' = DOMAIN sent \cup {c.path}
    BY <1>3, <1>7 DEF Put, path
  <2>2. Served(c)'
    BY <1>4, <1>5, <1>6, <2>1, NowServed
  <2> QED
    BY <1>1, <1>2, <1>3, <1>4, <1>5, <1>7, <2>1, <2>2, IdleOK, OnCommand
<1>8. CASE GoOn("create") /\ UNCHANGED sent
  <2>1. work'.at = "create" /\ work'.cmd = c
    BY <1>0, <1>3, <1>4, <1>8, GoOnFacts
  <2> QED
    BY <1>1, <1>2, <1>3, <1>4, <1>5, <1>6, <1>8, <2>1, OnCommand
<1> QED
  BY <1>1, <1>2, <1>7, <1>8

LEMMA SendTrackComplete ==
  ASSUME Inv5, SendTrack
  PROVE  CalmInv'
<1>0. TypeInv /\ WorkOK
  BY DEF Inv5, Inv1, TypeInv
<1>1. /\ Alive /\ work.at = "data" /\ GoOn("add")
      /\ UNCHANGED <<job, queue, maps, done, refused, listed, pressed>>
      /\ (Succeeds /\ sent' = Put(sent, path, 0)) \/ ((Fails \/ Refuses) /\ sent' = sent)
  BY DEF SendTrack, window, library
<1>2. work'.at = "add" /\ work'.cmd = work.cmd
  BY <1>0, <1>1, GoOnFacts
<1>3. DOMAIN sent \subseteq DOMAIN sent'
  BY <1>1 DEF Put
<1> QED
  BY <1>1, <1>2, <1>3, Onward DEF OfFinish, Loading

LEMMA AddTrackComplete ==
  ASSUME Inv5, AddTrack
  PROVE  CalmInv'
<1> SUFFICES ASSUME Calm' PROVE CalmInv'
  BY DEF CalmInv
<1>0. TypeInv /\ WorkOK
  BY DEF Inv5, Inv1, TypeInv
<1>1. /\ Alive /\ work.at = "add" /\ work' = Idle
      /\ UNCHANGED <<job, queue, maps, done, sent, refused, pressed>>
      /\ (Succeeds /\ listed' = listed \cup {path}) \/ (Fails /\ UNCHANGED listed)
  BY DEF AddTrack, window, past
<1>2. Calm /\ ~Fails /\ MidwayOK
  BY <1>1, CalmStep
<1>3. PICK c : c = work.cmd
  OBVIOUS
<1>4. c.op = "import" /\ c.path \in listed' /\ listed \subseteq listed'
  BY <1>0, <1>1, <1>2, <1>3 DEF WorkOK, OfImport, Idle, path
<1>5. Front(c.path) \in DOMAIN albums
  BY <1>1, <1>2, <1>3, <1>4 DEF MidwayOK, path
<1> QED
  BY <1>1, <1>2, <1>3, <1>4, <1>5, IdleOK, Through DEF OfFinish, maps

LEMMA SetTimeComplete ==
  ASSUME Inv5, SetTime
  PROVE  CalmInv'
<1> SUFFICES ASSUME Calm' PROVE CalmInv'
  BY DEF CalmInv
<1>0. TypeInv /\ WorkOK
  BY DEF Inv5, Inv1, TypeInv
<1>1. /\ Alive /\ work.at = "mtime" /\ work' = Idle
      /\ UNCHANGED <<job, queue, maps, done, refused, listed, pressed>>
      /\ (Succeeds /\ sent' = Put(sent, path, 0)) \/ Fails
  BY DEF SetTime, window, library
<1>2. Calm /\ ~Fails
  BY <1>1, CalmStep
<1>3. PICK c : c = work.cmd
  OBVIOUS
<1>4. c.op = "get"
  BY <1>0, <1>1, <1>3 DEF WorkOK, OfGet, Idle
<1>5. DOMAIN sent' = DOMAIN sent \cup {c.path}
  <2>1. sent' = Put(sent, path, 0)
    BY <1>1, <1>2
  <2> QED
    BY <1>3, <2>1 DEF Put, path
<1> QED
  BY <1>1, <1>2, <1>3, <1>4, <1>5, IdleOK, Through DEF OfFinish, maps

(* The first command of an upload makes its folder known, and a folder     *)
(* comes before what is in it: the folder of the next command is known, or *)
(* not one of the upload.                                                  *)
LEMMA FolderKnown ==
  ASSUME ListedInOrder, TypeInv, FlowInv, Busy, ~done, work.at = "idle", ServedOK, MidwayOK, Uploading,
         Taken + 1 \in DOMAIN job.cmds, NEW p, p = job.cmds[Taken + 1].path
  PROVE  /\ Base \in DOMAIN Mapped(p)
         /\ Front(p) \in DOMAIN Mapped(p) \/ Front(p) \notin Folders
         /\ DOMAIN dirs \subseteq DOMAIN Mapped(p)
<1>0. /\ Taken \in Nat /\ DOMAIN job.cmds = 1..Len(job.cmds) /\ Len(job.cmds) \in Nat
  BY JobFacts
<1>1. dirs = <<>> => DOMAIN Mapped(p) = {Front(p)} /\ DOMAIN dirs = {}
  BY DEF Mapped, Put
<1>2. dirs # <<>> => Mapped(p) = dirs
  BY DEF Mapped
<1>3. CASE Taken = 0
  <2>1. dirs = <<>>
    BY <1>3 DEF MidwayOK
  <2>2. Base = Front(p)
    BY <1>3 DEF Base
  <2> QED
    BY <1>1, <2>1, <2>2
<1>4. CASE Taken # 0
  <2>1. Base \in DOMAIN dirs
    <3>1. job.cmds # <<>> /\ Taken >= 1
      BY <1>0, <1>4
    <3> QED
      BY <3>1 DEF MidwayOK
  <2>2. dirs # <<>>
    BY <1>1, <2>1
  <2>3. ASSUME Front(p) \in Folders, Front(p) # Base
        PROVE  Front(p) \in DOMAIN dirs
    <3>1. Front(p) \in MadeFolders
      BY <2>3 DEF Folders
    <3>2. PICK d \in Range(job.cmds) : d.op = "mkdir" /\ d.path = Front(p)
      BY <3>1 DEF MadeFolders
    <3>3. PICK l \in DOMAIN job.cmds : d = job.cmds[l]
      BY <3>2 DEF Range
    <3>4. PICK j \in JobItems : job.cmds = j.cmds
      BY DEF FlowInv
    <3>5. l < Taken + 1
      BY <2>3, <3>2, <3>3, <3>4 DEF ListedInOrder, Base
    <3>6. Handled(l)
      BY <1>0, <3>5 DEF Handled
    <3>7. Served(d)
      BY <3>3, <3>6 DEF ServedOK
    <3> QED
      BY <2>3, <3>2, <3>7 DEF Served
  <2> QED
    BY <1>2, <2>1, <2>2, <2>3
<1> QED
  BY <1>3, <1>4

LEMMA ScoredFacts ==
  ASSUME SourcesOK, NEW c
  PROVE  /\ \A e \in DOMAIN covers : e \in DOMAIN Scored(c) /\ covers[e].score <= Scored(c)[e].score
         /\ Front(c.path) \in DOMAIN Scored(c) /\ Score(c) <= Scored(c)[Front(c.path)].score
         /\ \A e \in DOMAIN Scored(c) :
              \/ e \in DOMAIN covers /\ Scored(c)[e] = covers[e]
              \/ e = Front(c.path) /\ Scored(c)[e] = [path |-> c.path, score |-> Score(c)]
<1> DEFINE f == Front(c.path)
           r == [path |-> c.path, score |-> Score(c)]
<1>1. \A e \in DOMAIN covers : covers[e].score \in Nat
  BY SourcesScored DEF CoverScores
<1>2. Score(c) \in Nat /\ r.score = Score(c)
  BY ScoreFacts DEF Score
<1>3. Scored(c) = IF f \in DOMAIN covers /\ Score(c) <= covers[f].score THEN covers ELSE Put(covers, f, r)
  BY DEF Scored, Score
<1>4. Front(c.path) = f /\ [path |-> c.path, score |-> Score(c)] = r
  OBVIOUS
<1> HIDE DEF f, r
<1>5. CASE f \in DOMAIN covers /\ Score(c) <= covers[f].score
  BY <1>1, <1>3, <1>4, <1>5
<1>6. CASE ~(f \in DOMAIN covers /\ Score(c) <= covers[f].score)
  <2>1. /\ DOMAIN Scored(c) = DOMAIN covers \cup {f} /\ Scored(c)[f] = r
        /\ \A z \in DOMAIN covers : z # f => Scored(c)[z] = covers[z]
    BY <1>3, <1>6 DEF Put
  <2>2. f \in DOMAIN covers => covers[f].score <= Scored(c)[f].score
    BY <1>1, <1>2, <1>6, <2>1
  <2>3. \A e \in DOMAIN covers : e \in DOMAIN Scored(c) /\ covers[e].score <= Scored(c)[e].score
    BY <1>1, <2>1, <2>2
  <2>4. f \in DOMAIN Scored(c) /\ Score(c) <= Scored(c)[f].score
    BY <1>2, <2>1
  <2> QED
    BY <1>4, <2>1, <2>3, <2>4
<1> QED
  BY <1>5, <1>6

LEMMA TracksAre ==
  ASSUME FilesToldApart, TypeInv
  PROVE  /\ \A c : c \in Tracks <=> \E n \in DOMAIN job.cmds : c = job.cmds[n] /\ IsSong(c)
         /\ \A c : c \in Images <=> \E n \in DOMAIN job.cmds : c = job.cmds[n] /\ IsImage(c)
<1>1. \A n \in DOMAIN job.cmds : job.cmds[n] \in JobCmds
  BY DEF TypeInv, JobOK
<1>2. \A c : c \in Range(job.cmds) <=> \E n \in DOMAIN job.cmds : c = job.cmds[n]
  BY DEF Range
<1>3. \A c \in JobCmds : c.op = "import" =>
        /\ IsSong(c) <=> c.file.is = "music" /\ c.tagged /\ c.file.mime # "audio/mp4"
        /\ IsImage(c) <=> c.file.is = "image"
  BY ToldApart
<1>4. \A c : IsSong(c) \/ IsImage(c) => c.op = "import"
  BY KindsOfFile
<1>5. \A c : c \in Tracks <=> /\ c \in Range(job.cmds) /\ c.op = "import" /\ c.file.is = "music"
                              /\ c.tagged /\ c.file.mime # "audio/mp4"
  BY DEF Tracks, Imported
<1>6. \A c : c \in Images <=> c \in Range(job.cmds) /\ c.op = "import" /\ c.file.is = "image"
  BY DEF Images, Imported
<1>7. ASSUME NEW c
      PROVE  c \in Tracks <=> \E n \in DOMAIN job.cmds : c = job.cmds[n] /\ IsSong(c)
  BY <1>1, <1>2, <1>3, <1>4, <1>5
<1>8. ASSUME NEW c
      PROVE  c \in Images <=> \E n \in DOMAIN job.cmds : c = job.cmds[n] /\ IsImage(c)
  BY <1>1, <1>2, <1>3, <1>4, <1>6
<1> QED
  BY <1>7, <1>8

(* What is at work when a command has been taken.                          *)
LEMMA TakenFacts ==
  ASSUME TypeInv, TakeCommand, ~aborted, Len(queue) # 1, NEW c, c = Head(queue)
  PROVE  /\ \/ work'.at = "idle" /\ FirstStep(c) = "idle"
            \/ /\ work'.at # "idle" /\ work'.cmd = c /\ work'.at \notin {"relist", "create", "pause", "data", "add"}
               /\ c.op = "import" => IsSong(c)
         /\ c.op \in {"send", "mkdir"} => dirs' = Mapped(c.path)
         /\ c.op \notin {"send", "mkdir"} => dirs' = dirs
         /\ IsImage(c) => covers' = Scored(c)
         /\ ~IsImage(c) => covers' = covers
         /\ FirstStep(c) = "idle" =>
              /\ c.op # "get" /\ ~IsSong(c)
              /\ c.op \in {"send", "mkdir"} => Front(c.path) \notin DOMAIN Mapped(c.path)
<1>1. /\ work' = IF FirstStep(c) = "idle" THEN Idle
                 ELSE [at |-> FirstStep(c), cmd |-> c, id |-> 0, between |-> FALSE, reset |-> FALSE]
      /\ dirs' = IF c.op \in {"send", "mkdir"} /\ ~aborted THEN Mapped(c.path) ELSE dirs
      /\ covers' = IF IsImage(c) /\ ~aborted THEN Scored(c) ELSE covers
      /\ queue # <<>>
  BY DEF TakeCommand
<1>2. c.op \in {"import", "get", "send", "mkdir"}
  BY <1>1, HeadFacts
<1>3. FirstStep(c) = "idle" => /\ c.op # "get" /\ ~IsSong(c)
                               /\ c.op \in {"send", "mkdir"} => Front(c.path) \notin DOMAIN Mapped(c.path)
  BY <1>2, KindsOfFile DEF FirstStep
<1>4. FirstStep(c) # "idle" => /\ FirstStep(c) \notin {"relist", "create", "pause", "data", "add"}
                               /\ c.op = "import" => IsSong(c)
  BY <1>2 DEF FirstStep
<1>5. FirstStep(c) = "idle" => work'.at = "idle"
  BY <1>1 DEF Idle
<1>6. FirstStep(c) # "idle" => work'.at = FirstStep(c) /\ work'.cmd = c
  BY <1>1
<1> QED
  BY <1>1, <1>3, <1>4, <1>5, <1>6

LEMMA TakeFinishComplete ==
  ASSUME Inv5, FilesToldApart, TakeCommand, Len(queue) = 1, Calm
  PROVE  CalmInv'
<1>0. TypeInv /\ FlowInv /\ Busy /\ ServedOK /\ MidwayOK /\ SourcesOK
  BY DEF Inv5, Inv1, Calm, CalmInv
<1>1. /\ queue # <<>> /\ queue' = Tail(queue) /\ work.at = "idle"
      /\ UNCHANGED <<job, albums, done, sent, refused, listed, gui>>
  BY DEF TakeCommand, Idle, window, flags, past, library
<1>2. Head(queue).op = "finish" /\ Tail(queue) = <<>>
  BY <1>0, <1>1, HeadFacts
<1>3. UNCHANGED <<dirs, covers>> /\ work'.at = "finish" /\ work'.cmd.op = "finish"
  <2>1. ~IsImage(Head(queue)) /\ FirstStep(Head(queue)) = "finish"
    BY <1>2 DEF IsImage, FirstStep
  <2> QED
    BY <1>2, <2>1 DEF TakeCommand
<1>4. /\ Taken' = Taken + 1 /\ Taken \in Nat /\ Taken = Len(job.cmds) /\ Len(job.cmds) \in Nat
      /\ DOMAIN job.cmds = 1..Len(job.cmds) /\ job.cmds \in Seq(JobCmds)
  BY <1>0, <1>1, JobFacts, TakenNext DEF Taken
<1>5. \A n \in DOMAIN job.cmds : Handled(n)
  BY <1>1, <1>4 DEF Handled
<1>6. SourcesOK'
  BY <1>0, <1>1, <1>3 DEF SourcesOK
<1>7. CoverScores /\ CoverScores'
  BY <1>0, <1>3, SourcesScored DEF CoverScores
<1>8. Grown
  <2>1. \A e \in DOMAIN covers : covers[e].score <= covers'[e].score
    BY <1>3, <1>7 DEF CoverScores
  <2> QED
    BY <1>1, <1>2, <1>3, <2>1 DEF Grown
<1>9. ServedOK'
  <2> SUFFICES ASSUME NEW n \in DOMAIN job.cmds
               PROVE  Served(job.cmds[n])'
    BY <1>1 DEF ServedOK
  <2>1. PICK b : b = job.cmds[n]
    OBVIOUS
  <2>2. Served(b)'
    BY <1>0, <1>5, <1>7, <1>8, <2>1, StillServed DEF ServedOK
  <2> QED
    BY <1>1, <2>1, <2>2 DEF Served
<1>10. MidwayOK'
  <2>1. job.cmds # <<>> => Taken >= 1
    BY <1>4, EmptySeq
  <2>2. Uploading' /\ ~done' /\ Taken' >= 1 /\ job'.cmds # <<>> => Base' \in DOMAIN dirs'
    BY <1>0, <1>1, <1>3, <2>1, FoldersSame DEF MidwayOK, Uploading, Busy
  <2>3. Taken' # 0
    BY <1>4
  <2> QED
    BY <1>3, <2>2, <2>3 DEF MidwayOK
<1>11. ArtOK'
  <2>1. \A c \in Tracks : Front(c.path) \in DOMAIN albums
    <3> TAKE c \in Tracks
    <3>1. PICK n \in DOMAIN job.cmds : c = job.cmds[n] /\ IsSong(c)
      BY <1>0, TracksAre
    <3>2. Served(c)
      BY <1>0, <1>5, <3>1 DEF ServedOK
    <3> QED
      BY <1>1, <3>1, <3>2 DEF Served
  <2>2. Tracks' = Tracks
    BY <1>1 DEF Tracks, Imported
  <2>3. work'.at # "cover"
    BY <1>3
  <2> QED
    BY <1>1, <2>1, <2>2, <2>3 DEF ArtOK
<1> QED
  BY <1>6, <1>9, <1>10, <1>11 DEF CalmInv

LEMMA TakeCommandComplete ==
  ASSUME Inv5, ListedInOrder, FilesToldApart, TakeCommand
  PROVE  CalmInv'
<1> SUFFICES ASSUME Calm' PROVE CalmInv'
  BY DEF CalmInv
<1>1. /\ Alive /\ queue # <<>> /\ queue' = Tail(queue) /\ work = Idle /\ work.at = "idle"
      /\ UNCHANGED <<job, albums, done, sent, refused, listed, gui, pressed, faults>>
  BY DEF TakeCommand, Idle, window, flags, past, library
<1>2. Calm /\ ServedOK /\ MidwayOK /\ SourcesOK /\ ~aborted /\ Busy
  <2>1. faults \in Nat => faults' >= faults
    BY <1>1
  <2> QED
    BY <1>1, <2>1, CalmStep
<1>3. CASE Len(queue) = 1
  BY <1>2, <1>3, TakeFinishComplete
<1>4. CASE Len(queue) # 1
  <2>0. TypeInv /\ FlowInv /\ ~done
    BY <1>1, <1>2 DEF Inv5, Inv1, TypeInv, QuietOK
  <2>1. PICK c : c = Head(queue)
    OBVIOUS
  <2>2. /\ Taken' = Taken + 1 /\ Taken + 1 \in DOMAIN job.cmds /\ c = job.cmds[Taken + 1]
        /\ Taken \in Nat /\ DOMAIN job.cmds = 1..Len(job.cmds)
    BY <1>1, <1>2, <1>4, <2>0, <2>1, TakenNext, JobFacts
  <2>3. c \in JobCmds /\ c.op \in Commands(job.kind) /\ c.path \in Paths /\ queue' # <<>>
    BY <1>1, <1>4, <2>0, <2>1, HeadFacts
  <2>4. /\ \/ work'.at = "idle" /\ FirstStep(c) = "idle"
           \/ /\ work'.at # "idle" /\ work'.cmd = c
              /\ work'.at \notin {"relist", "create", "pause", "data", "add"}
              /\ c.op = "import" => IsSong(c)
        /\ c.op \in {"send", "mkdir"} => dirs' = Mapped(c.path)
        /\ c.op \notin {"send", "mkdir"} => dirs' = dirs
        /\ IsImage(c) => covers' = Scored(c)
        /\ ~IsImage(c) => covers' = covers
        /\ FirstStep(c) = "idle" =>
             /\ c.op # "get" /\ ~IsSong(c)
             /\ c.op \in {"send", "mkdir"} => Front(c.path) \notin DOMAIN Mapped(c.path)
    BY <1>2, <1>4, <2>0, <2>1, TakenFacts
  <2>5. Uploading <=> c.op \in {"send", "mkdir"}
    <3>1. job.kind \in Kinds
      BY <1>2, <2>0 DEF TypeInv, JobOK, QuietOK
    <3> QED
      BY <1>2, <2>3, <3>1, CommandsFacts DEF Uploading, Kinds
  <2>6. Uploading => /\ Base \in DOMAIN Mapped(c.path)
                     /\ Front(c.path) \in DOMAIN Mapped(c.path) \/ Front(c.path) \notin Folders
                     /\ DOMAIN dirs \subseteq DOMAIN Mapped(c.path)
    BY <1>1, <1>2, <2>0, <2>2, FolderKnown
  <2>7. SourcesOK'
    <3>1. ASSUME NEW e \in DOMAIN covers'
          PROVE  \E n \in DOMAIN job.cmds : /\ IsImage(job.cmds[n]) /\ Front(job.cmds[n].path) = e
                                            /\ covers'[e] = [path |-> job.cmds[n].path, score |-> Score(job.cmds[n])]
      <4>1. CASE e \in DOMAIN covers /\ covers'[e] = covers[e]
        BY <1>2, <4>1 DEF SourcesOK
      <4>2. CASE IsImage(c) /\ e = Front(c.path) /\ covers'[e] = [path |-> c.path, score |-> Score(c)]
        BY <2>2, <4>2
      <4> QED
        BY <1>2, <2>4, <4>1, <4>2, ScoredFacts
    <3>2. \A d \in DOMAIN albums' : \E n \in DOMAIN job.cmds :
             IsSong(job.cmds[n]) /\ Front(job.cmds[n].path) = d /\ albums'[d] = job.cmds[n].album
      BY <1>1, <1>2 DEF SourcesOK
    <3> QED
      BY <1>1, <3>1, <3>2 DEF SourcesOK
  <2>8. CoverScores
    BY <1>2, SourcesScored
  <2>9. CoverScores'
    <3>1. ASSUME NEW e \in DOMAIN covers'
          PROVE  covers'[e].score \in Nat
      <4>1. Score(c) \in Nat
        BY ScoreFacts DEF Score
      <4>2. CASE ~IsImage(c)
        BY <2>4, <2>8, <4>2 DEF CoverScores
      <4>3. CASE IsImage(c)
        <5>1. covers'[e] = [path |-> c.path, score |-> Score(c)] => covers'[e].score = Score(c)
          OBVIOUS
        <5> QED
          BY <1>2, <2>4, <2>8, <4>1, <4>3, <5>1, ScoredFacts DEF CoverScores
      <4> QED
        BY <4>2, <4>3
    <3> QED
      BY <3>1 DEF CoverScores
  <2>10. DOMAIN dirs \subseteq DOMAIN dirs'
    BY <2>4, <2>5, <2>6
  <2>11. Grown
    <3>1. \A e \in DOMAIN covers : e \in DOMAIN covers' /\ covers[e].score <= covers'[e].score
      <4>1. CASE IsImage(c)
        BY <1>2, <2>4, <4>1, ScoredFacts
      <4>2. CASE ~IsImage(c)
        BY <2>4, <2>8, <4>2 DEF CoverScores
      <4> QED
        BY <4>1, <4>2
    <3> QED
      BY <1>1, <2>3, <2>10, <3>1 DEF Grown
  <2>12. work'.at = "idle" => Served(c)'
    <3>1. ASSUME work'.at = "idle" PROVE FirstStep(c) = "idle" /\ c.op # "get" /\ ~IsSong(c)
      BY <2>4, <3>1
    <3>2. IsImage(c) => Front(c.path) \in DOMAIN covers' /\ Score(c) <= covers'[Front(c.path)].score
      BY <1>2, <2>4, ScoredFacts
    <3>3. Folders' = Folders
      BY <1>1, FoldersSame
    <3>4. work'.at = "idle" /\ c.op = "send" => Front(c.path) \notin Folders
      BY <2>4, <2>5, <2>6, <3>1
    <3>5. ASSUME work'.at = "idle", c.op = "mkdir", c.path \in Folders
          PROVE  c.path \in DOMAIN dirs'
      <4>1. Front(c.path) \notin Folders /\ Base \in DOMAIN dirs'
        BY <2>4, <2>5, <2>6, <3>1, <3>5
      <4>2. Base \in Seq(NameSet)
        <5>1. 1 \in DOMAIN job.cmds
          BY <2>2
        <5>2. job.cmds[1].path \in Paths
          BY <1>2, <2>0, <5>1, JobFacts
        <5> QED
          BY <5>2, PathFacts DEF Base
      <4> QED
        BY <2>3, <3>5, <4>1, <4>2, FolderAbove
    <3> QED
      BY <3>1, <3>2, <3>3, <3>4, <3>5 DEF Served
  <2>13. ServedOK'
    <3> SUFFICES ASSUME NEW n \in DOMAIN job.cmds, Handled(n)'
                 PROVE  Served(job.cmds[n])'
      BY <1>1 DEF ServedOK
    <3>1. PICK b : b = job.cmds[n]
      OBVIOUS
    <3>2. n <= Taken + 1 /\ (n = Taken + 1 => work'.at = "idle")
      BY <2>2 DEF Handled
    <3>3. Served(b)'
      <4>1. CASE n = Taken + 1
        BY <2>2, <2>12, <3>1, <3>2, <4>1
      <4>2. CASE n # Taken + 1
        <5>1. n <= Taken
          BY <2>2, <3>2, <4>2
        <5>2. Served(b)
          BY <1>1, <1>2, <3>1, <5>1 DEF ServedOK, Handled
        <5> QED
          BY <2>8, <2>9, <2>11, <5>2, StillServed
      <4> QED
        BY <4>1, <4>2
    <3> QED
      BY <1>1, <3>1, <3>3 DEF Served
  <2>14. MidwayOK'
    <3>1. Taken' # 0
      BY <2>2
    <3>2. Uploading' => Base' \in DOMAIN dirs'
      BY <1>1, <2>4, <2>5, <2>6, FoldersSame DEF Uploading, Busy
    <3>3. work'.at # "idle" /\ work'.cmd.op = "import" => IsSong(work'.cmd)
      BY <2>4
    <3> QED
      BY <2>4, <3>1, <3>2, <3>3 DEF MidwayOK
  <2>15. ArtOK'
    BY <2>3 DEF ArtOK
  <2> QED
    BY <2>7, <2>13, <2>14, <2>15 DEF CalmInv
<1> QED
  BY <1>3, <1>4

(* The end of a job: what was done stays done.                             *)
LEMMA EndServed ==
  ASSUME Inv5, Calm, Busy', work.at \in OfFinish, UNCHANGED <<job, queue, sent, refused, listed>>,
         \/ /\ done' = done /\ UNCHANGED <<dirs, covers>>
            /\ work'.at \in OfFinish /\ work'.cmd.op = "finish"
            /\ \A d \in DOMAIN albums' : d \in DOMAIN albums /\ albums'[d] = albums[d]
         \/ done' /\ covers' = <<>> /\ albums' = <<>> /\ work'.at = "idle"
  PROVE  ServedOK' /\ MidwayOK' /\ SourcesOK'
<1>0. TypeInv /\ FlowInv /\ Busy /\ ServedOK /\ MidwayOK /\ SourcesOK
  BY DEF Inv5, Inv1, Calm, CalmInv
<1>1. ~done /\ queue = <<>>
  <2>1. work # Idle
    BY DEF OfFinish, Idle
  <2> QED
    BY <1>0, <2>1 DEF TypeInv, QuietOK
<1>2. /\ Taken = Len(job.cmds) + 1 /\ Len(job.cmds) \in Nat /\ DOMAIN job.cmds = 1..Len(job.cmds)
      /\ Taken' = Taken
  BY <1>0, <1>1, JobFacts DEF Taken
<1>3. DOMAIN <<>> = {}
  OBVIOUS
<1>4. SourcesOK'
  BY <1>0, <1>3 DEF SourcesOK
<1>5. CoverScores /\ CoverScores'
  BY <1>0, <1>3, SourcesScored DEF CoverScores
<1>6. Grown
  <2>1. \A e \in DOMAIN covers : covers[e].score <= covers[e].score
    BY <1>5 DEF CoverScores
  <2> QED
    BY <1>1, <2>1 DEF Grown
<1>7. ServedOK'
  <2> SUFFICES ASSUME NEW n \in DOMAIN job.cmds
               PROVE  Served(job.cmds[n])'
    BY DEF ServedOK
  <2>1. PICK b : b = job.cmds[n]
    OBVIOUS
  <2>2. Handled(n)
    BY <1>2 DEF Handled
  <2>3. Served(b)'
    BY <1>0, <1>5, <1>6, <2>1, <2>2, StillServed DEF ServedOK
  <2> QED
    BY <2>1, <2>3 DEF Served
<1>8. MidwayOK'
  <2>1. Taken' # 0
    BY <1>2
  <2>2. Uploading' /\ ~done' /\ Taken' >= 1 /\ job'.cmds # <<>> => Base' \in DOMAIN dirs'
    BY <1>0, <1>2, FoldersSame DEF MidwayOK, Uploading
  <2> QED
    BY <2>1, <2>2 DEF MidwayOK, OfFinish
<1> QED
  BY <1>4, <1>7, <1>8

LEMMA ArtSame ==
  ASSUME job' = job
  PROVE  /\ Tracks' = Tracks
         /\ \A c : Own(c)' = Own(c) /\ (Alone(c)' <=> Alone(c)) /\ \A p : Best(c, p)' <=> Best(c, p)
BY DEF Tracks, Images, Imported, Own, Alone, Best

LEMMA PrefixOfFront ==
  ASSUME NEW p \in Paths
  PROVE  StartsWith(p, Front(p))
<1>1. /\ p \in Seq(NameSet) /\ Len(p) \in Nat \ {0} /\ Front(p) \in Seq(NameSet) /\ Len(Front(p)) = Len(p) - 1
      /\ Front(p) = SubSeq(p, 1, Len(p) - 1)
  BY PathFacts DEF Front
<1>2. SubSeq(Front(p), 1, Len(Front(p))) = Front(p)
  <2> DEFINE f == Front(p)
  <2>1. f \in Seq(NameSet) /\ Len(f) \in Nat
    BY <1>1
  <2> HIDE DEF f
  <2>2. /\ SubSeq(f, 1, Len(f)) \in Seq(NameSet) /\ Len(SubSeq(f, 1, Len(f))) = Len(f)
        /\ \A n \in 1..Len(f) : SubSeq(f, 1, Len(f))[n] = f[n]
    BY <2>1
  <2>3. SubSeq(f, 1, Len(f)) = f
    BY <2>1, <2>2, SeqEqual
  <2> QED
    BY <2>3 DEF f
<1>3. IsPrefix(Front(p), p)
  BY <1>1, <1>2 DEF IsPrefix
<1> QED
  BY <1>3 DEF StartsWith

(* An album on its own in a folder with images has one of them as cover.   *)
LEMMA OwnCovered ==
  ASSUME FilesToldApart, TypeInv, FlowInv, Busy, queue = <<>>, ~done, ServedOK, SourcesOK,
         NEW c \in Tracks, Own(c) # {}, Alone(c), NEW d, d = Front(c.path)
  PROVE  CoversFor(d) = {d} /\ Best(c, covers[d].path)
<1>1. /\ Taken = Len(job.cmds) + 1 /\ Len(job.cmds) \in Nat /\ DOMAIN job.cmds = 1..Len(job.cmds)
      /\ \A n \in DOMAIN job.cmds : job.cmds[n].path \in Paths
  BY JobFacts
<1>2. \A n \in DOMAIN job.cmds : Served(job.cmds[n])
  BY <1>1 DEF ServedOK, Handled
<1>3. ASSUME NEW i \in Own(c)
      PROVE  d \in DOMAIN covers /\ Score(i) <= covers[d].score
  <2>1. PICK n \in DOMAIN job.cmds : i = job.cmds[n] /\ IsImage(i)
    BY <1>3, TracksAre DEF Own
  <2>2. Front(i.path) = d /\ Served(i)
    BY <1>2, <2>1 DEF Own
  <2> QED
    BY <2>1, <2>2 DEF Served
<1>4. d \in DOMAIN covers
  BY <1>3
<1>5. PICK n \in DOMAIN job.cmds : /\ IsImage(job.cmds[n]) /\ Front(job.cmds[n].path) = d
                                   /\ covers[d] = [path |-> job.cmds[n].path, score |-> Score(job.cmds[n])]
  BY <1>4 DEF SourcesOK
<1>6. PICK m : m = job.cmds[n]
  OBVIOUS
<1>7. covers[d].path = m.path /\ covers[d].score = Score(m)
  BY <1>5, <1>6
<1>8. m \in Own(c)
  BY <1>5, <1>6, TracksAre DEF Own
<1>9. Best(c, covers[d].path)
  BY <1>3, <1>7, <1>8 DEF Best
<1> DEFINE fit == {e \in DOMAIN covers : StartsWith(covers[e].path, d)}
<1>10. d \in fit
  BY <1>1, <1>4, <1>5, <1>6, <1>7, PrefixOfFront
<1>11. Front(d) \notin fit
  <2> SUFFICES ASSUME Front(d) \in DOMAIN covers
               PROVE  ~StartsWith(covers[Front(d)].path, d)
    OBVIOUS
  <2>1. PICK k \in DOMAIN job.cmds :
           /\ IsImage(job.cmds[k]) /\ Front(job.cmds[k].path) = Front(d)
           /\ covers[Front(d)] = [path |-> job.cmds[k].path, score |-> Score(job.cmds[k])]
    BY DEF SourcesOK
  <2>2. PICK i : i = job.cmds[k]
    OBVIOUS
  <2>3. covers[Front(d)].path = i.path
    BY <2>1, <2>2
  <2>4. i \in Images
    BY <2>1, <2>2, TracksAre
  <2>5. ~StartsWith(i.path, d)
    BY <2>1, <2>2, <2>4 DEF Alone
  <2> QED
    BY <2>3, <2>5
<1>12. CoversFor(d) = {d}
  BY <1>10, <1>11 DEF CoversFor
<1> QED
  BY <1>9, <1>12

LEMMA FinishComplete ==
  ASSUME Inv5, Finish
  PROVE  CalmInv'
<1> SUFFICES ASSUME Calm' PROVE CalmInv'
  BY DEF CalmInv
<1>1. /\ Alive /\ work.at = "finish" /\ GoOn("covers") /\ (Succeeds \/ Fails)
      /\ UNCHANGED <<job, queue, maps, done, sent, refused, listed, art, pressed>>
  BY DEF Finish, SetParent, window, library, past
<1>2. Calm /\ ArtOK
  BY <1>1, CalmStep
<1>3. TypeInv /\ WorkOK
  BY DEF Inv5, Inv1, TypeInv
<1>4. work'.at = "covers" /\ work'.cmd.op = "finish"
  BY <1>1, <1>3, GoOnFacts, WorkFacts DEF OfFinish
<1>5. ServedOK' /\ MidwayOK' /\ SourcesOK'
  BY <1>1, <1>2, <1>4, EndServed DEF OfFinish, maps, Calm
<1>6. UNCHANGED <<queue, albums, art, job>>
  BY <1>1 DEF maps
<1>7. ArtOK'
  BY <1>1, <1>2, <1>4, <1>6, ArtSame DEF ArtOK
<1> QED
  BY <1>5, <1>7 DEF CalmInv

LEMMA SetCoverComplete ==
  ASSUME Inv5, SetCover
  PROVE  CalmInv'
<1> SUFFICES ASSUME Calm' PROVE CalmInv'
  BY DEF CalmInv
<1>1. /\ Alive /\ work.at = "cover" /\ GoOn("covers")
      /\ (Succeeds /\ art' = Put(art, work.cmd.album, path)) \/ Fails
      /\ UNCHANGED <<job, queue, maps, done, sent, refused, listed, pressed>>
  BY DEF SetCover, window, library, past
<1>2. Calm /\ ~Fails /\ ArtOK
  BY <1>1, CalmStep
<1>3. TypeInv /\ WorkOK
  BY DEF Inv5, Inv1, TypeInv
<1>4. work'.at = "covers" /\ work'.cmd.op = "finish"
  BY <1>1, <1>3, GoOnFacts, WorkFacts DEF OfFinish
<1>5. ServedOK' /\ MidwayOK' /\ SourcesOK'
  BY <1>1, <1>2, <1>4, EndServed DEF OfFinish, maps, Calm
<1>6. UNCHANGED <<queue, albums, job>>
  BY <1>1 DEF maps
<1>7. PICK al, p : al = work.cmd.album /\ p = path
  OBVIOUS
<1>8. art' = Put(art, al, p)
  BY <1>1, <1>2, <1>7
<1>9. DOMAIN art' = DOMAIN art \cup {al} /\ art'[al] = p /\ \A z \in DOMAIN art : z # al => art'[z] = art[z]
  BY <1>8 DEF Put
<1>10. ArtOK'
  <2> SUFFICES ASSUME queue = <<>>, NEW c \in Tracks, Own(c) # {}, Alone(c)
               PROVE  Front(c.path) \in DOMAIN albums \/ (c.album \in DOMAIN art' /\ Best(c, art'[c.album]))
    BY <1>4, <1>6, ArtSame DEF ArtOK
  <2>1. /\ al = c.album => Best(c, p)
        /\ \/ Front(c.path) \in DOMAIN albums \/ al = c.album
           \/ c.album \in DOMAIN art /\ Best(c, art[c.album])
    BY <1>1, <1>2, <1>7 DEF ArtOK
  <2> QED
    BY <1>9, <2>1
<1> QED
  BY <1>5, <1>10 DEF CalmInv

LEMMA FinishedComplete ==
  ASSUME Inv5, Finished
  PROVE  CalmInv'
<1> SUFFICES ASSUME Calm' PROVE CalmInv'
  BY DEF CalmInv
<1>1. /\ Alive /\ work.at = "covers" /\ work' = Idle /\ done' /\ covers' = <<>> /\ albums' = <<>>
      /\ aborted \/ albums = <<>>
      /\ UNCHANGED <<job, queue, sent, refused, listed, art, pressed, faults>>
  BY DEF Finished, FinishEnds, FinishStays, window, library, past
<1>2. Calm /\ ArtOK /\ ~aborted
  <2>1. faults \in Nat => faults' >= faults
    BY <1>1
  <2> QED
    BY <1>1, <2>1, CalmStep
<1>3. work'.at = "idle"
  BY <1>1 DEF Idle
<1>4. ServedOK' /\ MidwayOK' /\ SourcesOK'
  BY <1>1, <1>2, <1>3, EndServed DEF OfFinish, Calm
<1>5. ArtOK'
  <2>1. DOMAIN albums = {}
    BY <1>1, <1>2
  <2> QED
    BY <1>1, <1>2, <1>3, <2>1, ArtSame DEF ArtOK
<1> QED
  BY <1>4, <1>5 DEF CalmInv

LEMMA ChooseCoverComplete ==
  ASSUME Inv5, FilesToldApart, NEW d \in DOMAIN albums, ChooseCover(d)
  PROVE  CalmInv'
<1> SUFFICES ASSUME Calm' PROVE CalmInv'
  BY DEF CalmInv
<1>0. TypeInv /\ FlowInv /\ WorkOK
  BY DEF Inv5, Inv1, TypeInv
<1>1. /\ Alive /\ work.at = "covers" /\ albums' = Restrict(albums, DOMAIN albums \ {d})
      /\ UNCHANGED <<job, queue, dirs, covers, done, sent, refused, listed, art, pressed, faults>>
  BY DEF ChooseCover, window, library, flags, past
<1>2. Calm /\ ArtOK /\ ServedOK /\ SourcesOK /\ Busy /\ ~done /\ queue = <<>>
  <2>1. faults \in Nat => faults' >= faults
    <3>1. faults' = faults
      BY <1>1
    <3> QED
      BY <3>1
  <2> QED
    BY <1>1, <2>1, CalmStep DEF OfFinish
<1>3. /\ DOMAIN work = Parts /\ work.cmd.op = "finish"
  BY <1>0, <1>1, WorkFacts DEF OfFinish
<1>4. /\ DOMAIN albums' = DOMAIN albums \ {d}
      /\ \A e \in DOMAIN albums' : albums'[e] = albums[e]
  BY <1>1 DEF Restrict
<1>5. \/ CoversFor(d) = {} /\ work'.at = "covers" /\ work'.cmd.op = "finish"
      \/ \E e \in CoversFor(d) : /\ work'.at = "cover" /\ work'.cmd.op = "finish"
                                 /\ work'.cmd.path = covers[e].path /\ work'.cmd.album = albums[d]
  <2>1. CASE CoversFor(d) = {} /\ UNCHANGED work
    BY <1>1, <1>3, <2>1
  <2>2. ASSUME NEW e \in CoversFor(d),
               work' = [work EXCEPT !.at = "cover",
                            !.cmd = [op |-> "finish", id |-> @.id, path |-> covers[e].path, album |-> albums[d]]]
        PROVE  /\ work'.at = "cover" /\ work'.cmd.op = "finish"
               /\ work'.cmd.path = covers[e].path /\ work'.cmd.album = albums[d]
    BY <1>3, <2>2 DEF Parts
  <2> QED
    BY <2>1, <2>2 DEF ChooseCover
<1>6. ServedOK' /\ MidwayOK' /\ SourcesOK'
  BY <1>1, <1>2, <1>4, <1>5, EndServed DEF OfFinish, Calm
<1>7. PICK t \in Tracks : Front(t.path) = d /\ albums[d] = t.album
  <2>1. PICK n \in DOMAIN job.cmds : /\ IsSong(job.cmds[n]) /\ Front(job.cmds[n].path) = d
                                     /\ albums[d] = job.cmds[n].album
    BY <1>2 DEF SourcesOK
  <2>2. PICK t : t = job.cmds[n]
    OBVIOUS
  <2> QED
    BY <1>0, <2>1, <2>2, TracksAre
<1>8. ArtOK'
  <2> SUFFICES ASSUME NEW c \in Tracks, Own(c) # {}, Alone(c)
               PROVE  /\ work'.at = "cover" /\ work'.cmd.album = c.album => Best(c, work'.cmd.path)
                      /\ \/ Front(c.path) \in DOMAIN albums'
                         \/ work'.at = "cover" /\ work'.cmd.album = c.album
                         \/ c.album \in DOMAIN art /\ Best(c, art[c.album])
    BY <1>1, ArtSame DEF ArtOK, path
  <2>1. t.album = c.album <=> Front(t.path) = Front(c.path)
    BY DEF Alone
  <2>2. CASE Front(c.path) = d
    <3>1. CoversFor(d) = {d} /\ Best(c, covers[d].path)
      BY <1>0, <1>2, <2>2, OwnCovered
    <3>2. albums[d] = c.album
      BY <1>7, <2>1, <2>2
    <3> QED
      BY <1>5, <3>1, <3>2
  <2>3. CASE Front(c.path) # d
    <3>1. albums[d] # c.album
      BY <1>7, <2>1, <2>3
    <3>2. Front(c.path) \in DOMAIN albums \/ (c.album \in DOMAIN art /\ Best(c, art[c.album]))
      BY <1>1, <1>2 DEF ArtOK
    <3> QED
      BY <1>4, <1>5, <2>3, <3>1, <3>2
  <2> QED
    BY <2>2, <2>3
<1> QED
  BY <1>6, <1>8 DEF CalmInv

LEMMA WorkerComplete ==
  ASSUME Inv5, ListedInOrder, FilesToldApart, Worker
  PROVE  CalmInv'
BY GoingOnComplete, FindFileComplete, DeleteOldComplete, SendDataComplete, RelistComplete, LookUpFolderComplete,
   MakeFolderComplete, PrepareComplete, SendTrackComplete, AddTrackComplete, SetTimeComplete, TakeCommandComplete,
   FinishComplete, SetCoverComplete, FinishedComplete, ChooseCoverComplete DEF Worker

(* A job begins: nothing is done yet.                                      *)
LEMMA BeginComplete ==
  ASSUME Inv1, FlowInv, gui \in {"idle", "next"}, UNCHANGED <<work, maps>>, TypeInv', Taken' = 0, queue' # <<>>
  PROVE  CalmInv'
<1>1. /\ work'.at = "idle" /\ dirs' = <<>> /\ covers' = <<>> /\ albums' = <<>>
  BY AtRest DEF maps
<1>2. DOMAIN <<>> = {}
  OBVIOUS
<1>3. ServedOK'
  <2>1. job'.cmds \in Seq(JobCmds)
    BY DEF TypeInv, JobOK
  <2>2. \A n \in DOMAIN job'.cmds : n \in Nat /\ n >= 1
    BY <2>1
  <2>3. \A n \in DOMAIN job'.cmds : ~Handled(n)'
    BY <2>2 DEF Handled
  <2> QED
    BY <2>3 DEF ServedOK
<1>4. MidwayOK'
  <2>1. ~(Taken' >= 1)
    OBVIOUS
  <2> QED
    BY <1>1, <2>1 DEF MidwayOK
<1>5. SourcesOK'
  BY <1>1, <1>2 DEF SourcesOK
<1>6. ArtOK'
  BY DEF ArtOK
<1> QED
  BY <1>3, <1>4, <1>5, <1>6 DEF CalmInv

LEMMA RepaintComplete ==
  ASSUME Inv5, NEW k, Repaint(k)
  PROVE  CalmInv'
<1> SUFFICES ASSUME Calm' PROVE CalmInv'
  BY DEF CalmInv
<1>0. Inv1 /\ CalmInv
  BY DEF Inv5
<1>1. /\ gui = "dialog" /\ gui' = gui /\ work'.at = work.at /\ (work.at # "idle" => work'.cmd = work.cmd)
      /\ work.at \in {"idle", "pause"}
      /\ UNCHANGED <<job, queue, dirs, covers, albums, done, sent, refused, listed, art, pressed, faults>>
  BY <1>0, RepaintKeeps DEF window, maps, flags, library, past
<1>2. Calm /\ ServedOK /\ MidwayOK /\ SourcesOK /\ ArtOK
  BY <1>0, <1>1 DEF Calm, Busy, CalmInv
<1>3. Taken' = Taken /\ Folders' = Folders /\ Base' = Base
  BY <1>1, FoldersSame DEF Taken
<1>4. ServedOK'
  <2> SUFFICES ASSUME NEW n \in DOMAIN job.cmds, Handled(n)
               PROVE  Served(job.cmds[n])'
    BY <1>1, <1>3 DEF ServedOK, Handled
  <2>1. PICK b : b = job.cmds[n]
    OBVIOUS
  <2>2. Served(b)
    BY <1>2, <2>1 DEF ServedOK
  <2>3. Served(b)'
    BY <1>1, <1>3, <2>2 DEF Served
  <2> QED
    BY <1>1, <2>1, <2>3 DEF Served
<1>5. MidwayOK'
  BY <1>1, <1>2, <1>3 DEF MidwayOK, path, Uploading, Busy
<1>6. SourcesOK'
  BY <1>1, <1>2 DEF SourcesOK
<1>7. ArtOK'
  BY <1>1, <1>2, ArtSame DEF ArtOK
<1> QED
  BY <1>4, <1>5, <1>6, <1>7 DEF CalmInv

LEMMA AnswerComplete ==
  ASSUME Inv5, NEW yes, NEW forAll, Answer(yes, forAll)
  PROVE  CalmInv'
<1> SUFFICES ASSUME Calm' PROVE CalmInv'
  BY DEF CalmInv
<1>1. /\ gui = "ask" /\ work.at = "ask" /\ work.cmd.op = "send"
      /\ \/ work'.at = "delete" /\ work'.cmd = work.cmd /\ UNCHANGED refused
         \/ work'.at = "idle" /\ refused' = refused \cup {path}
      /\ UNCHANGED <<job, queue, maps, done, listed, sent, pressed, faults>>
  BY AnswerKeeps DEF Inv5, flags, library
<1>2. Calm
  BY <1>1 DEF Calm, Busy
<1>3. UNCHANGED <<covers, albums, dirs>>
  BY <1>1 DEF maps
<1>4. CASE work'.at = "delete" /\ work'.cmd = work.cmd /\ UNCHANGED refused
  BY <1>1, <1>2, <1>3, <1>4, OnCommand DEF OfFinish
<1>5. CASE work'.at = "idle" /\ refused' = refused \cup {path}
  BY <1>1, <1>2, <1>3, <1>5, Through DEF OfFinish, path
<1> QED
  BY <1>1, <1>4, <1>5

LEMMA StutterComplete ==
  ASSUME CalmInv, UNCHANGED vars
  PROVE  CalmInv'
<1>1. UNCHANGED <<gui, job, queue, work, dirs, covers, albums, done, pressed, sent, refused, listed, art, faults>>
  BY DEF vars, window, worker, maps, flags, library, past
<1>2. Folders' = Folders /\ Base' = Base
  BY <1>1, FoldersSame
<1>3. ServedOK' = ServedOK
  BY <1>1, <1>2 DEF ServedOK, Handled, Served, Taken
<1>4. MidwayOK' = MidwayOK
  BY <1>1, <1>2 DEF MidwayOK, path, Uploading, Busy, Taken
<1>5. SourcesOK' = SourcesOK
  BY <1>1 DEF SourcesOK
<1>6. ArtOK => ArtOK'
  BY <1>1, ArtSame DEF ArtOK, path
<1> QED
  BY <1>1, <1>3, <1>4, <1>5, <1>6 DEF CalmInv, Calm, Busy

LEMMA RestComplete ==
  ASSUME ~Busy' \/ pressed'
  PROVE  CalmInv'
BY DEF CalmInv, Calm

LEMMA CalmNext ==
  ASSUME ListedInOrder, FilesToldApart, Inv5, [Next]_vars, TypeInv'
  PROVE  CalmInv'
<1>0. Inv1 /\ FlowInv /\ CalmInv
  BY DEF Inv5
<1>1. CASE Worker
  BY <1>1, WorkerComplete
<1>2. CASE DialogCloses
  <2>1. ~Busy'
    BY <1>2 DEF DialogCloses, Busy
  <2> QED
    BY <2>1, RestComplete
<1>3. ASSUME gui \in {"idle", "next"}, NEW js, Selection(js), Head(js).kind = "album", UploadAlbum(js)
      PROVE  CalmInv'
  <2>1. FlowInv' /\ (gui' = "stuck" \/ (Taken' = 0 /\ queue' # <<>>))
    BY <1>0, <1>3, UploadAlbumFlow
  <2>2. CASE gui' = "stuck"
    BY <2>2, RestComplete DEF Busy
  <2>3. UNCHANGED <<work, maps>>
    BY <1>3 DEF UploadAlbum
  <2> QED
    BY <1>0, <1>3, <2>1, <2>2, <2>3, BeginComplete
<1>4. ASSUME gui \in {"idle", "next"}, NEW js, Selection(js), NEW home, Begin(js, home),
             UNCHANGED <<work, maps, flags>>, Head(js).kind = "import" => attached'
      PROVE  CalmInv'
  <2>1. Taken' = 0 /\ queue' # <<>>
    BY <1>0, <1>4, BeginFlow
  <2> QED
    BY <1>0, <1>4, <2>1, BeginComplete
<1>5. CASE NextSelected
  <2> DEFINE js == job.rest
  <2>1. gui = "next" /\ IF Head(js).kind = "album" THEN UploadAlbum(js) ELSE ImportMusic(js)
    BY <1>5 DEF NextSelected
  <2>2. Selection(js)
    BY <1>0, <2>1, RestIsSelection DEF Inv1
  <2> HIDE DEF js
  <2>3. CASE ImportMusic(js)
    <3>1. Begin(js, Root) /\ UNCHANGED <<work, maps, flags, attached>>
      BY <2>3 DEF ImportMusic
    <3> QED
      BY <1>0, <1>4, <2>1, <2>2, <3>1, AtRest
  <2> QED
    BY <1>3, <2>1, <2>2, <2>3
<1>6. ASSUME NEW yes \in BOOLEAN, NEW forAll \in BOOLEAN, Answer(yes, forAll)
      PROVE  CalmInv'
  BY <1>6, AnswerComplete
<1>7. ASSUME NEW k, Repaint(k)
      PROVE  CalmInv'
  BY <1>7, RepaintComplete
<1>8. ASSUME NEW k, Enter(k) \/ Back \/ DeleteSelected(k)
      PROVE  CalmInv'
  <2>1. gui' = "idle"
    BY <1>8 DEF Enter, Back, DeleteSelected, Selected, Turn
  <2> QED
    BY <2>1, RestComplete DEF Busy
<1>9. ASSUME NEW name, NEW k, CreateFolder(name) \/ RenameSelected(k, name)
      PROVE  CalmInv'
  <2>1. gui' = "idle"
    BY <1>9 DEF CreateFolder, RenameSelected, Selected, Turn
  <2> QED
    BY <2>1, RestComplete DEF Busy
<1>10. CASE AbortPressed
  BY <1>10, RestComplete DEF AbortPressed
<1>11. ASSUME NEW js \in Jobs, StartUpload(js) \/ StartDownload(js) \/ StartImport(js)
       PROVE  CalmInv'
  <2>1. /\ gui = "idle" /\ UNCHANGED <<work, maps, flags>>
        /\ \E home : Begin(js, home)
        /\ Head(js).kind = "upload" \/ attached' = attached
    BY <1>11 DEF StartUpload, StartDownload, StartImport, Turn, ImportMusic, Upload
  <2>2. attached
    BY <1>0, <2>1, AtRest
  <2> QED
    BY <1>4, <2>1, <2>2, JobsAreSelections
<1>12. ASSUME NEW js \in Jobs, StartAlbum(js)
       PROVE  CalmInv'
  <2>1. gui = "idle" /\ UploadAlbum(js) /\ Head(js).kind = "album"
    BY <1>12 DEF StartAlbum, Turn
  <2> QED
    BY <1>3, <2>1, JobsAreSelections
<1>13. CASE UNCHANGED vars
  BY <1>0, <1>13, StutterComplete
<1>14. Next => \/ Worker \/ DialogCloses \/ NextSelected \/ AbortPressed \/ UNCHANGED vars
               \/ \E yes, forAll \in BOOLEAN : Answer(yes, forAll)
               \/ \E k : Repaint(k)
               \/ \E k : Enter(k) \/ Back \/ DeleteSelected(k)
               \/ \E name, k : CreateFolder(name) \/ RenameSelected(k, name)
               \/ \E js \in Jobs : StartUpload(js) \/ StartDownload(js) \/ StartImport(js)
               \/ \E js \in Jobs : StartAlbum(js)
  BY DEF Next, Replies, Rest
<1> QED
  BY <1>1, <1>2, <1>5, <1>6, <1>7, <1>8, <1>9, <1>10, <1>11, <1>12, <1>13, <1>14

LEMMA Inv5Next ==
  ASSUME ListedInOrder, FilesToldApart, Inv5, [Next]_vars
  PROVE  Inv5'
<1>1. Inv1' /\ FlowInv'
  BY Inv1Next, FlowNext DEF Inv5
<1>2. TypeInv'
  BY <1>1 DEF Inv1
<1> QED
  BY <1>1, <1>2, CalmNext DEF Inv5

LEMMA Inv5Init ==
  ASSUME Init
  PROVE  Inv5
<1>1. gui = "idle" /\ work.at = "idle" /\ attached /\ ~aborted /\ ~cancelled /\ covers = <<>> /\ albums = <<>>
  BY DEF Init, Idle
<1>2. Inv1
  BY <1>1, InitType DEF Inv1, AlbumOK, ViewInv, Uploading, Busy
<1> QED
  BY <1>1, <1>2 DEF Inv5, FlowInv, CalmInv, Calm, Busy

(* What a job in which nothing fails is for and what became of it, command *)
(* by command, the invariant behind the next theorem (commandqueue.cpp).   *)
THEOREM JobsHold == ASSUME ListedInOrder, FilesToldApart PROVE Spec => []Inv5
<1>1. Init => Inv5
  BY Inv5Init
<1>2. Inv5 /\ [Next]_vars => Inv5'
  BY Inv5Next
<1> QED
  BY <1>1, <1>2, PTL DEF Spec

(* At the end every command of such a job has been served.                 *)
LEMMA AllServed ==
  ASSUME Inv5, done, ~pressed, faults = 0
  PROVE  /\ TypeInv /\ FlowInv /\ Busy /\ ServedOK /\ ArtOK /\ queue = <<>> /\ work.at = "idle" /\ albums = <<>>
         /\ \A n \in DOMAIN job.cmds : Served(job.cmds[n]) /\ job.cmds[n].op \in Commands(job.kind)
<1>1. TypeInv /\ FlowInv
  BY DEF Inv5, Inv1
<1>2. Busy /\ queue = <<>> /\ work = Idle
  BY <1>1 DEF TypeInv, QuietOK
<1>3. work.at = "idle" /\ albums = <<>>
  BY <1>1, <1>2 DEF Idle, FlowInv
<1>4. ServedOK /\ ArtOK
  BY <1>2 DEF Inv5, CalmInv, Calm
<1>5. \A n \in DOMAIN job.cmds : n <= Taken /\ job.cmds[n].op \in Commands(job.kind)
  BY <1>1, <1>2, JobFacts
<1>6. \A n \in DOMAIN job.cmds : Served(job.cmds[n])
  BY <1>3, <1>4, <1>5 DEF ServedOK, Handled
<1> QED
  BY <1>1, <1>2, <1>3, <1>4, <1>5, <1>6

LEMMA NothingForgottenHolds ==
  ASSUME Inv5, FilesToldApart
  PROVE  NothingForgotten
<1> SUFFICES ASSUME done, ~pressed, faults = 0,
                    NEW c \in {d \in Range(job.cmds) : d.op \in {"send", "get"}} \cup Tracks
             PROVE  \/ c.path \in DOMAIN sent \cup refused
                    \/ c.op = "send" /\ Front(c.path) \notin Folders
                    \/ c.op = "import" /\ attached /\ c.path \in listed
  BY DEF NothingForgotten
<1>1. /\ TypeInv /\ FlowInv /\ Busy
      /\ \A n \in DOMAIN job.cmds : Served(job.cmds[n]) /\ job.cmds[n].op \in Commands(job.kind)
  BY AllServed
<1>2. CASE c \in Range(job.cmds) /\ c.op \in {"send", "get"}
  <2>1. PICK n \in DOMAIN job.cmds : c = job.cmds[n]
    BY <1>2 DEF Range
  <2>2. Served(c)
    BY <1>1, <2>1
  <2> QED
    BY <1>2, <2>2 DEF Served
<1>3. CASE c \in Tracks
  <2>1. PICK n \in DOMAIN job.cmds : c = job.cmds[n] /\ IsSong(c)
    BY <1>1, <1>3, TracksAre
  <2>2. Served(c) /\ c.op \in Commands(job.kind)
    BY <1>1, <2>1
  <2>3. c.op = "import"
    BY <2>1, KindsOfFile
  <2>4. job.kind = "import"
    BY <2>2, <2>3 DEF Commands
  <2>5. attached
    BY <1>1, <2>4 DEF FlowInv
  <2> QED
    BY <2>1, <2>2, <2>3, <2>5 DEF Served
<1> QED
  BY <1>2, <1>3

LEMMA CoversRightHolds ==
  ASSUME Inv5
  PROVE  CoversRight
<1> SUFFICES ASSUME done, ~pressed, faults = 0, NEW c \in Tracks, Own(c) # {}, Alone(c)
             PROVE  c.album \in DOMAIN art /\ Best(c, art[c.album])
  BY DEF CoversRight, Own, Alone, Best, Score
<1>1. ArtOK /\ queue = <<>> /\ work.at = "idle" /\ albums = <<>>
  BY AllServed
<1>2. DOMAIN albums = {}
  BY <1>1
<1> QED
  BY <1>1, <1>2 DEF ArtOK

(* A job that nobody aborts and in which nothing fails has done all it was *)
(* for: every file is sent, fetched or in its album, and an album has the  *)
(* best image of its folder as cover (commandqueue.cpp), if a folder comes *)
(* before what is in it (upload in fileuploader.cpp) and files are what    *)
(* their content or their name says.                                       *)
THEOREM JobsAlwaysComplete == ASSUME ListedInOrder, FilesToldApart PROVE Spec => []JobsComplete
<1>1. Inv5 => JobsComplete
  BY NothingForgottenHolds, CoversRightHolds DEF JobsComplete
<1>2. Spec => []Inv5
  BY JobsHold
<1> QED
  BY <1>1, <1>2, PTL
=============================================================================
