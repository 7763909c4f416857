-------------------------- MODULE FuseCacheProofs --------------------------
(***************************************************************************)
(* Proofs about FuseCache: what is cached of a directory no fault struck   *)
(* is what is there, a directory is removed only if it is empty, and a     *)
(* read returns what was written.                                          *)
(***************************************************************************)
EXTENDS FuseCache, FiniteSetTheorems, TLAPS

(* The device has no two objects of one name in a directory when it is     *)
(* mounted.  GetChildren would know only one of them.                      *)
NoNamesakes ==
  \A i, j \in DOMAIN Stored :
    Stored[i].parent = Stored[j].parent /\ Stored[i].name = Stored[j].name => i = j

----------------------------------------------------------------------------
(* The invariant *)

Kinds == {"idle", "lookup", "getattr", "open", "statfs", "readdir", "create", "mkdir",
          "unlink", "rename", "write", "truncate", "read", "release"}

Makes == {"create", "mkdir"}

(* The request has its parts, and is where its handler can be.             *)
OpOK ==
  /\ op \in [kind : Kinds, dir : 0..last, name : Names, to : Names, obj : 0..last,
             size : 0..MaxSize, retried : BOOLEAN,
             at : {"start", "filling", "sent", "made", "cached", "cleared"}]
  /\ op.kind = "idle" => op = Idle
  /\ op.at = "filling" => op.kind = "readdir" /\ op.dir \in DOMAIN files \cap DOMAIN dirCache
  /\ op.at = "sent" => op.kind = "create"
  /\ op.at \in {"made", "cached"} => op.kind \in Makes
  /\ op.at \in {"sent", "made", "cached"} => op.obj # Top
  /\ op.at = "cleared" => op.kind = "rename"
  /\ op.kind \in {"getattr", "write", "truncate", "read", "release", "open"} => op.obj # Top

TypeInv == TypeOK /\ OpOK

(* TypeOK in parts: the device, the caches, and the rest.                  *)
DevOK ==
  /\ last \in 0..MaxObjects
  /\ DOMAIN dev \subseteq 1..last
  /\ \A i \in DOMAIN dev : dev[i] \in [name : Names, parent : 0..last, dir : BOOLEAN,
                                      size : 0..MaxSize, rev : 0..MaxWrites]
  /\ draft \in PartialFns(DOMAIN dev, [size : 0..MaxSize, rev : 0..MaxWrites])

CachesOK ==
  /\ DOMAIN files \subseteq 0..last
  /\ \A d \in DOMAIN files : files[d] \in PartialFns(Names, 1..last)
  /\ attrs \in PartialFns(1..last, [dir : BOOLEAN, size : 0..MaxSize])
  /\ edits \subseteq 1..last
  /\ DOMAIN dirCache \subseteq DOMAIN files
  /\ \A d \in DOMAIN dirCache : dirCache[d] \in PartialFns(Names, 1..last)

RestOK ==
  /\ load \in Loads
  /\ DOMAIN known \subseteq 1..last
  /\ mounted \in BOOLEAN /\ faults \in 0..load.faults /\ doubted \subseteq 0..last
  /\ ~mounted => op = Idle /\ files = <<>> /\ edits = {}

(* Only directories have anything in them, and the attributes and the      *)
(* kernel know which objects are directories.                              *)
Tree ==
  \A i \in DOMAIN dev :
    dev[i].parent = Top \/ (dev[i].parent \in DOMAIN dev /\ dev[dev[i].parent].dir)

KindsTrue == \A i \in DOMAIN attrs \cap DOMAIN dev : attrs[i].dir = dev[i].dir

KnownTrue == \A i \in DOMAIN known \cap DOMAIN dev : known[i] = "dir" => dev[i].dir

(* An entry is for an object of the directory, if the object still exists, *)
(* and attributes come with the listing of the directory.                  *)
EntriesOwn ==
  \A d \in DOMAIN files : \A n \in DOMAIN files[d] :
    files[d][n] \in DOMAIN dev => dev[files[d][n]].parent = d

AttrsListed == \A i \in DOMAIN attrs \cap DOMAIN dev : dev[i].parent \in DOMAIN files

TreeInv == Tree /\ KindsTrue /\ KnownTrue /\ EntriesOwn /\ AttrsListed

NamesApart ==
  \A i, j \in DOMAIN dev :
    (dev[i].parent = dev[j].parent /\ dev[i].parent \notin doubted /\ dev[i].name = dev[j].name)
      => i = j

(* Mirror, in the middle of a request: the object being made is not in the *)
(* listing yet.                                                            *)
Pending == {i \in DOMAIN dev : op.kind \in Makes /\ op.at \in {"sent", "made"} /\ i = op.obj}

MirrorBut(P) ==
  \A d \in DOMAIN files \ doubted : Exists(d) =>
    /\ \A i \in Children(d) \ P :
         dev[i].name \in DOMAIN files[d] /\ files[d][dev[i].name] = i
    /\ \A n \in DOMAIN files[d] :
         files[d][n] \in DOMAIN dev /\ dev[files[d][n]].name = n

(* DirCacheCurrent, in the middle of a request: the directory being        *)
(* serialised, or changed, is behind.                                      *)
Behind == {d \in {op.dir} : op.at \in {"filling", "cleared"}}

DirCacheBut(D) ==
  \A d \in DOMAIN dirCache \ (doubted \cup D) : Exists(d) => dirCache[d] = files[d]

(* A creation: the name is free in a directory that is known well, there   *)
(* are handles left for it and its repetition, and only the repetition     *)
(* finds the directory not listed.                                         *)
NameFree ==
  op.kind \in Makes /\ op.at = "start" /\ op.dir \notin doubted =>
    \A i \in Children(op.dir) : dev[i].name # op.name

HandlesLeft ==
  op.kind \in Makes /\ op.at \in {"start", "sent", "made"} =>
    /\ op.at = "start" => last + 1 <= MaxObjects
    /\ ~op.retried /\ faults < load.faults =>
         last + (IF op.at = "start" THEN 2 ELSE 1) <= MaxObjects

MakesInDir ==
  op.kind \in Makes =>
    /\ op.dir \in DOMAIN dev => dev[op.dir].dir
    /\ ~op.retried => op.dir \in DOMAIN files
    /\ op.at \in {"sent", "made"} =>
         /\ op.obj \in DOMAIN dev \ DOMAIN attrs
         /\ dev[op.obj].parent = op.dir /\ dev[op.obj].name = op.name
    /\ op.at = "cached" /\ ~op.retried => op.obj \in DOMAIN attrs

NamesInv == NamesApart /\ MirrorBut(Pending) /\ NameFree

StepInv == DirCacheBut(Behind) /\ HandlesLeft /\ MakesInDir

(* An edit session that nobody has is of a file in doubt; the attributes   *)
(* of any other have the size that was written; a session never loses a    *)
(* write.                                                                  *)
EditsKnown == edits \cap DOMAIN dev \subseteq DOMAIN attrs

DraftsAccounted == DOMAIN draft \subseteq edits \cup doubted

DraftsAhead == \A i \in DOMAIN draft : dev[i].rev <= draft[i].rev

SizesTrue ==
  \A i \in DOMAIN attrs \cap DOMAIN dev : Trusted(i) => attrs[i].size = Content(i).size

WritesLeft ==
  op.kind = "write" /\ op.obj \in DOMAIN dev => Content(op.obj).rev < MaxWrites

SizeInv == EditsKnown /\ DraftsAccounted /\ DraftsAhead /\ SizesTrue /\ WritesLeft

CacheInv == TypeInv /\ TreeInv /\ (NoNamesakes => NamesInv) /\ StepInv /\ SizeInv

----------------------------------------------------------------------------
(* Functions with a part of a set as their domain *)

LEMMA EmptyFn == DOMAIN <<>> = {}
  OBVIOUS

LEMMA OverFn ==
  ASSUME NEW f, NEW g
  PROVE  /\ DOMAIN Over(f, g) = DOMAIN f \cup DOMAIN g
         /\ \A x \in DOMAIN f : Over(f, g)[x] = f[x]
         /\ \A x \in DOMAIN g \ DOMAIN f : Over(f, g)[x] = g[x]
  BY DEF Over

LEMMA PutFn ==
  ASSUME NEW f, NEW x, NEW y
  PROVE  /\ DOMAIN Put(f, x, y) = DOMAIN f \cup {x}
         /\ Put(f, x, y)[x] = y
         /\ \A z \in DOMAIN f \ {x} : Put(f, x, y)[z] = f[z]
  BY DEF Put, Over

LEMMA WithoutFn ==
  ASSUME NEW f, NEW S
  PROVE  /\ DOMAIN Without(f, S) = DOMAIN f \ S
         /\ \A x \in DOMAIN f \ S : Without(f, S)[x] = f[x]
  BY DEF Without, Restrict

LEMMA PartialFn ==
  ASSUME NEW D, NEW R, NEW f
  PROVE  f \in PartialFns(D, R) <=> DOMAIN f \subseteq D /\ f \in [DOMAIN f -> R]
  BY DEF PartialFns

LEMMA PartialEmpty ==
  ASSUME NEW D, NEW R
  PROVE  <<>> \in PartialFns(D, R)
  <1>1. <<>> \in [{} -> R]
    OBVIOUS
  <1> QED
    BY <1>1, EmptyFn, PartialFn

LEMMA PartialOver ==
  ASSUME NEW D, NEW R, NEW f \in PartialFns(D, R), NEW g \in PartialFns(D, R)
  PROVE  Over(f, g) \in PartialFns(D, R)
  <1>1. /\ DOMAIN f \subseteq D /\ f \in [DOMAIN f -> R]
        /\ DOMAIN g \subseteq D /\ g \in [DOMAIN g -> R]
    BY PartialFn
  <1>2. Over(f, g) \in [DOMAIN f \cup DOMAIN g -> R]
    BY <1>1 DEF Over
  <1>3. DOMAIN Over(f, g) = DOMAIN f \cup DOMAIN g
    BY OverFn
  <1> QED
    BY <1>1, <1>2, <1>3, PartialFn

LEMMA PartialPut ==
  ASSUME NEW D, NEW R, NEW f \in PartialFns(D, R), NEW x \in D, NEW y \in R
  PROVE  Put(f, x, y) \in PartialFns(D, R)
  <1>1. [z \in {x} |-> y] \in [{x} -> R] /\ DOMAIN [z \in {x} |-> y] = {x}
    OBVIOUS
  <1>2. [z \in {x} |-> y] \in PartialFns(D, R)
    BY <1>1, PartialFn
  <1> QED
    BY <1>2, PartialOver DEF Put

LEMMA PartialWithout ==
  ASSUME NEW D, NEW R, NEW S, NEW f \in PartialFns(D, R)
  PROVE  Without(f, S) \in PartialFns(D \ S, R)
  <1>1. DOMAIN f \subseteq D /\ f \in [DOMAIN f -> R]
    BY PartialFn
  <1>2. Without(f, S) \in [DOMAIN f \ S -> R]
    BY <1>1 DEF Without, Restrict
  <1>3. DOMAIN Without(f, S) = DOMAIN f \ S
    BY WithoutFn
  <1> QED
    BY <1>1, <1>2, <1>3, PartialFn

LEMMA PartialMono ==
  ASSUME NEW D, NEW E, NEW R, NEW T, D \subseteq E, R \subseteq T, NEW f \in PartialFns(D, R)
  PROVE  f \in PartialFns(E, T)
  <1>1. DOMAIN f \subseteq D /\ f \in [DOMAIN f -> R]
    BY PartialFn
  <1>2. f \in [DOMAIN f -> T]
    BY <1>1
  <1> QED
    BY <1>1, <1>2, PartialFn

LEMMA PartialExcept ==
  ASSUME NEW D, NEW R, NEW f \in PartialFns(D, R), NEW x, NEW y \in R
  PROVE  [f EXCEPT ![x] = y] \in PartialFns(D, R)
  <1>1. DOMAIN f \subseteq D /\ f \in [DOMAIN f -> R]
    BY PartialFn
  <1>2. [f EXCEPT ![x] = y] \in [DOMAIN f -> R] /\ DOMAIN [f EXCEPT ![x] = y] = DOMAIN f
    BY <1>1
  <1> QED
    BY <1>1, <1>2, PartialFn

----------------------------------------------------------------------------
(* Types *)

LEMMA TypeParts == TypeOK <=> DevOK /\ CachesOK /\ RestOK
  BY DEF TypeOK, DevOK, CachesOK, RestOK

LEMMA TypePartsNext == TypeOK' <=> DevOK' /\ CachesOK' /\ RestOK'
  BY DEF TypeOK, DevOK, CachesOK, RestOK

LEMMA NamesThere ==
  ASSUME load \in Loads
  PROVE  (CHOOSE n \in Names : TRUE) \in Names
  BY LoadsAssumption DEF Names

LEMMA CachesTyped ==
  ASSUME CachesOK
  PROVE  /\ DOMAIN attrs \subseteq 1..last
         /\ \A i \in DOMAIN attrs : attrs[i] \in [dir : BOOLEAN, size : 0..MaxSize]
         /\ \A d \in DOMAIN files : DOMAIN files[d] \subseteq Names
         /\ \A d \in DOMAIN files : \A n \in DOMAIN files[d] : files[d][n] \in 1..last
  <1>1. attrs \in PartialFns(1..last, [dir : BOOLEAN, size : 0..MaxSize])
    BY DEF CachesOK
  <1>2. DOMAIN attrs \subseteq 1..last /\ attrs \in [DOMAIN attrs -> [dir : BOOLEAN, size : 0..MaxSize]]
    BY <1>1, PartialFn
  <1>3. ASSUME NEW d \in DOMAIN files
        PROVE  DOMAIN files[d] \subseteq Names /\ files[d] \in [DOMAIN files[d] -> 1..last]
    <2>1. files[d] \in PartialFns(Names, 1..last)
      BY <1>3 DEF CachesOK
    <2> QED
      BY <2>1, PartialFn
  <1> QED
    BY <1>2, <1>3

(* Idle is a request like the others.                                      *)
LEMMA IdleOK ==
  ASSUME DevOK, load \in Loads, op = Idle
  PROVE  OpOK
  <1>1. 0 \in 0..MaxSize /\ 0 \in 0..last
    BY BoundsAssumption DEF DevOK
  <1> QED
    BY <1>1, NamesThere DEF OpOK, Idle, Kinds, Top, Makes

(* More handles do not make what is cached wrong.                          *)
LEMMA CachesGrow ==
  ASSUME CachesOK, UNCHANGED caches, last \in Nat, last' \in Nat, last <= last'
  PROVE  CachesOK'
  <1>1. 0..last \subseteq 0..last' /\ 1..last \subseteq 1..last'
    OBVIOUS
  <1>2. \A f : f \in PartialFns(Names, 1..last) => f \in PartialFns(Names, 1..last')
    BY <1>1, PartialMono
  <1>3. attrs \in PartialFns(1..last', [dir : BOOLEAN, size : 0..MaxSize])
    BY <1>1, PartialMono DEF CachesOK
  <1> QED
    BY <1>1, <1>2, <1>3 DEF CachesOK, caches

(* Caches that are emptied.                                                *)
LEMMA CachesForgotten ==
  ASSUME Forget
  PROVE  CachesOK'
  BY PartialEmpty, EmptyFn DEF Forget, CachesOK

----------------------------------------------------------------------------
(* What a call does to the device *)

(* A call on the device; S is what is in doubt should the answer be lost.  *)
(* Elsewhere nothing changes but what is below a deleted directory.        *)
DevStep(S) ==
  /\ DevOK'
  /\ last' = last \/ (last' = last + 1 /\ op.kind \in Makes /\ op.at = "start")
  /\ Tree'
  /\ \A i \in DOMAIN dev' : i \in 1..last =>
       /\ i \in DOMAIN dev
       /\ dev'[i].parent = dev[i].parent /\ dev'[i].dir = dev[i].dir
  /\ \A i \in DOMAIN dev' : dev'[i].parent \notin S =>
       i \in DOMAIN dev /\ dev'[i].name = dev[i].name
  /\ \A i \in DOMAIN dev :
       dev[i].parent \notin S /\ (dev[i].parent = Top \/ dev[i].parent \in DOMAIN dev')
         => i \in DOMAIN dev'
  /\ DraftsAhead'
  /\ DOMAIN draft' \ S \subseteq DOMAIN draft
  /\ \A i \in DOMAIN dev' : i \notin S /\ dev'[i].parent \notin S =>
       Content(i)'.size = Content(i).size
  /\ \A i \in DOMAIN dev' : op.kind = "write" /\ edits = {} /\ i = op.obj =>
       Content(i)'.rev = Content(i).rev

(* A call that changes nothing.                                            *)
LEMMA NoCall ==
  ASSUME CacheInv, UNCHANGED device, NEW S
  PROVE  DevStep(S)
  <1>1. DevOK'
    BY TypeParts DEF CacheInv, TypeInv, DevOK, device
  <1>2. Tree' /\ DraftsAhead'
    BY DEF CacheInv, TreeInv, SizeInv, Tree, DraftsAhead, device
  <1>3. \A i : Content(i)' = Content(i)
    BY DEF Content, device
  <1>4. dev' = dev /\ draft' = draft /\ last' = last
    BY DEF device
  <1>5. Tree
    BY DEF CacheInv, TreeInv
  <1>6. \A i \in DOMAIN dev : dev[i].parent = Top \/ dev[i].parent \in DOMAIN dev
    BY <1>5 DEF Tree
  <1> QED
    BY <1>1, <1>2, <1>3, <1>4, <1>6 DEF DevStep

(* The request ends with an exception, and what it may have left undone is *)
(* in doubt.                                                               *)
Ends(S) == /\ DevStep(S)
           /\ UNCHANGED load /\ faults' \in {faults, faults + 1} /\ faults' <= load.faults
           /\ doubted' \subseteq 0..last' /\ doubted \cup S \subseteq doubted'

(* S has what is behind, and the directory an object is being made in.     *)
Settles(S) == /\ op.kind # "idle"
              /\ \A d \in Behind : d \in S \/ ~Exists(d)
              /\ op.at \in {"sent", "made"} => op.dir \in S
              /\ op.at = "cached" => op.retried \/ op' = Idle

LEMMA ErrorRest ==
  ASSUME CacheInv, NEW S, Ends(S), Error, CachesOK', files' = files, edits' = edits
  PROVE  TypeInv'
  <1>1. DevOK /\ DevOK' /\ RestOK
    BY TypeParts DEF CacheInv, TypeInv, Ends, DevStep
  <1>2. last \in Nat /\ last' \in Nat /\ last <= last'
    BY <1>1 DEF DevOK, Ends, DevStep
  <1>3. 1..last \subseteq 1..last'
    BY <1>2
  <1>4. load \in Loads /\ load' = load /\ load.faults \in Nat
    BY <1>1, LoadsAssumption DEF RestOK, Ends
  <1>5. op' = Idle /\ known' = known /\ mounted' = mounted
    BY DEF Error, Done
  <1>6. RestOK'
    BY <1>1, <1>3, <1>4, <1>5 DEF RestOK, Ends
  <1>7. OpOK'
    <2>1. 0 \in 0..MaxSize /\ 0 \in 0..last'
      BY <1>2, BoundsAssumption
    <2> QED
      BY <2>1, <1>4, <1>5, NamesThere DEF OpOK, Idle, Kinds, Top, Makes
  <1> QED
    BY <1>1, <1>6, <1>7, TypePartsNext DEF TypeInv, Ends, DevStep

LEMMA ErrorTypes ==
  ASSUME CacheInv, NEW S, Ends(S), Error, UNCHANGED caches
  PROVE  TypeInv'
  <1>1. DevOK /\ DevOK' /\ CachesOK
    BY TypeParts DEF CacheInv, TypeInv, Ends, DevStep
  <1>2. last \in Nat /\ last' \in Nat /\ last <= last'
    BY <1>1 DEF DevOK, Ends, DevStep
  <1>3. CachesOK'
    BY <1>1, <1>2, CachesGrow
  <1> QED
    BY <1>3, ErrorRest DEF caches

LEMMA DiesTypes ==
  ASSUME CacheInv, NEW S, Ends(S), Dies
  PROVE  TypeInv'
  <1>1. DevOK /\ DevOK' /\ RestOK
    BY TypeParts DEF CacheInv, TypeInv, Ends, DevStep
  <1>2. last \in Nat /\ last' \in Nat /\ last <= last'
    BY <1>1 DEF DevOK, Ends, DevStep
  <1>3. load \in Loads /\ load' = load /\ load.faults \in Nat
    BY <1>1, LoadsAssumption DEF RestOK, Ends
  <1>4. op' = Idle /\ known' = <<>> /\ mounted' = FALSE /\ files' = <<>> /\ edits' = {}
    BY DEF Dies, Done, Forget
  <1>5. RestOK'
    <2>1. doubted' \subseteq 0..last' /\ faults' \in 0..load'.faults /\ DOMAIN known' = {}
      BY <1>1, <1>3, <1>4, EmptyFn DEF RestOK, Ends
    <2> QED
      BY <1>3, <1>4, <2>1 DEF RestOK
  <1>6. OpOK'
    <2>1. 0 \in 0..MaxSize /\ 0 \in 0..last'
      BY <1>2, BoundsAssumption
    <2> QED
      BY <2>1, <1>3, <1>4, NamesThere DEF OpOK, Idle, Kinds, Top, Makes
  <1>7. CachesOK'
    BY CachesForgotten DEF Dies
  <1> QED
    BY <1>1, <1>5, <1>6, <1>7, TypePartsNext DEF TypeInv

LEMMA ReconnectsTypes ==
  ASSUME CacheInv, NEW S, Ends(S), Reconnects, op.kind # "idle"
  PROVE  TypeInv'
  <1>1. DevOK /\ DevOK' /\ RestOK /\ OpOK
    BY TypeParts DEF CacheInv, TypeInv, Ends, DevStep
  <1>2. last \in Nat /\ last' \in Nat /\ last <= last'
    BY <1>1 DEF DevOK, Ends, DevStep
  <1>3. load \in Loads /\ load' = load /\ load.faults \in Nat
    BY <1>1, LoadsAssumption DEF RestOK, Ends
  <1>4. op' = [op EXCEPT !.at = "start", !.retried = TRUE]
    BY DEF Reconnects
  <1>5. known' = known /\ mounted' = mounted /\ files' = <<>> /\ edits' = {}
    BY DEF Reconnects, Forget
  <1>6. mounted
    BY <1>1 DEF RestOK, Idle
  <1>7. RestOK'
    <2>1. 1..last \subseteq 1..last'
      BY <1>2
    <2> QED
      BY <2>1, <1>1, <1>3, <1>5, <1>6 DEF RestOK, Ends
  <1>8. OpOK'
    <2>1. 0..last \subseteq 0..last'
      BY <1>2
    <2>2. op' \in [kind : Kinds, dir : 0..last, name : Names, to : Names, obj : 0..last,
                   size : 0..MaxSize, retried : BOOLEAN,
                   at : {"start", "filling", "sent", "made", "cached", "cleared"}]
      BY <1>1, <1>4 DEF OpOK
    <2>3. op'.kind = op.kind /\ op'.at = "start" /\ op'.obj = op.obj
      BY <1>1, <1>4 DEF OpOK
    <2> QED
      BY <1>1, <2>1, <2>2, <2>3 DEF OpOK
  <1>9. CachesOK'
    BY CachesForgotten DEF Reconnects
  <1> QED
    BY <1>1, <1>7, <1>8, <1>9, TypePartsNext DEF TypeInv

(* What TreeInv and NamesInv say of the device.                            *)
LEMMA EndsTree ==
  ASSUME CacheInv, NEW S, Ends(S), known' \in {known, <<>>},
         UNCHANGED <<files, attrs>> \/ (files' = <<>> /\ attrs' = <<>>)
  PROVE  TreeInv'
  <1>1. DevOK /\ CachesOK /\ RestOK
    BY TypeParts DEF CacheInv, TypeInv
  <1>2. \A i \in DOMAIN dev' : i \in 1..last =>
          i \in DOMAIN dev /\ dev'[i].parent = dev[i].parent /\ dev'[i].dir = dev[i].dir
    BY DEF Ends, DevStep
  <1>3. Tree'
    BY DEF Ends, DevStep
  <1>4. KindsTrue'
    <2>1. DOMAIN attrs \subseteq 1..last
      BY <1>1, CachesTyped
    <2> QED
      BY <1>2, <2>1, EmptyFn DEF CacheInv, TreeInv, KindsTrue
  <1>5. KnownTrue'
    BY <1>1, <1>2, EmptyFn DEF CacheInv, TreeInv, KnownTrue, RestOK
  <1>6. EntriesOwn'
    <2>1. \A d \in DOMAIN files : \A n \in DOMAIN files[d] : files[d][n] \in 1..last
      BY <1>1, CachesTyped
    <2> QED
      BY <1>2, <2>1, EmptyFn DEF CacheInv, TreeInv, EntriesOwn
  <1>7. AttrsListed'
    <2>1. DOMAIN attrs \subseteq 1..last
      BY <1>1, CachesTyped
    <2> QED
      BY <1>2, <2>1, EmptyFn DEF CacheInv, TreeInv, AttrsListed
  <1> QED
    BY <1>3, <1>4, <1>5, <1>6, <1>7 DEF TreeInv

LEMMA EndsNames ==
  ASSUME CacheInv, NEW S, Ends(S), Settles(S), NoNamesakes, files' \in {files, <<>>},
         op' = Idle \/ Reconnects
  PROVE  NamesInv'
  <1>1. DevOK /\ CachesOK /\ RestOK
    BY TypeParts DEF CacheInv, TypeInv
  <1>2. \A i \in DOMAIN dev' : i \in 1..last =>
          i \in DOMAIN dev /\ dev'[i].parent = dev[i].parent /\ dev'[i].dir = dev[i].dir
    BY DEF Ends, DevStep
  <1>3. \A i \in DOMAIN dev' : dev'[i].parent \notin doubted' =>
          /\ i \in DOMAIN dev /\ dev'[i].name = dev[i].name
          /\ dev'[i].parent = dev[i].parent /\ dev[i].parent \notin doubted
          /\ dev[i].parent \notin S
    BY <1>1, <1>2 DEF Ends, DevStep, DevOK
  <1>4. NamesApart /\ MirrorBut(Pending) /\ NameFree
    BY DEF CacheInv, NamesInv
  <1>5. NamesApart'
    BY <1>3, <1>4 DEF NamesApart
  <1>6. op'.at \notin {"sent", "made"}
    <2>1. CASE op' = Idle
      BY <2>1 DEF Idle
    <2>2. CASE Reconnects
      BY <2>2 DEF Reconnects, CacheInv, TypeInv, OpOK
    <2> QED
      BY <2>1, <2>2
  <1>7. ASSUME NEW d \in DOMAIN files' \ doubted', Exists(d)'
        PROVE  /\ \A i \in Children(d)' :
                    dev'[i].name \in DOMAIN files'[d] /\ files'[d][dev'[i].name] = i
               /\ \A n \in DOMAIN files'[d] :
                    files'[d][n] \in DOMAIN dev' /\ dev'[files'[d][n]].name = n
    <2>1. files' = files /\ d \in DOMAIN files \ doubted /\ d \notin S
      BY <1>7, EmptyFn DEF Ends
    <2>2. d \in 0..last /\ Exists(d)
      BY <1>1, <1>2, <1>7, <2>1 DEF CachesOK, DevOK, Exists, Top
    <2>3. \A i \in Children(d) \ Pending :
            dev[i].name \in DOMAIN files[d] /\ files[d][dev[i].name] = i
      BY <1>4, <2>1, <2>2 DEF MirrorBut
    <2>4. \A n \in DOMAIN files[d] :
            files[d][n] \in DOMAIN dev /\ dev[files[d][n]].name = n
      BY <1>4, <2>1, <2>2 DEF MirrorBut
    <2>5. \A i \in Children(d)' : i \in Children(d) /\ dev'[i].name = dev[i].name
      BY <1>3, <1>7 DEF Children
    <2>6. Pending \cap Children(d) = {}
      BY <2>1 DEF Pending, Children, Settles, CacheInv, StepInv, MakesInDir
    <2>7. ASSUME NEW n \in DOMAIN files[d]
          PROVE  files[d][n] \in DOMAIN dev' /\ dev'[files[d][n]].name = n
      <3>1. files[d][n] \in DOMAIN dev /\ dev[files[d][n]].name = n
        BY <2>4
      <3>2. dev[files[d][n]].parent = d
        BY <2>1, <3>1 DEF CacheInv, TreeInv, EntriesOwn
      <3>3. files[d][n] \in DOMAIN dev'
        BY <1>7, <2>1, <3>1, <3>2 DEF Ends, DevStep, Exists
      <3>4. dev'[files[d][n]].parent = d
        BY <1>1, <1>2, <3>1, <3>2, <3>3 DEF DevOK
      <3> QED
        BY <1>3, <1>7, <3>1, <3>3, <3>4
    <2> QED
      BY <2>1, <2>3, <2>5, <2>6, <2>7
  <1>8. MirrorBut(Pending)'
    <2>1. Pending' = {}
      BY <1>6 DEF Pending
    <2> QED
      BY <1>7, <2>1 DEF MirrorBut
  <1>9. NameFree'
    <2>1. CASE op' = Idle
      BY <2>1 DEF NameFree, Idle, Makes
    <2>2. CASE Reconnects
      <3>1. op'.kind = op.kind /\ op'.dir = op.dir /\ op'.name = op.name /\ ~op.retried
        BY <2>2 DEF Reconnects, CacheInv, TypeInv, OpOK
      <3>2. SUFFICES ASSUME op.kind \in Makes, op.dir \notin doubted', NEW i \in Children(op.dir)'
                     PROVE  dev'[i].name # op.name
        BY <3>1 DEF NameFree, Children
      <3>3. op.at = "start"
        BY <2>2, <3>1, <3>2 DEF Settles, Ends, Makes, CacheInv, TypeInv, OpOK, Idle
      <3>4. op.dir \notin doubted /\ i \in Children(op.dir) /\ dev'[i].name = dev[i].name
        BY <1>3, <3>1, <3>2 DEF Ends, Children
      <3> QED
        BY <1>4, <3>2, <3>3, <3>4 DEF NameFree
    <2> QED
      BY <2>1, <2>2
  <1> QED
    BY <1>5, <1>8, <1>9 DEF NamesInv

LEMMA EndsSteps ==
  ASSUME CacheInv, NEW S, Ends(S), Settles(S),
         \/ op' = Idle /\ UNCHANGED <<files, dirCache>>
         \/ op' = Idle /\ Forget
         \/ Reconnects /\ faults' = faults + 1
  PROVE  StepInv'
  <1>1. DevOK /\ CachesOK /\ RestOK /\ OpOK
    BY TypeParts DEF CacheInv, TypeInv
  <1>2. \A i \in DOMAIN dev' : i \in 1..last =>
          i \in DOMAIN dev /\ dev'[i].parent = dev[i].parent /\ dev'[i].dir = dev[i].dir
    BY DEF Ends, DevStep
  <1>3. DirCacheBut(Behind)'
    <2>1. CASE dirCache' = <<>>
      BY <2>1, EmptyFn DEF DirCacheBut
    <2>2. CASE UNCHANGED <<files, dirCache>>
      <3>1. SUFFICES ASSUME NEW d \in DOMAIN dirCache, d \notin doubted', Exists(d)'
                     PROVE  dirCache[d] = files[d]
        BY <2>2 DEF DirCacheBut
      <3>2. d \in 0..last /\ d \notin doubted /\ d \notin S
        BY <1>1, <3>1 DEF CachesOK, Ends
      <3>3. Exists(d)
        BY <1>1, <1>2, <3>1, <3>2 DEF Exists, Top, DevOK
      <3>4. d \notin Behind
        BY <3>2, <3>3 DEF Settles
      <3> QED
        BY <3>1, <3>2, <3>3, <3>4 DEF CacheInv, StepInv, DirCacheBut
    <2> QED
      BY <2>1, <2>2 DEF Forget, Reconnects
  <1>4. CASE op' = Idle
    <2>1. HandlesLeft' /\ MakesInDir'
      BY <1>4 DEF HandlesLeft, MakesInDir, Idle, Makes
    <2> QED
      BY <1>3, <2>1 DEF StepInv
  <1>5. CASE Reconnects /\ faults' = faults + 1
    <2>1. /\ op'.kind = op.kind /\ op'.dir = op.dir /\ op'.at = "start" /\ op'.retried = TRUE
          /\ ~op.retried
      BY <1>1, <1>5 DEF Reconnects, OpOK
    <2>2. HandlesLeft'
      <3>1. SUFFICES ASSUME op.kind \in Makes
                     PROVE  last' + 1 <= MaxObjects
        BY <2>1 DEF HandlesLeft
      <3>2. op.at \in {"start", "sent", "made"}
        BY <1>1, <2>1, <3>1 DEF OpOK, Settles, Makes, Idle
      <3>3. /\ faults \in Nat /\ load.faults \in Nat /\ last \in Nat
            /\ faults + 1 <= load.faults /\ MaxObjects \in Nat
        BY <1>1, <1>5, LoadsAssumption, BoundsAssumption DEF Ends, RestOK, DevOK
      <3>4. last + (IF op.at = "start" THEN 2 ELSE 1) <= MaxObjects
        BY <2>1, <3>1, <3>2, <3>3 DEF CacheInv, StepInv, HandlesLeft
      <3>5. last' = last \/ (last' = last + 1 /\ op.at = "start")
        BY DEF Ends, DevStep
      <3> QED
        BY <3>3, <3>4, <3>5
    <2>3. MakesInDir'
      <3>1. SUFFICES ASSUME op.kind \in Makes, op.dir \in DOMAIN dev'
                     PROVE  dev'[op.dir].dir
        BY <2>1 DEF MakesInDir
      <3>2. op.dir \in 1..last /\ (op.dir \in DOMAIN dev => dev[op.dir].dir)
        <4>1. op.dir # Top
          BY <3>1 DEF Ends, DevStep, DevOK, Top
        <4> QED
          BY <1>1, <3>1, <4>1 DEF OpOK, DevOK, Top, CacheInv, StepInv, MakesInDir
      <3> QED
        BY <1>2, <3>1, <3>2
    <2> QED
      BY <1>3, <2>2, <2>3 DEF StepInv
  <1> QED
    BY <1>4, <1>5

LEMMA EndsSizes ==
  ASSUME CacheInv, NEW S, Ends(S),
         \/ op' = Idle /\ UNCHANGED <<attrs, edits>>
         \/ op' = Idle /\ Forget /\ edits \subseteq doubted'
         \/ Reconnects
  PROVE  SizeInv'
  <1>1. DevOK /\ CachesOK /\ RestOK /\ OpOK
    BY TypeParts DEF CacheInv, TypeInv
  <1>2. \A i \in DOMAIN dev' : i \in 1..last =>
          i \in DOMAIN dev /\ dev'[i].parent = dev[i].parent /\ dev'[i].dir = dev[i].dir
    BY DEF Ends, DevStep
  <1>3. DOMAIN attrs \subseteq 1..last /\ edits \subseteq 1..last
    BY <1>1, CachesTyped DEF CachesOK
  <1>4. EditsKnown'
    BY <1>2, <1>3, EmptyFn DEF CacheInv, SizeInv, EditsKnown, Forget, Reconnects
  <1>5. DraftsAccounted'
    BY EmptyFn DEF CacheInv, SizeInv, DraftsAccounted, Forget, Reconnects, Ends, DevStep
  <1>6. DraftsAhead'
    BY DEF Ends, DevStep
  <1>7. SizesTrue'
    <2>1. SUFFICES ASSUME attrs' = attrs, NEW i \in DOMAIN attrs \cap DOMAIN dev',
                          i \notin doubted', dev'[i].parent \notin doubted'
                   PROVE  attrs[i].size = Content(i)'.size
      BY EmptyFn DEF SizesTrue, Trusted, Forget, Reconnects
    <2>2. i \in DOMAIN dev /\ dev'[i].parent = dev[i].parent
      BY <1>2, <1>3, <2>1
    <2>3. Content(i)'.size = Content(i).size
      BY <2>1 DEF Ends, DevStep
    <2> QED
      BY <2>1, <2>2, <2>3 DEF CacheInv, SizeInv, SizesTrue, Trusted, Ends
  <1>8. WritesLeft'
    <2>1. CASE op' = Idle
      BY <2>1 DEF WritesLeft, Idle
    <2>2. CASE Reconnects
      <3>1. op'.kind = op.kind /\ op'.obj = op.obj /\ edits = {}
        BY <1>1, <2>2 DEF Reconnects, OpOK
      <3>2. SUFFICES ASSUME NEW i, i = op.obj, i \in DOMAIN dev', op.kind = "write"
                     PROVE  Content(i)'.rev < MaxWrites
        BY <3>1 DEF WritesLeft, Content
      <3>3. i \in DOMAIN dev
        BY <1>1, <1>2, <3>2 DEF OpOK, Top
      <3>4. Content(i)'.rev = Content(i).rev
        BY <3>1, <3>2 DEF Ends, DevStep
      <3> QED
        BY <3>2, <3>3, <3>4 DEF CacheInv, SizeInv, WritesLeft
    <2> QED
      BY <2>1, <2>2
  <1> QED
    BY <1>4, <1>5, <1>6, <1>7, <1>8 DEF SizeInv

(* A request that ends, or begins again, leaves the invariant.             *)
LEMMA EndsKeep ==
  ASSUME CacheInv, NEW S, Ends(S), Settles(S),
         \/ Error /\ UNCHANGED caches
         \/ Dies /\ edits \subseteq doubted'
         \/ Reconnects /\ faults' = faults + 1
  PROVE  CacheInv'
  <1>1. CASE Error /\ UNCHANGED caches
    <2>1. TypeInv'
      BY <1>1, ErrorTypes
    <2>2. /\ op' = Idle /\ known' = known
          /\ UNCHANGED <<files, attrs>> /\ UNCHANGED <<files, dirCache>>
          /\ UNCHANGED <<attrs, edits>>
      BY <1>1 DEF Error, Done, caches
    <2>3. TreeInv' /\ SizeInv' /\ StepInv' /\ (NoNamesakes => NamesInv')
      BY <2>2, EndsTree, EndsSizes, EndsSteps, EndsNames
    <2> QED
      BY <2>1, <2>3 DEF CacheInv
  <1>2. CASE Dies /\ edits \subseteq doubted'
    <2>1. TypeInv'
      BY <1>2, DiesTypes
    <2>2. TreeInv' /\ SizeInv' /\ StepInv' /\ (NoNamesakes => NamesInv')
      BY <1>2, EndsTree, EndsSizes, EndsSteps, EndsNames, EmptyFn DEF Dies, Done, Forget
    <2> QED
      BY <2>1, <2>2 DEF CacheInv
  <1>3. CASE Reconnects /\ faults' = faults + 1
    <2>1. TypeInv'
      BY <1>3, ReconnectsTypes DEF Settles
    <2>2. files' = <<>> /\ attrs' = <<>> /\ known' = known
      BY <1>3 DEF Reconnects, Forget
    <2>3. TreeInv' /\ SizeInv' /\ StepInv' /\ (NoNamesakes => NamesInv')
      BY <1>3, <2>2, EndsTree, EndsSizes, EndsSteps, EndsNames
    <2> QED
      BY <2>1, <2>3 DEF CacheInv
  <1> QED
    BY <1>1, <1>2, <1>3

----------------------------------------------------------------------------
(* A call that fails *)

LEMMA LostKeeps ==
  ASSUME CacheInv, NEW S, S \subseteq 0..last', DevStep(S), Settles(S), Lost(S)
  PROVE  CacheInv'
  <1>1. DevOK /\ CachesOK /\ RestOK /\ DevOK'
    BY TypeParts DEF CacheInv, TypeInv, DevStep
  <1>2. faults \in Nat /\ load.faults \in Nat
    BY <1>1, LoadsAssumption DEF RestOK
  <1>3. doubted \cup S \cup edits \subseteq 0..last'
    BY <1>1 DEF RestOK, CachesOK, DevStep, DevOK
  <1>4. Ends(S)
    BY <1>2, <1>3 DEF Ends, Lost, Fault
  <1>5. CASE ~op.retried /\ Fault(S) /\ Error /\ UNCHANGED caches
    BY <1>4, <1>5, EndsKeep
  <1>6. CASE Fault(S \cup edits) /\ DeviceGone
    BY <1>4, <1>6, EndsKeep DEF Fault, DeviceGone
  <1> QED
    BY <1>5, <1>6 DEF Lost

LEMMA RefusedKeeps ==
  ASSUME CacheInv, NEW S, S \subseteq 0..last, Settles(S), Refused(S)
  PROVE  CacheInv'
  <1>1. last' = last /\ UNCHANGED device
    BY DEF Refused, device
  <1> QED
    BY <1>1, NoCall, LostKeeps DEF Refused

LEMMA ThrowsKeeps ==
  ASSUME CacheInv, NEW S, S \subseteq 0..last, Settles(S), Throws(S)
  PROVE  CacheInv'
  <1>1. last' = last /\ UNCHANGED device /\ UNCHANGED <<load, faults>>
    BY DEF Throws, device
  <1>2. CachesOK /\ RestOK
    BY TypeParts DEF CacheInv, TypeInv
  <1>3. faults \in Nat /\ faults <= load.faults
    BY <1>2, LoadsAssumption DEF RestOK
  <1>4. doubted \cup S \cup edits \subseteq 0..last'
    BY <1>1, <1>2 DEF RestOK, CachesOK
  <1>5. Ends(S)
    BY <1>1, <1>3, <1>4, NoCall DEF Ends, Throws
  <1> QED
    BY <1>5, EndsKeep DEF Throws

LEMMA AnswersKeeps ==
  ASSUME CacheInv, Settles({}), Answers
  PROVE  CacheInv'
  <1>1. UNCHANGED device /\ UNCHANGED <<load, faults, doubted>> /\ UNCHANGED caches /\ Error
    BY DEF Answers, Answered
  <1>2. RestOK
    BY TypeParts DEF CacheInv, TypeInv
  <1>3. faults \in Nat /\ faults <= load.faults /\ last' = last
    BY <1>1, <1>2, LoadsAssumption DEF RestOK, device
  <1>4. Ends({})
    BY <1>1, <1>2, <1>3, NoCall DEF Ends, RestOK
  <1> QED
    BY <1>1, <1>4, EndsKeep

----------------------------------------------------------------------------
(* A directory that is listed *)

(* What enters the caches: entries and attributes of objects of the        *)
(* directory, of all of them unless the directory is in doubt.             *)
Lists(d, listing, found, T) ==
  /\ Cache(d, listing, found)
  /\ listing \in [DOMAIN listing -> Children(d)]
  /\ \A n \in DOMAIN listing : dev[listing[n]].name = n
  /\ found \in PartialFns(Children(d), [dir : BOOLEAN, size : 0..MaxSize])
  /\ \A i \in DOMAIN found : found[i].dir = dev[i].dir
  /\ d \in T \/ (/\ DOMAIN listing = {dev[i].name : i \in Children(d)}
                 /\ \A i \in DOMAIN found : found[i].size = dev[i].size)

ListStep(d, T) ==
  /\ UNCHANGED <<load, device, known, mounted>>
  /\ d \in 0..last \ DOMAIN files
  /\ \E listing, found : Lists(d, listing, found, T)
  /\ faults' \in {faults, faults + 1} /\ faults' <= load.faults
  /\ doubted' = doubted \cup T /\ T \subseteq 0..last
  /\ op.kind # "idle" /\ op.at \notin {"sent", "made"}
  /\ op' = op \/ (op' = Idle /\ Settles(T))

LEMMA ListCaches ==
  ASSUME NEW d, d \notin DOMAIN files, NEW listing, NEW found, Cache(d, listing, found)
  PROVE  /\ DOMAIN files' = DOMAIN files \cup {d} /\ files'[d] = listing
         /\ \A e \in DOMAIN files : files'[e] = files[e]
         /\ DOMAIN attrs' = DOMAIN attrs \cup DOMAIN found
         /\ \A i \in DOMAIN found : attrs'[i] = found[i]
         /\ \A i \in DOMAIN attrs \ DOMAIN found : attrs'[i] = attrs[i]
         /\ dirCache' = dirCache /\ edits' = edits
  <1>1. /\ files' = Put(files, d, listing) /\ attrs' = Over(found, attrs)
        /\ edits' = edits /\ dirCache' = dirCache
    BY DEF Cache
  <1>2. /\ DOMAIN Put(files, d, listing) = DOMAIN files \cup {d}
        /\ Put(files, d, listing)[d] = listing
        /\ \A e \in DOMAIN files \ {d} : Put(files, d, listing)[e] = files[e]
    BY DEF Put, Over
  <1>3. /\ DOMAIN Over(found, attrs) = DOMAIN found \cup DOMAIN attrs
        /\ \A x \in DOMAIN found : Over(found, attrs)[x] = found[x]
        /\ \A x \in DOMAIN attrs \ DOMAIN found : Over(found, attrs)[x] = attrs[x]
    BY OverFn
  <1> QED
    BY <1>1, <1>2, <1>3

LEMMA ListTypes ==
  ASSUME CacheInv, NEW d, NEW T, ListStep(d, T)
  PROVE  TypeInv'
  <1>1. DevOK /\ CachesOK /\ RestOK /\ OpOK
    BY TypeParts DEF CacheInv, TypeInv
  <1>2. PICK listing, found : Lists(d, listing, found, T)
    BY DEF ListStep
  <1>3. dev' = dev /\ draft' = draft /\ last' = last
    BY DEF ListStep, device
  <1>4. DevOK'
    BY <1>1, <1>3 DEF DevOK
  <1>5. Children(d) \subseteq 1..last
    BY <1>1 DEF Children, DevOK
  <1>6. CachesOK'
    <2>1. /\ files' = Put(files, d, listing) /\ attrs' = Over(found, attrs)
          /\ edits' = edits /\ dirCache' = dirCache
      BY <1>2 DEF Lists, Cache
    <2>2. listing \in PartialFns(Names, 1..last)
      <3>1. \A n \in DOMAIN listing : n \in Names /\ listing[n] \in 1..last
        BY <1>1, <1>2, <1>5 DEF Lists, Children, DevOK
      <3>2. listing \in [DOMAIN listing -> 1..last]
        BY <1>2, <1>5 DEF Lists
      <3> QED
        BY <3>1, <3>2, PartialFn
    <2>3. DOMAIN files' = DOMAIN files \cup {d} /\ files'[d] = listing
          /\ \A e \in DOMAIN files : e # d => files'[e] = files[e]
      BY <1>2, ListCaches DEF Lists, ListStep
    <2>4. found \in PartialFns(1..last, [dir : BOOLEAN, size : 0..MaxSize])
      <3> DEFINE Attrs == [dir : BOOLEAN, size : 0..MaxSize]
      <3>1. found \in PartialFns(Children(d), Attrs)
        BY <1>2 DEF Lists
      <3> HIDE DEF Attrs
      <3>2. DOMAIN found \subseteq Children(d) /\ found \in [DOMAIN found -> Attrs]
        BY <3>1, PartialFn
      <3>3. found \in PartialFns(1..last, Attrs)
        BY <1>5, <3>2, PartialFn
      <3> QED
        BY <3>3 DEF Attrs
    <2>5. attrs' \in PartialFns(1..last, [dir : BOOLEAN, size : 0..MaxSize])
      BY <1>1, <2>1, <2>4, PartialOver DEF CachesOK
    <2>6. \A e \in DOMAIN files' : files'[e] \in PartialFns(Names, 1..last)
      BY <1>1, <2>2, <2>3 DEF CachesOK
    <2> QED
      BY <1>1, <1>3, <2>1, <2>3, <2>5, <2>6 DEF CachesOK, ListStep
  <1>7. mounted
    BY <1>1 DEF RestOK, ListStep, Idle
  <1>8. RestOK'
    BY <1>1, <1>3, <1>7, LoadsAssumption DEF RestOK, ListStep
  <1>9. OpOK'
    <2>1. CASE op' = op
      <3>1. DOMAIN files \subseteq DOMAIN files' /\ dirCache' = dirCache
        BY <1>2, ListCaches DEF Lists, ListStep
      <3> QED
        BY <1>1, <1>3, <2>1, <3>1 DEF OpOK
    <2>2. CASE op' = Idle
      <3>1. 0 \in 0..MaxSize /\ 0 \in 0..last'
        BY <1>1, <1>3, BoundsAssumption DEF DevOK
      <3> QED
        BY <1>1, <2>2, <3>1, NamesThere DEF OpOK, Idle, Kinds, Top, Makes, RestOK
    <2> QED
      BY <2>1, <2>2 DEF ListStep
  <1> QED
    BY <1>4, <1>6, <1>8, <1>9, TypePartsNext DEF TypeInv

LEMMA ListTree ==
  ASSUME CacheInv, NEW d, NEW T, ListStep(d, T)
  PROVE  TreeInv'
  <1>1. DevOK /\ CachesOK
    BY TypeParts DEF CacheInv, TypeInv
  <1>2. PICK listing, found : Lists(d, listing, found, T)
    BY DEF ListStep
  <1>3. dev' = dev /\ known' = known
    BY DEF ListStep, device
  <1>4. /\ DOMAIN files' = DOMAIN files \cup {d} /\ files'[d] = listing
        /\ \A e \in DOMAIN files : files'[e] = files[e]
    BY <1>2, ListCaches DEF Lists, ListStep
  <1>5. /\ DOMAIN attrs' = DOMAIN attrs \cup DOMAIN found
        /\ \A i \in DOMAIN found : attrs'[i] = found[i]
        /\ \A i \in DOMAIN attrs \ DOMAIN found : attrs'[i] = attrs[i]
    BY <1>2, ListCaches DEF Lists, ListStep
  <1>6. DOMAIN found \subseteq Children(d)
    BY <1>2, PartialFn DEF Lists
  <1>7. Tree' /\ KnownTrue'
    BY <1>3 DEF CacheInv, TreeInv, Tree, KnownTrue
  <1>8. KindsTrue'
    BY <1>2, <1>3, <1>5 DEF CacheInv, TreeInv, KindsTrue, Lists
  <1>9. EntriesOwn'
    BY <1>2, <1>3, <1>4 DEF CacheInv, TreeInv, EntriesOwn, Lists, Children
  <1>10. AttrsListed'
    BY <1>3, <1>4, <1>5, <1>6 DEF CacheInv, TreeInv, AttrsListed, Children
  <1> QED
    BY <1>7, <1>8, <1>9, <1>10 DEF TreeInv

LEMMA ListNames ==
  ASSUME CacheInv, NEW d, NEW T, ListStep(d, T), NoNamesakes
  PROVE  NamesInv'
  <1>1. DevOK /\ CachesOK /\ NamesInv
    BY TypeParts DEF CacheInv, TypeInv
  <1>2. PICK listing, found : Lists(d, listing, found, T)
    BY DEF ListStep
  <1>3. dev' = dev /\ doubted' = doubted \cup T
    BY DEF ListStep, device
  <1>4. /\ DOMAIN files' = DOMAIN files \cup {d} /\ files'[d] = listing
        /\ \A e \in DOMAIN files : files'[e] = files[e]
    BY <1>2, ListCaches DEF Lists, ListStep
  <1>5. NamesApart'
    BY <1>1, <1>3 DEF NamesInv, NamesApart
  <1>6. Pending = {} /\ Pending' = {}
    BY DEF Pending, ListStep, Idle
  <1>7. MirrorBut(Pending)'
    <2>1. SUFFICES ASSUME NEW e \in DOMAIN files' \ doubted', Exists(e)
                   PROVE  /\ \A i \in Children(e) :
                               dev[i].name \in DOMAIN files'[e] /\ files'[e][dev[i].name] = i
                          /\ \A n \in DOMAIN files'[e] :
                               files'[e][n] \in DOMAIN dev /\ dev[files'[e][n]].name = n
      BY <1>3, <1>6 DEF MirrorBut, Exists, Children
    <2>2. CASE e # d
      BY <1>1, <1>3, <1>4, <1>6, <2>1, <2>2 DEF NamesInv, MirrorBut
    <2>3. CASE e = d
      <3>1. /\ DOMAIN listing = {dev[i].name : i \in Children(d)}
            /\ listing \in [DOMAIN listing -> Children(d)]
            /\ \A n \in DOMAIN listing : dev[listing[n]].name = n
        BY <1>2, <1>3, <2>1, <2>3 DEF Lists
      <3>2. ASSUME NEW i \in Children(d)
            PROVE  listing[dev[i].name] = i
        BY <1>1, <1>3, <2>1, <2>3, <3>1, <3>2 DEF NamesInv, NamesApart, Children
      <3> QED
        BY <1>4, <2>3, <3>1, <3>2 DEF Children
    <2> QED
      BY <2>2, <2>3
  <1>8. NameFree'
    <2>1. CASE op' = op
      BY <1>1, <1>3, <2>1 DEF NamesInv, NameFree, Children
    <2>2. CASE op' = Idle
      BY <2>2 DEF NameFree, Idle, Makes
    <2> QED
      BY <2>1, <2>2 DEF ListStep
  <1> QED
    BY <1>5, <1>7, <1>8 DEF NamesInv

LEMMA ListSteps ==
  ASSUME CacheInv, NEW d, NEW T, ListStep(d, T)
  PROVE  StepInv'
  <1>1. DevOK /\ CachesOK /\ RestOK
    BY TypeParts DEF CacheInv, TypeInv
  <1>2. PICK listing, found : Lists(d, listing, found, T)
    BY DEF ListStep
  <1>3. dev' = dev /\ last' = last /\ doubted' = doubted \cup T /\ load' = load
    BY DEF ListStep, device
  <1>4. /\ DOMAIN files' = DOMAIN files \cup {d} /\ dirCache' = dirCache
        /\ \A e \in DOMAIN files : files'[e] = files[e]
    BY <1>2, ListCaches DEF Lists, ListStep
  <1>5. DOMAIN attrs \subseteq DOMAIN attrs'
    <2>1. DOMAIN attrs' = DOMAIN attrs \cup DOMAIN found
      BY <1>2, ListCaches DEF Lists, ListStep
    <2> QED
      BY <2>1
  <1>6. DirCacheBut(Behind)'
    <2>1. SUFFICES ASSUME NEW e \in DOMAIN dirCache, e \notin doubted', e \notin Behind', Exists(e)
                   PROVE  dirCache[e] = files'[e]
      BY <1>3, <1>4 DEF DirCacheBut, Exists
    <2>2. e \in DOMAIN files
      BY <1>1 DEF CachesOK
    <2>3. e \notin Behind
      BY <1>3, <2>1 DEF Behind, ListStep, Settles
    <2> QED
      BY <1>3, <1>4, <2>1, <2>2, <2>3 DEF CacheInv, StepInv, DirCacheBut
  <1>7. HandlesLeft' /\ MakesInDir'
    <2>1. CASE op' = op
      <3>1. faults \in Nat /\ load.faults \in Nat /\ (faults' < load.faults => faults < load.faults)
        BY <1>1, LoadsAssumption DEF RestOK, ListStep
      <3>2. HandlesLeft'
        BY <1>3, <2>1, <3>1 DEF CacheInv, StepInv, HandlesLeft, ListStep
      <3>3. MakesInDir'
        BY <1>3, <1>4, <1>5, <2>1 DEF CacheInv, StepInv, MakesInDir, ListStep
      <3> QED
        BY <3>2, <3>3
    <2>2. CASE op' = Idle
      BY <2>2 DEF HandlesLeft, MakesInDir, Idle, Makes
    <2> QED
      BY <2>1, <2>2 DEF ListStep
  <1> QED
    BY <1>6, <1>7 DEF StepInv

(* A draft that is not in doubt is of a session, hence of a file whose     *)
(* attributes are cached and whose directory is listed.                    *)
LEMMA ListSizes ==
  ASSUME CacheInv, NEW d, NEW T, ListStep(d, T)
  PROVE  SizeInv'
  <1>1. DevOK /\ CachesOK /\ RestOK
    BY TypeParts DEF CacheInv, TypeInv
  <1>2. PICK listing, found : Lists(d, listing, found, T)
    BY DEF ListStep
  <1>3. dev' = dev /\ draft' = draft /\ doubted' = doubted \cup T /\ edits' = edits
    BY <1>2 DEF ListStep, device, Lists, Cache
  <1>4. /\ DOMAIN attrs' = DOMAIN attrs \cup DOMAIN found
        /\ \A i \in DOMAIN found : attrs'[i] = found[i]
        /\ \A i \in DOMAIN attrs \ DOMAIN found : attrs'[i] = attrs[i]
    BY <1>2, ListCaches DEF Lists, ListStep
  <1>5. DOMAIN found \subseteq Children(d)
    BY <1>2, PartialFn DEF Lists
  <1>6. EditsKnown' /\ DraftsAccounted' /\ DraftsAhead'
    BY <1>3, <1>4 DEF CacheInv, SizeInv, EditsKnown, DraftsAccounted, DraftsAhead
  <1>7. SizesTrue'
    <2>1. SUFFICES ASSUME NEW i \in DOMAIN attrs' \cap DOMAIN dev, Trusted(i)'
                   PROVE  attrs'[i].size = Content(i).size
      BY <1>3 DEF SizesTrue, Content
    <2>2. CASE i \in DOMAIN found
      <3>1. dev[i].parent = d /\ d \notin T /\ i \notin doubted
        BY <1>3, <1>5, <2>1, <2>2 DEF Children, Trusted
      <3>2. attrs'[i].size = dev[i].size
        BY <1>2, <1>4, <2>2, <3>1 DEF Lists
      <3>3. i \notin DOMAIN draft
        BY <3>1 DEF CacheInv, SizeInv, DraftsAccounted, EditsKnown, TreeInv, AttrsListed, ListStep
      <3> QED
        BY <3>2, <3>3 DEF Content
    <2>3. CASE i \notin DOMAIN found
      BY <1>3, <1>4, <2>1, <2>3 DEF CacheInv, SizeInv, SizesTrue, Trusted
    <2> QED
      BY <2>2, <2>3
  <1>8. WritesLeft'
    <2>1. CASE op' = op
      BY <1>3, <2>1 DEF CacheInv, SizeInv, WritesLeft, Content
    <2>2. CASE op' = Idle
      BY <2>2 DEF WritesLeft, Idle
    <2> QED
      BY <2>1, <2>2 DEF ListStep
  <1> QED
    BY <1>6, <1>7, <1>8 DEF SizeInv

LEMMA ListKeeps ==
  ASSUME CacheInv, NEW d, NEW T, ListStep(d, T)
  PROVE  CacheInv'
  BY ListTypes, ListTree, ListNames, ListSteps, ListSizes DEF CacheInv

(* What the kinds of listing bring.                                        *)
LEMMA ListsListing ==
  ASSUME CacheInv, NEW d, NEW T, NEW S, S \subseteq Children(d), NEW listing \in Listings(S),
         NEW found, Cache(d, listing, found),
         d \in T \/ S = Children(d),
         \/ found = <<>>
         \/ found = AttrsOf(S)
         \/ d \in T /\ found = [i \in Children(d) |-> [dir |-> dev[i].dir, size |-> 0]]
  PROVE  Lists(d, listing, found, T)
  <1>1. DevOK
    BY TypeParts DEF CacheInv, TypeInv
  <1>2. listing \in [{dev[i].name : i \in S} -> S] /\ DOMAIN listing = {dev[i].name : i \in S}
    BY DEF Listings
  <1>3. \A n \in DOMAIN listing : dev[listing[n]].name = n
    BY DEF Listings
  <1>4. listing \in [DOMAIN listing -> Children(d)]
    BY <1>2
  <1> DEFINE Attrs == [dir : BOOLEAN, size : 0..MaxSize]
  <1>5. ASSUME NEW i \in Children(d)
        PROVE  /\ [dir |-> dev[i].dir, size |-> dev[i].size] \in Attrs
               /\ [dir |-> dev[i].dir, size |-> 0] \in Attrs
    BY <1>1, BoundsAssumption DEF DevOK, Children
  <1>6. /\ found \in PartialFns(Children(d), Attrs)
        /\ \A i \in DOMAIN found : found[i].dir = dev[i].dir
        /\ d \in T \/ \A i \in DOMAIN found : found[i].size = dev[i].size
    <2>1. CASE found = <<>>
      <3>1. found \in PartialFns(Children(d), Attrs)
        BY <2>1, PartialEmpty
      <3> QED
        BY <2>1, <3>1, EmptyFn
    <2>2. CASE found = AttrsOf(S)
      <3>1. DOMAIN found = S /\ \A i \in S : found[i] = [dir |-> dev[i].dir, size |-> dev[i].size]
        BY <2>2 DEF AttrsOf
      <3>2. found \in [DOMAIN found -> Attrs]
        BY <1>5, <2>2 DEF AttrsOf
      <3>3. found \in PartialFns(Children(d), Attrs)
        BY <3>1, <3>2, PartialFn
      <3> QED
        BY <3>1, <3>3
    <2>3. CASE d \in T /\ found = [i \in Children(d) |-> [dir |-> dev[i].dir, size |-> 0]]
      <3>1. DOMAIN found = Children(d) /\ found \in [DOMAIN found -> Attrs]
        BY <1>5, <2>3
      <3>2. found \in PartialFns(Children(d), Attrs)
        BY <3>1, PartialFn
      <3> QED
        BY <2>3, <3>2
    <2> QED
      BY <2>1, <2>2, <2>3
  <1> HIDE DEF Attrs
  <1>7. found \in PartialFns(Children(d), [dir : BOOLEAN, size : 0..MaxSize])
    BY <1>6 DEF Attrs
  <1> QED
    BY <1>2, <1>3, <1>4, <1>6, <1>7 DEF Lists

(* An entry that stays empty.                                              *)
LEMMA ListsNothing ==
  ASSUME CacheInv, NEW d, NEW T, Cache(d, <<>>, <<>>), d \in T \/ ~Exists(d)
  PROVE  Lists(d, <<>>, <<>>, T)
  <1>1. <<>> \in PartialFns(Children(d), [dir : BOOLEAN, size : 0..MaxSize])
    BY PartialEmpty
  <1>2. ~Exists(d) => Children(d) = {}
    BY DEF CacheInv, TreeInv, Tree, Children, Exists
  <1>3. <<>> \in [DOMAIN <<>> -> Children(d)]
    BY EmptyFn
  <1>4. ~Exists(d) => {dev[i].name : i \in Children(d)} = {}
    BY <1>2
  <1> QED
    BY <1>1, <1>3, <1>4, EmptyFn DEF Lists

LEMMA PartialLists ==
  ASSUME CacheInv, NEW d, NEW T, d \in T, Partial(d)
  PROVE  \E listing, found : Lists(d, listing, found, T)
  <1>1. CASE Cache(d, <<>>, <<>>)
    BY <1>1, ListsNothing
  <1>2. CASE \E listing \in Listings(Children(d)) :
               \E found \in {<<>>, [i \in Children(d) |-> [dir |-> dev[i].dir, size |-> 0]]} :
                 Cache(d, listing, found)
    <2>1. PICK listing \in Listings(Children(d)),
               found \in {<<>>, [i \in Children(d) |-> [dir |-> dev[i].dir, size |-> 0]]} :
            Cache(d, listing, found)
      BY <1>2
    <2>2. Lists(d, listing, found, T)
      BY <2>1, ListsListing
    <2> QED
      BY <2>2
  <1> QED
    BY <1>1, <1>2 DEF Partial

LEMMA MoreSettles ==
  ASSUME NEW S, NEW T, S \subseteq T, Settles(S)
  PROVE  Settles(T)
  BY DEF Settles

LEMMA WholeKeeps ==
  ASSUME CacheInv, NEW d \in 0..last, ~Listed(d), op.kind # "idle", op.at \notin {"sent", "made"},
         List(d) \/ ListSkipping(d)
  PROVE  CacheInv'
  <1>1. RestOK
    BY TypeParts DEF CacheInv, TypeInv
  <1>2. faults \in Nat /\ load.faults \in Nat /\ faults <= load.faults
    BY <1>1, LoadsAssumption DEF RestOK
  <1>3. CASE List(d)
    <2>1. PICK listing \in Listings(Children(d)) : Cache(d, listing, AttrsOf(Children(d)))
      BY <1>3 DEF List
    <2>2. Lists(d, listing, AttrsOf(Children(d)), {})
      BY <2>1, ListsListing
    <2>3. ListStep(d, {})
      BY <1>2, <1>3, <2>2 DEF ListStep, List, Listed, Answered
    <2> QED
      BY <2>3, ListKeeps
  <1>4. CASE ListSkipping(d)
    <2>0. PICK i \in Children(d) : \E listing \in Listings(Children(d) \ {i}) :
            Cache(d, listing, AttrsOf(Children(d) \ {i}))
      BY <1>4 DEF ListSkipping
    <2>1. PICK listing \in Listings(Children(d) \ {i}) :
            Cache(d, listing, AttrsOf(Children(d) \ {i}))
      BY <2>0
    <2>2. Lists(d, listing, AttrsOf(Children(d) \ {i}), {d})
      BY <2>1, ListsListing
    <2>3. ListStep(d, {d})
      BY <1>2, <1>4, <2>2 DEF ListStep, ListSkipping, Listed, Fault
    <2> QED
      BY <2>3, ListKeeps
  <1> QED
    BY <1>3, <1>4

LEMMA InterruptedKeeps ==
  ASSUME CacheInv, NEW d \in 0..last, ~Listed(d), op.at \notin {"sent", "made"},
         NEW S, S \subseteq 0..last, Settles(S), ListInterrupted(d, S)
  PROVE  CacheInv'
  <1>1. RestOK /\ CachesOK
    BY TypeParts DEF CacheInv, TypeInv
  <1>2. faults \in Nat /\ load.faults \in Nat /\ faults <= load.faults
    BY <1>1, LoadsAssumption DEF RestOK
  <1>3. UNCHANGED device /\ last' = last
    BY DEF ListInterrupted, device
  <1>4. CASE Fault(S \cup {d}) /\ Partial(d) /\ Error
    <2>1. \E listing, found : Lists(d, listing, found, S \cup {d})
      BY <1>4, PartialLists
    <2>2. Settles(S \cup {d})
      BY MoreSettles
    <2>3. ListStep(d, S \cup {d})
      BY <1>2, <1>3, <1>4, <2>1, <2>2 DEF ListStep, Listed, Fault, Error, Done, Settles
    <2> QED
      BY <2>3, ListKeeps
  <1>5. CASE Fault(S \cup {d} \cup edits) /\ DeviceGone
    <2>1. doubted' = doubted \cup S \cup {d} \cup edits /\ doubted' \subseteq 0..last'
      BY <1>1, <1>3, <1>5 DEF Fault, RestOK, CachesOK
    <2>2. Ends(S)
      BY <1>2, <1>3, <1>5, <2>1, NoCall DEF Ends, Fault
    <2> QED
      BY <1>5, <2>1, <2>2, EndsKeep DEF DeviceGone, Fault
  <1>6. CASE ~Exists(d) /\ doubted' = doubted \cup S /\ UNCHANGED <<load, faults>>
             /\ Cache(d, <<>>, <<>>) /\ Error
    <2>1. Lists(d, <<>>, <<>>, S)
      BY <1>6, ListsNothing
    <2>2. ListStep(d, S)
      BY <1>2, <1>3, <1>6, <2>1 DEF ListStep, Listed, Error, Done, Settles
    <2> QED
      BY <2>2, ListKeeps
  <1>7. CASE Throws(S)
    BY <1>7, ThrowsKeeps
  <1> QED
    BY <1>4, <1>5, <1>6, <1>7 DEF ListInterrupted

LEMMA GetChildrenKeeps ==
  ASSUME CacheInv, NEW d \in 0..last, ~Listed(d), op.at \notin {"sent", "made"},
         NEW S, S \subseteq 0..last, Settles(S), GetChildrenOr(d, S)
  PROVE  CacheInv'
  BY WholeKeeps, InterruptedKeeps DEF GetChildrenOr, Settles

(* Attributes that come with the listing of the parent.                    *)
LEMMA AttrListingKeeps ==
  ASSUME CacheInv, NEW i \in 0..last, op.at \notin {"sent", "made"},
         NEW S, S \subseteq 0..last, Settles(S), AttrListing(i, S)
  PROVE  CacheInv'
  <1>1. CASE Exists(i) /\ ~Listed(dev[i].parent) /\ GetChildrenOr(dev[i].parent, S)
    <2>1. i \in DOMAIN dev
      BY <1>1 DEF AttrListing, HasAttr, Exists
    <2>2. dev[i].parent \in 0..last
      BY <2>1, TypeParts DEF CacheInv, TypeInv, DevOK
    <2> QED
      BY <1>1, <2>2, GetChildrenKeeps
  <1>2. CASE Refused(S)
    BY <1>2, RefusedKeeps
  <1> QED
    BY <1>1, <1>2 DEF AttrListing

----------------------------------------------------------------------------
(* Handlers that only read *)

LEMMA StartSettles ==
  ASSUME CacheInv, NEW S, op.kind # "idle",
         op.at = "start" \/ op.kind \notin {"readdir", "create", "mkdir", "rename"}
  PROVE  Settles(S) /\ op.at = "start"
  <1>1. OpOK
    BY DEF CacheInv, TypeInv
  <1>2. op.at = "start"
    BY <1>1 DEF OpOK, Makes
  <1> QED
    BY <1>2 DEF Settles, Behind

(* A reply that lets the kernel know of an object.                         *)
LEMMA DoneKeeps ==
  ASSUME CacheInv, op.kind # "idle", op.at \in {"start", "cached"},
         Done, Answered, UNCHANGED <<device, caches, mounted>>,
         known' = known \/ \E i \in DOMAIN attrs : known' = Known(i)
  PROVE  CacheInv'
  <1>1. DevOK /\ CachesOK /\ RestOK
    BY TypeParts DEF CacheInv, TypeInv
  <1>2. /\ dev' = dev /\ files' = files /\ attrs' = attrs /\ edits' = edits /\ last' = last
        /\ dirCache' = dirCache /\ draft' = draft
        /\ op' = Idle /\ load' = load /\ faults' = faults /\ doubted' = doubted /\ mounted' = mounted
    BY DEF device, caches, Done, Answered
  <1>3. Settles({}) /\ Ends({})
    <2>1. faults \in Nat /\ faults <= load.faults
      BY <1>1, LoadsAssumption DEF RestOK
    <2>2. DevStep({})
      BY NoCall
    <2> QED
      BY <1>1, <1>2, <2>1, <2>2 DEF Settles, Ends, Behind, RestOK
  <1>4. DOMAIN known' \subseteq 1..last /\ KnownTrue'
    <2>1. CASE known' = known
      BY <1>1, <1>2, <2>1 DEF RestOK, CacheInv, TreeInv, KnownTrue
    <2>2. CASE \E i \in DOMAIN attrs : known' = Known(i)
      <3>1. PICK i \in DOMAIN attrs : known' = Known(i)
        BY <2>2
      <3>2. /\ DOMAIN known' = DOMAIN known \cup {i}
            /\ known'[i] = IF attrs[i].dir THEN "dir" ELSE "file"
            /\ \A j \in DOMAIN known \ {i} : known'[j] = known[j]
        BY <3>1 DEF Known, Put, Over
      <3>3. i \in 1..last
        BY <1>1, CachesTyped
      <3> QED
        BY <1>1, <1>2, <3>2, <3>3 DEF RestOK, CacheInv, TreeInv, KnownTrue, KindsTrue
    <2> QED
      BY <2>1, <2>2
  <1>5. TypeInv'
    <2>1. DevOK' /\ CachesOK'
      BY <1>1, <1>2 DEF DevOK, CachesOK
    <2>2. RestOK'
      BY <1>1, <1>2, <1>4 DEF RestOK
    <2>3. 0 \in 0..MaxSize /\ 0 \in 0..last'
      BY <1>1, <1>2, BoundsAssumption DEF DevOK
    <2>4. OpOK'
      BY <1>1, <1>2, <2>3, NamesThere DEF OpOK, Idle, Kinds, Top, Makes, RestOK
    <2> QED
      BY <2>1, <2>2, <2>4, TypePartsNext DEF TypeInv
  <1>6. TreeInv'
    BY <1>2, <1>4 DEF CacheInv, TreeInv, Tree, KindsTrue, EntriesOwn, AttrsListed
  <1>7. SizeInv' /\ StepInv' /\ (NoNamesakes => NamesInv')
    BY <1>2, <1>3, EndsSizes, EndsSteps, EndsNames
  <1> QED
    BY <1>5, <1>6, <1>7 DEF CacheInv

LEMMA LookupKeeps == CacheInv /\ (ListDir \/ Lookup \/ NoEntry) => CacheInv'
  <1> SUFFICES ASSUME CacheInv, ListDir \/ Lookup \/ NoEntry
               PROVE  CacheInv'
    OBVIOUS
  <1>1. OpOK /\ CachesOK
    BY TypeParts DEF CacheInv, TypeInv
  <1>2. CASE ListDir
    <2>1. op.kind # "idle" /\ op.at = "start"
      BY <1>2 DEF ListDir, NeedsListing
    <2>2. op.dir \in 0..last /\ Settles({})
      BY <1>1, <2>1, StartSettles DEF OpOK
    <2> QED
      BY <1>2, <2>1, <2>2, GetChildrenKeeps DEF ListDir, GetChildren
  <1>3. CASE Lookup
    <2>1. op.kind # "idle" /\ op.at = "start"
      BY <1>3 DEF Lookup, At
    <2>2. known' = known \/ \E i \in DOMAIN attrs : known' = Known(i)
      <3>1. HasEntry(op.dir, op.name) => Entry(op.dir, op.name) \in 1..last
        BY <1>1, <1>3, CachesTyped DEF HasEntry, Entry, Lookup, Listed
      <3> QED
        BY <1>3, <3>1 DEF Lookup, HasAttr, Top
    <2> QED
      BY <1>3, <2>1, <2>2, DoneKeeps DEF Lookup
  <1>4. CASE NoEntry
    <2>1. op.kind # "idle" /\ op.at = "start"
      BY <1>4 DEF NoEntry
    <2> QED
      BY <1>4, <2>1, StartSettles, AnswersKeeps DEF NoEntry
  <1> QED
    BY <1>2, <1>3, <1>4

LEMMA GetAttrKeeps == CacheInv /\ (EntryListing \/ GetAttr \/ Open \/ StatFS) => CacheInv'
  <1> SUFFICES ASSUME CacheInv, EntryListing \/ GetAttr \/ Open \/ StatFS
               PROVE  CacheInv'
    OBVIOUS
  <1>1. OpOK /\ CachesOK /\ DevOK /\ RestOK
    BY TypeParts DEF CacheInv, TypeInv
  <1>2. op.kind # "idle" /\ op.at = "start"
    BY DEF EntryListing, GetAttr, Open, StatFS, At
  <1>3. \A S : Settles(S)
    BY <1>2, StartSettles
  <1>4. faults \in Nat /\ load.faults \in Nat
    BY <1>1, LoadsAssumption DEF RestOK
  <1>5. CASE EntryListing
    <2> DEFINE parent == dev[op.obj].parent
    <2>1. op.obj \in DOMAIN dev /\ parent \in 0..last /\ ~Listed(parent)
      BY <1>1, <1>5 DEF EntryListing, Exists, HasAttr, DevOK
    <2>2. CASE List(parent) \/ ListSkipping(parent)
      BY <1>2, <2>1, <2>2, WholeKeeps
    <2>3. CASE Fault({parent}) /\ Partial(parent) /\ Error /\ UNCHANGED device
      <3>1. \E listing, found : Lists(parent, listing, found, {parent})
        BY <2>3, PartialLists
      <3>2. ListStep(parent, {parent})
        BY <1>2, <1>3, <1>4, <2>1, <2>3, <3>1 DEF ListStep, Listed, Fault, Error, Done
      <3> QED
        BY <3>2, ListKeeps
    <2>4. CASE Fault({parent}) /\ UNCHANGED caches /\ Error /\ UNCHANGED device
      <3> HIDE DEF parent
      <3>1. Ends({parent})
        <4>1. DevStep({parent}) /\ last' = last
          BY <2>4, NoCall DEF device
        <4>2. doubted' = doubted \cup {parent} /\ doubted' \subseteq 0..last'
          BY <1>1, <2>1, <2>4, <4>1 DEF Fault, RestOK
        <4> QED
          BY <1>4, <2>4, <4>1, <4>2 DEF Ends, Fault
      <3> QED
        BY <1>3, <2>4, <3>1, EndsKeep
    <2> QED
      BY <1>5, <2>2, <2>3, <2>4 DEF EntryListing
  <1>6. CASE Answers
    BY <1>3, <1>6, AnswersKeeps
  <1>7. CASE Fault({}) /\ Error /\ UNCHANGED <<device, caches>>
    <2>1. Ends({})
      BY <1>1, <1>4, <1>7, NoCall DEF Ends, Fault, RestOK, device
    <2> QED
      BY <1>3, <1>7, <2>1, EndsKeep
  <1>8. CASE Refused({})
    BY <1>3, <1>8, RefusedKeeps
  <1> QED
    BY <1>5, <1>6, <1>7, <1>8 DEF GetAttr, Open, StatFS

LEMMA FileReadsKeep == CacheInv /\ (FileListing \/ Read \/ FileGone \/ SessionGone) => CacheInv'
  <1> SUFFICES ASSUME CacheInv, FileListing \/ Read \/ FileGone \/ SessionGone
               PROVE  CacheInv'
    OBVIOUS
  <1>1. OpOK
    BY DEF CacheInv, TypeInv
  <1>2. op.kind \in {"read", "write", "truncate"}
    BY DEF FileListing, Read, FileGone, SessionGone, At, Reads, Editing
  <1>3. op.at = "start" /\ \A S : Settles(S)
    BY <1>2, StartSettles
  <1>4. CASE FileListing
    <2>1. AttrListing(op.obj, {})
      BY <1>4 DEF FileListing, ListParent
    <2>2. op.obj \in 0..last /\ op.at \notin {"sent", "made"} /\ Settles({})
      BY <1>1, <1>3 DEF OpOK
    <2> QED
      BY <2>1, <2>2, AttrListingKeeps
  <1>5. CASE Answers
    BY <1>3, <1>5, AnswersKeeps
  <1>6. CASE Refused({})
    BY <1>3, <1>6, RefusedKeeps
  <1>7. CASE Throws({})
    BY <1>3, <1>7, ThrowsKeeps
  <1> QED
    BY <1>4, <1>5, <1>6, <1>7 DEF Read, FileGone, SessionGone

LEMMA UnlinkReadsKeep == CacheInv /\ (UnlinkListing \/ NotEmpty) => CacheInv'
  <1> SUFFICES ASSUME CacheInv, UnlinkListing \/ NotEmpty
               PROVE  CacheInv'
    OBVIOUS
  <1>1. OpOK /\ CachesOK
    BY TypeParts DEF CacheInv, TypeInv
  <1>2. Unlinking /\ op.kind # "idle" /\ op.at = "start"
    BY DEF UnlinkListing, NotEmpty, Unlinking, At
  <1>3. \A S : Settles(S)
    BY <1>2, StartSettles
  <1>4. Child \in 1..last
    BY <1>1, <1>2, CachesTyped DEF Unlinking, Listed, HasEntry, Child, Entry
  <1>5. CASE ListParent(Child)
    BY <1>2, <1>3, <1>4, <1>5, AttrListingKeeps DEF ListParent
  <1>6. CASE ~Listed(Child) /\ GetChildren(Child)
    BY <1>2, <1>3, <1>4, <1>6, GetChildrenKeeps DEF GetChildren
  <1>7. CASE Throws({})
    BY <1>3, <1>7, ThrowsKeeps
  <1>8. CASE Answers
    BY <1>3, <1>8, AnswersKeeps
  <1> QED
    BY <1>5, <1>6, <1>7, <1>8 DEF UnlinkListing, NotEmpty

LEMMA ReadDirKeeps ==
  CacheInv /\ (ReadDirListing \/ ReadDirNoAttr \/ ReadDirParent \/ ReadDirOrphan \/ ReadDirHit)
    => CacheInv'
  <1> SUFFICES ASSUME CacheInv, ReadDirListing \/ ReadDirNoAttr \/ ReadDirParent
                                  \/ ReadDirOrphan \/ ReadDirHit
               PROVE  CacheInv'
    OBVIOUS
  <1>1. OpOK /\ DevOK
    BY TypeParts DEF CacheInv, TypeInv
  <1>2. op.kind = "readdir" /\ op.at \in {"start", "filling"} /\ op.dir \in 0..last
    BY <1>1 DEF OpOK, ReadDirListing, ReadDirNoAttr, ReadDirParent, ReadDirOrphan, ReadDirHit, At
  <1>3. op.at = "start" => \A S : Settles(S)
    BY <1>2, StartSettles
  <1>4. op.at = "filling" => \A S : (op.dir \in S \/ ~Exists(op.dir)) => Settles(S)
    BY <1>2 DEF Settles, Behind
  <1>5. CASE ReadDirListing
    <2>1. op.at = "start"
      BY <1>5 DEF ReadDirListing, At
    <2>2. CASE ListParent(op.dir)
      BY <1>2, <1>3, <2>1, <2>2, AttrListingKeeps DEF ListParent
    <2>3. CASE ~Listed(op.dir) /\ GetChildren(op.dir)
      BY <1>2, <1>3, <2>1, <2>3, GetChildrenKeeps DEF GetChildren
    <2> QED
      BY <1>5, <2>2, <2>3 DEF ReadDirListing
  <1>6. CASE ReadDirNoAttr
    BY <1>3, <1>6, ThrowsKeeps DEF ReadDirNoAttr, At
  <1>7. CASE ReadDirParent
    <2>1. op.at = "filling" /\ op.dir \in DOMAIN dev
      BY <1>7 DEF ReadDirParent, At
    <2>2. dev[op.dir].parent \in 0..last /\ {op.dir} \subseteq 0..last /\ Settles({op.dir})
      BY <1>1, <1>2, <1>4, <2>1 DEF DevOK
    <2>3. CASE AttrListing(dev[op.dir].parent, {op.dir})
      BY <2>1, <2>2, <2>3, AttrListingKeeps
    <2>4. CASE Throws({op.dir})
      BY <2>2, <2>4, ThrowsKeeps
    <2>5. CASE Refused({op.dir})
      BY <2>2, <2>5, RefusedKeeps
    <2> QED
      BY <1>7, <2>3, <2>4, <2>5 DEF ReadDirParent
  <1>8. CASE ReadDirOrphan
    BY <1>4, <1>8, ThrowsKeeps DEF ReadDirOrphan, At
  <1>9. CASE ReadDirHit
    BY <1>3, <1>9, AnswersKeeps DEF ReadDirHit, At
  <1> QED
    BY <1>5, <1>6, <1>7, <1>8, <1>9

(* A step of a request that changes neither the device nor what it is      *)
(* known by, but the serialised directories and how far the request is.    *)
LEMMA SerialKeeps ==
  ASSUME CacheInv, op.kind # "idle", op.at \notin {"sent", "made"},
         UNCHANGED <<load, device, files, attrs, edits, known, mounted, faults>>,
         op' = Idle \/ (op' = [op EXCEPT !.at = "filling"] /\ op.kind = "readdir"),
         op'.at = "filling" => op.dir \in DOMAIN files \cap DOMAIN dirCache',
         doubted' \in {doubted, doubted \cup {op.dir}},
         DOMAIN dirCache' \subseteq DOMAIN files,
         \A d \in DOMAIN dirCache' : dirCache'[d] \in PartialFns(Names, 1..last),
         DirCacheBut(Behind)'
  PROVE  CacheInv'
  <1>1. DevOK /\ CachesOK /\ RestOK /\ OpOK
    BY TypeParts DEF CacheInv, TypeInv
  <1>2. /\ dev' = dev /\ draft' = draft /\ last' = last
        /\ files' = files /\ attrs' = attrs /\ edits' = edits
        /\ known' = known /\ mounted' = mounted /\ faults' = faults /\ load' = load
    BY DEF device
  <1>3. TypeInv'
    <2>1. DevOK' /\ CachesOK'
      BY <1>1, <1>2 DEF DevOK, CachesOK
    <2>2. mounted
      BY <1>1 DEF RestOK, Idle
    <2>3. RestOK'
      BY <1>1, <1>2, <2>2 DEF RestOK, OpOK
    <2>4. 0 \in 0..MaxSize /\ 0 \in 0..last'
      BY <1>1, <1>2, BoundsAssumption DEF DevOK
    <2>5. CASE op' = Idle
      <3>1. OpOK'
        BY <1>1, <1>2, <2>4, <2>5, NamesThere DEF OpOK, Idle, Kinds, Top, Makes, RestOK
      <3> QED
        BY <2>1, <2>3, <3>1, TypePartsNext DEF TypeInv
    <2>6. CASE op' = [op EXCEPT !.at = "filling"] /\ op.kind = "readdir"
      <3>1. OpOK'
        BY <1>1, <1>2, <2>6 DEF OpOK, Makes
      <3> QED
        BY <2>1, <2>3, <3>1, TypePartsNext DEF TypeInv
    <2> QED
      BY <2>5, <2>6
  <1>4. TreeInv'
    BY <1>2 DEF CacheInv, TreeInv, Tree, KindsTrue, KnownTrue, EntriesOwn, AttrsListed
  <1>5. op'.kind \notin Makes /\ op'.kind # "write"
    BY <1>1 DEF OpOK, Idle, Makes
  <1>6. NoNamesakes => NamesInv'
    <2>1. Pending = {} /\ Pending' = {}
      BY <1>5 DEF Pending
    <2> QED
      BY <1>2, <1>5, <2>1 DEF CacheInv, NamesInv, NamesApart, MirrorBut, NameFree, Exists, Children
  <1>7. StepInv'
    BY <1>5 DEF StepInv, HandlesLeft, MakesInDir
  <1>8. SizeInv'
    BY <1>2, <1>5 DEF CacheInv, SizeInv, EditsKnown, DraftsAccounted, DraftsAhead, SizesTrue,
                      WritesLeft, Trusted, Content
  <1> QED
    BY <1>3, <1>4, <1>6, <1>7, <1>8 DEF CacheInv

LEMMA ReadDirMissKeeps == CacheInv /\ ReadDirMiss => CacheInv'
  <1> SUFFICES ASSUME CacheInv, ReadDirMiss
               PROVE  CacheInv'
    OBVIOUS
  <1>1. DevOK /\ CachesOK /\ RestOK /\ OpOK
    BY TypeParts DEF CacheInv, TypeInv
  <1>2. /\ op.kind = "readdir" /\ op.at = "start" /\ op.dir \in DOMAIN files
        /\ op' = [op EXCEPT !.at = "filling"] /\ dev' = dev /\ files' = files /\ doubted' = doubted
    BY DEF ReadDirMiss, At, Listed, Goto, device, Answered
  <1>3. /\ DOMAIN dirCache' = DOMAIN dirCache \cup {op.dir}
        /\ dirCache'[op.dir] = <<>>
        /\ \A d \in DOMAIN dirCache \ {op.dir} : dirCache'[d] = dirCache[d]
    BY DEF ReadDirMiss, Put, Over
  <1>4. \A d \in DOMAIN dirCache' : dirCache'[d] \in PartialFns(Names, 1..last)
    BY <1>1, <1>3, PartialEmpty DEF CachesOK
  <1>5. Behind' = {op.dir} /\ Behind = {}
    BY <1>1, <1>2 DEF Behind, OpOK
  <1>6. DirCacheBut(Behind)'
    BY <1>2, <1>3, <1>5 DEF CacheInv, StepInv, DirCacheBut, Exists
  <1>7. DOMAIN dirCache' \subseteq DOMAIN files
    BY <1>1, <1>2, <1>3 DEF CachesOK
  <1> QED
    BY <1>2, <1>3, <1>4, <1>6, <1>7, SerialKeeps DEF ReadDirMiss, Answered

LEMMA ReadDirFillKeeps == CacheInv /\ ReadDirFill => CacheInv'
  <1> SUFFICES ASSUME CacheInv, ReadDirFill
               PROVE  CacheInv'
    OBVIOUS
  <1>1. DevOK /\ CachesOK /\ RestOK /\ OpOK
    BY TypeParts DEF CacheInv, TypeInv
  <1>2. /\ op.kind = "readdir" /\ op.at = "filling" /\ UNCHANGED device
        /\ op.dir \in DOMAIN files \cap DOMAIN dirCache /\ op.dir \in 0..last
    BY <1>1 DEF ReadDirFill, At, OpOK
  <1>3. dev' = dev /\ Settles({op.dir})
    BY <1>2 DEF device, Settles, Behind
  <1>4. ASSUME NEW shown, shown \in PartialFns(Names, 1..last),
               dirCache' = [dirCache EXCEPT ![op.dir] = shown],
               UNCHANGED <<load, files, attrs, edits, known, mounted, faults>>, op' = Idle,
               \/ doubted' = doubted /\ shown = files[op.dir]
               \/ doubted' = doubted \cup {op.dir}
        PROVE  CacheInv'
    <2>1. /\ DOMAIN dirCache' = DOMAIN dirCache /\ dirCache'[op.dir] = shown
          /\ \A d \in DOMAIN dirCache \ {op.dir} : dirCache'[d] = dirCache[d]
      BY <1>2, <1>4
    <2>2. Behind = {op.dir} /\ Behind' = {} /\ op'.at # "filling"
      BY <1>2, <1>4 DEF Behind, Idle
    <2>3. DirCacheBut(Behind)'
      BY <1>3, <1>4, <2>1, <2>2 DEF CacheInv, StepInv, DirCacheBut, Exists
    <2>4. \A d \in DOMAIN dirCache' : dirCache'[d] \in PartialFns(Names, 1..last)
      BY <1>1, <1>4, <2>1 DEF CachesOK
    <2>5. DOMAIN dirCache' \subseteq DOMAIN files
      BY <1>1, <2>1 DEF CachesOK
    <2>6. doubted' \in {doubted, doubted \cup {op.dir}}
      BY <1>4
    <2> QED
      BY <1>2, <1>4, <2>2, <2>3, <2>4, <2>5, <2>6, SerialKeeps
  <1> DEFINE all == files[op.dir]
             good == {n \in DOMAIN all : HasAttr(all[n])}
  <1>5. all \in PartialFns(Names, 1..last)
    BY <1>1, <1>2 DEF CachesOK
  <1>6. CASE /\ dirCache' = [dirCache EXCEPT ![op.dir] = all]
             /\ Done /\ Answered /\ UNCHANGED <<files, attrs, edits, known, mounted>>
    BY <1>4, <1>5, <1>6 DEF Done, Answered
  <1>7. CASE /\ \E shown \in SUBSET good :
                  dirCache' = [dirCache EXCEPT ![op.dir] = Restrict(all, shown)]
             /\ doubted' = doubted \cup {op.dir}
             /\ Error /\ UNCHANGED <<load, files, attrs, edits, faults>>
    <2>1. PICK shown \in SUBSET good :
            dirCache' = [dirCache EXCEPT ![op.dir] = Restrict(all, shown)]
      BY <1>7
    <2>2. Restrict(all, shown) \in PartialFns(Names, 1..last)
      <3>1. DOMAIN all \subseteq Names /\ all \in [DOMAIN all -> 1..last]
        BY <1>5, PartialFn
      <3>2. Restrict(all, shown) \in [shown -> 1..last] /\ DOMAIN Restrict(all, shown) = shown
        BY <2>1, <3>1 DEF Restrict
      <3> QED
        BY <2>1, <3>1, <3>2, PartialFn
    <2> QED
      BY <1>4, <1>7, <2>1, <2>2 DEF Error, Done
  <1>8. CASE Throws({op.dir})
    BY <1>2, <1>3, <1>8, ThrowsKeeps
  <1>9. CASE Refused({op.dir})
    BY <1>2, <1>3, <1>9, RefusedKeeps
  <1> QED
    BY <1>6, <1>7, <1>8, <1>9 DEF ReadDirFill

----------------------------------------------------------------------------
(* Create, MakeNode and MakeDir *)

Fresh == [name |-> op.name, parent |-> op.dir, dir |-> op.kind = "mkdir", size |-> 0, rev |-> 0]

NewObject == /\ last' = last + 1 /\ dev' = Put(dev, last + 1, Fresh)
             /\ UNCHANGED draft

LEMMA NewObjectFacts ==
  ASSUME CacheInv, Creating("start"), Exists(op.dir), NewObject
  PROVE  /\ last \in Nat /\ last + 1 \notin DOMAIN dev
         /\ DOMAIN dev' = DOMAIN dev \cup {last + 1}
         /\ dev'[last + 1] = Fresh
         /\ \A i \in DOMAIN dev : dev'[i] = dev[i]
         /\ DevOK' /\ Tree' /\ DraftsAhead'
         /\ \A i \in DOMAIN dev : Content(i)' = Content(i)
  <1>1. DevOK /\ OpOK
    BY TypeParts DEF CacheInv, TypeInv
  <1>2. last \in Nat /\ last + 1 \notin DOMAIN dev
    BY <1>1 DEF DevOK
  <1>3. /\ DOMAIN dev' = DOMAIN dev \cup {last + 1}
        /\ dev'[last + 1] = Fresh
        /\ \A i \in DOMAIN dev : dev'[i] = dev[i]
    BY <1>2 DEF NewObject, Put, Over
  <1>4. last' = last + 1 /\ draft' = draft
    BY DEF NewObject
  <1>5. op.kind \in Makes /\ op.at = "start"
    BY DEF Creating, At, Makes
  <1>6. last' \in 0..MaxObjects
    BY <1>2, <1>4, <1>5, BoundsAssumption DEF CacheInv, StepInv, HandlesLeft
  <1>7. DevOK'
    <2>1. Fresh \in [name : Names, parent : 0..last', dir : BOOLEAN,
                    size : 0..MaxSize, rev : 0..MaxWrites]
      BY <1>1, <1>2, <1>4, BoundsAssumption DEF Fresh, OpOK
    <2>2. \A i \in DOMAIN dev : dev'[i] \in [name : Names, parent : 0..last', dir : BOOLEAN,
                                             size : 0..MaxSize, rev : 0..MaxWrites]
      <3>1. 0..last \subseteq 0..last'
        BY <1>2, <1>4
      <3> QED
        BY <1>1, <1>3, <3>1 DEF DevOK
    <2>3. draft' \in PartialFns(DOMAIN dev', [size : 0..MaxSize, rev : 0..MaxWrites])
      <3> DEFINE R == [size : 0..MaxSize, rev : 0..MaxWrites]
      <3>1. draft \in PartialFns(DOMAIN dev, R)
        BY <1>1 DEF DevOK
      <3> HIDE DEF R
      <3>2. draft \in PartialFns(DOMAIN dev', R)
        BY <1>3, <3>1, PartialFn
      <3> QED
        BY <1>4, <3>2 DEF R
    <2>4. DOMAIN dev' \subseteq 1..last'
      BY <1>1, <1>2, <1>3, <1>4 DEF DevOK
    <2> QED
      BY <1>3, <1>6, <2>1, <2>2, <2>3, <2>4 DEF DevOK
  <1>8. Tree'
    <2>1. op.dir = Top \/ (op.dir \in DOMAIN dev /\ dev[op.dir].dir)
      BY <1>5 DEF CacheInv, StepInv, MakesInDir, Exists
    <2> QED
      BY <1>2, <1>3, <2>1 DEF CacheInv, TreeInv, Tree, Fresh
  <1>9. DOMAIN draft \subseteq DOMAIN dev
    BY <1>1, PartialFn DEF DevOK
  <1>10. DraftsAhead'
    BY <1>3, <1>4, <1>9 DEF CacheInv, SizeInv, DraftsAhead
  <1>11. \A i \in DOMAIN dev : Content(i)' = Content(i)
    BY <1>3, <1>4 DEF Content
  <1> QED
    BY <1>2, <1>3, <1>7, <1>8, <1>10, <1>11

LEMMA NewObjectLost ==
  ASSUME CacheInv, Creating("start"), Exists(op.dir), NewObject, Lost({op.dir})
  PROVE  CacheInv'
  <1>1. OpOK /\ DevOK
    BY TypeParts DEF CacheInv, TypeInv
  <1>2. op.kind \in Makes /\ op.at = "start" /\ op.kind # "idle" /\ op.kind # "write"
    BY DEF Creating, At, Makes
  <1>3. last' = last + 1 /\ draft' = draft /\ last \in Nat
    BY NewObjectFacts DEF NewObject
  <1>4. DevStep({op.dir})
    BY <1>2, <1>3, NewObjectFacts DEF DevStep, Fresh
  <1>5. {op.dir} \subseteq 0..last' /\ Settles({op.dir})
    BY <1>1, <1>2, <1>3, StartSettles DEF OpOK
  <1> QED
    BY <1>4, <1>5, LostKeeps

LEMMA NewObjectKeeps ==
  ASSUME CacheInv, Creating("start"), Exists(op.dir), NewObject,
         op' = [op EXCEPT !.obj = last + 1, !.at = IF op.kind = "mkdir" THEN "made" ELSE "sent"],
         Answered, UNCHANGED <<caches, known, mounted>>
  PROVE  CacheInv'
  <1>1. DevOK /\ CachesOK /\ RestOK /\ OpOK
    BY TypeParts DEF CacheInv, TypeInv
  <1> DEFINE new == last + 1
  <1>2. /\ last \in Nat /\ new \notin DOMAIN dev
        /\ DOMAIN dev' = DOMAIN dev \cup {new}
        /\ dev'[new] = Fresh
        /\ \A i \in DOMAIN dev : dev'[i] = dev[i]
        /\ DevOK' /\ Tree' /\ DraftsAhead'
        /\ \A i \in DOMAIN dev : Content(i)' = Content(i)
    BY NewObjectFacts
  <1>3. /\ last' = new /\ draft' = draft /\ files' = files /\ attrs' = attrs /\ edits' = edits
        /\ dirCache' = dirCache /\ known' = known /\ mounted' = mounted
        /\ load' = load /\ faults' = faults /\ doubted' = doubted
    BY DEF NewObject, caches, Answered
  <1>4. /\ op.kind \in Makes /\ op.at = "start" /\ op'.kind = op.kind /\ op'.dir = op.dir
        /\ op'.name = op.name /\ op'.obj = new /\ op'.retried = op.retried
        /\ op'.at \in {"sent", "made"} /\ (op'.at = "sent" => op.kind = "create")
    BY <1>1 DEF Creating, At, Makes, OpOK
  <1>5. Fresh.parent = op.dir /\ Fresh.name = op.name
    BY DEF Fresh
  <1>6. /\ new \notin 0..last /\ DOMAIN attrs \subseteq 1..last /\ DOMAIN known \subseteq 1..last
        /\ op.dir \in 0..last /\ new \in 1..last' /\ 0..last \subseteq 0..last'
        /\ 1..last \subseteq 1..last'
    BY <1>1, <1>2, <1>3, CachesTyped DEF RestOK, OpOK
  <1>7. \A d \in DOMAIN files : \A n \in DOMAIN files[d] : files[d][n] \in 1..last
    BY <1>1, CachesTyped
  <1> HIDE DEF new
  <1>8. TypeInv'
    <2>1. CachesOK'
      <3>1. last' \in Nat /\ last <= last'
        BY <1>2, <1>3 DEF new
      <3>2. UNCHANGED caches
        BY <1>3 DEF caches
      <3> QED
        BY <1>1, <1>2, <3>1, <3>2, CachesGrow
    <2>2. mounted
      BY <1>1, <1>4 DEF RestOK, Idle, Makes
    <2>3. RestOK'
      BY <1>1, <1>3, <1>6, <2>2 DEF RestOK
    <2>4. op' \in [kind : Kinds, dir : 0..last', name : Names, to : Names, obj : 0..last',
                   size : 0..MaxSize, retried : BOOLEAN,
                   at : {"start", "filling", "sent", "made", "cached", "cleared"}]
      <3>1. new \in 0..last'
        BY <1>2, <1>3 DEF new
      <3>2. PICK at : op' = [op EXCEPT !.obj = new, !.at = at] /\ at \in {"made", "sent"}
        BY DEF new
      <3> QED
        BY <1>1, <1>6, <3>1, <3>2 DEF OpOK
    <2>5. OpOK'
      BY <1>4, <1>6, <2>4 DEF OpOK, Makes, Top
    <2> QED
      BY <1>2, <2>1, <2>3, <2>5, TypePartsNext DEF TypeInv
  <1>9. TreeInv'
    <2>1. KindsTrue' /\ KnownTrue' /\ AttrsListed'
      BY <1>2, <1>3, <1>6 DEF CacheInv, TreeInv, KindsTrue, KnownTrue, AttrsListed
    <2>2. EntriesOwn'
      BY <1>2, <1>3, <1>6, <1>7 DEF CacheInv, TreeInv, EntriesOwn
    <2> QED
      BY <1>2, <2>1, <2>2 DEF TreeInv
  <1>10. ASSUME NoNamesakes
         PROVE  NamesInv'
    <2>1. NamesApart /\ MirrorBut(Pending) /\ NameFree
      BY <1>10 DEF CacheInv, NamesInv
    <2>2. NamesApart'
      BY <1>2, <1>3, <1>4, <1>5, <2>1 DEF NamesApart, NameFree, Children
    <2>3. Pending = {} /\ Pending' = {new}
      BY <1>2, <1>4 DEF Pending
    <2>4. ASSUME NEW d \in DOMAIN files \ doubted, Exists(d)'
          PROVE  /\ \A i \in Children(d)' \ {new} :
                      dev'[i].name \in DOMAIN files[d] /\ files[d][dev'[i].name] = i
                 /\ \A n \in DOMAIN files[d] :
                      files[d][n] \in DOMAIN dev' /\ dev'[files[d][n]].name = n
      <3>1. Exists(d)
        BY <1>1, <1>2, <1>6, <2>4 DEF Exists, CachesOK
      <3>2. \A i \in Children(d)' \ {new} : i \in Children(d) /\ dev'[i] = dev[i]
        BY <1>2 DEF Children
      <3> QED
        BY <1>2, <2>1, <2>3, <2>4, <3>1, <3>2 DEF MirrorBut
    <2>5. MirrorBut(Pending)'
      BY <1>3, <2>3, <2>4 DEF MirrorBut
    <2>6. NameFree'
      BY <1>4 DEF NameFree
    <2> QED
      BY <2>2, <2>5, <2>6 DEF NamesInv
  <1>11. StepInv'
    <2>1. Behind = {} /\ Behind' = {}
      BY <1>4 DEF Behind
    <2>2. \A d \in DOMAIN dirCache : Exists(d)' => Exists(d)
      BY <1>1, <1>2, <1>6 DEF Exists, CachesOK
    <2>3. DirCacheBut(Behind)'
      BY <1>3, <2>1, <2>2 DEF CacheInv, StepInv, DirCacheBut
    <2>4. HandlesLeft'
      <3>1. MaxObjects \in Nat
        BY BoundsAssumption
      <3>2. ~op.retried /\ faults < load.faults => last + 2 <= MaxObjects
        BY <1>4 DEF CacheInv, StepInv, HandlesLeft
      <3>3. ~op.retried /\ faults < load.faults => last' + 1 <= MaxObjects
        BY <1>2, <1>3, <3>1, <3>2 DEF new
      <3> QED
        BY <1>3, <1>4, <3>3 DEF HandlesLeft
    <2>5. MakesInDir'
      <3>1. /\ op.dir \in DOMAIN dev => dev[op.dir].dir
            /\ ~op.retried => op.dir \in DOMAIN files
        BY <1>4 DEF CacheInv, StepInv, MakesInDir
      <3>2. new \in DOMAIN dev' \ DOMAIN attrs'
        BY <1>2, <1>3, <1>6
      <3>3. op.dir # new
        BY <1>6
      <3> QED
        BY <1>2, <1>3, <1>4, <1>5, <3>1, <3>2, <3>3 DEF MakesInDir
    <2> QED
      BY <2>3, <2>4, <2>5 DEF StepInv
  <1>12. SizeInv'
    <2>1. EditsKnown' /\ DraftsAccounted'
      BY <1>1, <1>2, <1>3, <1>6 DEF CacheInv, SizeInv, EditsKnown, DraftsAccounted, CachesOK
    <2>2. SizesTrue'
      BY <1>2, <1>3, <1>6 DEF CacheInv, SizeInv, SizesTrue, Trusted
    <2>3. WritesLeft'
      BY <1>4 DEF WritesLeft, Makes
    <2> QED
      BY <1>2, <2>1, <2>2, <2>3 DEF SizeInv
  <1> QED
    BY <1>8, <1>9, <1>10, <1>11, <1>12 DEF CacheInv

LEMMA CreateObjectKeeps == CacheInv /\ CreateObject => CacheInv'
  <1> SUFFICES ASSUME CacheInv, CreateObject
               PROVE  CacheInv'
    OBVIOUS
  <1>1. Creating("start")
    BY DEF CreateObject
  <1>2. op.kind # "idle" /\ op.at = "start"
    BY <1>1 DEF Creating, At
  <1>3. \A S : Settles(S)
    BY <1>2, StartSettles
  <1>4. CASE /\ Exists(op.dir) /\ NewObject
             /\ op' = [op EXCEPT !.obj = last + 1,
                         !.at = IF op.kind = "mkdir" THEN "made" ELSE "sent"]
             /\ Answered /\ UNCHANGED <<caches, known, mounted>>
    BY <1>1, <1>4, NewObjectKeeps
  <1>5. CASE Exists(op.dir) /\ NewObject /\ Lost({op.dir})
    BY <1>1, <1>5, NewObjectLost
  <1>6. CASE Refused({})
    BY <1>3, <1>6, RefusedKeeps
  <1>7. CASE Throws({})
    BY <1>3, <1>7, ThrowsKeeps
  <1> QED
    BY <1>4, <1>5, <1>6, <1>7 DEF CreateObject, NewObject, Fresh

LEMMA CreateSendKeeps == CacheInv /\ CreateSend => CacheInv'
  <1> SUFFICES ASSUME CacheInv, CreateSend
               PROVE  CacheInv'
    OBVIOUS
  <1>1. DevOK /\ CachesOK /\ RestOK /\ OpOK
    BY TypeParts DEF CacheInv, TypeInv
  <1>2. op.kind = "create" /\ op.at = "sent" /\ op.dir \in 0..last /\ mounted
    BY <1>1 DEF CreateSend, At, OpOK, RestOK, Idle
  <1>3. CASE Refused({op.dir})
    <2>1. Settles({op.dir})
      BY <1>2 DEF Settles, Behind
    <2> QED
      BY <1>2, <1>3, <2>1, RefusedKeeps
  <1>4. CASE Goto("made") /\ Answered /\ UNCHANGED <<device, caches, known, mounted>>
    <2>1. /\ op' = [op EXCEPT !.at = "made"]
          /\ dev' = dev /\ draft' = draft /\ last' = last
          /\ files' = files /\ attrs' = attrs /\ edits' = edits /\ dirCache' = dirCache
          /\ known' = known /\ mounted' = mounted /\ load' = load /\ faults' = faults
          /\ doubted' = doubted
      BY <1>4 DEF Goto, Answered, device, caches
    <2>2. /\ op'.kind = "create" /\ op'.at = "made" /\ op'.dir = op.dir /\ op'.name = op.name
          /\ op'.obj = op.obj /\ op'.retried = op.retried
      BY <1>1, <1>2, <2>1 DEF OpOK
    <2>3. TypeInv'
      <3>1. DevOK' /\ CachesOK' /\ RestOK'
        BY <1>1, <1>2, <2>1 DEF DevOK, CachesOK, RestOK
      <3>2. OpOK'
        BY <1>1, <1>2, <2>1 DEF OpOK, Makes
      <3> QED
        BY <3>1, <3>2, TypePartsNext DEF TypeInv
    <2>4. TreeInv'
      BY <2>1 DEF CacheInv, TreeInv, Tree, KindsTrue, KnownTrue, EntriesOwn, AttrsListed
    <2>5. Pending' = Pending /\ Behind' = {} /\ Behind = {}
      BY <1>2, <2>1, <2>2 DEF Pending, Behind, Makes
    <2>6. NoNamesakes => NamesInv'
      BY <2>1, <2>2, <2>5 DEF CacheInv, NamesInv, NamesApart, MirrorBut, NameFree, Exists, Children
    <2>7. DirCacheBut(Behind)'
      BY <2>1, <2>5 DEF CacheInv, StepInv, DirCacheBut, Exists
    <2>8. HandlesLeft' /\ MakesInDir'
      BY <1>2, <2>1, <2>2 DEF CacheInv, StepInv, HandlesLeft, MakesInDir, Makes
    <2>9. SizeInv'
      BY <2>1, <2>2 DEF CacheInv, SizeInv, EditsKnown, DraftsAccounted, DraftsAhead, SizesTrue,
                        WritesLeft, Trusted, Content
    <2> QED
      BY <2>3, <2>4, <2>6, <2>7, <2>8, <2>9 DEF CacheInv, StepInv
  <1> QED
    BY <1>3, <1>4 DEF CreateSend

(* The new object enters the caches of its directory.                      *)
LEMMA CreatedKeeps ==
  ASSUME CacheInv, Creating("made"), Created, Goto("cached"), Answered,
         UNCHANGED <<device, known, mounted>>
  PROVE  CacheInv'
  <1>1. DevOK /\ CachesOK /\ RestOK /\ OpOK
    BY TypeParts DEF CacheInv, TypeInv
  <1>2. op.kind \in Makes /\ op.kind # "idle" /\ op.at = "made" /\ op.dir \in 0..last /\ mounted
    BY <1>1 DEF Creating, At, OpOK, RestOK, Idle, Makes
  <1>3. /\ op' = [op EXCEPT !.at = "cached"]
        /\ dev' = dev /\ draft' = draft /\ last' = last /\ edits' = edits
        /\ dirCache' = Without(dirCache, {op.dir})
        /\ known' = known /\ mounted' = mounted /\ load' = load /\ faults' = faults
        /\ doubted' = doubted
    BY DEF Goto, Answered, device, Created
  <1>4. /\ op'.kind = op.kind /\ op'.at = "cached" /\ op'.dir = op.dir /\ op'.name = op.name
        /\ op'.obj = op.obj /\ op'.retried = op.retried
    BY <1>1, <1>3 DEF OpOK
  <1>5. /\ op.obj \in DOMAIN dev \ DOMAIN attrs /\ op.obj \in 1..last
        /\ dev[op.obj].parent = op.dir /\ dev[op.obj].name = op.name
        /\ op.dir \in DOMAIN dev => dev[op.dir].dir
        /\ ~op.retried => op.dir \in DOMAIN files
    BY <1>1, <1>2 DEF CacheInv, StepInv, MakesInDir, DevOK
  <1>6. /\ DOMAIN dirCache' = DOMAIN dirCache \ {op.dir}
        /\ \A d \in DOMAIN dirCache' : dirCache'[d] = dirCache[d]
    BY <1>3 DEF Without, Restrict
  <1>7. /\ DOMAIN files' = DOMAIN files
        /\ \A d \in DOMAIN files \ {op.dir} : files'[d] = files[d]
        /\ op.dir \in DOMAIN files =>
             /\ DOMAIN files'[op.dir] = DOMAIN files[op.dir] \cup {op.name}
             /\ \A n \in DOMAIN files[op.dir] : files'[op.dir][n] = files[op.dir][n]
             /\ op.name \notin DOMAIN files[op.dir] => files'[op.dir][op.name] = op.obj
    BY DEF Created, Listed, Over
  <1>8. /\ DOMAIN attrs \subseteq DOMAIN attrs' /\ DOMAIN attrs' \subseteq DOMAIN attrs \cup {op.obj}
        /\ op.dir \in DOMAIN files =>
             /\ op.obj \in DOMAIN attrs'
             /\ attrs'[op.obj] = [dir |-> dev[op.obj].dir, size |-> dev[op.obj].size]
        /\ op.dir \notin DOMAIN files => attrs' = attrs
        /\ \A i \in DOMAIN attrs : attrs'[i] = attrs[i]
    BY <1>5 DEF Created, Listed, Over, AttrsOf
  <1>9. TypeInv'
    <2>1. CachesOK'
      <3>1. \A d \in DOMAIN files' : files'[d] \in PartialFns(Names, 1..last)
        <4>1. CASE op.dir \in DOMAIN files
          <5>1. files[op.dir] \in PartialFns(Names, 1..last)
            BY <1>1, <4>1 DEF CachesOK
          <5>2. [n \in {op.name} |-> op.obj] \in PartialFns(Names, 1..last)
            <6> DEFINE entry == [n \in {op.name} |-> op.obj]
            <6>1. DOMAIN entry = {op.name} /\ {op.name} \subseteq Names
              BY <1>1 DEF OpOK
            <6>2. entry \in [{op.name} -> 1..last]
              BY <1>5
            <6> HIDE DEF entry
            <6>3. entry \in PartialFns(Names, 1..last)
              BY <6>1, <6>2, PartialFn
            <6> QED
              BY <6>3 DEF entry
          <5>3. Over(files[op.dir], [n \in {op.name} |-> op.obj]) \in PartialFns(Names, 1..last)
            BY <5>1, <5>2, PartialOver
          <5>4. files'[op.dir] \in PartialFns(Names, 1..last)
            BY <4>1, <5>3 DEF Created, Listed
          <5> QED
            BY <1>1, <1>7, <5>4 DEF CachesOK
        <4>2. CASE op.dir \notin DOMAIN files
          BY <1>1, <1>7, <4>2 DEF CachesOK
        <4> QED
          BY <4>1, <4>2
      <3>2. attrs' \in PartialFns(1..last, [dir : BOOLEAN, size : 0..MaxSize])
        <4>1. CASE op.dir \in DOMAIN files
          <5> DEFINE R == [dir : BOOLEAN, size : 0..MaxSize]
          <5>1. attrs \in PartialFns(1..last, R)
            BY <1>1 DEF CachesOK
          <5>2. [dir |-> dev[op.obj].dir, size |-> dev[op.obj].size] \in R
            BY <1>1, <1>5 DEF DevOK
          <5> HIDE DEF R
          <5> DEFINE found == AttrsOf({op.obj})
          <5>3. DOMAIN found = {op.obj} /\ found \in [{op.obj} -> R] /\ {op.obj} \subseteq 1..last
            BY <1>5, <5>2 DEF AttrsOf
          <5>4. attrs' = Over(found, attrs)
            BY <4>1 DEF Created, Listed
          <5> HIDE DEF found
          <5>5. found \in PartialFns(1..last, R)
            BY <5>3, PartialFn
          <5>6. attrs' \in PartialFns(1..last, R)
            BY <5>1, <5>4, <5>5, PartialOver
          <5> QED
            BY <5>6 DEF R
        <4>2. CASE op.dir \notin DOMAIN files
          BY <1>1, <1>8, <4>2 DEF CachesOK
        <4> QED
          BY <4>1, <4>2
      <3> QED
        BY <1>1, <1>3, <1>6, <1>7, <3>1, <3>2 DEF CachesOK
    <2>2. DevOK' /\ RestOK'
      BY <1>1, <1>2, <1>3 DEF DevOK, RestOK
    <2>3. OpOK'
      BY <1>1, <1>2, <1>3 DEF OpOK, Makes
    <2> QED
      BY <2>1, <2>2, <2>3, TypePartsNext DEF TypeInv
  <1>10. TreeInv'
    <2>1. Tree' /\ KnownTrue'
      BY <1>3 DEF CacheInv, TreeInv, Tree, KnownTrue
    <2>2. KindsTrue' /\ AttrsListed'
      BY <1>3, <1>5, <1>7, <1>8 DEF CacheInv, TreeInv, KindsTrue, AttrsListed
    <2>3. EntriesOwn'
      BY <1>3, <1>5, <1>7 DEF CacheInv, TreeInv, EntriesOwn
    <2> QED
      BY <2>1, <2>2, <2>3 DEF TreeInv
  <1>11. ASSUME NoNamesakes
         PROVE  NamesInv'
    <2>1. NamesApart /\ MirrorBut(Pending)
      BY <1>11 DEF CacheInv, NamesInv
    <2>2. Pending = {op.obj} /\ Pending' = {}
      BY <1>2, <1>4, <1>5 DEF Pending
    <2>3. NamesApart' /\ NameFree'
      BY <1>3, <1>4, <2>1 DEF NamesApart, NameFree
    <2>4. ASSUME NEW d \in DOMAIN files \ doubted, Exists(d)
          PROVE  /\ \A i \in Children(d) :
                      dev[i].name \in DOMAIN files'[d] /\ files'[d][dev[i].name] = i
                 /\ \A n \in DOMAIN files'[d] :
                      files'[d][n] \in DOMAIN dev /\ dev[files'[d][n]].name = n
      <3>1. /\ \A i \in Children(d) \ {op.obj} :
                 dev[i].name \in DOMAIN files[d] /\ files[d][dev[i].name] = i
            /\ \A n \in DOMAIN files[d] :
                 files[d][n] \in DOMAIN dev /\ dev[files[d][n]].name = n
        BY <2>1, <2>2, <2>4 DEF MirrorBut
      <3>2. CASE d # op.dir
        BY <1>5, <1>7, <2>4, <3>1, <3>2 DEF Children
      <3>3. CASE d = op.dir
        <4>1. op.obj \in Children(d)
          BY <1>5, <3>3 DEF Children
        <4>2. op.name \in DOMAIN files[d] => files[d][op.name] = op.obj
          <5>1. op.name \in DOMAIN files[d] => files[d][op.name] \in Children(d)
            BY <2>4, <3>1 DEF CacheInv, TreeInv, EntriesOwn, Children
          <5> QED
            BY <1>5, <2>1, <2>4, <3>1, <3>3, <5>1 DEF NamesApart, Children
        <4>3. DOMAIN files'[d] = DOMAIN files[d] \cup {op.name} /\ files'[d][op.name] = op.obj
              /\ \A n \in DOMAIN files[d] : files'[d][n] = files[d][n]
          BY <1>7, <2>4, <3>3, <4>2
        <4> QED
          BY <1>5, <3>1, <4>1, <4>3
      <3> QED
        BY <3>2, <3>3
    <2>5. MirrorBut(Pending)'
      BY <1>3, <1>7, <2>2, <2>4 DEF MirrorBut, Exists, Children
    <2> QED
      BY <2>3, <2>5 DEF NamesInv
  <1>12. StepInv'
    <2>1. Behind = {} /\ Behind' = {}
      BY <1>2, <1>4 DEF Behind
    <2>2. DirCacheBut(Behind)'
      BY <1>1, <1>3, <1>6, <1>7, <2>1 DEF CacheInv, StepInv, DirCacheBut, Exists, CachesOK
    <2>3. HandlesLeft' /\ MakesInDir'
      BY <1>2, <1>3, <1>4, <1>5, <1>7, <1>8 DEF HandlesLeft, MakesInDir
    <2> QED
      BY <2>2, <2>3 DEF StepInv
  <1>13. SizeInv'
    <2>1. EditsKnown' /\ DraftsAccounted' /\ DraftsAhead'
      BY <1>3, <1>8 DEF CacheInv, SizeInv, EditsKnown, DraftsAccounted, DraftsAhead
    <2>2. op.obj \in DOMAIN draft => op.obj \in doubted
      BY <1>5 DEF CacheInv, SizeInv, EditsKnown, DraftsAccounted
    <2>3. SizesTrue'
      <3>1. SUFFICES ASSUME NEW i \in DOMAIN attrs' \cap DOMAIN dev, Trusted(i)
                     PROVE  attrs'[i].size = Content(i).size
        BY <1>3 DEF SizesTrue, Trusted, Content
      <3>2. CASE i \in DOMAIN attrs
        BY <1>8, <3>1, <3>2 DEF CacheInv, SizeInv, SizesTrue
      <3>3. CASE i \notin DOMAIN attrs
        BY <1>8, <2>2, <3>1, <3>3 DEF Trusted, Content
      <3> QED
        BY <3>2, <3>3
    <2>4. WritesLeft'
      BY <1>2, <1>4 DEF WritesLeft, Makes
    <2> QED
      BY <2>1, <2>3, <2>4 DEF SizeInv
  <1> QED
    BY <1>9, <1>10, <1>11, <1>12, <1>13 DEF CacheInv

LEMMA CreateCachedKeeps == CacheInv /\ CreateCached => CacheInv'
  <1> SUFFICES ASSUME CacheInv, CreateCached
               PROVE  CacheInv'
    OBVIOUS
  <1>1. Creating("made")
    BY DEF CreateCached
  <1>2. op.kind # "idle" /\ op.at = "made" /\ op.dir \in 0..last
    BY <1>1 DEF Creating, At, CacheInv, TypeInv, OpOK
  <1>3. CASE Created /\ Goto("cached") /\ Answered /\ UNCHANGED <<device, known, mounted>>
    BY <1>1, <1>3, CreatedKeeps
  <1>4. CASE Refused({op.dir})
    <2>1. Settles({op.dir})
      BY <1>2 DEF Settles, Behind
    <2> QED
      BY <1>2, <1>4, <2>1, RefusedKeeps
  <1> QED
    BY <1>3, <1>4 DEF CreateCached

LEMMA CreateReplyKeeps == CacheInv /\ (CreateListing \/ CreateReply) => CacheInv'
  <1> SUFFICES ASSUME CacheInv, CreateListing \/ CreateReply
               PROVE  CacheInv'
    OBVIOUS
  <1>1. OpOK
    BY DEF CacheInv, TypeInv
  <1>2. op.kind \in Makes /\ op.kind # "idle" /\ op.at = "cached" /\ op.obj \in 0..last /\ op.obj # Top
    BY <1>1 DEF CreateListing, CreateReply, Creating, At, OpOK, Makes
  <1>3. ~HasAttr(op.obj) => \A S : Settles(S)
    BY <1>2 DEF HasAttr, Settles, Behind, CacheInv, StepInv, MakesInDir
  <1>4. CASE CreateListing
    <2>1. AttrListing(op.obj, {}) /\ ~HasAttr(op.obj)
      BY <1>4 DEF CreateListing, ListParent, AttrListing
    <2> QED
      BY <1>2, <1>3, <2>1, AttrListingKeeps
  <1>5. CASE NoAttr(op.obj) /\ Throws({})
    BY <1>3, <1>5, ThrowsKeeps DEF NoAttr
  <1>6. CASE HasAttr(op.obj) /\ known' = Known(op.obj)
             /\ Done /\ Answered /\ UNCHANGED <<device, caches, mounted>>
    BY <1>2, <1>6, DoneKeeps DEF HasAttr
  <1> QED
    BY <1>4, <1>5, <1>6 DEF CreateReply

----------------------------------------------------------------------------
(* Unlink, RemoveDir and Rename *)

(* What is below an object: itself, and what is in anything below it; all  *)
(* but itself has its directory below it too.                              *)
LEMMA BelowSelf ==
  ASSUME NEW i \in DOMAIN dev
  PROVE  i \in Below(i)
  BY DEF Below

LEMMA BelowClosed ==
  ASSUME NEW i, NEW j \in Below(i), NEW k \in Children(j)
  PROVE  k \in Below(i)
  <1>1. k \in DOMAIN dev
    BY DEF Children
  <1>2. ASSUME NEW S \in SUBSET DOMAIN dev, i \in S, \A h \in S : Children(h) \subseteq S
        PROVE  k \in S
    <2>1. j \in S
      BY <1>2 DEF Below
    <2> QED
      BY <1>2, <2>1
  <1> QED
    BY <1>1, <1>2 DEF Below

LEMMA BelowParent ==
  ASSUME NEW i \in DOMAIN dev, NEW j \in Below(i), j # i
  PROVE  dev[j].parent \in Below(i)
  <1> SUFFICES ASSUME dev[j].parent \notin Below(i)
               PROVE  FALSE
    OBVIOUS
  <1> DEFINE S == Below(i) \ {j}
  <1>1. S \in SUBSET DOMAIN dev /\ i \in S
    BY BelowSelf DEF Below
  <1>2. ASSUME NEW h \in S, NEW k \in Children(h)
        PROVE  k \in S
    <2>1. k \in Below(i)
      BY <1>2, BelowClosed
    <2>2. k # j
      BY <1>2 DEF Children
    <2> QED
      BY <2>1, <2>2
  <1>3. j \in S
    BY <1>1, <1>2 DEF Below
  <1> QED
    BY <1>3

LEMMA BelowEmpty ==
  ASSUME NEW i \in DOMAIN dev, Children(i) = {}
  PROVE  Below(i) = {i}
  <1>1. \A k \in {i} : Children(k) \subseteq {i}
    OBVIOUS
  <1>2. \A j \in Below(i) : j \in {i}
    BY <1>1 DEF Below
  <1> QED
    BY <1>2, BelowSelf

(* DeleteObject.                                                           *)
LEMMA DeleteFacts ==
  ASSUME CacheInv, NEW i \in DOMAIN dev, DeleteObject(i)
  PROVE  /\ last' = last
         /\ DOMAIN dev' = DOMAIN dev \ Below(i) /\ i \notin DOMAIN dev'
         /\ DOMAIN draft' = DOMAIN draft \ Below(i)
         /\ \A j \in DOMAIN dev' : dev'[j] = dev[j] /\ Content(j)' = Content(j)
         /\ \A j \in DOMAIN dev : j # i /\ (dev[j].parent = Top \/ dev[j].parent \in DOMAIN dev')
              => j \in DOMAIN dev'
         /\ DevOK' /\ Tree' /\ DraftsAhead'
  <1>1. DevOK /\ Tree
    BY TypeParts DEF CacheInv, TypeInv, TreeInv
  <1>2. last' = last /\ dev' = Without(dev, Below(i)) /\ draft' = Without(draft, Below(i))
    BY DEF DeleteObject
  <1>3. DOMAIN dev' = DOMAIN dev \ Below(i) /\ \A j \in DOMAIN dev' : dev'[j] = dev[j]
    BY <1>2 DEF Without, Restrict
  <1>4. DOMAIN draft' = DOMAIN draft \ Below(i) /\ \A j \in DOMAIN draft' : draft'[j] = draft[j]
    BY <1>2 DEF Without, Restrict
  <1>5. i \notin DOMAIN dev'
    BY <1>3, BelowSelf
  <1>6. \A j \in DOMAIN dev' : Content(j)' = Content(j)
    BY <1>3, <1>4 DEF Content
  <1>7. \A j \in DOMAIN dev : j # i /\ (dev[j].parent = Top \/ dev[j].parent \in DOMAIN dev')
          => j \in DOMAIN dev'
    <2>1. Top \notin Below(i)
      BY <1>1 DEF Below, DevOK, Top
    <2> QED
      BY <1>3, <2>1, BelowParent
  <1>8. DevOK'
    <2> DEFINE R == [size : 0..MaxSize, rev : 0..MaxWrites]
    <2>1. draft \in PartialFns(DOMAIN dev, R)
      BY <1>1 DEF DevOK
    <2> HIDE DEF R
    <2>2. draft' \in PartialFns(DOMAIN dev \ Below(i), R)
      BY <1>2, <2>1, PartialWithout
    <2>3. draft' \in PartialFns(DOMAIN dev', [size : 0..MaxSize, rev : 0..MaxWrites])
      BY <1>3, <2>2 DEF R
    <2> QED
      BY <1>1, <1>2, <1>3, <2>3 DEF DevOK
  <1>9. Tree'
    <2>1. SUFFICES ASSUME NEW j \in DOMAIN dev', dev[j].parent # Top
                   PROVE  dev[j].parent \in DOMAIN dev' /\ dev'[dev[j].parent].dir
      BY <1>3 DEF Tree
    <2>2. dev[j].parent \in DOMAIN dev /\ dev[dev[j].parent].dir /\ j \in Children(dev[j].parent)
      BY <1>1, <1>3, <2>1 DEF Tree, Children
    <2>3. dev[j].parent \notin Below(i)
      BY <1>3, <2>1, <2>2, BelowClosed
    <2> QED
      BY <1>3, <2>2, <2>3
  <1>10. DraftsAhead'
    <2>1. DOMAIN draft \subseteq DOMAIN dev
      BY <1>1, PartialFn DEF DevOK
    <2> QED
      BY <1>3, <1>4, <2>1 DEF CacheInv, SizeInv, DraftsAhead
  <1> QED
    BY <1>2, <1>3, <1>4, <1>5, <1>6, <1>7, <1>8, <1>9, <1>10

(* The entry n of the directory of the request is deleted: Unlink, and the *)
(* first half of a Rename onto another file.                               *)
Deletes(n) == /\ op.kind \in {"unlink", "rename"} /\ op.at = "start"
              /\ op.dir \in DOMAIN files /\ n \in DOMAIN files[op.dir]
              /\ files[op.dir][n] \in DOMAIN dev
              /\ DeleteObject(files[op.dir][n])

LEMMA DeleteFailsKeeps ==
  ASSUME CacheInv, NEW n, Deletes(n), DeleteFails(files[op.dir][n])
  PROVE  CacheInv'
  <1> DEFINE i == files[op.dir][n]
  <1>1. DevOK /\ CachesOK /\ RestOK /\ OpOK
    BY TypeParts DEF CacheInv, TypeInv
  <1>2. /\ op.dir \in 0..last /\ i \in DOMAIN dev /\ dev[i].parent = op.dir
        /\ op.kind # "idle" /\ op.kind # "write" /\ DeleteObject(i)
    BY <1>1 DEF Deletes, OpOK, CacheInv, TreeInv, EntriesOwn
  <1>3. Settles({op.dir})
    BY StartSettles DEF Deletes
  <1> HIDE DEF i
  <1>4. last' = last
    BY <1>2, DeleteFacts
  <1>5. DevStep({op.dir})
    BY <1>2, DeleteFacts DEF DevStep
  <1>6. CASE Lost({op.dir})
    BY <1>2, <1>3, <1>4, <1>5, <1>6, LostKeeps
  <1>7. CASE Fault({op.dir} \cup edits) /\ Dies
    <2>0. doubted \subseteq 0..last /\ edits \subseteq 0..last
      BY <1>1 DEF RestOK, CachesOK
    <2>1. doubted' = doubted \cup {op.dir} \cup edits /\ doubted' \subseteq 0..last'
      BY <1>2, <1>4, <1>7, <2>0 DEF Fault
    <2>2. faults \in Nat /\ load.faults \in Nat
      BY <1>1, LoadsAssumption DEF RestOK
    <2>3. Ends({op.dir})
      BY <1>5, <1>7, <2>1, <2>2 DEF Ends, Fault
    <2> QED
      BY <1>3, <1>7, <2>1, <2>3, EndsKeep
  <1> QED
    BY <1>6, <1>7 DEF DeleteFails, i

LEMMA DeletedKeeps ==
  ASSUME CacheInv, NEW n, Deletes(n), Deleted(files[op.dir][n]),
         files' = [files EXCEPT ![op.dir] = Without(@, {n})],
         \/ dirCache' = Without(dirCache, {op.dir}) /\ Done
         \/ UNCHANGED dirCache /\ Goto("cleared") /\ op.kind = "rename"
  PROVE  CacheInv'
  <1> DEFINE i == files[op.dir][n]
  <1>1. DevOK /\ CachesOK /\ RestOK /\ OpOK
    BY TypeParts DEF CacheInv, TypeInv
  <1>2. /\ op.dir \in DOMAIN files /\ n \in DOMAIN files[op.dir] /\ op.dir \in 0..last
        /\ i \in DOMAIN dev /\ dev[i].parent = op.dir
        /\ op.kind \in {"unlink", "rename"} /\ op.at = "start" /\ mounted
    BY <1>1 DEF Deletes, OpOK, CacheInv, TreeInv, EntriesOwn, RestOK, Idle
  <1>3. /\ attrs' = Without(attrs, {i}) /\ edits' = edits \ {i} /\ known' = known
        /\ mounted' = mounted /\ load' = load /\ faults' = faults /\ doubted' = doubted
    BY DEF Deleted, Answered
  <1>4. /\ DOMAIN files' = DOMAIN files
        /\ \A d \in DOMAIN files \ {op.dir} : files'[d] = files[d]
        /\ files'[op.dir] = Without(files[op.dir], {n})
        /\ DOMAIN files'[op.dir] = DOMAIN files[op.dir] \ {n}
        /\ \A m \in DOMAIN files[op.dir] \ {n} : files'[op.dir][m] = files[op.dir][m]
    BY <1>2 DEF Without, Restrict
  <1> HIDE DEF i
  <1>5. DOMAIN attrs' = DOMAIN attrs \ {i} /\ \A j \in DOMAIN attrs' : attrs'[j] = attrs[j]
    BY <1>3 DEF Without, Restrict
  <1>6. /\ last' = last
        /\ DOMAIN dev' = DOMAIN dev \ Below(i) /\ i \notin DOMAIN dev'
        /\ DOMAIN draft' = DOMAIN draft \ Below(i)
        /\ \A j \in DOMAIN dev' : dev'[j] = dev[j] /\ Content(j)' = Content(j)
        /\ \A j \in DOMAIN dev : j # i /\ (dev[j].parent = Top \/ dev[j].parent \in DOMAIN dev')
             => j \in DOMAIN dev'
        /\ DevOK' /\ Tree' /\ DraftsAhead'
    <2>1. DeleteObject(i)
      BY DEF Deletes, i
    <2> QED
      BY <1>2, <2>1, DeleteFacts
  <1>7. /\ DOMAIN dirCache' \subseteq DOMAIN dirCache
        /\ \A d \in DOMAIN dirCache' : dirCache'[d] = dirCache[d]
        /\ op.dir \in DOMAIN dirCache' => op'.at = "cleared" /\ op'.dir = op.dir
    BY <1>1 DEF Without, Restrict, Goto, OpOK
  <1>8. op'.kind \in {"idle", "rename"} /\ op'.at \in {"start", "cleared"}
    BY <1>1 DEF Done, Idle, Goto, OpOK
  <1>9. TypeInv'
    <2>1. CachesOK'
      <3>1. \A d \in DOMAIN files' : files'[d] \in PartialFns(Names, 1..last)
        <4>1. files[op.dir] \in PartialFns(Names, 1..last)
          BY <1>1, <1>2 DEF CachesOK
        <4>2. files'[op.dir] \in PartialFns(Names \ {n}, 1..last)
          BY <1>4, <4>1, PartialWithout
        <4>3. files'[op.dir] \in PartialFns(Names, 1..last)
          BY <4>2, PartialFn
        <4> QED
          BY <1>1, <1>4, <4>3 DEF CachesOK
      <3>2. attrs' \in PartialFns(1..last, [dir : BOOLEAN, size : 0..MaxSize])
        <4> DEFINE R == [dir : BOOLEAN, size : 0..MaxSize]
        <4>1. attrs \in PartialFns(1..last, R)
          BY <1>1 DEF CachesOK
        <4> HIDE DEF R
        <4>2. attrs' \in PartialFns(1..last \ {i}, R)
          BY <1>3, <4>1, PartialWithout
        <4>3. DOMAIN attrs' \subseteq 1..last \ {i} /\ attrs' \in [DOMAIN attrs' -> R]
          BY <4>2, PartialFn
        <4>4. DOMAIN attrs' \subseteq 1..last
          BY <4>3
        <4>5. attrs' \in PartialFns(1..last, R)
          BY <4>3, <4>4, PartialFn
        <4> QED
          BY <4>5 DEF R
      <3> QED
        BY <1>1, <1>3, <1>4, <1>6, <1>7, <3>1, <3>2 DEF CachesOK
    <2>2. RestOK'
      BY <1>1, <1>2, <1>3, <1>6 DEF RestOK
    <2>3. OpOK'
      <3>1. CASE Done
        <4>1. 0 \in 0..MaxSize /\ 0 \in 0..last'
          BY <1>1, <1>6, BoundsAssumption DEF DevOK
        <4> QED
          BY <1>1, <3>1, <4>1, NamesThere DEF Done, OpOK, Idle, Kinds, Top, Makes, RestOK
      <3>2. CASE Goto("cleared") /\ op.kind = "rename"
        BY <1>1, <1>6, <3>2 DEF Goto, OpOK, Makes
      <3> QED
        BY <3>1, <3>2
    <2> QED
      BY <1>6, <2>1, <2>2, <2>3, TypePartsNext DEF TypeInv
  <1>10. TreeInv'
    <2>1. KindsTrue' /\ KnownTrue' /\ AttrsListed'
      BY <1>3, <1>4, <1>5, <1>6 DEF CacheInv, TreeInv, KindsTrue, KnownTrue, AttrsListed
    <2>2. ASSUME NEW d \in DOMAIN files', NEW m \in DOMAIN files'[d], files'[d][m] \in DOMAIN dev'
          PROVE  dev'[files'[d][m]].parent = d
      <3>1. d \in DOMAIN files /\ m \in DOMAIN files[d] /\ files'[d][m] = files[d][m]
        BY <1>4, <2>2
      <3> QED
        BY <1>6, <2>2, <3>1 DEF CacheInv, TreeInv, EntriesOwn
    <2>3. EntriesOwn'
      BY <2>2 DEF EntriesOwn
    <2> QED
      BY <1>6, <2>1, <2>3 DEF TreeInv
  <1>11. ASSUME NoNamesakes
         PROVE  NamesInv'
    <2>1. NamesApart /\ MirrorBut(Pending)
      BY <1>11 DEF CacheInv, NamesInv
    <2>2. NamesApart' /\ NameFree'
      BY <1>3, <1>6, <1>8, <2>1 DEF NamesApart, NameFree, Makes
    <2>3. Pending = {} /\ Pending' = {}
      BY <1>2, <1>8 DEF Pending
    <2>4. ASSUME NEW d \in DOMAIN files \ doubted, Exists(d)'
          PROVE  /\ \A j \in Children(d)' :
                      dev'[j].name \in DOMAIN files'[d] /\ files'[d][dev'[j].name] = j
                 /\ \A m \in DOMAIN files'[d] :
                      files'[d][m] \in DOMAIN dev' /\ dev'[files'[d][m]].name = m
      <3>1. Exists(d) /\ (d = Top \/ d \in DOMAIN dev')
        BY <1>6, <2>4 DEF Exists
      <3>2. /\ \A j \in Children(d) :
                 dev[j].name \in DOMAIN files[d] /\ files[d][dev[j].name] = j
            /\ \A m \in DOMAIN files[d] :
                 files[d][m] \in DOMAIN dev /\ dev[files[d][m]].name = m
        BY <2>1, <2>3, <2>4, <3>1 DEF MirrorBut
      <3>3. \A m \in DOMAIN files[d] : dev[files[d][m]].parent = d
        BY <2>4, <3>2 DEF CacheInv, TreeInv, EntriesOwn
      <3>4. \A m \in DOMAIN files[d] : files[d][m] # i => files[d][m] \in DOMAIN dev'
        BY <1>6, <3>1, <3>2, <3>3
      <3>5. \A j \in Children(d)' : j \in Children(d) /\ j # i /\ dev'[j] = dev[j]
        BY <1>6 DEF Children
      <3>6. CASE d = op.dir
        <4>1. files[d][n] = i
          BY <3>6 DEF i
        <4>2. ASSUME NEW j \in Children(d)'
              PROVE  dev'[j].name \in DOMAIN files'[d] /\ files'[d][dev'[j].name] = j
          <5>1. j \in Children(d) /\ j # i /\ dev'[j] = dev[j]
            BY <3>5, <4>2
          <5>2. dev[j].name \in DOMAIN files[d] \ {n} /\ files[d][dev[j].name] = j
            BY <3>2, <4>1, <5>1
          <5> QED
            BY <1>4, <3>6, <5>1, <5>2
        <4>3. ASSUME NEW m \in DOMAIN files'[d]
              PROVE  files'[d][m] \in DOMAIN dev' /\ dev'[files'[d][m]].name = m
          <5>1. m \in DOMAIN files[d] \ {n} /\ files'[d][m] = files[d][m]
            BY <1>4, <3>6, <4>3
          <5>2. dev[files[d][m]].name = m /\ dev[i].name = n
            BY <1>2, <3>2, <3>6, <4>1, <5>1
          <5>3. files[d][m] \in DOMAIN dev'
            BY <3>4, <5>1, <5>2
          <5> QED
            BY <1>6, <5>1, <5>2, <5>3
        <4> QED
          BY <4>2, <4>3
      <3>7. CASE d # op.dir
        <4>1. files'[d] = files[d]
          BY <1>4, <2>4, <3>7
        <4>2. \A m \in DOMAIN files[d] : files[d][m] # i
          BY <1>2, <3>3, <3>7
        <4>3. \A j \in Children(d)' :
                dev'[j].name \in DOMAIN files'[d] /\ files'[d][dev'[j].name] = j
          BY <3>2, <3>5, <4>1
        <4>4. \A m \in DOMAIN files'[d] :
                files'[d][m] \in DOMAIN dev' /\ dev'[files'[d][m]].name = m
          BY <1>6, <3>2, <3>4, <4>1, <4>2
        <4> QED
          BY <4>3, <4>4
      <3> QED
        BY <3>6, <3>7
    <2>5. MirrorBut(Pending)'
      BY <1>3, <1>4, <2>3, <2>4 DEF MirrorBut
    <2> QED
      BY <2>2, <2>5 DEF NamesInv
  <1>12. StepInv'
    <2>1. Behind = {}
      BY <1>2 DEF Behind
    <2>2. ASSUME NEW d \in DOMAIN dirCache', d \notin doubted, d \notin Behind', Exists(d)'
          PROVE  dirCache'[d] = files'[d]
      <3>1. d # op.dir
        BY <1>7, <2>2 DEF Behind
      <3>2. d \in DOMAIN dirCache /\ d \in DOMAIN files /\ Exists(d)
        BY <1>1, <1>6, <1>7, <2>2 DEF Exists, CachesOK
      <3> QED
        BY <1>4, <1>7, <2>1, <2>2, <3>1, <3>2 DEF CacheInv, StepInv, DirCacheBut
    <2>3. DirCacheBut(Behind)'
      BY <1>3, <2>2 DEF DirCacheBut
    <2>4. HandlesLeft' /\ MakesInDir'
      BY <1>8 DEF HandlesLeft, MakesInDir, Makes
    <2> QED
      BY <2>3, <2>4 DEF StepInv
  <1>13. SizeInv'
    <2>1. EditsKnown'
      BY <1>3, <1>5, <1>6 DEF CacheInv, SizeInv, EditsKnown
    <2>2. DraftsAccounted'
      BY <1>2, <1>3, <1>6, BelowSelf DEF CacheInv, SizeInv, DraftsAccounted
    <2>3. SizesTrue'
      BY <1>3, <1>5, <1>6 DEF CacheInv, SizeInv, SizesTrue, Trusted
    <2>4. WritesLeft'
      BY <1>8 DEF WritesLeft
    <2> QED
      BY <1>6, <2>1, <2>2, <2>3, <2>4 DEF SizeInv
  <1> QED
    BY <1>9, <1>10, <1>11, <1>12, <1>13 DEF CacheInv

LEMMA UnlinkKeeps == CacheInv /\ (Unlink \/ RenameTarget) => CacheInv'
  <1> SUFFICES ASSUME CacheInv, Unlink \/ RenameTarget
               PROVE  CacheInv'
    OBVIOUS
  <1>1. OpOK /\ CachesOK
    BY TypeParts DEF CacheInv, TypeInv
  <1>2. op.kind \in {"unlink", "rename"} /\ op.kind # "idle" /\ op.at = "start"
    BY DEF Unlink, Unlinking, RenameTarget, Renaming, At
  <1>3. \A S : Settles(S)
    BY <1>2, StartSettles
  <1>4. CASE Unlink
    <2>1. op.dir \in DOMAIN files /\ op.name \in DOMAIN files[op.dir] /\ Child = files[op.dir][op.name]
      BY <1>4 DEF Unlink, Unlinking, Listed, HasEntry, Child, Entry
    <2>2. Child \in 1..last
      BY <1>1, <2>1, CachesTyped
    <2>3. CASE Exists(Child) /\ DeleteObject(Child) /\ DeleteFails(Child)
      <3>1. Deletes(op.name)
        BY <1>2, <2>1, <2>2, <2>3 DEF Deletes, Exists, Top
      <3> QED
        BY <2>1, <2>3, <3>1, DeleteFailsKeeps
    <2>4. CASE /\ Exists(Child) /\ DeleteObject(Child) /\ Deleted(Child)
               /\ files' = [files EXCEPT ![op.dir] = Without(@, {op.name})]
               /\ dirCache' = Without(dirCache, {op.dir}) /\ Done
      <3>1. Deletes(op.name)
        BY <1>2, <2>1, <2>2, <2>4 DEF Deletes, Exists, Top
      <3>2. Deleted(files[op.dir][op.name])
        BY <2>1, <2>4
      <3> QED
        BY <2>4, <3>1, <3>2, DeletedKeeps
    <2>5. CASE Refused({})
      BY <1>3, <2>5, RefusedKeeps
    <2>6. CASE Throws({})
      BY <1>3, <2>6, ThrowsKeeps
    <2> QED
      BY <1>4, <2>3, <2>4, <2>5, <2>6 DEF Unlink
  <1>5. CASE RenameTarget
    <2>1. /\ op.dir \in DOMAIN files /\ op.to \in DOMAIN files[op.dir] /\ Target = files[op.dir][op.to]
          /\ op.kind = "rename"
      BY <1>5 DEF RenameTarget, Renaming, Listed, HasEntry, Target, Entry
    <2>2. Target \in 1..last
      BY <1>1, <2>1, CachesTyped
    <2>3. CASE Exists(Target) /\ DeleteObject(Target) /\ DeleteFails(Target)
      <3>1. Deletes(op.to)
        BY <1>2, <2>1, <2>2, <2>3 DEF Deletes, Exists, Top
      <3> QED
        BY <2>1, <2>3, <3>1, DeleteFailsKeeps
    <2>4. CASE /\ Exists(Target) /\ DeleteObject(Target) /\ Deleted(Target)
               /\ files' = [files EXCEPT ![op.dir] = Without(@, {op.to})]
               /\ UNCHANGED dirCache /\ Goto("cleared")
      <3>1. Deletes(op.to)
        BY <1>2, <2>1, <2>2, <2>4 DEF Deletes, Exists, Top
      <3>2. Deleted(files[op.dir][op.to])
        BY <2>1, <2>4
      <3> QED
        BY <2>1, <2>4, <3>1, <3>2, DeletedKeeps
    <2>5. CASE Refused({})
      BY <1>3, <2>5, RefusedKeeps
    <2>6. CASE Throws({})
      BY <1>3, <2>6, ThrowsKeeps
    <2> QED
      BY <1>5, <2>3, <2>4, <2>5, <2>6 DEF RenameTarget
  <1> QED
    BY <1>4, <1>5

(* SetObjectProperty of the name.                                          *)
Renamed(i) == /\ i \in DOMAIN dev /\ dev' = [dev EXCEPT ![i].name = op.to]
              /\ UNCHANGED <<draft, last>>

LEMMA RenamedFacts ==
  ASSUME CacheInv, NEW i, Renamed(i)
  PROVE  /\ last' = last /\ draft' = draft /\ DOMAIN dev' = DOMAIN dev
         /\ \A j \in DOMAIN dev \ {i} : dev'[j] = dev[j]
         /\ dev'[i].name = op.to
         /\ \A j \in DOMAIN dev : /\ dev'[j].parent = dev[j].parent /\ dev'[j].dir = dev[j].dir
                                 /\ Content(j)' = Content(j)
         /\ DevOK' /\ Tree' /\ DraftsAhead'
  <1>1. DevOK /\ OpOK /\ Tree
    BY TypeParts DEF CacheInv, TypeInv, TreeInv
  <1>2. last' = last /\ draft' = draft /\ DOMAIN dev' = DOMAIN dev
        /\ \A j \in DOMAIN dev \ {i} : dev'[j] = dev[j]
    BY DEF Renamed
  <1>3. /\ i \in DOMAIN dev /\ dev'[i] = [dev[i] EXCEPT !.name = op.to]
        /\ dev[i] \in [name : Names, parent : 0..last, dir : BOOLEAN,
                       size : 0..MaxSize, rev : 0..MaxWrites]
        /\ op.to \in Names
    BY <1>1 DEF Renamed, DevOK, OpOK
  <1>4. /\ dev'[i].name = op.to /\ dev'[i].parent = dev[i].parent /\ dev'[i].dir = dev[i].dir
        /\ dev'[i].size = dev[i].size /\ dev'[i].rev = dev[i].rev
        /\ dev'[i] \in [name : Names, parent : 0..last, dir : BOOLEAN,
                        size : 0..MaxSize, rev : 0..MaxWrites]
    BY <1>3
  <1>5. DevOK'
    BY <1>1, <1>2, <1>4 DEF DevOK
  <1>6. \A j \in DOMAIN dev : /\ dev'[j].parent = dev[j].parent /\ dev'[j].dir = dev[j].dir
                            /\ dev'[j].size = dev[j].size /\ dev'[j].rev = dev[j].rev
    BY <1>2, <1>4
  <1>7. Tree' /\ DraftsAhead'
    <2>1. DOMAIN draft \subseteq DOMAIN dev
      BY <1>1, PartialFn DEF DevOK
    <2> QED
      BY <1>1, <1>2, <1>6, <2>1 DEF Tree, CacheInv, SizeInv, DraftsAhead
  <1>8. \A j \in DOMAIN dev : Content(j)' = Content(j)
    BY <1>2, <1>6 DEF Content
  <1> QED
    BY <1>2, <1>4, <1>5, <1>6, <1>7, <1>8

LEMMA RenamedKeeps ==
  ASSUME CacheInv, Renaming, op.at \in {"start", "cleared"}, ~HasEntry(op.dir, op.to), Renamed(Child),
         files' = [files EXCEPT ![op.dir] = Put(Without(@, {op.name}), op.to, Child)],
         dirCache' = Without(dirCache, {op.dir}),
         Done, Answered, UNCHANGED <<attrs, edits, known, mounted>>
  PROVE  CacheInv'
  <1> DEFINE i == files[op.dir][op.name]
  <1>1. DevOK /\ CachesOK /\ RestOK /\ OpOK
    BY TypeParts DEF CacheInv, TypeInv
  <1>2. /\ op.dir \in DOMAIN files /\ op.name \in DOMAIN files[op.dir] /\ op.dir \in 0..last
        /\ op.to \notin DOMAIN files[op.dir] /\ op.to \in Names
        /\ i \in DOMAIN dev /\ dev[i].parent = op.dir /\ i \in 1..last /\ i = Child
        /\ op.kind = "rename" /\ mounted
    BY <1>1 DEF Renaming, HasEntry, Listed, Child, Entry, Renamed, OpOK, DevOK, CacheInv, TreeInv,
                EntriesOwn, RestOK, Idle
  <1>3. /\ op' = Idle /\ attrs' = attrs /\ edits' = edits /\ known' = known /\ mounted' = mounted
        /\ load' = load /\ faults' = faults /\ doubted' = doubted
    BY DEF Done, Answered
  <1> HIDE DEF i
  <1>4. /\ last' = last /\ draft' = draft /\ DOMAIN dev' = DOMAIN dev
        /\ \A j \in DOMAIN dev \ {i} : dev'[j] = dev[j]
        /\ dev'[i].name = op.to
        /\ \A j \in DOMAIN dev : /\ dev'[j].parent = dev[j].parent /\ dev'[j].dir = dev[j].dir
                                /\ Content(j)' = Content(j)
        /\ DevOK' /\ Tree' /\ DraftsAhead'
    BY <1>2, RenamedFacts
  <1>5. /\ DOMAIN files' = DOMAIN files
        /\ \A d \in DOMAIN files \ {op.dir} : files'[d] = files[d]
        /\ files'[op.dir] = Put(Without(files[op.dir], {op.name}), op.to, i)
    BY <1>2
  <1>6. /\ DOMAIN files'[op.dir] = (DOMAIN files[op.dir] \ {op.name}) \cup {op.to}
        /\ files'[op.dir][op.to] = i
        /\ \A m \in DOMAIN files[op.dir] \ {op.name} : files'[op.dir][m] = files[op.dir][m]
    BY <1>2, <1>5 DEF Put, Over, Without, Restrict
  <1>7. /\ DOMAIN dirCache' = DOMAIN dirCache \ {op.dir}
        /\ \A d \in DOMAIN dirCache' : dirCache'[d] = dirCache[d]
    BY DEF Without, Restrict
  <1>8. TypeInv'
    <2>1. CachesOK'
      <3>1. files'[op.dir] \in PartialFns(Names, 1..last)
        <4>1. files[op.dir] \in PartialFns(Names, 1..last)
          BY <1>1, <1>2 DEF CachesOK
        <4>2. Without(files[op.dir], {op.name}) \in PartialFns(Names \ {op.name}, 1..last)
          BY <4>1, PartialWithout
        <4>3. Without(files[op.dir], {op.name}) \in PartialFns(Names, 1..last)
          BY <4>2, PartialFn
        <4> QED
          BY <1>2, <1>5, <4>3, PartialPut
      <3> QED
        BY <1>1, <1>3, <1>4, <1>5, <1>7, <3>1 DEF CachesOK
    <2>2. RestOK'
      BY <1>1, <1>2, <1>3, <1>4 DEF RestOK
    <2>3. 0 \in 0..MaxSize /\ 0 \in 0..last'
      BY <1>1, <1>4, BoundsAssumption DEF DevOK
    <2>4. OpOK'
      BY <1>1, <1>3, <2>3, NamesThere DEF OpOK, Idle, Kinds, Top, Makes, RestOK
    <2> QED
      BY <1>4, <2>1, <2>2, <2>4, TypePartsNext DEF TypeInv
  <1>9. TreeInv'
    <2>1. KindsTrue' /\ KnownTrue' /\ AttrsListed'
      BY <1>3, <1>4, <1>5 DEF CacheInv, TreeInv, KindsTrue, KnownTrue, AttrsListed
    <2>2. ASSUME NEW d \in DOMAIN files', NEW m \in DOMAIN files'[d], files'[d][m] \in DOMAIN dev'
          PROVE  dev'[files'[d][m]].parent = d
      <3>1. CASE d = op.dir /\ m = op.to
        BY <1>2, <1>4, <1>6, <3>1
      <3>2. CASE ~(d = op.dir /\ m = op.to)
        <4>1. d \in DOMAIN files /\ m \in DOMAIN files[d] /\ files'[d][m] = files[d][m]
          BY <1>5, <1>6, <2>2, <3>2
        <4> QED
          BY <1>4, <2>2, <4>1 DEF CacheInv, TreeInv, EntriesOwn
      <3> QED
        BY <3>1, <3>2
    <2>3. EntriesOwn'
      BY <2>2 DEF EntriesOwn
    <2> QED
      BY <1>4, <2>1, <2>3 DEF TreeInv
  <1>10. ASSUME NoNamesakes
         PROVE  NamesInv'
    <2>1. NamesApart /\ MirrorBut(Pending)
      BY <1>10 DEF CacheInv, NamesInv
    <2>2. Pending = {} /\ Pending' = {}
      BY <1>2, <1>3 DEF Pending, Makes, Idle
    <2>3. ASSUME NEW d \in DOMAIN files \ doubted, Exists(d)
          PROVE  /\ \A j \in Children(d) :
                      dev[j].name \in DOMAIN files[d] /\ files[d][dev[j].name] = j
                 /\ \A m \in DOMAIN files[d] :
                      files[d][m] \in DOMAIN dev /\ dev[files[d][m]].name = m
      BY <2>1, <2>2, <2>3 DEF MirrorBut
    <2>4. Exists(op.dir)
      BY <1>2 DEF CacheInv, TreeInv, Tree, Exists
    <2>5. op.dir \notin doubted => \A j \in Children(op.dir) : dev[j].name # op.to
      BY <1>2, <2>3, <2>4
    <2>6. NamesApart'
      <3>1. SUFFICES ASSUME NEW j \in DOMAIN dev, NEW k \in DOMAIN dev,
                            dev[j].parent = dev[k].parent, dev[j].parent \notin doubted,
                            dev'[j].name = dev'[k].name
                     PROVE  j = k
        BY <1>3, <1>4 DEF NamesApart
      <3>2. j # i /\ k # i => j = k
        BY <1>4, <2>1, <3>1 DEF NamesApart
      <3>3. j = i /\ k # i => FALSE
        BY <1>2, <1>4, <2>5, <3>1 DEF Children
      <3>4. k = i /\ j # i => FALSE
        BY <1>2, <1>4, <2>5, <3>1 DEF Children
      <3> QED
        BY <3>2, <3>3, <3>4
    <2>7. ASSUME NEW d \in DOMAIN files \ doubted, Exists(d)
          PROVE  /\ \A j \in Children(d)' :
                      dev'[j].name \in DOMAIN files'[d] /\ files'[d][dev'[j].name] = j
                 /\ \A m \in DOMAIN files'[d] :
                      files'[d][m] \in DOMAIN dev' /\ dev'[files'[d][m]].name = m
      <3>1. \A j : j \in Children(d)' <=> j \in Children(d)
        BY <1>4 DEF Children
      <3>2. \A m \in DOMAIN files[d] : dev[files[d][m]].parent = d
        BY <2>3, <2>7 DEF CacheInv, TreeInv, EntriesOwn
      <3>3. CASE d # op.dir
        <4>1. files'[d] = files[d]
          BY <1>5, <2>7, <3>3
        <4>2. \A j \in Children(d) : j # i
          BY <1>2, <3>3 DEF Children
        <4>3. \A j \in Children(d)' : dev'[j].name \in DOMAIN files'[d] /\ files'[d][dev'[j].name] = j
          BY <1>4, <2>3, <2>7, <3>1, <4>1, <4>2 DEF Children
        <4>4. \A m \in DOMAIN files[d] : files[d][m] # i
          BY <1>2, <3>2, <3>3
        <4>5. \A m \in DOMAIN files'[d] : files'[d][m] \in DOMAIN dev' /\ dev'[files'[d][m]].name = m
          BY <1>4, <2>3, <2>7, <4>1, <4>4
        <4> QED
          BY <4>3, <4>5
      <3>4. CASE d = op.dir
        <4>1. files[d][op.name] = i /\ dev[i].name = op.name
          BY <1>2, <2>3, <2>7, <3>4 DEF i
        <4>2. ASSUME NEW j \in Children(d)'
              PROVE  dev'[j].name \in DOMAIN files'[d] /\ files'[d][dev'[j].name] = j
          <5>1. CASE j = i
            BY <1>4, <1>6, <3>4, <5>1
          <5>2. CASE j # i
            <6>1. j \in Children(d) /\ dev'[j] = dev[j]
              BY <1>4, <3>1, <4>2, <5>2 DEF Children
            <6>2. dev[j].name \in DOMAIN files[d] \ {op.name} /\ files[d][dev[j].name] = j
              BY <2>3, <2>7, <4>1, <5>2, <6>1
            <6> QED
              BY <1>6, <3>4, <6>1, <6>2
          <5> QED
            BY <5>1, <5>2
        <4>3. ASSUME NEW m \in DOMAIN files'[d]
              PROVE  files'[d][m] \in DOMAIN dev' /\ dev'[files'[d][m]].name = m
          <5>1. CASE m = op.to
            BY <1>2, <1>4, <1>6, <3>4, <5>1
          <5>2. CASE m # op.to
            <6>1. m \in DOMAIN files[d] \ {op.name} /\ files'[d][m] = files[d][m]
              BY <1>6, <3>4, <4>3, <5>2
            <6>2. files[d][m] \in DOMAIN dev \ {i} /\ dev[files[d][m]].name = m
              BY <2>3, <2>7, <4>1, <6>1
            <6> QED
              BY <1>4, <6>1, <6>2
          <5> QED
            BY <5>1, <5>2
        <4> QED
          BY <4>2, <4>3
      <3> QED
        BY <3>3, <3>4
    <2>8. MirrorBut(Pending)'
      BY <1>3, <1>4, <1>5, <2>2, <2>7 DEF MirrorBut, Exists
    <2>9. NameFree'
      BY <1>3 DEF NameFree, Idle, Makes
    <2> QED
      BY <2>6, <2>8, <2>9 DEF NamesInv
  <1>11. StepInv'
    <2>1. Behind \subseteq {op.dir} /\ Behind' = {}
      BY <1>3 DEF Behind, Idle
    <2>2. DirCacheBut(Behind)'
      BY <1>1, <1>3, <1>4, <1>5, <1>7, <2>1 DEF CacheInv, StepInv, DirCacheBut, Exists, CachesOK
    <2>3. HandlesLeft' /\ MakesInDir'
      BY <1>3 DEF HandlesLeft, MakesInDir, Makes, Idle
    <2> QED
      BY <2>2, <2>3 DEF StepInv
  <1>12. SizeInv'
    <2>1. EditsKnown' /\ DraftsAccounted' /\ SizesTrue'
      BY <1>3, <1>4 DEF CacheInv, SizeInv, EditsKnown, DraftsAccounted, SizesTrue, Trusted
    <2>2. WritesLeft'
      BY <1>3 DEF WritesLeft, Idle
    <2> QED
      BY <1>4, <2>1, <2>2 DEF SizeInv
  <1> QED
    BY <1>8, <1>9, <1>10, <1>11, <1>12 DEF CacheInv

LEMMA RenameObjectKeeps == CacheInv /\ RenameObject => CacheInv'
  <1> SUFFICES ASSUME CacheInv, RenameObject
               PROVE  CacheInv'
    OBVIOUS
  <1>1. DevOK /\ CachesOK /\ OpOK
    BY TypeParts DEF CacheInv, TypeInv
  <1>2. /\ Renaming /\ ~HasEntry(op.dir, op.to) /\ op.kind = "rename" /\ op.dir \in 0..last
        /\ op.at \in {"start", "cleared"} /\ op.dir \in DOMAIN files
        /\ op.name \in DOMAIN files[op.dir] /\ Child = files[op.dir][op.name]
    BY <1>1 DEF RenameObject, Renaming, OpOK, Makes, Listed, HasEntry, Child, Entry
  <1>3. Settles({op.dir}) /\ (op.at # "cleared" => Settles({}))
    BY <1>2 DEF Settles, Behind
  <1>4. Child \in 1..last
    BY <1>1, <1>2, CachesTyped
  <1>5. ASSUME Exists(Child), dev' = [dev EXCEPT ![Child].name = op.to], UNCHANGED <<draft, last>>,
               \/ Lost({op.dir})
               \/ /\ files' = [files EXCEPT ![op.dir] = Put(Without(@, {op.name}), op.to, Child)]
                  /\ dirCache' = Without(dirCache, {op.dir})
                  /\ Done /\ Answered /\ UNCHANGED <<attrs, edits, known, mounted>>
        PROVE  CacheInv'
    <2>1. Renamed(Child)
      BY <1>4, <1>5 DEF Renamed, Exists, Top
    <2>2. CASE Lost({op.dir})
      <3>1. Child \in DOMAIN dev /\ dev[Child].parent = op.dir
        BY <1>2, <2>1 DEF Renamed, CacheInv, TreeInv, EntriesOwn
      <3>2. DevStep({op.dir}) /\ last' = last
        BY <1>2, <2>1, <3>1, RenamedFacts DEF DevStep
      <3> QED
        BY <1>2, <1>3, <2>2, <3>2, LostKeeps
    <2>3. CASE /\ files' = [files EXCEPT ![op.dir] = Put(Without(@, {op.name}), op.to, Child)]
               /\ dirCache' = Without(dirCache, {op.dir})
               /\ Done /\ Answered /\ UNCHANGED <<attrs, edits, known, mounted>>
      BY <1>2, <2>1, <2>3, RenamedKeeps
    <2> QED
      BY <1>5, <2>2, <2>3
  <1>6. CASE Refused(IF op.at = "cleared" THEN {op.dir} ELSE {})
    BY <1>2, <1>3, <1>6, RefusedKeeps
  <1>7. CASE Throws(IF op.at = "cleared" THEN {op.dir} ELSE {})
    BY <1>2, <1>3, <1>7, ThrowsKeeps
  <1> QED
    BY <1>5, <1>6, <1>7 DEF RenameObject

----------------------------------------------------------------------------
(* Write, SetAttr of the size, Read and Release *)

(* A step on an edit session: the attributes and the sessions may change,  *)
(* the directories do not.                                                 *)
EditStep ==
  /\ UNCHANGED <<load, last, files, dirCache, known, mounted, faults, doubted>>
  /\ op' = op \/ (op' = Idle /\ op.at = "start")
  /\ DevOK' /\ DOMAIN dev' = DOMAIN dev
  /\ \A i \in DOMAIN dev : /\ dev'[i].name = dev[i].name /\ dev'[i].parent = dev[i].parent
                          /\ dev'[i].dir = dev[i].dir
  /\ attrs' \in PartialFns(1..last, [dir : BOOLEAN, size : 0..MaxSize])
  /\ DOMAIN attrs' = DOMAIN attrs
  /\ \A i \in DOMAIN attrs : attrs'[i].dir = attrs[i].dir
  /\ edits' \subseteq 1..last /\ (~mounted => edits' = {})

LEMMA EditStepKeeps ==
  ASSUME CacheInv, EditStep, SizeInv'
  PROVE  CacheInv'
  <1>1. DevOK /\ CachesOK /\ RestOK /\ OpOK
    BY TypeParts DEF CacheInv, TypeInv
  <1>2. /\ last' = last /\ files' = files /\ dirCache' = dirCache /\ known' = known
        /\ mounted' = mounted /\ load' = load /\ faults' = faults /\ doubted' = doubted
        /\ DOMAIN dev' = DOMAIN dev /\ DOMAIN attrs' = DOMAIN attrs
        /\ op' = op \/ (op' = Idle /\ op.at = "start")
    BY DEF EditStep
  <1>3. \A i \in DOMAIN dev : /\ dev'[i].name = dev[i].name /\ dev'[i].parent = dev[i].parent
                            /\ dev'[i].dir = dev[i].dir
    BY DEF EditStep
  <1>4. TypeInv'
    <2>1. CachesOK' /\ DevOK'
      BY <1>1, <1>2 DEF CachesOK, EditStep
    <2>2. RestOK'
      BY <1>1, <1>2 DEF RestOK, EditStep
    <2>3. OpOK'
      <3>1. 0 \in 0..MaxSize /\ 0 \in 0..last'
        BY <1>1, <1>2, BoundsAssumption DEF DevOK
      <3>2. CASE op' = op
        BY <1>1, <1>2, <3>2 DEF OpOK
      <3>3. CASE op' = Idle
        BY <1>1, <3>1, <3>3, NamesThere DEF OpOK, Idle, Kinds, Top, Makes, RestOK
      <3> QED
        BY <1>2, <3>2, <3>3
    <2> QED
      BY <2>1, <2>2, <2>3, TypePartsNext DEF TypeInv
  <1>5. TreeInv'
    <2>1. \A i \in DOMAIN attrs : attrs'[i].dir = attrs[i].dir
      BY DEF EditStep
    <2> QED
      BY <1>2, <1>3, <2>1 DEF CacheInv, TreeInv, Tree, KindsTrue, KnownTrue, EntriesOwn, AttrsListed
  <1>6. Pending' = Pending /\ Behind' = Behind
    BY <1>2 DEF Pending, Behind, Idle, Makes
  <1>7. \A d : \A i : i \in Children(d)' <=> i \in Children(d)
    BY <1>2, <1>3 DEF Children
  <1>8. NoNamesakes => NamesInv'
    <2>1. SUFFICES ASSUME NoNamesakes
                   PROVE  NamesInv'
      OBVIOUS
    <2>2. NamesApart /\ MirrorBut(Pending) /\ NameFree
      BY <2>1 DEF CacheInv, NamesInv
    <2>3. NamesApart'
      BY <1>2, <1>3, <2>2 DEF NamesApart
    <2>4. MirrorBut(Pending)'
      BY <1>2, <1>3, <1>6, <1>7, <2>2 DEF MirrorBut, Exists, Children
    <2>5. NameFree'
      BY <1>2, <1>3, <2>2 DEF NameFree, Idle, Makes, Children
    <2> QED
      BY <2>3, <2>4, <2>5 DEF NamesInv
  <1>9. StepInv'
    <2>1. DirCacheBut(Behind)'
      BY <1>2, <1>6 DEF CacheInv, StepInv, DirCacheBut, Exists
    <2>2. HandlesLeft' /\ MakesInDir'
      BY <1>2, <1>3 DEF CacheInv, StepInv, HandlesLeft, MakesInDir, Idle, Makes
    <2> QED
      BY <2>1, <2>2 DEF StepInv
  <1> QED
    BY <1>4, <1>5, <1>8, <1>9 DEF CacheInv

(* The request to change file i is at its edit session.                    *)
LEMMA EditingFacts ==
  ASSUME CacheInv, Editing
  PROVE  /\ op.kind \in {"write", "truncate"} /\ op.kind # "idle" /\ op.at = "start"
         /\ op.obj \in DOMAIN attrs /\ op.obj \in 1..last /\ op.size \in 0..MaxSize /\ mounted
         /\ \A S : Settles(S)
  <1>1. OpOK /\ RestOK
    BY TypeParts DEF CacheInv, TypeInv
  <1>2. op.kind \in {"write", "truncate"} /\ op.kind # "idle" /\ op.obj \in 0..last /\ op.obj # Top
        /\ op.size \in 0..MaxSize
    BY <1>1 DEF Editing, OpOK
  <1>3. op.at = "start" /\ \A S : Settles(S)
    BY <1>2, StartSettles
  <1> QED
    BY <1>1, <1>2, <1>3 DEF Editing, HasAttr, Top, RestOK, Idle

(* What a draft of file i comes to hold: at least as many writes as the    *)
(* file has.                                                               *)
Drafts(i, size, rev) ==
  /\ i \in DOMAIN dev /\ size \in 0..MaxSize /\ rev \in 0..MaxWrites /\ dev[i].rev <= rev
  /\ draft' = Put(draft, i, [size |-> size, rev |-> rev])
  /\ UNCHANGED <<dev, last>>

LEMMA DraftsFacts ==
  ASSUME CacheInv, NEW i, NEW size, NEW rev, Drafts(i, size, rev)
  PROVE  /\ dev' = dev /\ last' = last /\ DevOK' /\ DraftsAhead' /\ Tree'
         /\ DOMAIN draft' = DOMAIN draft \cup {i}
         /\ \A j \in DOMAIN dev \ {i} : Content(j)' = Content(j)
         /\ Content(i)' = [size |-> size, rev |-> rev]
  <1>1. DevOK /\ Tree
    BY TypeParts DEF CacheInv, TypeInv, TreeInv
  <1>2. dev' = dev /\ last' = last
    BY DEF Drafts
  <1>3. /\ DOMAIN draft' = DOMAIN draft \cup {i} /\ draft'[i] = [size |-> size, rev |-> rev]
        /\ \A j \in DOMAIN draft \ {i} : draft'[j] = draft[j]
    BY DEF Drafts, Put, Over
  <1>4. DevOK'
    <2> DEFINE R == [size : 0..MaxSize, rev : 0..MaxWrites]
    <2>1. draft \in PartialFns(DOMAIN dev, R) /\ [size |-> size, rev |-> rev] \in R /\ i \in DOMAIN dev
      BY <1>1 DEF DevOK, Drafts
    <2>2. draft' = Put(draft, i, [size |-> size, rev |-> rev])
      BY DEF Drafts
    <2> HIDE DEF R
    <2>3. draft' \in PartialFns(DOMAIN dev, R)
      BY <2>1, <2>2, PartialPut
    <2> QED
      BY <1>1, <1>2, <2>3 DEF DevOK, R
  <1>5. DraftsAhead'
    BY <1>2, <1>3 DEF CacheInv, SizeInv, DraftsAhead, Drafts
  <1>6. \A j \in DOMAIN dev \ {i} : Content(j)' = Content(j)
    BY <1>2, <1>3 DEF Content
  <1>7. Content(i)' = [size |-> size, rev |-> rev]
    BY <1>3 DEF Content
  <1>8. Tree'
    BY <1>1, <1>2 DEF Tree
  <1> QED
    BY <1>2, <1>3, <1>4, <1>5, <1>6, <1>7, <1>8

(* An answer that is lost leaves the file in doubt.                        *)
LEMMA DraftsLost ==
  ASSUME CacheInv, Editing, NEW size, NEW rev, Drafts(op.obj, size, rev), Lost({op.obj}),
         edits = {} => rev = Content(op.obj).rev
  PROVE  CacheInv'
  <1>1. DevOK /\ TypeInv
    BY TypeParts DEF CacheInv, TypeInv
  <1>2. /\ op.obj \in 1..last /\ Settles({op.obj})
    BY EditingFacts
  <1>3. /\ dev' = dev /\ last' = last /\ DevOK' /\ DraftsAhead' /\ Tree'
        /\ DOMAIN draft' = DOMAIN draft \cup {op.obj}
        /\ \A j \in DOMAIN dev \ {op.obj} : Content(j)' = Content(j)
    BY DraftsFacts
  <1>4. \A i : i = op.obj => Content(i)' = [size |-> size, rev |-> rev]
    BY DraftsFacts
  <1>5. \A i \in DOMAIN dev : dev[i].parent = Top \/ dev[i].parent \in DOMAIN dev
    BY DEF CacheInv, TreeInv, Tree
  <1>6. DevStep({op.obj})
    BY <1>1, <1>3, <1>4, <1>5 DEF DevStep
  <1> QED
    BY <1>2, <1>3, <1>6, LostKeeps

LEMMA ContentTyped ==
  ASSUME CacheInv, NEW i \in DOMAIN dev
  PROVE  /\ Content(i).size \in 0..MaxSize /\ Content(i).rev \in 0..MaxWrites
         /\ dev[i].rev <= Content(i).rev
         /\ Content(i) = [size |-> Content(i).size, rev |-> Content(i).rev]
  <1>1. DevOK
    BY TypeParts DEF CacheInv, TypeInv
  <1> DEFINE R == [size : 0..MaxSize, rev : 0..MaxWrites]
  <1>2. draft \in PartialFns(DOMAIN dev, R)
    BY <1>1 DEF DevOK
  <1>3. draft \in [DOMAIN draft -> R]
    <2> HIDE DEF R
    <2> QED
      BY <1>2, PartialFn
  <1>4. dev[i].size \in 0..MaxSize /\ dev[i].rev \in 0..MaxWrites /\ dev[i].rev <= dev[i].rev
    BY <1>1, BoundsAssumption DEF DevOK
  <1>5. CASE i \in DOMAIN draft
    BY <1>3, <1>5 DEF Content, CacheInv, SizeInv, DraftsAhead
  <1>6. CASE i \notin DOMAIN draft
    BY <1>4, <1>6 DEF Content
  <1> QED
    BY <1>5, <1>6

LEMMA BeginEditKeeps == CacheInv /\ BeginEdit => CacheInv'
  <1> SUFFICES ASSUME CacheInv, BeginEdit
               PROVE  CacheInv'
    OBVIOUS
  <1>1. DevOK /\ CachesOK /\ RestOK
    BY TypeParts DEF CacheInv, TypeInv
  <1>2. Editing
    BY DEF BeginEdit
  <1>3. /\ op.at = "start" /\ op.obj \in DOMAIN attrs /\ op.obj \in 1..last /\ mounted
        /\ \A S : Settles(S)
    BY <1>2, EditingFacts
  <1>4. CASE Refused({})
    BY <1>3, <1>4, RefusedKeeps
  <1>5. CASE Throws({})
    BY <1>3, <1>5, ThrowsKeeps
  <1>6. ASSUME Exists(op.obj), draft' = Put(draft, op.obj, Content(op.obj)), UNCHANGED <<dev, last>>,
               \/ /\ edits' = edits \cup {op.obj} /\ Answered
                  /\ UNCHANGED <<files, attrs, dirCache, op, known, mounted>>
               \/ Lost({op.obj})
        PROVE  CacheInv'
    <2>1. op.obj \in DOMAIN dev
      BY <1>3, <1>6 DEF Exists, Top
    <2> DEFINE s == Content(op.obj).size
               r == Content(op.obj).rev
    <2>2. s \in 0..MaxSize /\ r \in 0..MaxWrites /\ dev[op.obj].rev <= r
          /\ Content(op.obj) = [size |-> s, rev |-> r]
      BY <2>1, ContentTyped
    <2> HIDE DEF s, r
    <2>3. Drafts(op.obj, s, r)
      BY <1>6, <2>1, <2>2 DEF Drafts
    <2>4. /\ dev' = dev /\ last' = last /\ DevOK' /\ DraftsAhead'
          /\ DOMAIN draft' = DOMAIN draft \cup {op.obj}
          /\ \A j \in DOMAIN dev \ {op.obj} : Content(j)' = Content(j)
      BY <2>3, DraftsFacts
    <2>5. \A j \in DOMAIN dev : Content(j)' = Content(j)
      <3>1. ASSUME NEW i, i = op.obj
            PROVE  Content(i)' = [size |-> s, rev |-> r]
        <4>1. Drafts(i, s, r)
          BY <2>3, <3>1
        <4> QED
          BY <4>1, DraftsFacts
      <3>2. \A i : i = op.obj => Content(i) = [size |-> s, rev |-> r]
        BY <2>2
      <3> QED
        BY <2>4, <3>1, <3>2
    <2>6. CASE Lost({op.obj})
      BY <1>2, <2>3, <2>6, DraftsLost DEF r
    <2>7. CASE /\ edits' = edits \cup {op.obj} /\ Answered
               /\ UNCHANGED <<files, attrs, dirCache, op, known, mounted>>
      <3>1. EditStep
        BY <1>1, <1>3, <2>4, <2>7 DEF EditStep, Answered, CachesOK
      <3>2. SizeInv'
        <4>1. /\ attrs' = attrs /\ doubted' = doubted /\ op' = op /\ edits' = edits \cup {op.obj}
          BY <2>7 DEF Answered
        <4>2. EditsKnown' /\ DraftsAccounted'
          BY <1>3, <2>4, <4>1 DEF CacheInv, SizeInv, EditsKnown, DraftsAccounted
        <4>3. SizesTrue'
          BY <2>4, <2>5, <4>1 DEF CacheInv, SizeInv, SizesTrue, Trusted
        <4>4. WritesLeft'
          <5>1. SUFFICES ASSUME NEW i, i = op.obj, op.kind = "write"
                         PROVE  Content(i)'.rev < MaxWrites
            BY <4>1 DEF WritesLeft, Content
          <5>2. Content(i).rev < MaxWrites
            BY <2>1, <5>1 DEF CacheInv, SizeInv, WritesLeft
          <5> QED
            BY <2>1, <2>5, <5>1, <5>2
        <4> QED
          BY <2>4, <4>2, <4>3, <4>4 DEF SizeInv
      <3> QED
        BY <3>1, <3>2, EditStepKeeps
    <2> QED
      BY <1>6, <2>6, <2>7
  <1> QED
    BY <1>4, <1>5, <1>6 DEF BeginEdit

LEMMA TruncateKeeps == CacheInv /\ Truncate => CacheInv'
  <1> SUFFICES ASSUME CacheInv, Truncate
               PROVE  CacheInv'
    OBVIOUS
  <1>1. DevOK /\ CachesOK /\ RestOK
    BY TypeParts DEF CacheInv, TypeInv
  <1>2. Editing /\ op.obj \in edits /\ op.obj \in DOMAIN draft
    BY DEF Truncate, InSession
  <1>3. /\ op.at = "start" /\ op.obj \in DOMAIN attrs /\ op.obj \in 1..last /\ mounted
        /\ op.size \in 0..MaxSize /\ \A S : Settles(S)
    BY <1>2, EditingFacts
  <1>4. CASE Refused({})
    BY <1>3, <1>4, RefusedKeeps
  <1>5. ASSUME draft' = [draft EXCEPT ![op.obj].size = op.size], UNCHANGED <<dev, last>>,
               \/ /\ attrs' = [attrs EXCEPT ![op.obj].size = op.size]
                  /\ IF op.kind = "truncate" THEN Done ELSE UNCHANGED op
                  /\ Answered
                  /\ UNCHANGED <<files, edits, dirCache, known, mounted>>
               \/ Lost({op.obj})
        PROVE  CacheInv'
    <2>1. draft \in [DOMAIN draft -> [size : 0..MaxSize, rev : 0..MaxWrites]]
          /\ DOMAIN draft \subseteq DOMAIN dev
      <3> DEFINE R == [size : 0..MaxSize, rev : 0..MaxWrites]
      <3>1. draft \in PartialFns(DOMAIN dev, R)
        BY <1>1 DEF DevOK
      <3> HIDE DEF R
      <3>2. draft \in [DOMAIN draft -> R] /\ DOMAIN draft \subseteq DOMAIN dev
        BY <3>1, PartialFn
      <3> QED
        BY <3>2 DEF R
    <2> DEFINE r == draft[op.obj].rev
    <2>2. op.obj \in DOMAIN dev /\ r \in 0..MaxWrites /\ dev[op.obj].rev <= r
          /\ Content(op.obj).rev = r
      BY <1>2, <2>1 DEF CacheInv, SizeInv, DraftsAhead, Content
    <2>3. [draft[op.obj] EXCEPT !.size = op.size] = [size |-> op.size, rev |-> r]
      BY <1>2, <2>1
    <2> HIDE DEF r
    <2>4. draft' = Put(draft, op.obj, [size |-> op.size, rev |-> r])
      <3>1. draft' = [draft EXCEPT ![op.obj] = [size |-> op.size, rev |-> r]]
        BY <1>5, <2>3
      <3> QED
        BY <1>2, <2>1, <3>1 DEF Put, Over
    <2>5. Drafts(op.obj, op.size, r)
      BY <1>3, <1>5, <2>2, <2>4 DEF Drafts
    <2>6. /\ dev' = dev /\ last' = last /\ DevOK' /\ DraftsAhead'
          /\ DOMAIN draft' = DOMAIN draft \cup {op.obj}
          /\ \A j \in DOMAIN dev \ {op.obj} : Content(j)' = Content(j)
      BY <2>5, DraftsFacts
    <2>7. ASSUME NEW i, i = op.obj
          PROVE  Content(i)' = [size |-> op.size, rev |-> r]
      <3>1. Drafts(i, op.size, r)
        BY <2>5, <2>7
      <3> QED
        BY <3>1, DraftsFacts
    <2>8. CASE Lost({op.obj})
      BY <1>2, <2>2, <2>5, <2>8, DraftsLost
    <2>9. CASE /\ attrs' = [attrs EXCEPT ![op.obj].size = op.size]
               /\ IF op.kind = "truncate" THEN Done ELSE UNCHANGED op
               /\ Answered
               /\ UNCHANGED <<files, edits, dirCache, known, mounted>>
      <3>1. /\ doubted' = doubted /\ edits' = edits /\ (op' = op \/ op' = Idle)
            /\ DOMAIN attrs' = DOMAIN attrs
            /\ \A i \in DOMAIN attrs \ {op.obj} : attrs'[i] = attrs[i]
            /\ attrs'[op.obj] = [attrs[op.obj] EXCEPT !.size = op.size]
        BY <1>3, <2>9 DEF Answered, Done
      <3>2. attrs[op.obj] \in [dir : BOOLEAN, size : 0..MaxSize]
        BY <1>1, <1>3, CachesTyped
      <3>3. /\ attrs'[op.obj].size = op.size /\ attrs'[op.obj].dir = attrs[op.obj].dir
            /\ attrs'[op.obj] \in [dir : BOOLEAN, size : 0..MaxSize]
        BY <1>3, <3>1, <3>2
      <3>4. attrs' \in PartialFns(1..last, [dir : BOOLEAN, size : 0..MaxSize])
        <4> DEFINE R == [dir : BOOLEAN, size : 0..MaxSize]
        <4>1. attrs \in PartialFns(1..last, R) /\ [attrs[op.obj] EXCEPT !.size = op.size] \in R
          BY <1>1, <3>1, <3>3 DEF CachesOK
        <4>2. attrs' = [attrs EXCEPT ![op.obj] = [attrs[op.obj] EXCEPT !.size = op.size]]
          BY <2>9
        <4> HIDE DEF R
        <4>3. attrs' \in PartialFns(1..last, R)
          BY <4>1, <4>2, PartialExcept
        <4> QED
          BY <4>3 DEF R
      <3>5. EditStep
        BY <1>1, <1>3, <2>6, <2>9, <3>1, <3>3, <3>4 DEF EditStep, Answered, CachesOK, RestOK
      <3>6. SizeInv'
        <4>1. EditsKnown' /\ DraftsAccounted'
          BY <1>2, <2>6, <3>1 DEF CacheInv, SizeInv, EditsKnown, DraftsAccounted
        <4>2. SizesTrue'
          <5>1. SUFFICES ASSUME NEW i \in DOMAIN attrs \cap DOMAIN dev, Trusted(i)
                         PROVE  attrs'[i].size = Content(i)'.size
            BY <2>6, <3>1 DEF SizesTrue, Trusted
          <5>2. CASE i = op.obj
            BY <2>7, <3>3, <5>2
          <5>3. CASE i # op.obj
            BY <2>6, <3>1, <5>1, <5>3 DEF CacheInv, SizeInv, SizesTrue
          <5> QED
            BY <5>2, <5>3
        <4>3. WritesLeft'
          <5>1. CASE op' = Idle
            BY <5>1 DEF WritesLeft, Idle
          <5>2. CASE op' = op
            <6>1. SUFFICES ASSUME NEW i, i = op.obj, op.kind = "write"
                           PROVE  Content(i)'.rev < MaxWrites
              BY <5>2 DEF WritesLeft, Content
            <6>2. r < MaxWrites
              BY <2>2, <6>1 DEF CacheInv, SizeInv, WritesLeft
            <6> QED
              BY <2>7, <6>1, <6>2
          <5> QED
            BY <3>1, <5>1, <5>2
        <4> QED
          BY <2>6, <4>1, <4>2, <4>3 DEF SizeInv
      <3> QED
        BY <3>5, <3>6, EditStepKeeps
    <2> QED
      BY <1>5, <2>8, <2>9
  <1> QED
    BY <1>4, <1>5 DEF Truncate

LEMMA DraftsTyped ==
  ASSUME DevOK
  PROVE  /\ DOMAIN draft \subseteq DOMAIN dev
         /\ draft \in [DOMAIN draft -> [size : 0..MaxSize, rev : 0..MaxWrites]]
  <1> DEFINE R == [size : 0..MaxSize, rev : 0..MaxWrites]
  <1>1. draft \in PartialFns(DOMAIN dev, R)
    BY DEF DevOK
  <1> HIDE DEF R
  <1>2. draft \in [DOMAIN draft -> R] /\ DOMAIN draft \subseteq DOMAIN dev
    BY <1>1, PartialFn
  <1> QED
    BY <1>2 DEF R

LEMMA SendKeeps == CacheInv /\ Send => CacheInv'
  <1> SUFFICES ASSUME CacheInv, Send
               PROVE  CacheInv'
    OBVIOUS
  <1>1. DevOK /\ CachesOK /\ RestOK
    BY TypeParts DEF CacheInv, TypeInv
  <1>2. Editing /\ op.obj \in edits /\ op.obj \in DOMAIN draft /\ op.kind = "write"
    BY DEF Send, InSession
  <1>3. /\ op.at = "start" /\ op.obj \in DOMAIN attrs /\ op.obj \in 1..last /\ mounted
        /\ \A S : Settles(S)
    BY <1>2, EditingFacts
  <1>4. CASE Refused({})
    BY <1>3, <1>4, RefusedKeeps
  <1>5. ASSUME draft' = [draft EXCEPT ![op.obj].rev = @ + 1], UNCHANGED <<dev, last>>,
               \/ Done /\ Answered /\ UNCHANGED <<caches, known, mounted>>
               \/ Lost({op.obj})
        PROVE  CacheInv'
    <2> DEFINE s == draft[op.obj].size
               r == draft[op.obj].rev
    <2>1. op.obj \in DOMAIN dev /\ draft[op.obj] \in [size : 0..MaxSize, rev : 0..MaxWrites]
      BY <1>1, <1>2, DraftsTyped
    <2>2. s \in 0..MaxSize /\ r \in 0..MaxWrites /\ dev[op.obj].rev \in Nat /\ dev[op.obj].rev <= r
      BY <1>1, <1>2, <2>1, BoundsAssumption DEF CacheInv, SizeInv, DraftsAhead, DevOK
    <2>3. r < MaxWrites /\ Content(op.obj).size = s
      BY <1>2, <2>1 DEF CacheInv, SizeInv, WritesLeft, Content
    <2>4. [draft[op.obj] EXCEPT !.rev = @ + 1] = [size |-> s, rev |-> r + 1]
      BY <2>1
    <2> HIDE DEF s, r
    <2>5. draft' = [draft EXCEPT ![op.obj] = [size |-> s, rev |-> r + 1]]
      BY <1>5, <2>4
    <2>6. draft' = Put(draft, op.obj, [size |-> s, rev |-> r + 1])
      BY <1>1, <1>2, <2>5, DraftsTyped DEF Put, Over
    <2>7. r + 1 \in 0..MaxWrites /\ dev[op.obj].rev <= r + 1
      BY <2>2, <2>3, BoundsAssumption
    <2>8. Drafts(op.obj, s, r + 1)
      BY <1>5, <2>1, <2>2, <2>6, <2>7 DEF Drafts
    <2>9. /\ dev' = dev /\ last' = last /\ DevOK' /\ DraftsAhead'
          /\ DOMAIN draft' = DOMAIN draft \cup {op.obj}
          /\ \A j \in DOMAIN dev \ {op.obj} : Content(j)' = Content(j)
      BY <2>8, DraftsFacts
    <2>10. ASSUME NEW i, i = op.obj
           PROVE  Content(i)' = [size |-> s, rev |-> r + 1]
      <3>1. Drafts(i, s, r + 1)
        BY <2>8, <2>10
      <3> QED
        BY <3>1, DraftsFacts
    <2>11. CASE Lost({op.obj})
      <3>1. edits # {}
        BY <1>2
      <3> QED
        BY <1>2, <2>8, <2>11, <3>1, DraftsLost
    <2>12. CASE Done /\ Answered /\ UNCHANGED <<caches, known, mounted>>
      <3>1. /\ doubted' = doubted /\ edits' = edits /\ attrs' = attrs /\ op' = Idle
            /\ files' = files /\ dirCache' = dirCache
        BY <2>12 DEF Answered, Done, caches
      <3>2. EditStep
        BY <1>1, <1>3, <2>9, <2>12, <3>1 DEF EditStep, Answered, CachesOK, RestOK
      <3>3. \A i \in DOMAIN dev : Content(i)'.size = Content(i).size
        BY <2>3, <2>9, <2>10
      <3>4. SizeInv'
        <4>1. EditsKnown' /\ DraftsAccounted'
          BY <1>2, <2>9, <3>1 DEF CacheInv, SizeInv, EditsKnown, DraftsAccounted
        <4>2. SizesTrue'
          BY <2>9, <3>1, <3>3 DEF CacheInv, SizeInv, SizesTrue, Trusted
        <4>3. WritesLeft'
          BY <3>1 DEF WritesLeft, Idle
        <4> QED
          BY <2>9, <4>1, <4>2, <4>3 DEF SizeInv
      <3> QED
        BY <3>2, <3>4, EditStepKeeps
    <2> QED
      BY <1>5, <2>11, <2>12
  <1> QED
    BY <1>4, <1>5 DEF Send

(* EndEditObject makes the content of the file what it was with the edits. *)
LEMMA CommitFacts ==
  ASSUME CacheInv, NEW i \in DOMAIN draft, Commit(i), last' = last
  PROVE  /\ DOMAIN dev' = DOMAIN dev /\ DevOK' /\ DraftsAhead'
         /\ \A j \in DOMAIN dev : /\ dev'[j].name = dev[j].name /\ dev'[j].parent = dev[j].parent
                                 /\ dev'[j].dir = dev[j].dir
                                 /\ Content(j)' = Content(j)
         /\ DOMAIN draft' = DOMAIN draft \ {i}
  <1>1. DevOK
    BY TypeParts DEF CacheInv, TypeInv
  <1>2. /\ i \in DOMAIN dev /\ DOMAIN draft \subseteq DOMAIN dev
        /\ draft[i] \in [size : 0..MaxSize, rev : 0..MaxWrites]
    BY <1>1, DraftsTyped
  <1>3. /\ DOMAIN draft' = DOMAIN draft \ {i}
        /\ \A j \in DOMAIN draft' : draft'[j] = draft[j]
        /\ draft' = Without(draft, {i})
    BY DEF Commit, Without, Restrict
  <1>4. DOMAIN dev' = DOMAIN dev /\ \A j \in DOMAIN dev \ {i} : dev'[j] = dev[j]
    BY <1>2 DEF Commit
  <1>5. dev'[i] = [[dev[i] EXCEPT !.size = draft[i].size] EXCEPT !.rev = draft[i].rev]
    BY <1>2 DEF Commit
  <1>6. dev[i] \in [name : Names, parent : 0..last, dir : BOOLEAN,
                   size : 0..MaxSize, rev : 0..MaxWrites]
    BY <1>1, <1>2 DEF DevOK
  <1>7. /\ dev'[i].name = dev[i].name /\ dev'[i].parent = dev[i].parent /\ dev'[i].dir = dev[i].dir
        /\ dev'[i].size = draft[i].size /\ dev'[i].rev = draft[i].rev
        /\ dev'[i] \in [name : Names, parent : 0..last, dir : BOOLEAN,
                        size : 0..MaxSize, rev : 0..MaxWrites]
    BY <1>2, <1>5, <1>6
  <1>8. DevOK'
    <2> DEFINE R == [size : 0..MaxSize, rev : 0..MaxWrites]
    <2>1. draft \in PartialFns(DOMAIN dev, R)
      BY <1>1 DEF DevOK
    <2> HIDE DEF R
    <2>2. draft' \in PartialFns(DOMAIN dev \ {i}, R)
      BY <1>3, <2>1, PartialWithout
    <2>3. draft' \in PartialFns(DOMAIN dev', R)
      BY <1>4, <2>2, PartialFn
    <2> QED
      BY <1>1, <1>4, <1>7, <2>3 DEF DevOK, R
  <1>9. DraftsAhead'
    BY <1>2, <1>3, <1>4 DEF CacheInv, SizeInv, DraftsAhead
  <1>10. Content(i)' = Content(i)
    <2>1. i \notin DOMAIN draft'
      BY <1>3
    <2>2. draft[i] = [size |-> draft[i].size, rev |-> draft[i].rev]
      BY <1>2
    <2> QED
      BY <1>7, <2>1, <2>2 DEF Content
  <1>11. \A j \in DOMAIN dev \ {i} : Content(j)' = Content(j)
    BY <1>3, <1>4 DEF Content
  <1> QED
    BY <1>3, <1>4, <1>7, <1>8, <1>9, <1>10, <1>11

LEMMA EndEditKeeps == CacheInv /\ (ReadEndsEdit \/ Release) => CacheInv'
  <1> SUFFICES ASSUME CacheInv, ReadEndsEdit \/ Release
               PROVE  CacheInv'
    OBVIOUS
  <1>1. DevOK /\ CachesOK /\ RestOK /\ OpOK
    BY TypeParts DEF CacheInv, TypeInv
  <1>2. op.kind \in {"read", "release"} /\ op.kind # "idle" /\ mounted
    BY <1>1 DEF ReadEndsEdit, Release, At, RestOK, Idle
  <1>3. op.at = "start" /\ \A S : Settles(S)
    BY <1>2, StartSettles
  <1>4. CASE Answers
    BY <1>3, <1>4, AnswersKeeps
  <1>5. CASE Fault(edits) /\ Dies /\ UNCHANGED device
    <2>1. DevStep({}) /\ last' = last
      BY <1>5, NoCall DEF device
    <2>2. faults \in Nat /\ load.faults \in Nat
      BY <1>1, LoadsAssumption DEF RestOK
    <2>3. Ends({})
      BY <1>1, <1>5, <2>1, <2>2 DEF Ends, Fault, RestOK, CachesOK
    <2> QED
      BY <1>3, <1>5, <2>3, EndsKeep DEF Fault
  <1>6. ASSUME IF op.obj \in DOMAIN draft THEN Commit(op.obj) ELSE UNCHANGED <<dev, draft>>,
               UNCHANGED last, edits' = edits \ {op.obj},
               Answered, UNCHANGED <<files, attrs, dirCache, known, mounted>>,
               op' = op \/ op' = Idle
        PROVE  CacheInv'
    <2>1. /\ DOMAIN dev' = DOMAIN dev /\ DevOK' /\ DraftsAhead'
          /\ \A j \in DOMAIN dev : /\ dev'[j].name = dev[j].name /\ dev'[j].parent = dev[j].parent
                                  /\ dev'[j].dir = dev[j].dir
                                  /\ Content(j)' = Content(j)
          /\ DOMAIN draft' = DOMAIN draft \ {op.obj}
      <3>1. CASE op.obj \in DOMAIN draft
        BY <1>6, <3>1, CommitFacts
      <3>2. CASE op.obj \notin DOMAIN draft
        BY <1>1, <1>6, <3>2 DEF DevOK, Content, CacheInv, SizeInv, DraftsAhead
      <3> QED
        BY <3>1, <3>2
    <2>2. /\ attrs' = attrs /\ doubted' = doubted /\ last' = last /\ edits' = edits \ {op.obj}
          /\ files' = files /\ dirCache' = dirCache /\ known' = known /\ mounted' = mounted
          /\ load' = load /\ faults' = faults
      BY <1>6 DEF Answered
    <2>3. EditStep
      BY <1>1, <1>2, <1>3, <1>6, <2>1, <2>2 DEF EditStep, CachesOK
    <2>4. SizeInv'
      <3>1. EditsKnown' /\ DraftsAccounted' /\ SizesTrue'
        BY <2>1, <2>2 DEF CacheInv, SizeInv, EditsKnown, DraftsAccounted, SizesTrue, Trusted
      <3>2. WritesLeft'
        BY <1>2, <1>6 DEF WritesLeft, Idle
      <3> QED
        BY <2>1, <3>1, <3>2 DEF SizeInv
    <2> QED
      BY <2>3, <2>4, EditStepKeeps
  <1>7. CASE ReadEndsEdit
    <2>1. op' = op \/ op' = Idle
      BY <1>7 DEF ReadEndsEdit
    <2>2. CASE Fault(edits) /\ Dies /\ UNCHANGED device
      BY <1>5, <2>2
    <2>3. CASE /\ IF op.obj \in DOMAIN draft THEN Commit(op.obj) ELSE UNCHANGED <<dev, draft>>
               /\ UNCHANGED last
               /\ edits' = edits \ {op.obj}
               /\ Answered /\ UNCHANGED <<files, attrs, dirCache, known, mounted>>
      BY <1>6, <2>1, <2>3
    <2> QED
      BY <1>7, <2>2, <2>3 DEF ReadEndsEdit, EndEdit
  <1>8. CASE Release
    <2>1. CASE Fault(edits) /\ Dies /\ UNCHANGED device
      BY <1>5, <2>1
    <2>2. CASE /\ IF op.obj \in DOMAIN draft THEN Commit(op.obj) ELSE UNCHANGED <<dev, draft>>
               /\ UNCHANGED last
               /\ edits' = edits \ {op.obj}
               /\ Answered /\ UNCHANGED <<files, attrs, dirCache, known, mounted>>
               /\ Done
      BY <1>6, <2>2 DEF Done
    <2> QED
      BY <1>4, <1>8, <2>1, <2>2 DEF Release, EndEdit
  <1> QED
    BY <1>7, <1>8

LEMMA DeviceEndsEditKeeps == CacheInv /\ DeviceEndsEdit => CacheInv'
  <1> SUFFICES ASSUME CacheInv, DeviceEndsEdit
               PROVE  CacheInv'
    OBVIOUS
  <1>1. DevOK /\ CachesOK /\ RestOK
    BY TypeParts DEF CacheInv, TypeInv
  <1>2. PICK i \in DOMAIN draft \ edits : Commit(i) \/ (draft' = Without(draft, {i}) /\ UNCHANGED dev)
    BY DEF DeviceEndsEdit
  <1>3. /\ attrs' = attrs /\ doubted' = doubted /\ last' = last /\ edits' = edits
        /\ files' = files /\ dirCache' = dirCache /\ known' = known /\ mounted' = mounted
        /\ load' = load /\ faults' = faults /\ op' = op
    BY DEF DeviceEndsEdit, caches
  <1>4. i \in doubted /\ i \in DOMAIN dev
    BY <1>1, <1>2, DraftsTyped DEF CacheInv, SizeInv, DraftsAccounted
  <1>5. /\ DOMAIN dev' = DOMAIN dev /\ DevOK' /\ DraftsAhead'
        /\ \A j \in DOMAIN dev : /\ dev'[j].name = dev[j].name /\ dev'[j].parent = dev[j].parent
                                /\ dev'[j].dir = dev[j].dir
        /\ \A j \in DOMAIN dev \ {i} : Content(j)' = Content(j)
        /\ Content(i)'.rev <= Content(i).rev /\ Content(i)'.rev \in Nat /\ Content(i).rev \in Nat
        /\ DOMAIN draft' = DOMAIN draft \ {i}
    <2>1. Content(i).rev \in Nat
      BY <1>4, ContentTyped, BoundsAssumption
    <2>2. CASE Commit(i)
      <3>1. /\ DOMAIN dev' = DOMAIN dev /\ DevOK' /\ DraftsAhead'
            /\ \A j \in DOMAIN dev : /\ dev'[j].name = dev[j].name /\ dev'[j].parent = dev[j].parent
                                    /\ dev'[j].dir = dev[j].dir
                                    /\ Content(j)' = Content(j)
            /\ DOMAIN draft' = DOMAIN draft \ {i}
        BY <1>2, <1>3, <2>2, CommitFacts
      <3>2. Content(i)'.rev = Content(i).rev
        BY <1>4, <3>1
      <3>3. Content(i).rev <= Content(i).rev
        BY <2>1
      <3> QED
        BY <2>1, <3>1, <3>2, <3>3
    <2>3. CASE draft' = Without(draft, {i}) /\ UNCHANGED dev
      <3>1. DOMAIN draft' = DOMAIN draft \ {i} /\ \A j \in DOMAIN draft' : draft'[j] = draft[j]
        BY <2>3 DEF Without, Restrict
      <3>2. DevOK'
        <4> DEFINE R == [size : 0..MaxSize, rev : 0..MaxWrites]
        <4>1. draft \in PartialFns(DOMAIN dev, R)
          BY <1>1 DEF DevOK
        <4> HIDE DEF R
        <4>2. draft' \in PartialFns(DOMAIN dev \ {i}, R)
          BY <2>3, <4>1, PartialWithout
        <4>3. draft' \in PartialFns(DOMAIN dev', R)
          BY <2>3, <4>2, PartialFn
        <4> QED
          BY <1>1, <1>3, <2>3, <4>3 DEF DevOK, R
      <3>3. Content(i)'.rev = dev[i].rev /\ dev[i].rev \in Nat
        BY <1>1, <1>4, <2>3, <3>1, BoundsAssumption DEF Content, DevOK
      <3>4. dev[i].rev <= Content(i).rev
        BY <1>4, ContentTyped
      <3>5. \A j \in DOMAIN dev \ {i} : Content(j)' = Content(j)
        BY <2>3, <3>1 DEF Content
      <3>6. DraftsAhead'
        BY <2>3, <3>1 DEF CacheInv, SizeInv, DraftsAhead
      <3> QED
        BY <2>1, <2>3, <3>1, <3>2, <3>3, <3>4, <3>5, <3>6
    <2> QED
      BY <1>2, <2>2, <2>3
  <1>6. EditStep
    BY <1>1, <1>3, <1>5 DEF EditStep, CachesOK, RestOK
  <1>7. SizeInv'
    <2>1. EditsKnown' /\ DraftsAccounted'
      BY <1>3, <1>5 DEF CacheInv, SizeInv, EditsKnown, DraftsAccounted
    <2>2. SizesTrue'
      BY <1>3, <1>4, <1>5 DEF CacheInv, SizeInv, SizesTrue, Trusted
    <2>3. WritesLeft'
      <3>1. SUFFICES ASSUME NEW j, j = op.obj, op.kind = "write", j \in DOMAIN dev
                     PROVE  Content(j)'.rev < MaxWrites
        BY <1>3, <1>5 DEF WritesLeft, Content
      <3>2. Content(j).rev < MaxWrites
        BY <3>1 DEF CacheInv, SizeInv, WritesLeft
      <3> QED
        BY <1>5, <3>1, <3>2, BoundsAssumption
    <2> QED
      BY <1>5, <2>1, <2>2, <2>3 DEF SizeInv
  <1> QED
    BY <1>6, <1>7, EditStepKeeps

----------------------------------------------------------------------------
(* A request arrives, and the file system is mounted *)

(* A request may arrive when its directory is known well enough.           *)
LEMMA RequestKeeps ==
  ASSUME CacheInv, op = Idle, mounted,
         UNCHANGED <<load, device, caches, known, mounted, faults, doubted>>,
         op' \in [kind : Kinds \ {"idle"}, dir : 0..last, name : Names, to : Names, obj : 0..last,
                 size : 0..MaxSize, at : {"start"}, retried : {FALSE}],
         op'.kind \in {"getattr", "write", "truncate", "read", "release", "open"} => op'.obj # Top,
         op'.kind \in Makes =>
           /\ op'.dir \in DOMAIN files /\ op'.name \notin DOMAIN files[op'.dir]
           /\ op'.dir = Top \/ (op'.dir \in DOMAIN known /\ known[op'.dir] = "dir")
           /\ last + (IF faults < load.faults THEN 2 ELSE 1) <= MaxObjects,
         \A i \in DOMAIN dev : op'.kind = "write" /\ i = op'.obj => Content(i).rev < MaxWrites
  PROVE  CacheInv'
  <1>1. DevOK /\ CachesOK /\ RestOK
    BY TypeParts DEF CacheInv, TypeInv
  <1>2. /\ dev' = dev /\ draft' = draft /\ last' = last
        /\ files' = files /\ attrs' = attrs /\ edits' = edits /\ dirCache' = dirCache
        /\ known' = known /\ mounted' = mounted /\ load' = load /\ faults' = faults
        /\ doubted' = doubted
    BY DEF device, caches
  <1>3. op'.at = "start" /\ op'.retried = FALSE
    OBVIOUS
  <1>4. TypeInv'
    <2>1. DevOK' /\ CachesOK' /\ RestOK'
      BY <1>1, <1>2 DEF DevOK, CachesOK, RestOK
    <2>2. OpOK'
      <3>1. op' \in [kind : Kinds, dir : 0..last', name : Names, to : Names, obj : 0..last',
                     size : 0..MaxSize, retried : BOOLEAN,
                     at : {"start", "filling", "sent", "made", "cached", "cleared"}]
        BY <1>2
      <3>2. op'.kind # "idle"
        OBVIOUS
      <3> QED
        BY <1>3, <3>1, <3>2 DEF OpOK
    <2> QED
      BY <2>1, <2>2, TypePartsNext DEF TypeInv
  <1>5. TreeInv'
    BY <1>2 DEF CacheInv, TreeInv, Tree, KindsTrue, KnownTrue, EntriesOwn, AttrsListed
  <1>6. Pending = {} /\ Pending' = {} /\ Behind = {} /\ Behind' = {}
    BY <1>3 DEF Pending, Behind, Idle
  <1>7. ASSUME NoNamesakes
        PROVE  NamesInv'
    <2>1. NamesApart /\ MirrorBut({})
      BY <1>6, <1>7 DEF CacheInv, NamesInv
    <2>2. NamesApart' /\ MirrorBut(Pending)'
      BY <1>2, <1>6, <2>1 DEF NamesApart, MirrorBut, Exists, Children
    <2>3. NameFree'
      <3>1. SUFFICES ASSUME op'.kind \in Makes, op'.dir \notin doubted,
                            NEW i \in DOMAIN dev, dev[i].parent = op'.dir
                     PROVE  dev[i].name # op'.name
        BY <1>2 DEF NameFree, Children
      <3>2. Exists(op'.dir) /\ i \in Children(op'.dir)
        BY <3>1 DEF CacheInv, TreeInv, Tree, Exists, Children
      <3> QED
        BY <2>1, <3>1, <3>2 DEF MirrorBut
    <2> QED
      BY <2>2, <2>3 DEF NamesInv
  <1>8. StepInv'
    <2>1. DirCacheBut(Behind)'
      BY <1>2, <1>6 DEF CacheInv, StepInv, DirCacheBut, Exists
    <2>2. HandlesLeft'
      <3>1. last \in Nat /\ MaxObjects \in Nat
        BY <1>1, BoundsAssumption DEF DevOK
      <3>2. op'.kind \in Makes => last + (IF faults < load.faults THEN 2 ELSE 1) <= MaxObjects
        OBVIOUS
      <3>3. op'.kind \in Makes => last + 1 <= MaxObjects /\ (faults < load.faults => last + 2 <= MaxObjects)
        BY <3>1, <3>2
      <3> QED
        BY <1>2, <1>3, <3>3 DEF HandlesLeft
    <2>3. MakesInDir'
      <3>1. SUFFICES ASSUME op'.kind \in Makes
                     PROVE  (op'.dir \in DOMAIN dev => dev[op'.dir].dir) /\ op'.dir \in DOMAIN files
        BY <1>2, <1>3 DEF MakesInDir
      <3>2. op'.dir \in DOMAIN dev => op'.dir # Top
        BY <1>1 DEF DevOK, Top
      <3> QED
        BY <3>1, <3>2 DEF CacheInv, TreeInv, KnownTrue
    <2> QED
      BY <2>1, <2>2, <2>3 DEF StepInv
  <1>9. SizeInv'
    <2>1. EditsKnown' /\ DraftsAccounted' /\ DraftsAhead' /\ SizesTrue'
      BY <1>2 DEF CacheInv, SizeInv, EditsKnown, DraftsAccounted, DraftsAhead, SizesTrue, Trusted, Content
    <2>2. WritesLeft'
      BY <1>2 DEF WritesLeft, Content
    <2> QED
      BY <2>1, <2>2 DEF SizeInv
  <1> QED
    BY <1>4, <1>5, <1>7, <1>8, <1>9 DEF CacheInv

LEMMA RequestFields ==
  ASSUME NEW r, op' = Over(r, Idle),
         DOMAIN r \subseteq {"kind", "dir", "name", "to", "obj", "size"}
  PROVE  op' = [kind |-> IF "kind" \in DOMAIN r THEN r.kind ELSE Idle.kind,
                dir |-> IF "dir" \in DOMAIN r THEN r.dir ELSE Idle.dir,
                name |-> IF "name" \in DOMAIN r THEN r.name ELSE Idle.name,
                to |-> IF "to" \in DOMAIN r THEN r.to ELSE Idle.to,
                obj |-> IF "obj" \in DOMAIN r THEN r.obj ELSE Idle.obj,
                size |-> IF "size" \in DOMAIN r THEN r.size ELSE Idle.size,
                at |-> "start", retried |-> FALSE]
  BY DEF Over, Idle

(* The parts a request has not are those of Idle.                          *)
LEMMA IdleParts ==
  ASSUME CacheInv
  PROVE  /\ Idle.dir \in 0..last /\ Idle.name \in Names /\ Idle.to \in Names
         /\ Idle.obj \in 0..last /\ Idle.size \in 0..MaxSize
  <1>1. DevOK /\ RestOK
    BY TypeParts DEF CacheInv, TypeInv
  <1>2. 0 \in 0..last /\ 0 \in 0..MaxSize
    BY <1>1, BoundsAssumption DEF DevOK
  <1> QED
    BY <1>1, <1>2, NamesThere DEF Idle, Top, RestOK

LEMMA SubmitParts ==
  ASSUME CacheInv
  PROVE  /\ KnownDirs \subseteq 0..last
         /\ \A d \in KnownDirs : d = Top \/ (d \in DOMAIN known /\ known[d] = "dir")
         /\ DOMAIN known \subseteq 1..last /\ KnownFiles \subseteq 1..last
         /\ \A i \in 1..last : i \in 0..last /\ i # Top
         /\ load.names \subseteq Names
  <1>1. DevOK /\ RestOK
    BY TypeParts DEF CacheInv, TypeInv
  <1>2. 0 \in 0..last /\ DOMAIN known \subseteq 1..last /\ load \in Loads
    BY <1>1 DEF DevOK, RestOK
  <1>3. \A i \in 1..last : i \in 0..last /\ i # Top
    BY <1>1 DEF DevOK, Top
  <1>4. load.names \subseteq Names
    BY <1>2 DEF Names
  <1> QED
    BY <1>2, <1>3, <1>4 DEF KnownDirs, KnownFiles, Top

LEMMA SubmitDirKeeps ==
  ASSUME CacheInv, NEW d \in KnownDirs,
         \/ ReadDirRequest(d)
         \/ \E n \in load.names :
              \/ LookupRequest(d, n) \/ UnlinkRequest(d, n)
              \/ CreateRequest(d, n, "create") \/ CreateRequest(d, n, "mkdir")
              \/ \E m \in load.names : RenameRequest(d, n, m)
  PROVE  CacheInv'
  <1>1. d \in 0..last /\ (d = Top \/ (d \in DOMAIN known /\ known[d] = "dir"))
    BY SubmitParts
  <1>2. CASE ReadDirRequest(d)
    <2>1. op' = [kind |-> "readdir", dir |-> d, name |-> Idle.name, to |-> Idle.to,
                 obj |-> Idle.obj, size |-> Idle.size, at |-> "start", retried |-> FALSE]
      BY <1>2, RequestFields DEF ReadDirRequest, Request
    <2>2. /\ op'.kind = "readdir"
          /\ op' \in [kind : Kinds \ {"idle"}, dir : 0..last, name : Names, to : Names, obj : 0..last,
                      size : 0..MaxSize, at : {"start"}, retried : {FALSE}]
      BY <1>1, <2>1, IdleParts DEF Kinds
    <2> QED
      BY <1>2, <2>2, RequestKeeps DEF ReadDirRequest, Request, Makes
  <1>3. ASSUME NEW n \in load.names, NEW kind \in {"lookup", "unlink"},
               Request([kind |-> kind, dir |-> d, name |-> n])
        PROVE  CacheInv'
    <2>1. op' = [kind |-> kind, dir |-> d, name |-> n, to |-> Idle.to,
                 obj |-> Idle.obj, size |-> Idle.size, at |-> "start", retried |-> FALSE]
      BY <1>3, RequestFields DEF Request
    <2>2. /\ op'.kind \in {"lookup", "unlink"}
          /\ op' \in [kind : Kinds \ {"idle"}, dir : 0..last, name : Names, to : Names, obj : 0..last,
                      size : 0..MaxSize, at : {"start"}, retried : {FALSE}]
      BY <1>1, <2>1, IdleParts, SubmitParts DEF Kinds
    <2> QED
      BY <1>3, <2>2, RequestKeeps DEF Request, Makes
  <1>4. ASSUME NEW n \in load.names, NEW kind \in Makes, CreateRequest(d, n, kind)
        PROVE  CacheInv'
    <2>1. op' = [kind |-> kind, dir |-> d, name |-> n, to |-> Idle.to,
                 obj |-> Idle.obj, size |-> Idle.size, at |-> "start", retried |-> FALSE]
      BY <1>4, RequestFields DEF CreateRequest, Request
    <2>2. /\ op'.kind \in Makes /\ op'.dir = d /\ op'.name = n
          /\ op' \in [kind : Kinds \ {"idle"}, dir : 0..last, name : Names, to : Names, obj : 0..last,
                      size : 0..MaxSize, at : {"start"}, retried : {FALSE}]
      BY <1>1, <2>1, IdleParts, SubmitParts DEF Kinds, Makes
    <2>3. /\ d \in DOMAIN files /\ n \notin DOMAIN files[d]
          /\ last + (IF faults < load.faults THEN 2 ELSE 1) <= MaxObjects
      BY <1>4 DEF CreateRequest, Listed, HasEntry
    <2> QED
      BY <1>1, <1>4, <2>2, <2>3, RequestKeeps DEF CreateRequest, Request, Makes
  <1>5. ASSUME NEW n \in load.names, NEW m \in load.names, RenameRequest(d, n, m)
        PROVE  CacheInv'
    <2>1. op' = [kind |-> "rename", dir |-> d, name |-> n, to |-> m,
                 obj |-> Idle.obj, size |-> Idle.size, at |-> "start", retried |-> FALSE]
      BY <1>5, RequestFields DEF RenameRequest, Request
    <2>2. /\ op'.kind = "rename"
          /\ op' \in [kind : Kinds \ {"idle"}, dir : 0..last, name : Names, to : Names, obj : 0..last,
                      size : 0..MaxSize, at : {"start"}, retried : {FALSE}]
      BY <1>1, <2>1, IdleParts, SubmitParts DEF Kinds
    <2> QED
      BY <1>5, <2>2, RequestKeeps DEF RenameRequest, Request, Makes
  <1> QED
    BY <1>2, <1>3, <1>4, <1>5 DEF LookupRequest, UnlinkRequest, Makes

LEMMA SubmitFileKeeps ==
  ASSUME CacheInv,
         \/ \E i \in DOMAIN known : GetAttrRequest(i)
         \/ \E i \in {Top} \cup DOMAIN known : StatFSRequest(i)
         \/ \E i \in KnownFiles :
              \/ OpenRequest(i) \/ ReadRequest(i) \/ ReleaseRequest(i)
              \/ \E s \in 1..MaxSize : WriteRequest(i, s)
              \/ \E s \in 0..MaxSize : TruncateRequest(i, s)
  PROVE  CacheInv'
  <1>1. ASSUME NEW i \in 1..last, NEW kind \in {"getattr", "open", "read", "release"},
               Request([kind |-> kind, obj |-> i])
        PROVE  CacheInv'
    <2>1. op' = [kind |-> kind, dir |-> Idle.dir, name |-> Idle.name, to |-> Idle.to,
                 obj |-> i, size |-> Idle.size, at |-> "start", retried |-> FALSE]
      BY <1>1, RequestFields DEF Request
    <2>2. /\ op'.kind = kind /\ op'.obj # Top
          /\ op' \in [kind : Kinds \ {"idle"}, dir : 0..last, name : Names, to : Names, obj : 0..last,
                      size : 0..MaxSize, at : {"start"}, retried : {FALSE}]
      BY <1>1, <2>1, IdleParts, SubmitParts DEF Kinds
    <2> QED
      BY <1>1, <2>2, RequestKeeps DEF Request, Makes
  <1>2. ASSUME NEW i \in {Top} \cup DOMAIN known, StatFSRequest(i)
        PROVE  CacheInv'
    <2>1. op' = [kind |-> "statfs", dir |-> Idle.dir, name |-> Idle.name, to |-> Idle.to,
                 obj |-> i, size |-> Idle.size, at |-> "start", retried |-> FALSE]
      BY <1>2, RequestFields DEF StatFSRequest, Request
    <2>2. i \in 0..last
      BY <1>2, SubmitParts DEF KnownDirs
    <2>3. /\ op'.kind = "statfs"
          /\ op' \in [kind : Kinds \ {"idle"}, dir : 0..last, name : Names, to : Names, obj : 0..last,
                      size : 0..MaxSize, at : {"start"}, retried : {FALSE}]
      BY <2>1, <2>2, IdleParts DEF Kinds
    <2> QED
      BY <1>2, <2>3, RequestKeeps DEF StatFSRequest, Request, Makes
  <1>3. ASSUME NEW i \in 1..last, NEW kind \in {"write", "truncate"}, NEW s \in 0..MaxSize,
               kind = "write" /\ i \in DOMAIN dev => Content(i).rev < MaxWrites,
               Request([kind |-> kind, obj |-> i, size |-> s])
        PROVE  CacheInv'
    <2>1. op' = [kind |-> kind, dir |-> Idle.dir, name |-> Idle.name, to |-> Idle.to,
                 obj |-> i, size |-> s, at |-> "start", retried |-> FALSE]
      BY <1>3, RequestFields DEF Request
    <2>2. /\ op'.kind = kind /\ op'.obj = i /\ i # Top
          /\ op' \in [kind : Kinds \ {"idle"}, dir : 0..last, name : Names, to : Names, obj : 0..last,
                      size : 0..MaxSize, at : {"start"}, retried : {FALSE}]
      BY <1>3, <2>1, IdleParts, SubmitParts DEF Kinds
    <2> QED
      BY <1>3, <2>2, RequestKeeps DEF Request, Makes
  <1>4. DOMAIN known \subseteq 1..last /\ KnownFiles \subseteq 1..last
    BY SubmitParts
  <1>5. 1..MaxSize \subseteq 0..MaxSize
    BY BoundsAssumption
  <1>6. CASE \E i \in DOMAIN known : GetAttrRequest(i)
    BY <1>1, <1>4, <1>6 DEF GetAttrRequest
  <1>7. CASE \E i \in {Top} \cup DOMAIN known : StatFSRequest(i)
    BY <1>2, <1>7
  <1>8. CASE \E i \in KnownFiles : OpenRequest(i) \/ ReadRequest(i) \/ ReleaseRequest(i)
    BY <1>1, <1>4, <1>8 DEF OpenRequest, ReadRequest, ReleaseRequest
  <1>9. CASE \E i \in KnownFiles : \E s \in 1..MaxSize : WriteRequest(i, s)
    BY <1>3, <1>4, <1>5, <1>9 DEF WriteRequest
  <1>10. CASE \E i \in KnownFiles : \E s \in 0..MaxSize : TruncateRequest(i, s)
    BY <1>3, <1>4, <1>10 DEF TruncateRequest
  <1> QED
    BY <1>6, <1>7, <1>8, <1>9, <1>10

LEMMA MountKeeps == CacheInv /\ (Mount \/ UNCHANGED vars) => CacheInv'
  <1> SUFFICES ASSUME CacheInv, Mount \/ UNCHANGED vars
               PROVE  CacheInv'
    OBVIOUS
  <1>1. DevOK /\ CachesOK /\ RestOK /\ OpOK
    BY TypeParts DEF CacheInv, TypeInv
  <1>2. /\ dev' = dev /\ draft' = draft /\ last' = last
        /\ files' = files /\ attrs' = attrs /\ edits' = edits /\ dirCache' = dirCache
        /\ known' = known /\ load' = load /\ faults' = faults
        /\ doubted' = doubted /\ op' = op /\ mounted' \in {mounted, TRUE}
    BY DEF Mount, vars, device, caches
  <1>3. TypeInv'
    <2>1. DevOK' /\ CachesOK' /\ RestOK'
      BY <1>1, <1>2 DEF DevOK, CachesOK, RestOK
    <2>2. OpOK'
      BY <1>1, <1>2 DEF OpOK
    <2> QED
      BY <2>1, <2>2, TypePartsNext DEF TypeInv
  <1>4. TreeInv'
    BY <1>2 DEF CacheInv, TreeInv, Tree, KindsTrue, KnownTrue, EntriesOwn, AttrsListed
  <1>5. Pending' = Pending /\ Behind' = Behind
    BY <1>2 DEF Pending, Behind
  <1>6. NoNamesakes => NamesInv'
    BY <1>2, <1>5 DEF CacheInv, NamesInv, NamesApart, MirrorBut, NameFree, Exists, Children
  <1>7. StepInv'
    BY <1>2, <1>5 DEF CacheInv, StepInv, DirCacheBut, HandlesLeft, MakesInDir, Exists
  <1>8. SizeInv'
    BY <1>2 DEF CacheInv, SizeInv, EditsKnown, DraftsAccounted, DraftsAhead, SizesTrue, WritesLeft,
                Trusted, Content
  <1> QED
    BY <1>3, <1>4, <1>6, <1>7, <1>8 DEF CacheInv

LEMMA NextKeeps == CacheInv /\ [Next]_vars => CacheInv'
  <1> SUFFICES ASSUME CacheInv, [Next]_vars
               PROVE  CacheInv'
    OBVIOUS
  <1>1. CASE Submit
    BY <1>1, SubmitDirKeeps, SubmitFileKeeps DEF Submit
  <1>2. CASE Serve
    BY <1>2, LookupKeeps, GetAttrKeeps, FileReadsKeep, UnlinkReadsKeep, ReadDirKeeps, ReadDirMissKeeps,
       ReadDirFillKeeps, CreateObjectKeeps, CreateSendKeeps, CreateCachedKeeps, CreateReplyKeeps,
       UnlinkKeeps, RenameObjectKeeps, BeginEditKeeps, TruncateKeeps, SendKeeps, EndEditKeeps
       DEF Serve
  <1>3. CASE Mount \/ UNCHANGED vars
    BY <1>3, MountKeeps
  <1>4. CASE DeviceEndsEdit
    BY <1>4, DeviceEndsEditKeeps
  <1> QED
    BY <1>1, <1>2, <1>3, <1>4 DEF Next

LEMMA InitHolds == Init => CacheInv
  <1> SUFFICES ASSUME Init
               PROVE  CacheInv
    OBVIOUS
  <1>1. PICK n \in 0..MaxObjects : DOMAIN Stored = 1..n
    BY StoredIsTree
  <1>2. n \in Nat /\ n <= MaxObjects /\ MaxObjects \in Nat
    BY <1>1, BoundsAssumption
  <1>3. Cardinality(1..n) = n
    BY <1>2, FS_Interval
  <1>4. /\ load \in Loads /\ dev = Stored /\ draft = <<>> /\ last = n
        /\ files = <<>> /\ attrs = <<>> /\ edits = {} /\ dirCache = <<>>
        /\ op = Idle /\ known = <<>> /\ mounted = TRUE /\ faults = 0 /\ doubted = {}
    BY <1>1, <1>3 DEF Init
  <1>5. DevOK
    <2>1. \A i \in DOMAIN dev : dev[i] \in [name : Names, parent : 0..last, dir : BOOLEAN,
                                           size : 0..MaxSize, rev : 0..MaxWrites]
      <3>1. {Top} \cup DOMAIN Stored \subseteq 0..n
        BY <1>1, <1>2 DEF Top
      <3> QED
        BY <1>4, <3>1, StoredIsTree
    <2>2. draft \in PartialFns(DOMAIN dev, [size : 0..MaxSize, rev : 0..MaxWrites])
      BY <1>4, PartialEmpty
    <2> QED
      BY <1>1, <1>4, <2>1, <2>2 DEF DevOK
  <1>6. CachesOK
    BY <1>4, PartialEmpty, EmptyFn DEF CachesOK
  <1>7. RestOK
    <2>1. load.faults \in Nat
      BY <1>4, LoadsAssumption
    <2> QED
      BY <1>4, <2>1, EmptyFn DEF RestOK
  <1>8. TypeInv
    BY <1>4, <1>5, <1>6, <1>7, IdleOK, TypeParts DEF TypeInv
  <1>9. TreeInv
    <2>1. \A i \in DOMAIN Stored : Stored[i].parent \in {Top} \cup DOMAIN Stored
      BY StoredIsTree
    <2>2. Tree
      BY <1>4, <2>1, StoredIsTree DEF Tree
    <2> QED
      BY <1>4, <2>2, EmptyFn DEF TreeInv, KindsTrue, KnownTrue, EntriesOwn, AttrsListed
  <1>10. NoNamesakes => NamesInv
    BY <1>4, EmptyFn DEF NoNamesakes, NamesInv, NamesApart, MirrorBut, NameFree, Idle, Makes
  <1>11. StepInv
    BY <1>4, EmptyFn DEF StepInv, DirCacheBut, HandlesLeft, MakesInDir, Idle, Makes
  <1>12. SizeInv
    BY <1>4, EmptyFn DEF SizeInv, EditsKnown, DraftsAccounted, DraftsAhead, SizesTrue, WritesLeft, Idle
  <1> QED
    BY <1>8, <1>9, <1>10, <1>11, <1>12 DEF CacheInv

LEMMA CacheInvariant == Spec => []CacheInv
  <1>1. Init => CacheInv
    BY InitHolds
  <1>2. CacheInv /\ [Next]_vars => CacheInv'
    BY NextKeeps
  <1> QED
    BY <1>1, <1>2, PTL DEF Spec

----------------------------------------------------------------------------
(* Theorems *)

(* What the caches hold of a directory no fault struck is what the device  *)
(* has there, between any two requests of any mount: GetChildren lists a   *)
(* directory once, and CreateObject, Unlink and Rename carry their changes *)
(* into _files and drop the serialised directory.  The device must not     *)
(* have two objects of one name in a directory at the start.               *)
THEOREM CachesAlwaysMirror ==
  ASSUME NoNamesakes
  PROVE  Spec => []CachesMirror
  <1>1. CacheInv => CachesMirror
    <2> SUFFICES ASSUME CacheInv
                 PROVE  CachesMirror
      OBVIOUS
    <2>1. op = Idle => Pending = {} /\ Behind = {}
      BY DEF Pending, Behind, Idle, Makes
    <2>2. Mirror
      <3>1. SUFFICES ASSUME op = Idle, NEW d \in DOMAIN files \ doubted, Exists(d)
                     PROVE  /\ \A i \in Children(d) :
                                 dev[i].name \in DOMAIN files[d] /\ files[d][dev[i].name] = i
                            /\ \A n \in DOMAIN files[d] : files[d][n] \in Children(d)
        BY DEF Mirror
      <3>2. /\ \A i \in Children(d) :
                 dev[i].name \in DOMAIN files[d] /\ files[d][dev[i].name] = i
            /\ \A n \in DOMAIN files[d] : files[d][n] \in DOMAIN dev
        BY NoNamesakes, <2>1, <3>1 DEF CacheInv, NamesInv, MirrorBut
      <3>3. \A n \in DOMAIN files[d] : files[d][n] \in Children(d)
        BY <3>1, <3>2 DEF CacheInv, TreeInv, EntriesOwn, Children
      <3> QED
        BY <3>2, <3>3
    <2>3. DirCacheCurrent
      BY <2>1 DEF CacheInv, StepInv, DirCacheBut, DirCacheCurrent
    <2> QED
      BY <2>2, <2>3 DEF CacheInv, TypeInv, CachesMirror
  <1> QED
    BY <1>1, CacheInvariant, PTL

(* Listing leaves the device alone.                                        *)
LEMMA ListingKeepsDev ==
  ASSUME NEW d, NEW S, GetChildrenOr(d, S)
  PROVE  dev' = dev
  <1>1. List(d) \/ ListSkipping(d) => dev' = dev
    BY DEF List, ListSkipping, device
  <1>2. ListInterrupted(d, S) => dev' = dev
    BY DEF ListInterrupted, device
  <1> QED
    BY <1>1, <1>2 DEF GetChildrenOr

LEMMA AttrListingKeepsDev ==
  ASSUME NEW i, NEW S, AttrListing(i, S)
  PROVE  dev' = dev
  BY ListingKeepsDev DEF AttrListing, Refused, device

(* While an unlink is served, nothing but Unlink itself removes objects.   *)
LEMMA UnlinkRemoves ==
  ASSUME Next, op.kind = "unlink"
  PROVE  \/ DOMAIN dev' = DOMAIN dev
         \/ Unlink /\ Exists(Child) /\ DeleteObject(Child)
  <1>1. CASE Submit
    <2>1. ASSUME NEW r, Request(r)
          PROVE  FALSE
      BY <2>1 DEF Request, Idle
    <2> QED
      BY <1>1, <2>1 DEF Submit, ReadDirRequest, LookupRequest, UnlinkRequest, CreateRequest,
         RenameRequest, GetAttrRequest, StatFSRequest, OpenRequest, ReadRequest, ReleaseRequest,
         WriteRequest, TruncateRequest
  <1>2. CASE Serve
    <2>1. ListDir \/ NoEntry \/ UnlinkListing \/ NotEmpty => dev' = dev
      BY ListingKeepsDev, AttrListingKeepsDev
         DEF ListDir, NoEntry, UnlinkListing, NotEmpty, GetChildren, ListParent, Answers, Throws,
             device
    <2>2. Unlink => dev' = dev \/ (Exists(Child) /\ DeleteObject(Child))
      BY DEF Unlink, Refused, Throws, device
    <2>3. ListDir \/ NoEntry \/ UnlinkListing \/ NotEmpty \/ Unlink
      BY <1>2 DEF Serve, Lookup, EntryListing, GetAttr, Open, StatFS, ReadDirListing, ReadDirNoAttr,
         ReadDirMiss, ReadDirParent, ReadDirFill, ReadDirOrphan, ReadDirHit, CreateObject,
         CreateSend, CreateCached, CreateListing, CreateReply, Creating, RenameTarget,
         RenameObject, Renaming, BeginEdit, SessionGone, Truncate, Send, Editing, ReadEndsEdit,
         FileListing, Read, Reads, FileGone, Release, At
    <2> QED
      BY <2>1, <2>2, <2>3
  <1>3. CASE Mount
    BY <1>3 DEF Mount, device
  <1>4. CASE DeviceEndsEdit
    BY <1>4 DEF DeviceEndsEdit, Commit
  <1> QED
    BY <1>1, <1>2, <1>3, <1>4 DEF Next

(* An object Unlink finds deletable has nothing in it, unless its listing  *)
(* is in doubt: the listing of a directory is empty, and a file has none.  *)
LEMMA DeletableEmpty ==
  ASSUME CacheInv, NoNamesakes, op.kind = "unlink", NEW i \in DOMAIN dev, Deletable(i),
         i \notin doubted
  PROVE  Children(i) = {}
  <1>1. DOMAIN dev \subseteq 1..last /\ last \in Nat
    BY DEF CacheInv, TypeInv, TypeOK
  <1>2. i # Top /\ i \in DOMAIN attrs /\ attrs[i].dir = dev[i].dir
    BY <1>1 DEF Deletable, HasAttr, CacheInv, TreeInv, KindsTrue, Top
  <1>3. Pending = {}
    BY DEF Pending, Makes
  <1>4. CASE attrs[i].dir
    <2>1. i \in DOMAIN files /\ DOMAIN files[i] = {}
      BY <1>4 DEF Deletable, Listed
    <2> QED
      BY <1>3, <2>1 DEF CacheInv, NamesInv, MirrorBut, Exists
  <1>5. CASE ~attrs[i].dir
    BY <1>2, <1>5 DEF CacheInv, TreeInv, Tree, Children
  <1> QED
    BY <1>4, <1>5

(* rmdir deletes, along with what is below a directory it deletes, nothing *)
(* but a directory that the device has empty, unless the listing it was    *)
(* judged by is in doubt: RemoveDir looks at the cached listing, which is  *)
(* the device's, and a file has nothing below it.                          *)
THEOREM OnlyEmptyRemoved ==
  ASSUME NoNamesakes
  PROVE  Spec => RmdirOnlyEmpty
  <1> DEFINE Removes ==
        op.kind = "unlink" =>
          \A i \in DOMAIN dev \ DOMAIN dev' :
            \/ Children(i) = {} \/ i \in doubted
            \/ dev[i].parent \in DOMAIN dev \ DOMAIN dev'
  <1>1. CacheInv /\ [Next]_vars => [Removes]_vars
    <2> SUFFICES ASSUME CacheInv, Next, op.kind = "unlink", NEW i \in DOMAIN dev \ DOMAIN dev',
                        Children(i) # {}, i \notin doubted
                 PROVE  dev[i].parent \in DOMAIN dev \ DOMAIN dev'
      OBVIOUS
    <2>1. Unlink /\ Exists(Child) /\ DeleteObject(Child)
      BY UnlinkRemoves
    <2> DEFINE c == Child
    <2>2. Deletable(c)
      BY <2>1 DEF Unlink
    <2> HIDE DEF c
    <2>3. c \in DOMAIN dev
      <3>1. CacheInv /\ op.dir \in DOMAIN files /\ op.name \in DOMAIN files[op.dir]
        BY <2>1 DEF Unlink, Unlinking, Listed, HasEntry
      <3>2. files[op.dir][op.name] \in 1..last
        BY <3>1, TypeParts, CachesTyped DEF CacheInv, TypeInv
      <3>3. last \in Nat
        BY DEF CacheInv, TypeInv, TypeOK
      <3> QED
        BY <2>1, <3>2, <3>3 DEF Exists, Child, Entry, Top, c
    <2>4. DOMAIN dev' = DOMAIN dev \ Below(c)
      BY <2>1, <2>3, DeleteFacts DEF c
    <2>5. c # i
      BY <2>2, NoNamesakes, DeletableEmpty
    <2>6. dev[i].parent \in Below(c)
      BY <2>3, <2>4, <2>5, BelowParent
    <2> QED
      BY <2>4, <2>6 DEF Below
  <1> QED
    BY <1>1, CacheInvariant, PTL DEF Spec, RmdirOnlyEmpty

(* A read returns everything that was written and acknowledged before, to  *)
(* the full size, unless the file or its directory is in doubt: Read has   *)
(* ended the edit session of the file, and the cached size, to which Read  *)
(* cuts, is the size of the device.                                        *)
THEOREM ReadsAlwaysCurrent == Spec => ReadsCurrent
  <1> DEFINE Current ==
        \A i \in DOMAIN dev : Read /\ Reads(i) /\ Trusted(i) =>
          /\ Data(i).size = Content(i).size
          /\ Data(i).size > 0 => Data(i).rev = Content(i).rev
  <1>1. CacheInv => Current
    <2> SUFFICES ASSUME CacheInv, NEW i \in DOMAIN dev, Reads(i), Trusted(i)
                 PROVE  /\ Data(i).size = Content(i).size
                        /\ Data(i).rev = Content(i).rev
      OBVIOUS
    <2>1. DOMAIN dev \subseteq 1..last /\ last \in Nat
      BY DEF CacheInv, TypeInv, TypeOK
    <2>2. i \in DOMAIN attrs /\ i \notin edits
      BY <2>1 DEF Reads, HasAttr, Top
    <2>3. i \notin DOMAIN draft
      BY <2>2 DEF CacheInv, SizeInv, DraftsAccounted, Trusted
    <2>4. Content(i) = [size |-> dev[i].size, rev |-> dev[i].rev]
      BY <2>3 DEF Content
    <2>5. attrs[i].size = dev[i].size
      BY <2>2, <2>4 DEF CacheInv, SizeInv, SizesTrue
    <2> QED
      BY <2>4, <2>5 DEF Data
  <1> QED
    BY <1>1, CacheInvariant, PTL DEF ReadsCurrent
=============================================================================
