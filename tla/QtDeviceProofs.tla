--------------------------- MODULE QtDeviceProofs ---------------------------
(* The player's trust is earned by each handshake anew, whatever becomes of   *)
(* devices, sessions and keys: for any number of them, and of faults.         *)
EXTENDS QtDevice, TLAPS

HandshakeInv == TypeOK /\ HandshakeSound

\* Where the window is, the handshake of installed keys and what follows it left out.
Place == IF at \in {"install", "library"} THEN back ELSE at

\* Keys are installed where the user can be waiting, and then it goes on from there.
BackRight ==
  /\ back \in {"open", "storages", "tool", "failed"}
  /\ at \notin {"install", "library"} => back = "open"

\* Window, model and device come and go together.
RefsRight ==
  /\ Place \in {"create", "storages", "authenticate", "open"} => ref.win # 0 /\ ref.dev = ref.win
  /\ Place \in {"authenticate", "open"} => ref.mdl = ref.win
  /\ Place \notin {"authenticate", "open", "crashed"} => ref.mdl = 0
  /\ Place \in {"find", "tool", "closed", "failed"} => ref.dev = 0
  /\ Place = "attempt" => ref.dev # 0
  /\ Place \in {"find", "attempt"} => ref.win = 0

\* A claim of this process is that of a pipe somebody refers to.
ClaimHeld == claim > 0 => claim \in {ref.dev, ref.win, ref.mdl, ref.lib, app.sess}

\* The TrustedApp with keys is that of the window's session.
AppRight ==
  Place \in {"storages", "authenticate", "open"} =>
    app.sess = ref.win \/ (~app.keys /\ app.at \in {"none", "created"})

\* As long as nothing fails, the claim and the player's session are the window's.
LiveRight == faults = 0 =>
  /\ present
  /\ Place \in {"create", "storages", "authenticate", "open"} => claim = ref.win /\ session = ref.win
  /\ Place = "attempt" => claim = ref.dev

\* And what the handshake earned has not been turned off.
TrustRight ==
  faults = 0 /\ app.at = "done" /\ Place \in {"storages", "authenticate", "open"}
    => player.trusted = ref.win

WindowInv == /\ HandshakeInv /\ BackRight /\ RefsRight /\ ClaimHeld /\ AppRight
             /\ LiveRight /\ TrustRight

-----------------------------------------------------------------------------
(* Types *)

\* More numbers.
LEMMA NumbersGrow ==
    ASSUME NEW n \in Nat, NEW m \in Nat, n <= m
    PROVE  0 .. n \subseteq 0 .. m /\ Cli .. n \subseteq Cli .. m
  BY DEF Cli

\* More sessions do not make what is there wrong.
LEMMA MtpzTypesGrow ==
    ASSUME NEW n \in Nat, MtpzTypes(0 .. n)
    PROVE  MtpzTypes(0 .. n + 1)
  <1>1. 0 .. n \subseteq 0 .. n + 1
    BY NumbersGrow
  <1> QED
    BY <1>1 DEF MtpzTypes

\* No TrustedApp is one without anything.
LEMMA NoAppType ==
    ASSUME NEW n \in Nat
    PROVE  /\ NoApp \in [sess : 0 .. n, keys : BOOLEAN, at : Stages, challenge : Challenges,
                         verified : Challenges]
           /\ NoApp.at = "none"
  BY ChallengesAssumption DEF NoApp, Stages, Challenges

\* A new TrustedApp has not begun a handshake.
LEMMA CreateType ==
    ASSUME NEW n \in Nat, NEW s \in 0 .. n, NEW operations, NEW keylines \in {4, 5}
    PROVE  /\ Create(s, operations, keylines)
                 \in [sess : 0 .. n, keys : BOOLEAN, at : Stages, challenge : Challenges,
                      verified : Challenges]
           /\ Create(s, operations, keylines).at \in {"none", "created"}
  <1>1. CASE Probe(operations)
    <2>1. Create(s, operations, keylines) = [sess |-> s, keys |-> keylines = 5, at |-> "created",
                                             challenge |-> 0, verified |-> 0]
      BY <1>1 DEF Create, NoApp, LoadKeys
    <2> QED
      BY <2>1, ChallengesAssumption DEF Stages, Challenges
  <1>2. CASE ~Probe(operations)
    BY <1>2, NoAppType DEF Create
  <1> QED
    BY <1>1, <1>2

\* Authenticate starts the handshake of a TrustedApp with keys.
LEMMA BeginsType ==
    ASSUME MtpzTypes(0 .. top), AuthenticateBegins
    PROVE  /\ app' \in [sess : 0 .. top, keys : BOOLEAN, at : Stages, challenge : Challenges,
                        verified : Challenges]
           /\ app'.at \in {"none", "created", "version"}
  BY DEF MtpzTypes, AuthenticateBegins, Stages

\* The destructor changes nothing of the player but its trust.
LEMMA DestroyedType ==
    ASSUME top \in Nat, MtpzTypes(0 .. top), NEW reaches \in BOOLEAN
    PROVE  /\ Destroyed(reaches, player) \in [trusted : 0 .. top \cup {-1},
                    challenges : SUBSET Challenges, answered : Challenges,
                    spent : SUBSET Challenges]
           /\ Destroyed(reaches, player).spent = player.spent
           /\ Destroyed(reaches, player).trusted \in {0, player.trusted}
  BY DEF MtpzTypes, Destroyed

\* References that are dropped or set to a session.
LEMMA DropTypes ==
    ASSUME NEW n \in Nat, NEW r \in References(n)
    PROVE  /\ [r EXCEPT !.dev = 0] \in References(n)
           /\ [r EXCEPT !.win = 0, !.dev = 0] \in References(n)
           /\ [r EXCEPT !.dev = 0, !.win = 0, !.mdl = 0] \in References(n)
           /\ r.dev \in 0 .. n /\ r.win \in 0 .. n /\ r.mdl \in 0 .. n
  <1>1. 0 \in 0 .. n
    OBVIOUS
  <1> QED
    BY <1>1 DEF References

\* References that are set to a session.
LEMMA SetTypes ==
    ASSUME NEW n \in Nat, NEW r \in References(n), NEW s \in 0 .. n
    PROVE  /\ [r EXCEPT !.win = s] \in References(n)
           /\ [r EXCEPT !.mdl = s] \in References(n)
           /\ [r EXCEPT !.lib = s] \in References(n)
  BY DEF References

\* When references go, claims and sessions may go, and no others come.
LEMMA ReleasedTypes ==
    ASSUME TypeOK, NEW r \in References(top), NEW a, Released(r, a)
    PROVE  ref' \in References(top) /\ claim' \in Cli .. top /\ session' \in Cli .. top
  <1>1. claim \in Cli .. top /\ session \in Cli .. top /\ 0 \in Cli .. top
    BY DEF TypeOK, Cli
  <1> QED
    BY <1>1 DEF Released, Nobody
-----------------------------------------------------------------------------
(* The actions *)

\* Nothing has been opened and no challenge sent.
LEMMA InitHolds ==
    ASSUME Init
    PROVE  HandshakeInv
  <1>1. top = 0 /\ nonce = 0 /\ app = NoApp
        /\ player = [trusted |-> 0, challenges |-> {}, answered |-> 0, spent |-> {}]
    BY DEF Init, MtpzInit
  <1>2. MtpzTypes(0 .. top)
    <2>1. player \in [trusted : 0 .. 0 \cup {-1}, challenges : SUBSET Challenges,
                     answered : Challenges, spent : SUBSET Challenges]
      BY <1>1, ChallengesAssumption DEF Challenges
    <2> QED
      BY <1>1, <2>1, NoAppType, ChallengesAssumption DEF MtpzTypes, Challenges
  <1>3. ref \in References(top)
    BY <1>1 DEF Init, References
  <1>4. claim \in Cli .. top /\ session \in Cli .. top /\ top \in Nat
        /\ at \in Places /\ back \in Places /\ lines \in {4, 5}
        /\ tries \in 0 .. 2 /\ faults \in 0 .. MaxFaults
    BY <1>1, FaultsAssumption DEF Init, Places, Cli, Nobody
  <1>6. locked \in BOOLEAN /\ reply \in BOOLEAN /\ present \in BOOLEAN /\ opened \in BOOLEAN
    BY DEF Init
  <1>7. TypeOK
    BY <1>2, <1>3, <1>4, <1>6 DEF TypeOK
  <1>5. HandshakeSound
    BY NoAppType DEF Init, MtpzInit, HandshakeSound
  <1> QED
    BY <1>5, <1>7 DEF HandshakeInv

\* What leaves player and TrustedApp alone.
LEMMA QuietKeeps ==
    ASSUME HandshakeInv, UNCHANGED <<app, player, nonce, top>>,
           ref' \in References(top), claim' \in Cli .. top, session' \in Cli .. top,
           at' \in Places, back' \in Places, lines' \in {4, 5},
           locked' \in BOOLEAN, reply' \in BOOLEAN, present' \in BOOLEAN, opened' \in BOOLEAN,
           tries' \in 0 .. 2, faults' \in 0 .. MaxFaults
    PROVE  HandshakeInv'
  BY DEF HandshakeInv, TypeOK, MtpzTypes, HandshakeSound

\* What begins no handshake and leaves the rest of a session's state in order.
LEMMA FreshAppKeeps ==
    ASSUME HandshakeInv, UNCHANGED <<nonce, top>>,
           app' \in [sess : 0 .. top, keys : BOOLEAN, at : Stages, challenge : Challenges,
                     verified : Challenges],
           app'.at \in {"none", "created", "version"},
           player' \in [trusted : 0 .. top \cup {-1}, challenges : SUBSET Challenges,
                        answered : Challenges, spent : SUBSET Challenges],
           player'.spent = player.spent,
           ref' \in References(top), claim' \in Cli .. top, session' \in Cli .. top,
           at' \in Places, back' \in Places, lines' \in {4, 5},
           locked' \in BOOLEAN, reply' \in BOOLEAN, present' \in BOOLEAN, opened' \in BOOLEAN,
           tries' \in 0 .. 2, faults' \in 0 .. MaxFaults
    PROVE  HandshakeInv'
  <1>1. TypeOK'
    BY DEF HandshakeInv, TypeOK, MtpzTypes
  <1>2. HandshakeSound'
    BY DEF HandshakeInv, HandshakeSound
  <1> QED
    BY <1>1, <1>2 DEF HandshakeInv

\* Faults stay within their bound.
LEMMA FaultType ==
    ASSUME TypeOK
    PROVE  /\ Fault => faults' \in 0 .. MaxFaults
           /\ UNCHANGED faults => faults' \in 0 .. MaxFaults
           /\ \A works \in BOOLEAN : Fails(works) => faults' \in 0 .. MaxFaults
  <1>1. faults \in 0 .. MaxFaults
    BY DEF TypeOK
  <1>2. Fault => faults' \in 0 .. MaxFaults
    BY <1>1, FaultsAssumption DEF Fault
  <1> QED
    BY <1>1, <1>2 DEF Fails

\* Steps between the handshakes.
LEMMA OpenDeviceKeeps ==
    ASSUME HandshakeInv, OpenDevice \/ NotFound \/ InstallBegins \/ Authenticated \/ DropOld
    PROVE  HandshakeInv'
  <1>1. CASE OpenDevice \/ NotFound \/ Authenticated
    BY SMTT(30), <1>1, QuietKeeps
    DEF HandshakeInv, OpenDevice, NotFound, Authenticated, mtpz, world, TypeOK, Places
  <1>2. CASE DropOld
    <2>1. [ref EXCEPT !.win = 0, !.dev = 0] \in References(top)
      BY DropTypes DEF HandshakeInv, TypeOK
    <2>2. ref' \in References(top) /\ claim' \in Cli .. top /\ session' \in Cli .. top
      BY <1>2, <2>1, ReleasedTypes DEF DropOld, HandshakeInv
    <2> QED
      BY <1>2, <2>2, QuietKeeps DEF HandshakeInv, DropOld, mtpz, world, TypeOK, Places
  <1>3. CASE InstallBegins
    BY <1>3, BeginsType, FreshAppKeeps DEF HandshakeInv, InstallBegins, TypeOK, world, MtpzTypes
  <1> QED
    BY <1>1, <1>2, <1>3

\* There is one more session.
LEMMA FindDeviceKeeps ==
    ASSUME HandshakeInv, FindDevice
    PROVE  HandshakeInv'
  <1>1. /\ top \in Nat /\ top' = top + 1 /\ ref' = [ref EXCEPT !.dev = top + 1]
        /\ claim' = top + 1 /\ at' = "attempt" /\ tries' = 0
        /\ UNCHANGED <<app, player, nonce, session, locked, lines, reply, present, back,
                       opened, faults>>
    BY DEF FindDevice, mtpz, world, HandshakeInv, TypeOK
  <1>2. MtpzTypes(0 .. top + 1)
    BY <1>1, MtpzTypesGrow DEF HandshakeInv, TypeOK
  <1>3. MtpzTypes(0 .. top)'
    BY <1>1, <1>2 DEF MtpzTypes
  <1>4. ref' \in References(top')
    <2>1. 0 .. top \subseteq 0 .. top + 1 /\ top + 1 \in 0 .. top + 1
      BY <1>1
    <2>2. ref \in References(top)
      BY DEF HandshakeInv, TypeOK
    <2> QED
      BY <1>1, <2>1, <2>2 DEF References
  <1>5. claim' \in Cli .. top' /\ session' \in Cli .. top'
    BY <1>1 DEF HandshakeInv, TypeOK, Cli
  <1>6. TypeOK'
    BY <1>1, <1>3, <1>4, <1>5 DEF HandshakeInv, TypeOK, Places
  <1>7. HandshakeSound'
    BY <1>1 DEF HandshakeInv, HandshakeSound
  <1> QED
    BY <1>6, <1>7 DEF HandshakeInv

\* OpenSession, tried three times.
LEMMA AttemptKeeps ==
    ASSUME HandshakeInv, Attempt \/ AttemptFails
    PROVE  HandshakeInv'
  <1>1. TypeOK /\ top \in Nat /\ ref \in References(top)
    BY DEF HandshakeInv, TypeOK
  <1>2. CASE Attempt
    <2>1. ref' \in References(top) /\ session' \in Cli .. top
      <3>1. ref.dev \in 0 .. top /\ session' = ref.dev /\ ref' = [ref EXCEPT !.win = ref.dev]
        BY <1>1, <1>2, DropTypes DEF Attempt
      <3>2. ref' \in References(top)
        BY <1>1, <3>1, SetTypes
      <3> QED
        BY SMTT(30), <1>1, <3>1, <3>2 DEF Cli
    <2> QED
      BY <1>1, <1>2, <2>1, QuietKeeps DEF Attempt, mtpz, world, TypeOK, Places
  <1>3. CASE AttemptFails
    <2>1. faults' \in 0 .. MaxFaults
      BY <1>1, <1>3, FaultType DEF AttemptFails, Reaches
    <2>2. CASE tries < 2
      <3>1. tries' \in 0 .. 2
        BY SMTT(30), <1>1, <1>3, <2>2 DEF AttemptFails, TypeOK
      <3> QED
        BY <1>1, <1>3, <2>1, <2>2, <3>1, QuietKeeps DEF AttemptFails, mtpz, world, TypeOK
    <2>3. CASE ~(tries < 2)
      <3>1. ref' \in References(top) /\ claim' \in Cli .. top /\ session' \in Cli .. top
        BY <1>1, <1>3, <2>3, DropTypes, ReleasedTypes DEF AttemptFails
      <3> QED
        BY <1>1, <1>3, <2>1, <2>3, <3>1, QuietKeeps DEF AttemptFails, mtpz, world, TypeOK, Places
    <2> QED
      BY <2>2, <2>3
  <1> QED
    BY <1>2, <1>3

\* The player and the references when a TrustedApp takes the place of another.
LEMMA ReplaceTypes ==
    ASSUME TypeOK, NEW keylines \in {4, 5}, Replace(keylines)
    PROVE  /\ app' \in [sess : 0 .. top, keys : BOOLEAN, at : Stages, challenge : Challenges,
                        verified : Challenges]
           /\ app'.at \in {"none", "created", "version"}
           /\ player' \in [trusted : 0 .. top \cup {-1}, challenges : SUBSET Challenges,
                           answered : Challenges, spent : SUBSET Challenges]
           /\ player'.spent = player.spent /\ player'.trusted \in {0, player.trusted}
           /\ ref' \in References(top) /\ claim' \in Cli .. top /\ session' \in Cli .. top
  <1>1. top \in Nat /\ MtpzTypes(0 .. top) /\ ref \in References(top) /\ ref.win \in 0 .. top
    BY DropTypes DEF TypeOK
  <1>2. app' = Create(ref.win, Operations, keylines)
        /\ player' = Destroyed(Reaches(app.sess), player)
        /\ Released(ref, app'.sess)
    BY DEF Replace
  <1>3. Reaches(app.sess) \in BOOLEAN
    BY DEF Reaches
  <1> QED
    BY SMTT(30), <1>1, <1>2, <1>3, CreateType, DestroyedType, ReleasedTypes

\* A new TrustedApp.
LEMMA CreateAppKeeps ==
    ASSUME HandshakeInv, CreateApp
    PROVE  HandshakeInv'
  <1>1. TypeOK /\ lines \in {4, 5} /\ Replace(lines)
    BY DEF HandshakeInv, TypeOK, CreateApp
  <1>2. reply' \in BOOLEAN
    BY DEF HandshakeInv, TypeOK, CreateApp
  <1> QED
    BY SMTT(30), <1>1, <1>2, ReplaceTypes, FreshAppKeeps DEF CreateApp, TypeOK, Places

\* The storages are there, or not.
LEMMA StoragesKeeps ==
    ASSUME HandshakeInv, Storages \/ StoragesRetry \/ StoragesAbort \/ StoragesThrow
    PROVE  HandshakeInv'
  <1>1. TypeOK /\ top \in Nat /\ ref \in References(top) /\ MtpzTypes(0 .. top)
    BY DEF HandshakeInv, TypeOK
  <1>2. CASE Storages
    <2>1. ref' \in References(top) /\ claim' \in Cli .. top /\ session' \in Cli .. top
      BY <1>1, <1>2, DropTypes, SetTypes, ReleasedTypes DEF Storages
    <2> QED
      BY <1>1, <1>2, <2>1, BeginsType, FreshAppKeeps DEF Storages, world, TypeOK, MtpzTypes, Places
  <1>3. CASE StoragesRetry
    BY <1>1, <1>3, QuietKeeps DEF StoragesRetry, mtpz, TypeOK, Places
  <1>4. CASE StoragesAbort
    <2>1. ref' \in References(top) /\ claim' \in Cli .. top /\ session' \in Cli .. top
      BY <1>1, <1>4, DropTypes, ReleasedTypes DEF StoragesAbort
    <2> QED
      BY <1>1, <1>4, <2>1, QuietKeeps DEF StoragesAbort, mtpz, world, TypeOK, Places
  <1>5. CASE StoragesThrow
    BY <1>1, <1>5, FaultType, QuietKeeps DEF StoragesThrow, mtpz, world, TypeOK, Places
  <1> QED
    BY <1>2, <1>3, <1>4, <1>5

\* The library.
LEMMA LoadLibraryKeeps ==
    ASSUME HandshakeInv, LoadLibrary
    PROVE  HandshakeInv'
  <1>1. TypeOK /\ top \in Nat /\ ref \in References(top) /\ ref.mdl \in 0 .. top
    BY DropTypes DEF HandshakeInv, TypeOK
  <1>2. ref' \in References(top) /\ faults' \in 0 .. MaxFaults
    BY <1>1, SetTypes, FaultType DEF LoadLibrary
  <1>3. opened' \in BOOLEAN
    BY DEF LoadLibrary
  <1>4. /\ UNCHANGED <<app, player, nonce, claim, session, top, tries, locked, lines, reply, present>>
        /\ at' = back /\ back' = "open"
    BY DEF LoadLibrary, mtpz
  <1> QED
    BY SMTT(30), <1>1, <1>2, <1>3, <1>4, QuietKeeps DEF TypeOK, Places

\* A step of the handshake leaves the rest of the window alone.
LEMMA HandshakeKeeps ==
    ASSUME HandshakeInv, Handshake,
           UNCHANGED <<ref, claim, session, top, at, tries, world, opened, faults>>
    PROVE  /\ HandshakeInv'
           /\ player'.trusted > 0 /\ player'.trusted # player.trusted
                 => app.verified = app.challenge /\ app.challenge \notin player.spent
  <1> DEFINE Apps == [sess : 0 .. top, keys : BOOLEAN, at : Stages, challenge : Challenges,
                      verified : Challenges]
             Players == [trusted : 0 .. top \cup {-1}, challenges : SUBSET Challenges,
                         answered : Challenges, spent : SUBSET Challenges]
  <1>1. /\ TypeOK /\ HandshakeSound /\ top \in Nat
        /\ app \in Apps /\ player \in Players /\ nonce \in Challenges
    BY DEF HandshakeInv, TypeOK, MtpzTypes
  <1>2. ASSUME app' \in Apps, player' \in Players, nonce' \in Challenges
        PROVE  TypeOK'
    BY <1>1, <1>2 DEF TypeOK, MtpzTypes, world
  <1>3. CASE SetVersion
    <2>1. app' = [app EXCEPT !.at = "end"] /\ UNCHANGED <<player, nonce>>
      BY <1>3 DEF SetVersion, Stage
    <2>2. app' \in Apps /\ app'.at = "end"
      BY <1>1, <2>1 DEF Stages
    <2> QED
      BY <1>1, <1>2, <2>1, <2>2 DEF HandshakeInv, HandshakeSound
  <1>4. CASE EndPrevious
    <2>1. /\ app' = [app EXCEPT !.at = "certificate"] /\ nonce' = nonce
          /\ player' = [player EXCEPT !.trusted = 0]
      BY <1>4 DEF EndPrevious, Stage
    <2>2. app' \in Apps /\ app'.at = "certificate"
      BY <1>1, <2>1 DEF Stages
    <2>3. player' \in Players /\ player'.spent = player.spent /\ player'.trusted = 0
      BY <1>1, <2>1
    <2> QED
      BY <1>1, <1>2, <2>1, <2>2, <2>3 DEF HandshakeInv, HandshakeSound
  <1>5. CASE SendCertificate
    <2>1. /\ nonce < MaxChallenges /\ nonce' = nonce + 1
          /\ app' = [app EXCEPT !.at = "response", !.challenge = nonce + 1]
          /\ player' = [player EXCEPT !.challenges = @ \cup {nonce + 1}]
      BY <1>5 DEF SendCertificate
    <2>2. nonce + 1 \in Challenges /\ nonce \in Nat
      BY <1>1, <2>1, ChallengesAssumption DEF Challenges
    <2>3. app' \in Apps /\ app'.at = "response" /\ app'.challenge = nonce'
      BY <1>1, <2>1, <2>2 DEF Stages
    <2>4. player' \in Players /\ player'.spent = player.spent /\ player'.trusted = player.trusted
      BY <1>1, <2>1, <2>2
    <2>5. \A c \in player'.spent : c <= nonce' /\ c # nonce'
      <3>1. \A c \in player.spent : c \in Nat /\ c <= nonce
        BY <1>1 DEF HandshakeSound, Challenges
      <3> QED
        BY <2>1, <2>2, <2>4, <3>1
    <2>6. HandshakeSound'
      BY <2>3, <2>5 DEF HandshakeSound
    <2> QED
      BY <1>2, <2>1, <2>2, <2>3, <2>4, <2>6 DEF HandshakeInv
  <1>6. ASSUME NEW r \in Answers, GetResponse(r)
        PROVE  HandshakeInv' /\ player'.trusted = player.trusted
    <2>1. /\ app.at = "response" /\ nonce' = nonce
          /\ app' = [app EXCEPT !.at = "sign", !.verified = r.echo]
          /\ player' = [player EXCEPT !.answered = IF r.key THEN r.echo ELSE 0]
      BY <1>6 DEF GetResponse
    <2>2. r.echo = app.challenge
      <3>1. 6 \in DOMAIN Parts /\ Parts[6] = "echo"
        BY DEF Parts
      <3> QED
        BY <1>6, <3>1 DEF GetResponse, VerifyResponse
    <2>3. /\ app' \in Apps /\ app'.at = "sign" /\ app'.verified = app.challenge
          /\ app'.challenge = app.challenge
      BY <1>1, <2>1, <2>2 DEF Stages
    <2>4. player' \in Players /\ player'.spent = player.spent /\ player'.trusted = player.trusted
      BY <1>1, <2>1, <2>2, ChallengesAssumption DEF Challenges
    <2>5. HandshakeSound'
      BY <1>1, <2>1, <2>3, <2>4 DEF HandshakeSound
    <2> QED
      BY <1>1, <1>2, <2>1, <2>3, <2>4, <2>5 DEF HandshakeInv
  <1>7. CASE SendSignature
    <2>1. app.at = "sign" /\ app' = [app EXCEPT !.at = "enable"] /\ UNCHANGED <<player, nonce>>
      BY <1>7 DEF SendSignature, Stage
    <2>2. /\ app' \in Apps /\ app'.at = "enable"
          /\ app'.challenge = app.challenge /\ app'.verified = app.verified
      BY <1>1, <2>1 DEF Stages
    <2> QED
      BY <1>1, <1>2, <2>1, <2>2 DEF HandshakeInv, HandshakeSound
  <1>8. CASE Enable
    <2>1. /\ app.at = "enable" /\ app' = [app EXCEPT !.at = "done"] /\ nonce' = nonce
          /\ player' = [player EXCEPT !.trusted = app.sess, !.spent = @ \cup {app.challenge}]
      BY <1>8 DEF Enable, Stage
    <2>2. app' \in Apps /\ app'.at = "done"
      BY <1>1, <2>1 DEF Stages
    <2>3. player' \in Players /\ player'.spent = player.spent \cup {app.challenge}
      BY <1>1, <2>1
    <2>4. app.verified = app.challenge /\ app.challenge = nonce /\ nonce \notin player.spent
      BY <1>1, <2>1 DEF HandshakeSound
    <2>5. HandshakeSound'
      BY <1>1, <2>1, <2>2, <2>3, <2>4 DEF HandshakeSound, Challenges
    <2> QED
      BY <1>1, <1>2, <2>1, <2>2, <2>3, <2>4, <2>5 DEF HandshakeInv
  <1> QED
    BY <1>3, <1>4, <1>5, <1>6, <1>7, <1>8 DEF Handshake

\* A handshake breaks off.
LEMMA ShakeFailsKeeps ==
    ASSUME HandshakeInv, ShakeFails
    PROVE  HandshakeInv'
  <1>1. app' = [app EXCEPT !.at = "created"]
    BY DEF ShakeFails
  <1>2. app' \in [sess : 0 .. top, keys : BOOLEAN, at : Stages, challenge : Challenges,
                  verified : Challenges] /\ app'.at = "created"
    BY <1>1 DEF HandshakeInv, TypeOK, MtpzTypes, Stages
  <1>3. faults' \in 0 .. MaxFaults
    BY FaultType DEF HandshakeInv, ShakeFails, Reaches
  <1>4. at' \in Places /\ back' \in Places
    BY DEF HandshakeInv, TypeOK, ShakeFails, Places
  <1> QED
    BY <1>2, <1>3, <1>4, FreshAppKeeps DEF HandshakeInv, TypeOK, MtpzTypes, ShakeFails

\* What the window does for jellyfin-sync, and what the tool does meanwhile.
LEMMA SyncFromJellyfinKeeps ==
    ASSUME HandshakeInv, SyncFromJellyfin
    PROVE  HandshakeInv'
  <1>1. TypeOK /\ top \in Nat /\ ref \in References(top) /\ MtpzTypes(0 .. top)
    BY DEF HandshakeInv, TypeOK
  <1>2. at' = "tool" /\ UNCHANGED <<nonce, top, tries, locked, lines, reply, present, back,
                                    opened, faults>>
    BY DEF SyncFromJellyfin, world
  <1>3. CASE ref.dev = 0
    BY <1>1, <1>2, <1>3, QuietKeeps DEF SyncFromJellyfin, TypeOK, Places
  <1>4. CASE ref.dev # 0
    <2>1. /\ app' = NoApp /\ player' = Destroyed(Reaches(app.sess), player)
          /\ Released([ref EXCEPT !.dev = 0, !.win = 0, !.mdl = 0], 0)
      BY <1>4 DEF SyncFromJellyfin
    <2>2. ref' \in References(top) /\ claim' \in Cli .. top /\ session' \in Cli .. top
      BY <1>1, <2>1, DropTypes, ReleasedTypes
    <2>3. Reaches(app.sess) \in BOOLEAN
      BY DEF Reaches
    <2>4. /\ player' \in [trusted : 0 .. top \cup {-1}, challenges : SUBSET Challenges,
                          answered : Challenges, spent : SUBSET Challenges]
          /\ player'.spent = player.spent
      BY <1>1, <2>1, <2>3, DestroyedType
    <2>5. /\ app' \in [sess : 0 .. top, keys : BOOLEAN, at : Stages, challenge : Challenges,
                       verified : Challenges]
          /\ app'.at \in {"none", "created", "version"}
      BY <1>1, <2>1, NoAppType
    <2> QED
      BY SMTT(30), <1>1, <1>2, <2>2, <2>4, <2>5, FreshAppKeeps DEF TypeOK, Places
  <1> QED
    BY <1>3, <1>4

\* Trust is taken away, or given to another program.
LEMMA OthersTrustKeeps ==
    ASSUME HandshakeInv, NEW t \in {0, Cli}, player' = [player EXCEPT !.trusted = t],
           UNCHANGED <<app, nonce, top, ref, at, tries, lines, locked, reply, back, opened>>,
           present' \in BOOLEAN, faults' \in 0 .. MaxFaults,
           claim' \in Cli .. top, session' \in Cli .. top
    PROVE  HandshakeInv' /\ player'.trusted <= 0
  <1>1. top \in Nat /\ player \in [trusted : 0 .. top \cup {-1}, challenges : SUBSET Challenges,
                                   answered : Challenges, spent : SUBSET Challenges]
    BY DEF HandshakeInv, TypeOK, MtpzTypes
  <1>2. t \in 0 .. top \cup {-1} /\ t <= 0
    BY <1>1 DEF Cli
  <1>3. /\ player' \in [trusted : 0 .. top \cup {-1}, challenges : SUBSET Challenges,
                        answered : Challenges, spent : SUBSET Challenges]
        /\ player'.spent = player.spent /\ player'.trusted = t
    BY <1>1, <1>2
  <1>4. TypeOK'
    BY <1>3 DEF HandshakeInv, TypeOK, MtpzTypes
  <1>5. HandshakeSound'
    BY <1>3 DEF HandshakeInv, HandshakeSound
  <1> QED
    BY <1>2, <1>3, <1>4, <1>5 DEF HandshakeInv

\* The tool has a handshake of its own.
LEMMA ToolRunsKeeps ==
    ASSUME HandshakeInv, ToolRuns
    PROVE  HandshakeInv' /\ player'.trusted <= 0
  <1>1. UNCHANGED <<app, nonce, top, ref, at, tries, lines, locked, reply, present, back, opened,
                    faults>>
    BY DEF ToolRuns, world
  <1>2. PICK t \in {0, Cli} : player' = [player EXCEPT !.trusted = t]
    BY DEF ToolRuns
  <1>3. claim' \in Cli .. top /\ session' \in Cli .. top
    BY DEF HandshakeInv, TypeOK, ToolRuns, Cli, Nobody
  <1> QED
    BY <1>1, <1>2, <1>3, OthersTrustKeeps DEF HandshakeInv, TypeOK

\* A player that is unplugged trusts nobody.
LEMMA UnplugKeeps ==
    ASSUME HandshakeInv, Unplug
    PROVE  HandshakeInv' /\ player'.trusted <= 0
  <1>1. /\ UNCHANGED <<app, nonce, top, ref, at, tries, lines, locked, reply, back, opened>>
        /\ player' = [player EXCEPT !.trusted = 0] /\ present' = FALSE
    BY DEF Unplug
  <1>2. claim' \in Cli .. top /\ session' \in Cli .. top
    BY DEF HandshakeInv, TypeOK, Unplug, Cli, Nobody
  <1>3. faults' \in 0 .. MaxFaults
    BY FaultType DEF HandshakeInv, Unplug
  <1> QED
    BY <1>1, <1>2, <1>3, OthersTrustKeeps

\* New keys, and a TrustedApp for them.
LEMMA InstallKeysKeeps ==
    ASSUME HandshakeInv, InstallKeys
    PROVE  HandshakeInv' /\ player'.trusted \in {0, player.trusted}
  <1>1. PICK n \in {4, 5} :
             /\ lines' = n
             /\ IF ref.win = 0 THEN at' = "crashed" /\ UNCHANGED <<app, player, ref, claim, session, back>>
                ELSE /\ Replace(n)
                     /\ IF n = 5 THEN at' = "install" /\ back' = at ELSE UNCHANGED <<at, back>>
    BY DEF InstallKeys
  <1>2. /\ reply' = FALSE /\ at \in Places /\ back \in Places
        /\ UNCHANGED <<nonce, top, tries, locked, present, opened, faults>>
    BY DEF InstallKeys, HandshakeInv, TypeOK
  <1>3. TypeOK /\ at' \in Places /\ back' \in Places
    BY <1>1, <1>2 DEF HandshakeInv, Places
  <1>4. CASE ref.win = 0
    BY <1>1, <1>2, <1>3, <1>4, QuietKeeps DEF TypeOK
  <1>5. CASE ref.win # 0
    BY <1>1, <1>2, <1>3, <1>5, ReplaceTypes, FreshAppKeeps DEF TypeOK
  <1> QED
    BY <1>4, <1>5

\* What the player and its user do.
LEMMA PlugKeeps ==
    ASSUME HandshakeInv, Plug \/ ToolDialogCloses \/ LockPlayer
    PROVE  HandshakeInv'
  <1>1. UNCHANGED <<app, player, nonce, top, ref, claim, session, tries, lines, reply,
                    back, opened, faults>>
    BY DEF Plug, ToolDialogCloses, LockPlayer, mtpz, world
  <1>2. present' \in BOOLEAN /\ locked' \in BOOLEAN
    BY DEF Plug, ToolDialogCloses, LockPlayer, world, HandshakeInv, TypeOK
  <1>3. at' \in Places
    BY DEF Plug, ToolDialogCloses, LockPlayer, HandshakeInv, TypeOK, Places
  <1>4. TypeOK
    BY DEF HandshakeInv
  <1> QED
    BY <1>1, <1>2, <1>3, <1>4, QuietKeeps DEF TypeOK

\* Nothing happens.
LEMMA StutterKeeps ==
    ASSUME HandshakeInv, UNCHANGED vars
    PROVE  HandshakeInv'
  BY DEF vars, HandshakeInv, TypeOK, MtpzTypes, HandshakeSound

-----------------------------------------------------------------------------

\* Every action keeps the handshake sound.
LEMMA NextKeeps ==
    ASSUME HandshakeInv, Next
    PROVE  HandshakeInv'
  <1>1. ASSUME Steps
        PROVE  HandshakeInv'
    <2>1. ASSUME Shake
          PROVE  HandshakeInv'
      BY <2>1, HandshakeKeeps DEF Shake
    <2> QED
      BY <1>1, <2>1, OpenDeviceKeeps, FindDeviceKeeps, AttemptKeeps, CreateAppKeeps,
         StoragesKeeps, ShakeFailsKeeps, LoadLibraryKeeps DEF Steps
  <1> QED
    BY <1>1, SyncFromJellyfinKeeps, ToolRunsKeeps, PlugKeeps, InstallKeysKeeps, UnplugKeeps,
       StutterKeeps DEF Next, Rest

\* Who but the handshake changes whom the player trusts.
LEMMA OnlyHandshakeTrusts ==
    ASSUME HandshakeInv, Next
    PROVE  player'.trusted > 0 /\ player'.trusted # player.trusted
              => app.verified = app.challenge /\ app.challenge \notin player.spent
  <1>1. TypeOK /\ MtpzTypes(0 .. top) /\ top \in Nat
    BY DEF HandshakeInv, TypeOK
  <1>2. CASE Shake
    BY <1>2, HandshakeKeeps DEF Shake
  <1>3. CASE player' = player
    BY <1>3
  <1>4. CASE ToolRuns \/ Unplug
    <2>1. player'.trusted <= 0 /\ player'.trusted \in Int
      <3>1. MtpzTypes(0 .. top)'
        BY NextKeeps DEF HandshakeInv, TypeOK
      <3> QED
        BY <1>4, <3>1, ToolRunsKeeps, UnplugKeeps DEF MtpzTypes
    <2> QED
      BY <2>1
  <1>5. CASE CreateApp \/ InstallKeys
    <2>1. player'.trusted \in {0, player.trusted}
      <3>1. lines \in {4, 5} /\ (CreateApp => Replace(lines))
        BY <1>1 DEF TypeOK, CreateApp
      <3> QED
        BY <1>1, <1>5, <3>1, ReplaceTypes, InstallKeysKeeps
    <2> QED
      BY <2>1
  <1>6. CASE SyncFromJellyfin
    <2>1. player' = player \/ player' = Destroyed(Reaches(app.sess), player)
      BY <1>6 DEF SyncFromJellyfin
    <2>2. Reaches(app.sess) \in BOOLEAN
      BY DEF Reaches
    <2>3. player'.trusted \in {0, player.trusted}
      BY <1>1, <2>1, <2>2, DestroyedType
    <2> QED
      BY <2>3
  <1> QED
    BY <1>2, <1>3, <1>4, <1>5, <1>6
    DEF Next, Steps, Rest, vars, mtpz, OpenDevice, DropOld, FindDevice, NotFound, Attempt,
        AttemptFails, Storages, InstallBegins, StoragesRetry, StoragesAbort, StoragesThrow,
        ShakeFails, Authenticated, LoadLibrary, ToolDialogCloses, LockPlayer, Plug

\* The state has its type, and a handshake is about the newest challenge, with which
\* none was completed before.
THEOREM HandshakeInvHolds == Spec => []HandshakeInv
  <1>1. Init => HandshakeInv
    BY InitHolds
  <1>2. HandshakeInv /\ [Next]_vars => HandshakeInv'
    BY NextKeeps, StutterKeeps
  <1> QED
    BY <1>1, <1>2, PTL DEF Spec

\* However often devices are opened, keys installed and handshakes broken off: the
\* player comes to trust this program only in a handshake whose answer the program
\* has verified against a challenge of its own that was not used before.
THEOREM TrustAlwaysEarned == Spec => TrustIsEarned
  <1> DEFINE Earned == player'.trusted > 0 /\ player'.trusted # player.trusted
                           => app.verified = app.challenge /\ app.challenge \notin player.spent
  <1>1. HandshakeInv /\ [Next]_vars => [Earned]_<<app, player, nonce>>
    BY OnlyHandshakeTrusts DEF vars
  <1> HIDE DEF Earned
  <1>2. Spec => [][Earned]_<<app, player, nonce>>
    BY <1>1, HandshakeInvHolds, PTL DEF Spec
  <1> QED
    BY <1>2 DEF TrustIsEarned, Earned

-----------------------------------------------------------------------------
(* The window's session *)

\* References, one by one.
Refers(r, d, w, m, l) == r.dev = d /\ r.win = w /\ r.mdl = m /\ r.lib = l

\* What they are after some were dropped or set.
LEMMA RefsAre ==
    ASSUME NEW n, NEW r \in References(n), NEW s
    PROVE  /\ Refers([r EXCEPT !.dev = s], s, r.win, r.mdl, r.lib)
           /\ Refers([r EXCEPT !.win = s], r.dev, s, r.mdl, r.lib)
           /\ Refers([r EXCEPT !.mdl = s], r.dev, r.win, s, r.lib)
           /\ Refers([r EXCEPT !.lib = s], r.dev, r.win, r.mdl, s)
           /\ Refers([r EXCEPT !.win = 0, !.dev = 0], 0, 0, r.mdl, r.lib)
           /\ Refers([r EXCEPT !.dev = 0, !.win = 0, !.mdl = 0], 0, 0, 0, r.lib)
  BY DEF References, Refers

\* The session and the keys of a new TrustedApp.
LEMMA CreateIs ==
    ASSUME NEW s, NEW operations, NEW keylines
    PROVE  LET new == Create(s, operations, keylines)
           IN  /\ new.sess = s \/ (~new.keys /\ new.at \in {"none", "created"})
               /\ new.at \in {"none", "created"}
  <1>1. CASE Probe(operations)
    <2>1. Create(s, operations, keylines) = [sess |-> s, keys |-> keylines = 5, at |-> "created",
                                             challenge |-> 0, verified |-> 0]
      BY <1>1 DEF Create, NoApp, LoadKeys
    <2> QED
      BY <2>1
  <1>2. CASE ~Probe(operations)
    <2>1. Create(s, operations, keylines) = NoApp
      BY <1>2 DEF Create
    <2> QED
      BY <2>1 DEF NoApp
  <1> QED
    BY <1>1, <1>2

\* Where to go back to stays right.
LEMMA BackStep ==
    ASSUME HandshakeInv, BackRight, RefsRight, Next
    PROVE  BackRight'
  <1>1. CASE OpenDevice
    BY <1>1 DEF BackRight, Place, world, mtpz, OpenDevice
  <1>2. CASE DropOld
    BY <1>2 DEF BackRight, Place, world, mtpz, DropOld
  <1>3. CASE FindDevice
    BY <1>3 DEF BackRight, Place, world, mtpz, FindDevice
  <1>4. CASE NotFound
    BY <1>4 DEF BackRight, Place, world, mtpz, NotFound
  <1>5. CASE Attempt
    BY <1>5 DEF BackRight, Place, world, mtpz, Attempt
  <1>6. CASE AttemptFails
    BY <1>6 DEF BackRight, Place, world, mtpz, AttemptFails
  <1>7. CASE CreateApp
    BY <1>7 DEF BackRight, Place, world, mtpz, CreateApp
  <1>8. CASE Storages
    BY <1>8 DEF BackRight, Place, world, mtpz, Storages
  <1>9. CASE InstallBegins
    BY <1>9 DEF BackRight, Place, world, mtpz, InstallBegins
  <1>10. CASE StoragesRetry
    BY <1>10 DEF BackRight, Place, world, mtpz, StoragesRetry
  <1>11. CASE StoragesAbort
    BY <1>11 DEF BackRight, Place, world, mtpz, StoragesAbort
  <1>12. CASE StoragesThrow
    BY <1>12 DEF BackRight, Place, world, mtpz, StoragesThrow
  <1>13. CASE Shake
    BY <1>13 DEF BackRight, Place, world, mtpz, Shake
  <1>14. CASE ShakeFails
    BY <1>14 DEF BackRight, Place, world, mtpz, ShakeFails
  <1>15. CASE Authenticated
    BY <1>15 DEF BackRight, Place, world, mtpz, Authenticated
  <1>16. CASE LoadLibrary
    BY <1>16 DEF BackRight, Place, world, mtpz, LoadLibrary
  <1>17. CASE SyncFromJellyfin
    BY <1>17 DEF BackRight, Place, world, mtpz, SyncFromJellyfin
  <1>18. CASE ToolRuns
    BY <1>18 DEF BackRight, Place, world, mtpz, ToolRuns
  <1>19. CASE ToolDialogCloses
    BY <1>19 DEF BackRight, Place, world, mtpz, ToolDialogCloses
  <1>20. CASE InstallKeys
    BY <1>20 DEF BackRight, RefsRight, Place, InstallKeys
  <1>21. CASE LockPlayer
    BY <1>21 DEF BackRight, Place, world, mtpz, LockPlayer
  <1>22. CASE Unplug
    BY <1>22 DEF BackRight, Place, world, mtpz, Unplug
  <1>23. CASE Plug
    BY <1>23 DEF BackRight, Place, world, mtpz, Plug
  <1>24. CASE UNCHANGED vars
    BY <1>24 DEF BackRight, Place, world, mtpz, vars
  <1> QED
    BY <1>1, <1>2, <1>3, <1>4, <1>5, <1>6, <1>7, <1>8, <1>9, <1>10, <1>11, <1>12, <1>13,
       <1>14, <1>15, <1>16, <1>17, <1>18, <1>19, <1>20, <1>21, <1>22, <1>23, <1>24 DEF Next,
       Steps, Rest

\* References stay right.
LEMMA RefsStep ==
    ASSUME HandshakeInv, BackRight, RefsRight, Next
    PROVE  RefsRight'
  <1>0. ref \in References(top)
    BY DEF HandshakeInv, TypeOK
  <1>1. CASE OpenDevice
    BY <1>1, <1>0 DEF RefsRight, BackRight, Place, world, mtpz, Released, OpenDevice
  <1>2. CASE DropOld
    BY <1>2, <1>0, RefsAre DEF RefsRight, BackRight, Place, world, mtpz, Released, DropOld, Refers
  <1>3. CASE FindDevice
    <2>1. top + 1 # 0
      BY DEF HandshakeInv, TypeOK
    <2> QED
      BY <1>3, <1>0, <2>1, RefsAre DEF RefsRight, BackRight, Place, world, mtpz, FindDevice, Refers
  <1>4. CASE NotFound
    BY <1>4, <1>0 DEF RefsRight, BackRight, Place, world, mtpz, Released, NotFound
  <1>5. CASE Attempt
    BY <1>5, <1>0, RefsAre DEF RefsRight, BackRight, Place, world, mtpz, Released, Attempt, Refers
  <1>6. CASE AttemptFails
    <2>1. at = "attempt" /\ back = "open" /\ back' = back
      BY <1>6 DEF AttemptFails, BackRight, world
    <2>2. ref.mdl = 0 /\ ref.dev # 0
      BY <2>1 DEF RefsRight, Place
    <2>3. CASE UNCHANGED <<ref, at>>
      BY <2>1, <2>2, <2>3 DEF RefsRight, Place
    <2>4. CASE ref' = [ref EXCEPT !.dev = 0] /\ at' = "failed"
      <3>1. ref'.dev = 0 /\ ref'.mdl = 0
        BY <1>0, <2>2, <2>4, RefsAre DEF Refers
      <3> QED
        BY <2>1, <2>4, <3>1 DEF RefsRight, Place
    <2> QED
      BY <1>6, <2>3, <2>4 DEF AttemptFails, Released
  <1>7. CASE CreateApp
    BY <1>7, <1>0 DEF RefsRight, BackRight, Place, world, mtpz, Released, CreateApp, Replace
  <1>8. CASE Storages
    BY <1>8, <1>0, RefsAre DEF RefsRight, BackRight, Place, world, mtpz, Released, Storages, Refers
  <1>9. CASE InstallBegins
    BY <1>9, <1>0 DEF RefsRight, BackRight, Place, world, mtpz, Released, InstallBegins
  <1>10. CASE StoragesRetry
    BY <1>10, <1>0 DEF RefsRight, BackRight, Place, world, mtpz, Released, StoragesRetry
  <1>11. CASE StoragesAbort
    BY <1>11, <1>0, RefsAre DEF RefsRight, BackRight, Place, world, mtpz, Released, StoragesAbort, Refers
  <1>12. CASE StoragesThrow
    BY <1>12, <1>0 DEF RefsRight, BackRight, Place, world, mtpz, Released, StoragesThrow
  <1>13. CASE Shake
    BY <1>13, <1>0 DEF RefsRight, BackRight, Place, world, mtpz, Released, Shake
  <1>14. CASE ShakeFails
    BY <1>14, <1>0 DEF RefsRight, BackRight, Place, world, mtpz, Released, ShakeFails
  <1>15. CASE Authenticated
    BY <1>15, <1>0 DEF RefsRight, BackRight, Place, world, mtpz, Released, Authenticated
  <1>16. CASE LoadLibrary
    <2>1. at = "library" /\ at' = back /\ back' = "open" /\ Place = back
      BY <1>16 DEF LoadLibrary, Place
    <2>2. Place' = Place
      BY <2>1 DEF Place, BackRight
    <2>3. ref'.dev = ref.dev /\ ref'.win = ref.win /\ ref'.mdl = ref.mdl
      <3>1. ref' = ref \/ ref' = [ref EXCEPT !.lib = ref.mdl]
        BY <1>16 DEF LoadLibrary
      <3>2. Refers([ref EXCEPT !.lib = ref.mdl], ref.dev, ref.win, ref.mdl, ref.mdl)
        BY <1>0, RefsAre
      <3> QED
        BY <3>1, <3>2 DEF Refers
    <2> QED
      BY <2>2, <2>3 DEF RefsRight
  <1>17. CASE SyncFromJellyfin
    <2>1. at \in {"open", "failed"} /\ at' = "tool" /\ Place' = "tool"
      BY <1>17 DEF SyncFromJellyfin, Place
    <2>2. CASE ref.dev = 0
      <3>1. ref' = ref /\ Place = "failed"
        BY <1>17, <2>1, <2>2 DEF SyncFromJellyfin, Place, RefsRight
      <3> QED
        BY <2>1, <3>1 DEF RefsRight
    <2>3. CASE ref.dev # 0
      <3>1. ref'.dev = 0 /\ ref'.mdl = 0
        <4>1. ref' = [ref EXCEPT !.dev = 0, !.win = 0, !.mdl = 0]
          BY Zenon, <1>17, <2>3 DEF SyncFromJellyfin, Released
        <4>2. Refers([ref EXCEPT !.dev = 0, !.win = 0, !.mdl = 0], 0, 0, 0, ref.lib)
          BY <1>0, RefsAre
        <4> QED
          BY <4>1, <4>2 DEF Refers
      <3> QED
        BY <2>1, <3>1 DEF RefsRight
    <2> QED
      BY <2>2, <2>3
  <1>18. CASE ToolRuns
    BY <1>18, <1>0 DEF RefsRight, BackRight, Place, world, mtpz, Released, ToolRuns
  <1>19. CASE ToolDialogCloses
    BY <1>19, <1>0 DEF RefsRight, BackRight, Place, world, mtpz, Released, ToolDialogCloses
  <1>20. CASE InstallKeys
    BY <1>20, <1>0 DEF RefsRight, BackRight, Place, world, mtpz, Released, InstallKeys, Replace
  <1>21. CASE LockPlayer
    BY <1>21, <1>0 DEF RefsRight, BackRight, Place, world, mtpz, Released, LockPlayer
  <1>22. CASE Unplug
    BY <1>22, <1>0 DEF RefsRight, BackRight, Place, world, mtpz, Released, Unplug
  <1>23. CASE Plug
    BY <1>23, <1>0 DEF RefsRight, BackRight, Place, world, mtpz, Released, Plug
  <1>24. CASE UNCHANGED vars
    BY <1>24 DEF RefsRight, BackRight, Place, world, mtpz, Released, vars
  <1> QED
    BY <1>1, <1>2, <1>3, <1>4, <1>5, <1>6, <1>7, <1>8, <1>9, <1>10, <1>11, <1>12, <1>13,
       <1>14, <1>15, <1>16, <1>17, <1>18, <1>19, <1>20, <1>21, <1>22, <1>23, <1>24 DEF Next,
       Steps, Rest

\* The handshake goes on for one session and set of keys.
LEMMA HandshakeSame ==
    ASSUME HandshakeInv, Handshake
    PROVE  /\ app'.sess = app.sess /\ app'.keys = app.keys
           /\ app.at \notin {"none", "created"}
           /\ app'.at = "done" => player'.trusted = app.sess
  <1>1. /\ app \in [sess : 0 .. top, keys : BOOLEAN, at : Stages, challenge : Challenges,
                    verified : Challenges]
        /\ player \in [trusted : 0 .. top \cup {-1}, challenges : SUBSET Challenges,
                       answered : Challenges, spent : SUBSET Challenges]
    BY DEF HandshakeInv, TypeOK, MtpzTypes
  <1>2. CASE SetVersion \/ EndPrevious \/ SendSignature
    BY <1>1, <1>2 DEF SetVersion, EndPrevious, SendSignature, Stage
  <1>3. CASE SendCertificate
    BY <1>1, <1>3 DEF SendCertificate
  <1>4. CASE Enable
    BY <1>1, <1>4 DEF Enable, Stage
  <1>5. CASE \E r \in Answers : GetResponse(r)
    BY <1>1, <1>5 DEF GetResponse
  <1> QED
    BY <1>2, <1>3, <1>4, <1>5 DEF Handshake

\* A handshake that begins or breaks off is still that session's.
LEMMA AppSame ==
    ASSUME HandshakeInv
    PROVE  /\ AuthenticateBegins => /\ app'.sess = app.sess /\ app'.keys = app.keys
                                    /\ app'.at = IF app.keys THEN "version" ELSE "created"
           /\ app' = [app EXCEPT !.at = "created"]
                => app'.sess = app.sess /\ app'.keys = app.keys /\ app'.at = "created"
  <1>1. app \in [sess : 0 .. top, keys : BOOLEAN, at : Stages, challenge : Challenges,
                 verified : Challenges]
    BY DEF HandshakeInv, TypeOK, MtpzTypes
  <1> QED
    BY <1>1 DEF AuthenticateBegins

\* The TrustedApp stays the window's.
LEMMA AppStep ==
    ASSUME HandshakeInv, BackRight, RefsRight, AppRight, Next
    PROVE  AppRight'
  <1>0. ref \in References(top)
    BY DEF HandshakeInv, TypeOK
  <1>1. CASE OpenDevice
    BY <1>1, <1>0 DEF AppRight, BackRight, RefsRight, Place, world, mtpz, Released, OpenDevice
  <1>2. CASE DropOld
    BY <1>2, <1>0, RefsAre DEF AppRight, BackRight, RefsRight, Place, world, mtpz, Released, DropOld, Refers
  <1>3. CASE FindDevice
    BY <1>3 DEF AppRight, Place, FindDevice
  <1>4. CASE NotFound
    BY <1>4, <1>0 DEF AppRight, BackRight, RefsRight, Place, world, mtpz, Released, NotFound
  <1>5. CASE Attempt
    BY <1>5 DEF AppRight, Place, Attempt
  <1>6. CASE AttemptFails
    BY <1>6 DEF AppRight, BackRight, Place, world, AttemptFails
  <1>7. CASE CreateApp
    <2>1. app' = Create(ref.win, Operations, lines) /\ ref' = ref /\ at' = "storages"
      BY <1>7 DEF CreateApp, Replace, Released
    <2> QED
      BY <2>1, CreateIs DEF AppRight
  <1>8. CASE Storages
    BY <1>8, <1>0, RefsAre, AppSame DEF AppRight, BackRight, RefsRight, Place, world, mtpz, Released, Storages, Refers
  <1>9. CASE InstallBegins
    BY <1>9, <1>0, AppSame DEF AppRight, BackRight, RefsRight, Place, world, mtpz, Released, InstallBegins
  <1>10. CASE StoragesRetry
    BY <1>10, <1>0 DEF AppRight, BackRight, RefsRight, Place, world, mtpz, Released, StoragesRetry
  <1>11. CASE StoragesAbort
    BY <1>11, <1>0, RefsAre DEF AppRight, BackRight, RefsRight, Place, world, mtpz, Released, StoragesAbort, Refers
  <1>12. CASE StoragesThrow
    BY <1>12, <1>0 DEF AppRight, BackRight, RefsRight, Place, world, mtpz, Released, StoragesThrow
  <1>13. CASE Shake
    BY <1>13, <1>0, HandshakeSame DEF AppRight, BackRight, RefsRight, Place, world, mtpz, Released, Shake
  <1>14. CASE ShakeFails
    BY <1>14, <1>0, AppSame DEF AppRight, BackRight, RefsRight, Place, world, mtpz, Released, ShakeFails
  <1>15. CASE Authenticated
    BY <1>15, <1>0 DEF AppRight, BackRight, RefsRight, Place, world, mtpz, Released, Authenticated
  <1>16. CASE LoadLibrary
    <2>1. at = "library" /\ at' = back /\ back' = "open" /\ Place = back /\ app' = app
      BY <1>16 DEF LoadLibrary, Place, mtpz
    <2>2. Place' = Place
      BY <2>1 DEF Place, BackRight
    <2>3. ref'.win = ref.win
      <3>1. ref' = ref \/ ref' = [ref EXCEPT !.lib = ref.mdl]
        BY <1>16 DEF LoadLibrary
      <3>2. Refers([ref EXCEPT !.lib = ref.mdl], ref.dev, ref.win, ref.mdl, ref.mdl)
        BY <1>0, RefsAre
      <3> QED
        BY <3>1, <3>2 DEF Refers
    <2> QED
      BY <2>1, <2>2, <2>3 DEF AppRight
  <1>17. CASE SyncFromJellyfin
    BY <1>17 DEF AppRight, Place, SyncFromJellyfin
  <1>18. CASE ToolRuns
    BY <1>18, <1>0 DEF AppRight, BackRight, RefsRight, Place, world, mtpz, Released, ToolRuns
  <1>19. CASE ToolDialogCloses
    BY <1>19, <1>0 DEF AppRight, BackRight, RefsRight, Place, world, mtpz, Released, ToolDialogCloses
  <1>20. CASE InstallKeys
    <2>1. \/ at' = "crashed"
          \/ \E n \in {4, 5} : app' = Create(ref.win, Operations, n) /\ ref' = ref
      BY <1>20 DEF InstallKeys, Replace, Released
    <2> QED
      BY <2>1, CreateIs DEF AppRight, Place
  <1>21. CASE LockPlayer
    BY <1>21, <1>0 DEF AppRight, BackRight, RefsRight, Place, world, mtpz, Released, LockPlayer
  <1>22. CASE Unplug
    BY <1>22, <1>0 DEF AppRight, BackRight, RefsRight, Place, world, mtpz, Released, Unplug
  <1>23. CASE Plug
    BY <1>23, <1>0 DEF AppRight, BackRight, RefsRight, Place, world, mtpz, Released, Plug
  <1>24. CASE UNCHANGED vars
    BY <1>24 DEF AppRight, BackRight, RefsRight, Place, world, mtpz, Released, vars
  <1> QED
    BY <1>1, <1>2, <1>3, <1>4, <1>5, <1>6, <1>7, <1>8, <1>9, <1>10, <1>11, <1>12, <1>13,
       <1>14, <1>15, <1>16, <1>17, <1>18, <1>19, <1>20, <1>21, <1>22, <1>23, <1>24 DEF Next,
       Steps, Rest

\* What loses its last reference loses its claim.
LEMMA ReleasedHolds ==
    ASSUME NEW r, NEW a, Released(r, a), app'.sess = a, ClaimHeld
    PROVE  ClaimHeld'
  BY DEF Released, ClaimHeld, Users, Nobody

\* What the window refers to goes on.
LEMMA ReleasedLives ==
    ASSUME NEW r, NEW a, Released(r, a), claim = r.win
    PROVE  claim' = claim /\ session' = session
  BY DEF Released, Users, Reaches

\* Claims stay those of pipes that are referred to.
LEMMA ClaimStep ==
    ASSUME HandshakeInv, BackRight, RefsRight, ClaimHeld, Next
    PROVE  ClaimHeld'
  <1>0. ref \in References(top)
    BY DEF HandshakeInv, TypeOK
  <1>1. CASE OpenDevice
    BY <1>1, <1>0 DEF ClaimHeld, world, mtpz, OpenDevice
  <1>2. CASE DropOld
    <2>1. Released([ref EXCEPT !.win = 0, !.dev = 0], app.sess) /\ app'.sess = app.sess
      BY <1>2 DEF DropOld, mtpz
    <2> QED
      BY <2>1, ReleasedHolds
  <1>3. CASE FindDevice
    <2>1. claim' = top + 1 /\ ref' = [ref EXCEPT !.dev = top + 1]
      BY Zenon, <1>3 DEF FindDevice
    <2>2. Refers([ref EXCEPT !.dev = top + 1], top + 1, ref.win, ref.mdl, ref.lib)
      BY <1>0, RefsAre
    <2> QED
      BY <2>1, <2>2 DEF ClaimHeld, Refers
  <1>4. CASE NotFound
    BY <1>4, <1>0 DEF ClaimHeld, world, mtpz, NotFound
  <1>5. CASE Attempt
    <2>1. ref' = [ref EXCEPT !.win = ref.dev] /\ UNCHANGED <<app, claim>> /\ at = "attempt"
      BY Zenon, <1>5 DEF Attempt, mtpz
    <2>2. Refers([ref EXCEPT !.win = ref.dev], ref.dev, ref.dev, ref.mdl, ref.lib)
      BY <1>0, RefsAre
    <2>3. claim > 0 => claim # ref.win
      <3>1. ref.win = 0
        BY <2>1 DEF RefsRight, Place
      <3> QED
        BY <3>1
    <2> QED
      BY <2>1, <2>2, <2>3 DEF ClaimHeld, Refers
  <1>6. CASE AttemptFails
    <2>1. CASE UNCHANGED <<ref, claim>>
      BY <1>6, <2>1 DEF AttemptFails, ClaimHeld, mtpz
    <2>2. CASE Released([ref EXCEPT !.dev = 0], app.sess)
      <3>1. app'.sess = app.sess
        BY <1>6 DEF AttemptFails, mtpz
      <3> QED
        BY <2>2, <3>1, ReleasedHolds
    <2> QED
      BY <1>6, <2>1, <2>2 DEF AttemptFails
  <1>7. CASE CreateApp
    <2>1. Released(ref, app'.sess) /\ app'.sess = app'.sess
      BY <1>7 DEF CreateApp, Replace
    <2> QED
      BY <2>1, ReleasedHolds
  <1>8. CASE Storages
    <2>1. Released([ref EXCEPT !.mdl = ref.win], app.sess) /\ app'.sess = app.sess
      BY <1>8, AppSame DEF Storages
    <2> QED
      BY <2>1, ReleasedHolds
  <1>9. CASE InstallBegins
    BY <1>9, <1>0, AppSame DEF ClaimHeld, world, mtpz, InstallBegins
  <1>10. CASE StoragesRetry
    BY <1>10, <1>0 DEF ClaimHeld, world, mtpz, StoragesRetry
  <1>11. CASE StoragesAbort
    <2>1. Released([ref EXCEPT !.dev = 0], app.sess) /\ app'.sess = app.sess
      BY <1>11 DEF StoragesAbort, mtpz
    <2> QED
      BY <2>1, ReleasedHolds
  <1>12. CASE StoragesThrow
    BY <1>12, <1>0 DEF ClaimHeld, world, mtpz, StoragesThrow
  <1>13. CASE Shake
    BY <1>13, <1>0, HandshakeSame DEF ClaimHeld, world, mtpz, Shake
  <1>14. CASE ShakeFails
    BY <1>14, <1>0, AppSame DEF ClaimHeld, world, mtpz, ShakeFails
  <1>15. CASE Authenticated
    BY <1>15, <1>0 DEF ClaimHeld, world, mtpz, Authenticated
  <1>16. CASE LoadLibrary
    <2>1. UNCHANGED <<app, claim>> /\ (ref' = ref \/ (ref.lib = 0 /\ ref' = [ref EXCEPT !.lib = ref.mdl]))
      BY <1>16 DEF LoadLibrary, mtpz
    <2>2. Refers([ref EXCEPT !.lib = ref.mdl], ref.dev, ref.win, ref.mdl, ref.mdl)
      BY <1>0, RefsAre
    <2>3. CASE ref' = ref
      BY <2>1, <2>3 DEF ClaimHeld
    <2>4. CASE ref.lib = 0 /\ ref' = [ref EXCEPT !.lib = ref.mdl]
      <3>1. claim > 0 => claim \in {ref.dev, ref.win, ref.mdl, app.sess}
        BY <2>4 DEF ClaimHeld
      <3> QED
        BY <2>1, <2>2, <2>4, <3>1 DEF ClaimHeld, Refers
    <2> QED
      BY <2>1, <2>3, <2>4
  <1>17. CASE SyncFromJellyfin
    <2>1. CASE ref.dev = 0
      BY <1>17, <2>1 DEF SyncFromJellyfin, ClaimHeld
    <2>2. CASE ref.dev # 0
      <3>1. Released([ref EXCEPT !.dev = 0, !.win = 0, !.mdl = 0], 0) /\ app' = NoApp
        BY <1>17, <2>2 DEF SyncFromJellyfin
      <3>2. app'.sess = 0
        BY <3>1 DEF NoApp
      <3> QED
        BY <3>1, <3>2, ReleasedHolds
    <2> QED
      BY <2>1, <2>2
  <1>18. CASE ToolRuns
    <2>1. claim' = -1 \/ claim' = 0
      BY <1>18 DEF ToolRuns, Cli, Nobody
    <2> QED
      BY <2>1 DEF ClaimHeld
  <1>19. CASE ToolDialogCloses
    BY <1>19, <1>0 DEF ClaimHeld, world, mtpz, ToolDialogCloses
  <1>20. CASE InstallKeys
    <2>1. UNCHANGED <<app, ref, claim>> \/ Released(ref, app'.sess)
      BY <1>20 DEF InstallKeys, Replace
    <2> QED
      BY <2>1, ReleasedHolds DEF ClaimHeld
  <1>21. CASE LockPlayer
    BY <1>21, <1>0 DEF ClaimHeld, world, mtpz, LockPlayer
  <1>22. CASE Unplug
    BY <1>22 DEF Unplug, Nobody, ClaimHeld
  <1>23. CASE Plug
    BY <1>23, <1>0 DEF ClaimHeld, world, mtpz, Plug
  <1>24. CASE UNCHANGED vars
    BY <1>24 DEF ClaimHeld, world, mtpz, vars
  <1> QED
    BY <1>1, <1>2, <1>3, <1>4, <1>5, <1>6, <1>7, <1>8, <1>9, <1>10, <1>11, <1>12, <1>13,
       <1>14, <1>15, <1>16, <1>17, <1>18, <1>19, <1>20, <1>21, <1>22, <1>23, <1>24 DEF Next,
       Steps, Rest

\* The window's session goes on as long as nothing fails.
LEMMA LiveStep ==
    ASSUME HandshakeInv, BackRight, RefsRight, LiveRight, Next
    PROVE  LiveRight'
  <1>0. ref \in References(top)
    BY DEF HandshakeInv, TypeOK
  <1>f. faults \in Nat
    BY FaultsAssumption DEF HandshakeInv, TypeOK
  <1>1. CASE OpenDevice
    BY <1>1, <1>0 DEF LiveRight, BackRight, RefsRight, Place, world, mtpz, OpenDevice
  <1>2. CASE DropOld
    BY <1>2 DEF LiveRight, BackRight, Place, DropOld, world
  <1>3. CASE FindDevice
    <2>1. claim' = top + 1 /\ ref' = [ref EXCEPT !.dev = top + 1] /\ at' = "attempt"
          /\ UNCHANGED <<back, present, faults>> /\ at = "find"
      BY <1>3 DEF FindDevice, world
    <2>2. Refers([ref EXCEPT !.dev = top + 1], top + 1, ref.win, ref.mdl, ref.lib)
      BY <1>0, RefsAre
    <2> QED
      BY <2>1, <2>2 DEF LiveRight, BackRight, Place, Refers
  <1>4. CASE NotFound
    BY <1>4, <1>0 DEF LiveRight, BackRight, RefsRight, Place, world, mtpz, NotFound
  <1>5. CASE Attempt
    <2>1. ref' = [ref EXCEPT !.win = ref.dev] /\ claim = ref.dev /\ claim' = claim
          /\ session' = ref.dev /\ at' = "create" /\ UNCHANGED <<back, present, faults>>
      BY <1>5 DEF Attempt, Reaches, world
    <2>2. Refers([ref EXCEPT !.win = ref.dev], ref.dev, ref.dev, ref.mdl, ref.lib)
      BY <1>0, RefsAre
    <2> QED
      BY <2>1, <2>2 DEF LiveRight, Place, Refers
  <1>6. CASE AttemptFails
    <2>1. faults = 0 => Reaches(ref.dev)
      BY <1>6 DEF LiveRight, RefsRight, BackRight, Place, Reaches, AttemptFails
    <2>2. faults' # 0
      BY <1>6, <1>f, <2>1 DEF AttemptFails, Fails, Fault
    <2> QED
      BY <2>2 DEF LiveRight
  <1>7. CASE CreateApp
    <2>1. /\ Released(ref, app'.sess) /\ at = "create" /\ at' = "storages"
          /\ UNCHANGED <<back, present, faults, ref>>
      BY <1>7 DEF CreateApp, Replace, Released
    <2> QED
      BY <2>1, ReleasedLives DEF LiveRight, BackRight, Place
  <1>8. CASE Storages
    <2>1. /\ Released([ref EXCEPT !.mdl = ref.win], app.sess) /\ at = "storages"
          /\ at' = "authenticate" /\ UNCHANGED <<back, present, faults>>
          /\ ref' = [ref EXCEPT !.mdl = ref.win]
      BY Zenon, <1>8 DEF Storages, Released, world
    <2>2. Refers([ref EXCEPT !.mdl = ref.win], ref.dev, ref.win, ref.win, ref.lib)
      BY <1>0, RefsAre
    <2>3. claim = ref.win => claim' = claim /\ session' = session
      BY <2>1, <2>2, ReleasedLives DEF Refers
    <2> QED
      BY <2>1, <2>2, <2>3 DEF LiveRight, BackRight, Place, Refers
  <1>9. CASE InstallBegins
    BY <1>9, <1>0 DEF LiveRight, BackRight, RefsRight, Place, world, mtpz, InstallBegins
  <1>10. CASE StoragesRetry
    BY <1>10, <1>0 DEF LiveRight, BackRight, RefsRight, Place, world, mtpz, StoragesRetry
  <1>11. CASE StoragesAbort
    BY <1>11 DEF LiveRight, BackRight, Place, StoragesAbort, world
  <1>12. CASE StoragesThrow
    BY <1>12, <1>f DEF LiveRight, StoragesThrow, Fault
  <1>13. CASE Shake
    BY <1>13, <1>0 DEF LiveRight, BackRight, RefsRight, Place, world, mtpz, Shake
  <1>14. CASE ShakeFails
    <2>1. /\ UNCHANGED <<ref, claim, session, present>> /\ back' = "open"
          /\ at' = IF at = "install" THEN back ELSE "crashed"
          /\ at \in {"authenticate", "install"} /\ (faults' = 0 => faults = 0)
      BY <1>14, <1>f DEF ShakeFails, Fails, Fault
    <2>2. Place' = Place \/ Place' = "crashed"
      BY <2>1 DEF Place, BackRight
    <2> QED
      BY <2>1, <2>2 DEF LiveRight
  <1>15. CASE Authenticated
    BY <1>15, <1>0 DEF LiveRight, BackRight, RefsRight, Place, world, mtpz, Authenticated
  <1>16. CASE LoadLibrary
    <2>1. /\ UNCHANGED <<claim, session, present>> /\ at' = back /\ back' = "open" /\ at = "library"
          /\ (faults' = 0 => faults = 0)
      BY <1>16, <1>f DEF LoadLibrary, Fault
    <2>2. Place' = Place
      BY <2>1 DEF Place, BackRight
    <2>3. ref'.dev = ref.dev /\ ref'.win = ref.win /\ ref'.mdl = ref.mdl
      <3>1. ref' = ref \/ ref' = [ref EXCEPT !.lib = ref.mdl]
        BY <1>16 DEF LoadLibrary
      <3>2. Refers([ref EXCEPT !.lib = ref.mdl], ref.dev, ref.win, ref.mdl, ref.mdl)
        BY <1>0, RefsAre
      <3> QED
        BY <3>1, <3>2 DEF Refers
    <2> QED
      BY <2>1, <2>2, <2>3 DEF LiveRight
  <1>17. CASE SyncFromJellyfin
    BY <1>17 DEF LiveRight, Place, SyncFromJellyfin, world
  <1>18. CASE ToolRuns
    BY <1>18 DEF LiveRight, BackRight, Place, ToolRuns, world
  <1>19. CASE ToolDialogCloses
    BY <1>19, <1>0 DEF LiveRight, BackRight, RefsRight, Place, world, mtpz, ToolDialogCloses
  <1>20. CASE InstallKeys
    <2>1. CASE ref.win = 0
      BY <1>20, <2>1 DEF LiveRight, Place, InstallKeys
    <2>2. CASE ref.win # 0
      <3>1. Released(ref, app'.sess) /\ ref' = ref /\ present' = present /\ faults' = faults
        BY <1>20, <2>2 DEF InstallKeys, Replace, Released
      <3>2. at \in {"find", "storages", "open", "tool", "failed"} /\ Place' = Place /\ at = Place
        BY <1>20, <2>2 DEF InstallKeys, Place, BackRight
      <3> QED
        BY <3>1, <3>2, ReleasedLives DEF LiveRight
    <2> QED
      BY <2>1, <2>2
  <1>21. CASE LockPlayer
    BY <1>21, <1>0 DEF LiveRight, BackRight, RefsRight, Place, world, mtpz, LockPlayer
  <1>22. CASE Unplug
    BY <1>22, <1>f DEF LiveRight, Unplug, Fault
  <1>23. CASE Plug
    BY <1>23, <1>0 DEF LiveRight, BackRight, RefsRight, Place, world, mtpz, Plug
  <1>24. CASE UNCHANGED vars
    BY <1>24 DEF LiveRight, BackRight, RefsRight, Place, world, mtpz, vars
  <1> QED
    BY <1>1, <1>2, <1>3, <1>4, <1>5, <1>6, <1>7, <1>8, <1>9, <1>10, <1>11, <1>12, <1>13,
       <1>14, <1>15, <1>16, <1>17, <1>18, <1>19, <1>20, <1>21, <1>22, <1>23, <1>24 DEF Next,
       Steps, Rest

\* The trust that a handshake has earned is not taken away while the window is at work.
LEMMA TrustStep ==
    ASSUME HandshakeInv, BackRight, RefsRight, AppRight, LiveRight, TrustRight, Next
    PROVE  TrustRight'
  <1>0. ref \in References(top) /\ faults \in Nat
    BY FaultsAssumption DEF HandshakeInv, TypeOK
  <1>1. CASE Shake
    <2>1. UNCHANGED <<ref, at, back, faults>> /\ Handshake
      BY <1>1 DEF Shake, world
    <2>2. Place' = Place /\ app'.sess = app.sess /\ app'.keys = app.keys
          /\ app.at \notin {"none", "created"} /\ (app'.at = "done" => player'.trusted = app.sess)
      BY <2>1, HandshakeSame DEF Place
    <2> QED
      BY <2>1, <2>2 DEF TrustRight, AppRight
  <1>2. CASE CreateApp \/ InstallKeys
    <2>1. CASE \E n \in {4, 5} : app' = Create(ref.win, Operations, n)
      <3>1. app'.at # "done"
        BY <2>1, CreateIs
      <3> QED
        BY <3>1 DEF TrustRight
    <2>2. CASE at' = "crashed"
      BY <2>2 DEF TrustRight, Place
    <2> QED
      <3>1. lines \in {4, 5}
        BY DEF HandshakeInv, TypeOK
      <3> QED
        BY <1>2, <2>1, <2>2, <3>1 DEF CreateApp, InstallKeys, Replace
  <1>3. CASE Storages \/ ShakeFails \/ InstallBegins
    <2>1. app'.at # "done"
      BY <1>3, AppSame DEF Storages, ShakeFails, InstallBegins
    <2> QED
      BY <2>1 DEF TrustRight
  <1>4. CASE Unplug
    BY <1>0, <1>4 DEF Unplug, Fault, TrustRight
  <1>5. CASE LoadLibrary
    <2>1. /\ UNCHANGED <<app, player>> /\ at' = back /\ back' = "open" /\ at = "library"
          /\ (faults' = 0 => faults = 0)
      BY <1>0, <1>5 DEF LoadLibrary, Fault, mtpz
    <2>2. Place' = Place
      BY <2>1 DEF Place, BackRight
    <2>3. ref'.win = ref.win
      <3>1. ref' = ref \/ ref' = [ref EXCEPT !.lib = ref.mdl]
        BY <1>5 DEF LoadLibrary
      <3>2. Refers([ref EXCEPT !.lib = ref.mdl], ref.dev, ref.win, ref.mdl, ref.mdl)
        BY <1>0, RefsAre
      <3> QED
        BY <3>1, <3>2 DEF Refers
    <2> QED
      BY <2>1, <2>2, <2>3 DEF TrustRight
  <1>6. CASE SyncFromJellyfin \/ ToolRuns
    <2>1. at' = "tool"
      BY <1>6 DEF SyncFromJellyfin, ToolRuns
    <2> QED
      BY <2>1 DEF TrustRight, Place
  <1>7. CASE \/ OpenDevice \/ DropOld \/ FindDevice \/ NotFound \/ Attempt \/ AttemptFails
             \/ StoragesRetry \/ StoragesAbort \/ StoragesThrow \/ ToolDialogCloses
    <2>1. CASE at' \in {"drop", "find", "attempt", "failed", "create", "crashed", "closed"}
      BY <2>1 DEF TrustRight, Place
    <2>2. CASE OpenDevice /\ at' = "open"
      <3>1. FALSE
        BY <2>2 DEF OpenDevice, RefsRight, Place
      <3> QED
        BY <3>1
    <2> QED
      BY <1>7, <2>1, <2>2
         DEF OpenDevice, DropOld, FindDevice, NotFound, Attempt, AttemptFails, StoragesRetry,
             StoragesAbort, StoragesThrow, ToolDialogCloses
  <1>8. CASE Authenticated
    <2>1. UNCHANGED <<app, player, ref, faults, back>> /\ at' = "library" /\ at \in {"authenticate", "install"}
      BY <1>8 DEF Authenticated, mtpz, world
    <2> QED
      BY <2>1 DEF TrustRight, Place, BackRight
  <1>9. CASE LockPlayer \/ Plug \/ UNCHANGED vars
    <2>1. UNCHANGED <<app, player, ref, faults, back, at>>
      BY <1>9 DEF LockPlayer, Plug, vars, mtpz
    <2> QED
      BY <2>1 DEF TrustRight, Place
  <1> QED
    BY <1>1, <1>2, <1>3, <1>4, <1>5, <1>6, <1>7, <1>8, <1>9 DEF Next, Steps, Rest

\* The window starts closed, with nothing.
LEMMA WindowInit ==
    ASSUME Init
    PROVE  WindowInv
  <1>1. /\ at = "closed" /\ back = "open" /\ claim = 0 /\ faults = 0 /\ present = TRUE
        /\ ref = [dev |-> 0, win |-> 0, mdl |-> 0, lib |-> 0]
    BY DEF Init, Nobody
  <1>2. Place = "closed"
    BY <1>1 DEF Place
  <1> QED
    BY <1>1, <1>2, InitHolds
    DEF WindowInv, BackRight, RefsRight, ClaimHeld, AppRight, LiveRight, TrustRight

\* Every step keeps what is right about the window.
LEMMA WindowStep ==
    ASSUME WindowInv, [Next]_vars
    PROVE  WindowInv'
  <1>1. CASE Next
    BY <1>1, NextKeeps, BackStep, RefsStep, ClaimStep, AppStep, LiveStep, TrustStep DEF WindowInv
  <1>2. CASE UNCHANGED vars
    BY <1>2, StutterKeeps
    DEF vars, WindowInv, BackRight, RefsRight, ClaimHeld, AppRight, LiveRight, TrustRight, Place
  <1> QED
    BY <1>1, <1>2

\* Window, model, TrustedApp and device go together wherever the window is.
THEOREM WindowIsRight == Spec => []WindowInv
  BY WindowInit, WindowStep, PTL DEF Spec

\* Of any number of sessions, and with any number of faults: when the window is open
\* and nothing has failed, its session is the one that is alive and trusted; and while
\* the tool runs, what openDevice was successful with is gone (releaseDevice).
THEOREM SessionsAlwaysRight == Spec => []SessionsRight
  <1>1. WindowInv => SessionsRight
    <2> SUFFICES ASSUME WindowInv PROVE SessionsRight
      OBVIOUS
    <2>1. TypeOK /\ HandshakeSound
      BY DEF WindowInv, HandshakeInv
    <2>2. WindowLive
      BY DEF WindowInv, WindowLive, LiveRight, RefsRight, Place, Live, Reaches
    <2>3. TrustedWhenOpen
      BY DEF WindowInv, TrustedWhenOpen, TrustRight, Place
    <2>4. HandedOver
      BY DEF WindowInv, HandedOver, ClaimHeld, RefsRight, Place
    <2> QED
      BY <2>1, <2>2, <2>3, <2>4 DEF SessionsRight
  <1> QED
    BY <1>1, WindowIsRight, PTL

=============================================================================
