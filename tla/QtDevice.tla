------------------------------ MODULE QtDevice ------------------------------
(***************************************************************************)
(* How the window of the Qt application (qt/mainwindow.cpp) comes by its   *)
(* device and parts with it: openDevice and reconnectToDevice, the release *)
(* of the device for jellyfin-sync, and the installation of MTPZ keys.     *)
(* A session lives as long as somebody refers to it, says CloseSession     *)
(* when it goes, and keeps the pipe alive whose claim it needs.            *)
(*                                                                         *)
(* External: the kernel, where the last process to claim an interface has  *)
(* it and requests through another claim fail; aft-mtp-cli, run by the     *)
(* tool; the player.  Exceptions out of an event handler end the program,  *)
(* since main creates a plain QApplication.                                *)
(***************************************************************************)
EXTENDS Mtpz, FiniteSets

CONSTANTS Operations, \* the operations the player supports
          MaxPipes,   \* bound: devices opened
          MaxFaults   \* bound: failures, and plugs pulled

ASSUME FaultsAssumption == MaxFaults \in Nat

Nobody == 0
Cli == -1

VARIABLES ref,      \* the session (numbered like its pipe) or 0 of the window, of the
                    \* model, of the library, and the pipe of _device
          claim,    \* the pipe that has the interface, Cli or Nobody
          session,  \* the session the player has open
          top,      \* the last pipe
          at,       \* what the window is doing
          back,     \* and what it returns to after the handshake
          tries,    \* attempts of reconnectToDevice
          locked,   \* does the player hide its storages?
          lines,    \* lines of the file of keys
          reply,    \* are keys being downloaded?
          present, opened, faults
vars == <<app, player, nonce, ref, claim, session, top, at, tries, locked, lines, reply, present, back,
          opened, faults>>
mtpz == <<app, player, nonce>>
world == <<locked, lines, reply, present, back>>

Places == {"closed", "drop", "find", "attempt", "create", "storages", "authenticate", "library", "open",
           "install", "tool", "failed", "crashed"}
References(n) == [dev : 0 .. n, win : 0 .. n, mdl : 0 .. n, lib : 0 .. n]

TypeOK ==
    /\ top \in Nat /\ MtpzTypes(0 .. top) /\ ref \in References(top)
    /\ claim \in Cli .. top /\ session \in Cli .. top
    /\ at \in Places /\ back \in Places /\ lines \in {4, 5}
    /\ locked \in BOOLEAN /\ reply \in BOOLEAN /\ present \in BOOLEAN /\ opened \in BOOLEAN
    /\ tries \in 0 .. 2 /\ faults \in 0 .. MaxFaults

Init == /\ MtpzInit /\ ref = [dev |-> 0, win |-> 0, mdl |-> 0, lib |-> 0]
        /\ claim = Nobody /\ session = 0 /\ top = 0 /\ at = "closed" /\ back = "open" /\ tries = 0
        /\ locked \in BOOLEAN /\ lines \in {4, 5} /\ reply = FALSE
        /\ present = TRUE /\ opened = FALSE /\ faults = 0

Reaches(s) == present /\ s # 0 /\ claim = s
Users(r, a) == {r.win, r.mdl, r.lib, a}

\* What follows when references change: sessions nobody refers to any more close
\* themselves, if the player hears them, and pipes lose their claim.
Released(r, a) ==
    /\ ref' = r
    /\ session' = IF /\ \E s \in Users(ref, app.sess) \ Users(r, a) : Reaches(s)
                  THEN 0 ELSE session
    /\ claim' = IF claim > 0 /\ claim \notin Users(r, a) \cup {r.dev} THEN Nobody ELSE claim

Fault == faults < MaxFaults /\ faults' = faults + 1

\* What cannot work fails; what could may fail all the same.
Fails(works) == IF works THEN Fault ELSE UNCHANGED faults
-----------------------------------------------------------------------------
(* openDevice and reconnectToDevice *)

OpenDevice == /\ at = "closed"
              /\ at' = IF ref.dev = 0 THEN "drop" ELSE "open"
              /\ UNCHANGED <<mtpz, ref, claim, session, top, tries, world, opened, faults>>

DropOld == /\ at = "drop"
           /\ Released([ref EXCEPT !.win = 0, !.dev = 0], app.sess)
           /\ at' = "find"
           /\ UNCHANGED <<mtpz, top, tries, world, opened, faults>>

\* The dialog opens a device, which takes the claim from whoever has it.
FindDevice ==
    /\ at = "find" /\ present /\ top < MaxPipes
    /\ top' = top + 1 /\ ref' = [ref EXCEPT !.dev = top + 1] /\ claim' = top + 1
    /\ at' = "attempt" /\ tries' = 0
    /\ UNCHANGED <<mtpz, session, world, opened, faults>>

\* There is none to choose, or the user cancels the dialog.
NotFound == /\ at = "find"
            /\ at' = "failed"
            /\ UNCHANGED <<mtpz, ref, claim, session, top, tries, world, opened, faults>>

\* OpenSession, which a player that has a session open takes for granted.
Attempt ==
    /\ at = "attempt" /\ Reaches(ref.dev)
    /\ session' = ref.dev /\ ref' = [ref EXCEPT !.win = ref.dev]
    /\ at' = "create"
    /\ UNCHANGED <<mtpz, claim, top, tries, world, opened, faults>>

\* Mutant: it tries until it succeeds.
AttemptFailsForever ==
    /\ at = "attempt" /\ Fails(Reaches(ref.dev))
    /\ UNCHANGED <<mtpz, ref, claim, session, top, at, tries, world, opened>>

AttemptFails ==
    /\ at = "attempt"
    /\ Fails(Reaches(ref.dev))
    /\ IF tries < 2 THEN tries' = tries + 1 /\ UNCHANGED <<ref, claim, session, at>>
       ELSE Released([ref EXCEPT !.dev = 0], app.sess) /\ at' = "failed" /\ UNCHANGED tries
    /\ UNCHANGED <<mtpz, top, world, opened>>

\* TrustedApp::Create; the one before goes after the new one was made.
Replace(keylines) ==
    LET new == Create(ref.win, Operations, keylines)
    IN  /\ app' = new
        /\ player' = Destroyed(Reaches(app.sess), player)
        /\ Released(ref, new.sess)

CreateApp ==
    /\ at = "create"
    /\ Replace(lines)
    /\ at' = "storages"
    /\ reply' \in IF Probe(Operations) /\ lines < 5 THEN BOOLEAN ELSE {reply}
    /\ UNCHANGED <<nonce, top, tries, locked, lines, present, back, opened, faults>>

\* Mutant: the model keeps the session it had.
StoragesModelKept ==
    /\ at = "storages" /\ Reaches(ref.win) /\ ~locked
    /\ AuthenticateBegins /\ at' = "authenticate"
    /\ UNCHANGED <<player, ref, claim, session, nonce, top, tries, world, opened, faults>>

Storages ==
    /\ at = "storages" /\ Reaches(ref.win) /\ ~locked
    /\ Released([ref EXCEPT !.mdl = ref.win], app.sess)
    /\ AuthenticateBegins
    /\ at' = "authenticate"
    /\ UNCHANGED <<player, nonce, top, tries, world, opened, faults>>

\* A locked player has none: the user unlocks it and retries, or gives up; a
\* player that is gone is looked for again.
StoragesRetry ==
    /\ at = "storages"
    /\ ~Reaches(ref.win) \/ locked
    /\ at' = "drop" /\ locked' = FALSE
    /\ UNCHANGED <<mtpz, ref, claim, session, top, tries, lines, reply, present, back, opened, faults>>

StoragesAbort ==
    /\ at = "storages" /\ Reaches(ref.win) /\ locked
    /\ Released([ref EXCEPT !.dev = 0], app.sess)
    /\ at' = "failed"
    /\ UNCHANGED <<mtpz, top, tries, world, opened, faults>>

StoragesThrow == /\ at = "storages" /\ Reaches(ref.win) /\ Fault
                 /\ at' = "crashed"
                 /\ UNCHANGED <<mtpz, ref, claim, session, top, tries, world, opened>>

Shake == /\ at \in {"authenticate", "install"} /\ Reaches(app.sess)
         /\ Handshake
         /\ UNCHANGED <<ref, claim, session, top, at, tries, world, opened, faults>>

\* An operation fails, the answer is turned down, or the signature does not fit, as
\* with a key that was too short.  Only replyFinished has a handler.
ShakeFails ==
    /\ at \in {"authenticate", "install"} /\ Authenticating
    /\ Fails(Reaches(app.sess) /\ (app.at = "enable" => player.answered = app.challenge))
    /\ app' = [app EXCEPT !.at = "created"]
    /\ at' = IF at = "install" THEN back ELSE "crashed"
    /\ back' = "open"
    /\ UNCHANGED <<player, nonce, ref, claim, session, top, tries, locked, lines, reply, present, opened>>

\* The keys were installed: the handshake begins.
InstallBegins == /\ at = "install" /\ app.at = "created" /\ app.challenge = 0
                 /\ AuthenticateBegins
                 /\ UNCHANGED <<player, nonce, ref, claim, session, top, at, tries, world, opened,
                                faults>>

Authenticated == /\ at \in {"authenticate", "install"}
                 /\ at = "authenticate" \/ app.at # "created"
                 /\ ~Authenticating
                 /\ at' = "library"
                 /\ UNCHANGED <<mtpz, ref, claim, session, top, tries, world, opened, faults>>

\* tryCreateLibrary: once there is a library, it stays.
LoadLibrary ==
    /\ at = "library"
    /\ IF ref.lib # 0 THEN UNCHANGED <<ref, faults>>
       ELSE \/ Reaches(ref.mdl) /\ ref' = [ref EXCEPT !.lib = ref.mdl] /\ UNCHANGED faults
            \/ ~Reaches(ref.mdl) /\ UNCHANGED <<ref, faults>>
            \/ Fault /\ UNCHANGED ref
    /\ at' = back /\ back' = "open" /\ opened' = (opened \/ back = "open")
    /\ UNCHANGED <<mtpz, claim, session, top, tries, locked, lines, reply, present>>
-----------------------------------------------------------------------------
(* syncFromJellyfin, replyFinished *)

\* releaseDevice does nothing without a _device.
SyncFromJellyfin ==
    /\ at = "open" \/ (at = "failed" /\ opened)
    /\ top < MaxPipes
    /\ IF ref.dev = 0 THEN UNCHANGED <<app, player, ref, claim, session>>
       ELSE /\ app' = NoApp
            /\ player' = Destroyed(Reaches(app.sess), player)
            /\ Released([ref EXCEPT !.dev = 0, !.win = 0, !.mdl = 0], 0)
    /\ at' = "tool"
    /\ UNCHANGED <<nonce, top, tries, world, opened, faults>>

\* The tool runs aft-mtp-cli, which has a session of its own and a handshake too.
ToolRuns ==
    /\ at = "tool" /\ present
    /\ IF claim # Cli
       THEN claim' = Cli /\ session' = Cli /\ player' = [player EXCEPT !.trusted = Cli]
       ELSE claim' = Nobody /\ session' = 0 /\ player' = [player EXCEPT !.trusted = 0]
    /\ UNCHANGED <<app, nonce, ref, top, at, tries, world, opened, faults>>

\* No terminal was found, or the user says that the sync has finished.
ToolDialogCloses ==
    /\ at = "tool" /\ claim # Cli
    /\ at' = "closed"
    /\ UNCHANGED <<mtpz, ref, claim, session, top, tries, world, opened, faults>>

\* replyFinished comes whenever Qt handles events, in a dialog too: with no session
\* there is nothing for TrustedApp::Create to look at.  Keys that cannot be used end it.
InstallKeys ==
    /\ reply /\ (at \in {"find", "storages", "open", "tool"} \/ (at = "failed" /\ opened))
    /\ reply' = FALSE
    /\ \E n \in {4, 5} :
          /\ lines' = n
          /\ IF ref.win = 0 THEN at' = "crashed" /\ UNCHANGED <<app, player, ref, claim, session, back>>
             ELSE /\ Replace(n)
                  /\ IF n = 5 THEN at' = "install" /\ back' = at ELSE UNCHANGED <<at, back>>
    /\ UNCHANGED <<nonce, top, tries, locked, present, opened, faults>>

\* Left alone, or used by the tool, the player may lock itself.
LockPlayer == /\ at \in {"open", "tool"} /\ ~locked
              /\ locked' = TRUE
              /\ UNCHANGED <<mtpz, ref, claim, session, top, at, tries, lines, reply, present, back,
                             opened, faults>>

Unplug == /\ present /\ Fault
          /\ present' = FALSE /\ claim' = Nobody /\ session' = 0
          /\ player' = [player EXCEPT !.trusted = 0]
          /\ UNCHANGED <<app, nonce, ref, top, at, tries, locked, lines, reply, back, opened>>

Plug == /\ ~present /\ present' = TRUE
        /\ UNCHANGED <<mtpz, ref, claim, session, top, at, tries, locked, lines, reply, back, opened, faults>>

Steps == \/ OpenDevice \/ DropOld \/ FindDevice \/ NotFound \/ Attempt \/ AttemptFails \/ CreateApp
         \/ Storages \/ InstallBegins \/ StoragesRetry \/ StoragesAbort \/ StoragesThrow \/ Shake \/ ShakeFails
         \/ Authenticated \/ LoadLibrary

Rest == at \in {"open", "tool", "failed", "crashed"} /\ UNCHANGED vars

Next == \/ Steps \/ SyncFromJellyfin \/ ToolRuns \/ ToolDialogCloses \/ InstallKeys \/ LockPlayer
        \/ Unplug \/ Plug \/ Rest

Spec == Init /\ [][Next]_vars /\ WF_vars(Steps)
-----------------------------------------------------------------------------
(* Properties *)

Live(s) == Reaches(s) /\ session = s

\* When the window is open and nothing has failed, the session it works with is the
\* one the player has open and its claim is the one that counts: sessions that close
\* themselves late, and claims of former devices, do not reach across.
WindowLive == (at = "open" /\ faults = 0) => Live(ref.win) /\ ref.mdl = ref.win /\ ref.dev = ref.win

\* A handshake that was completed is the player's last word: the player trusts this
\* session, and no former TrustedApp has turned that off as it went.
TrustedWhenOpen == (at = "open" /\ faults = 0 /\ app.at = "done") => player.trusted = ref.win

\* While the tool runs, no session of this process has the interface, but for the one
\* the library was loaded with, and those a failure to open left to the window and its
\* TrustedApp without a device, where releaseDevice does nothing.
HandedOver == (at = "tool" /\ claim > 0) => claim \in {ref.lib, ref.win, app.sess} /\ ref.dev = 0

\* Opening comes to an end: the window is open, or says that it cannot be.
OpeningEnds == (at = "drop") ~> (at \in {"open", "failed", "crashed"})

\* Of the sessions this window has had, the right one is alive, trusted, and gone when
\* it should be (openDevice, reconnectToDevice and releaseDevice of mainwindow.cpp).
SessionsRight == TypeOK /\ HandshakeSound /\ WindowLive /\ TrustedWhenOpen /\ HandedOver
=============================================================================
