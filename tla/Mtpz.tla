-------------------------------- MODULE Mtpz --------------------------------
(***************************************************************************)
(* mtp/mtpz/TrustedApp.cpp: the handshake with which a player is brought   *)
(* into its trusted mode.  The host sends a certificate with a fresh       *)
(* challenge, checks the answer, and from a key in the answer derives the  *)
(* two signatures that enable the mode.  A challenge is a number; an       *)
(* answer says which challenge it echoes and what is wrong with it.        *)
(*                                                                         *)
(* External: the player, and the transactions that reach it or fail.       *)
(***************************************************************************)
EXTENDS Integers, Sequences

CONSTANT MaxChallenges  \* bound: challenges sent

ASSUME ChallengesAssumption == MaxChallenges \in Nat

VARIABLES app,     \* the TrustedApp, with the stage Authenticate has come to
          player,  \* the player: challenges it received, the one it answered, those it
                   \* turned the mode on for, and for which session it is on
          nonce    \* the last challenge

NoApp == [sess |-> 0, keys |-> FALSE, at |-> "none", challenge |-> 0, verified |-> 0]

\* The parts of an answer in their order.  What is in a certificate, a device
\* challenge and a signature is skipped; of the last record only the tag is looked
\* at, so that the key may be shorter than the 20 bytes that are used of it.
Parts == <<"tag", "signature size", "record", "decryption", "certificate", "echo", "device challenge",
           "signature", "cmac">>
Skipped == {5, 7}
Answers == [echo : 0 .. MaxChallenges, bad : 0 .. Len(Parts), present : 0 .. Len(Parts), key : BOOLEAN]

\* An answer is turned down at the first part that is missing, malformed, or not
\* the echo of this very challenge.
VerifyResponse(r, challenge) ==
    \A i \in DOMAIN Parts : /\ i <= r.present
                            /\ i # r.bad \/ i \in Skipped
                            /\ Parts[i] = "echo" => r.echo = challenge

\* LoadKeys: all five lines of the file, or nothing.
LoadKeys(lines) == lines = 5

\* What a player with a trusted mode supports.
Probe(operations) ==
    {"SendWMDRMPDAppRequest", "GetWMDRMPDAppResponse", "EnableTrustedFilesOperations",
     "DisableTrustedFilesOperations", "EndTrustedAppSession"} \subseteq operations

\* Create: a TrustedApp for such a player, with keys or without.
Create(s, operations, lines) ==
    IF Probe(operations) THEN [NoApp EXCEPT !.sess = s, !.keys = LoadKeys(lines), !.at = "created"] ELSE NoApp

\* ~TrustedApp: both operations are tried, whatever becomes of them, with keys
\* or without.
Destroyed(reaches, mode) ==
    IF app # NoApp /\ reaches THEN [mode EXCEPT !.trusted = 0] ELSE mode

MtpzInit == app = NoApp /\ player = [trusted |-> 0, challenges |-> {}, answered |-> 0, spent |-> {}] /\ nonce = 0

Authenticating == app.at \in {"version", "end", "certificate", "response", "sign", "enable"}

\* Authenticate does nothing without keys.
AuthenticateBegins == app' = [app EXCEPT !.at = IF app.keys THEN "version" ELSE "created"]

Stage(from, to) == app.at = from /\ app' = [app EXCEPT !.at = to]

SetVersion == Stage("version", "end") /\ UNCHANGED <<player, nonce>>

EndPrevious == /\ Stage("end", "certificate")
               /\ player' = [player EXCEPT !.trusted = 0]
               /\ UNCHANGED nonce

\* Mutant: the challenge is a constant.
ConstantChallenge ==
    /\ app.at = "certificate" /\ nonce' = 1
    /\ app' = [app EXCEPT !.at = "response", !.challenge = 1]
    /\ player' = [player EXCEPT !.challenges = @ \cup {1}]

SendCertificate ==
    /\ app.at = "certificate" /\ nonce < MaxChallenges
    /\ nonce' = nonce + 1
    /\ app' = [app EXCEPT !.at = "response", !.challenge = nonce + 1]
    /\ player' = [player EXCEPT !.challenges = @ \cup {nonce + 1}]

\* The answer may be to an earlier challenge of this or another program.
GetResponse(r) ==
    /\ app.at = "response"
    /\ r.echo \in player.challenges \cup {0}
    /\ VerifyResponse(r, app.challenge)
    /\ app' = [app EXCEPT !.at = "sign", !.verified = r.echo]
    /\ player' = [player EXCEPT !.answered = IF r.key THEN r.echo ELSE 0]
    /\ UNCHANGED nonce

SendSignature == Stage("sign", "enable") /\ UNCHANGED <<player, nonce>>

\* The player turns the mode on if the signature fits the key of its answer.
Enable ==
    /\ Stage("enable", "done")
    /\ player.answered = app.challenge
    /\ player' = [player EXCEPT !.trusted = app.sess, !.spent = @ \cup {app.challenge}]
    /\ UNCHANGED nonce

Handshake == \/ SetVersion \/ EndPrevious \/ SendCertificate \/ SendSignature \/ Enable
             \/ \E r \in Answers : GetResponse(r)
-----------------------------------------------------------------------------
(* Properties *)

Challenges == 0 .. MaxChallenges
Stages == {"none", "created", "version", "end", "certificate", "response", "sign", "enable", "done"}

MtpzTypes(sessions) ==
    /\ app \in [sess : sessions, keys : BOOLEAN, at : Stages, challenge : Challenges,
                verified : Challenges]
    /\ player \in [trusted : sessions \cup {-1}, challenges : SUBSET Challenges,
                   answered : Challenges, spent : SUBSET Challenges]
    /\ nonce \in Challenges

\* A handshake that waits for an answer, or has one, is about the newest challenge,
\* which none was completed with yet; and what it was answered echoes that challenge.
HandshakeSound ==
    /\ \A c \in player.spent : c <= nonce
    /\ app.at \in {"response", "sign", "enable"} => app.challenge = nonce /\ nonce \notin player.spent
    /\ app.at \in {"sign", "enable"} => app.verified = app.challenge

\* The player turns the mode on only for an application that has seen an answer to its
\* own challenge, one that no handshake was completed with before: an answer that is
\* repeated, late, or meant for another handshake does not count (VerifyResponse).
TrustIsEarned ==
    [][player'.trusted > 0 /\ player'.trusted # player.trusted =>
          app.verified = app.challenge /\ app.challenge \notin player.spent]_<<app, player, nonce>>
=============================================================================
