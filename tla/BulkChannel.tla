----------------------------- MODULE BulkChannel -----------------------------
(***************************************************************************)
(* One direction of a bulk pipe as the protocol above it may rely on:      *)
(* packets come out in the order they went in, none twice, and a run of    *)
(* packets is missing only where a transfer was given up: each transfer    *)
(* given up accounts for at most one gap.                                  *)
(***************************************************************************)
EXTENDS Naturals, Sequences

VARIABLES sent,   \* packets 1 .. sent have gone in
          seen,   \* the numbers of the packets that came out, oldest first
          slack   \* transfers given up for which no gap has shown yet

channel == <<sent, seen, slack>>

LastSeen == IF seen = <<>> THEN 0 ELSE seen[Len(seen)]

Init == sent = 0 /\ seen = <<>> /\ slack = 0

Send == sent' \in Nat /\ sent <= sent' /\ UNCHANGED <<seen, slack>>

GiveUp == slack' = slack + 1 /\ UNCHANGED <<sent, seen>>

Deliver == \E first \in LastSeen + 1 .. sent : \E last \in first .. sent :
              LET gap == IF first = LastSeen + 1 THEN 0 ELSE 1
              IN  /\ gap <= slack
                  /\ slack' = slack - gap
                  /\ seen' = seen \o [i \in 1 .. last - first + 1 |-> first + i - 1]
                  /\ UNCHANGED sent

Next == Send \/ GiveUp \/ Deliver

Spec == Init /\ [][Next]_channel
=============================================================================
