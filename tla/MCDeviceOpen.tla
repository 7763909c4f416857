---------------------------- MODULE MCDeviceOpen ----------------------------
(* Two devices, the first one of any kind, the second one possibly of use, and two   *)
(* processes: one that claims devices, and one that may only have them open.         *)
EXTENDS DeviceOpen

MCBus == <<"d1", "d2">>

\* Who has claimed d1 and d2, and who has them open.
Used(c1, c2, o1, o2) == [claims |-> [d \in Devs |-> IF d = "d1" THEN c1 ELSE c2],
                         opens |-> [d \in Devs |-> IF d = "d1" THEN o1 ELSE o2]]
MCUse == {Used(Nobody, Nobody, {}, {"other"}),
          Used("gvfs", Nobody, {"gvfs", "other"}, {}),
          Used("gvfs", "other", {"gvfs"}, {"other"})}

\* The filter matters to FindFirst only, and who may be read to the dialog.
MCSearches == [mode : {"find"}, filter : {"none", "vendor", "name"}, readable : {Processes}]
              \cup [mode : {"list"}, filter : {"none"}, readable : {Processes}]
              \cup [mode : {"dialog"}, filter : {"none"}, readable : {Processes, {"other"}}]

MCWorlds ==
    LET lists == {<<"mtp">>, <<"ptp">>, <<"broken">>, <<"unnamed", "ptp">>, <<"other", "mtp">>}
        choice(f) == IF f THEN {[d \in Devs |-> d = e] : e \in Devs} ELSE {[d \in Devs |-> FALSE]}
    IN  UNION {[ifaces : {[d \in Devs |-> IF d = "d1" THEN l ELSE m] :
                              l \in lists, m \in {<<"mtp">>, <<"other">>}},
                vendor : choice(s.filter = "vendor"), info : choice(s.filter = "name"),
                mode : {s.mode}, filter : {s.filter}, readable : {s.readable},
                claims : {u.claims}, opens : {u.opens}] :
               s \in MCSearches, u \in MCUse}
=============================================================================
