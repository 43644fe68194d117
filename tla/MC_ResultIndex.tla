--------------------------- MODULE MC_ResultIndex ---------------------------
(* Two hostnames (so that two hosts can collide), two ports per host (so   *)
(* that a host can offer a service twice), two service names (so that a   *)
(* host can offer both of a multiple selection), a listed and an unlisted  *)
(* state, up to two hosts per result and two parses per tab.               *)
EXTENDS ResultIndex

MC_Hostnames == {"n1", "n2"}
MC_PortIds == {1, 2}
MC_SvcNames == {"ssh", "http"}
MC_PortStates == {"filtered", "closed"}
MC_MaxHosts == 2
MC_MaxParses == 2
====
