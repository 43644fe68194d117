--------------------------- MODULE MC_Fingerprints ---------------------------
(* Two addresses and two fingerprint texts, so that a later fingerprint    *)
(* can replace an earlier one and a second host can take over the cursor; *)
(* outputs of up to three blocks, so that a block can come before, between *)
(* and after the address blocks.                                           *)
EXTENDS Fingerprints

CONSTANTS a1, a2, f1, f2

MC_IPs == {a1, a2}
MC_FPs == {f1, f2}
MC_MaxBlocks == 3
====
