---------------------------- MODULE MC_TabTitles ----------------------------
(* The titles a user or a result can bring: "A", "A (1)" (what sanitizing  *)
(* "A" gives once "A" is taken) and "untitled_scan1" (what the first       *)
(* generated title is). Three pages and two generated numbers let a       *)
(* generated, a typed and a sanitized title meet.                          *)
EXTENDS TabTitles

A == [base |-> <<"A", 0>>, sfx |-> <<>>]

MC_InputTitles == {A, Suffixed(A, 1), Untitled(1)}
MC_MaxPages == 3
MC_MaxScanNum == 2
====
