------------------------------ MODULE TabNames ------------------------------
(***************************************************************************)
(* What the scan notebook promises of its tab titles, whatever list and   *)
(* counters implement it: every open tab has a title no other open tab    *)
(* has. A tab gets such a title when it opens, may be renamed to any      *)
(* title no other open tab has, and gives its title up when it closes.    *)
(* Titles are never enumerated, so the type of a title is left open.     *)
(***************************************************************************)
EXTENDS FiniteSets, Functions

VARIABLE names  \* open tab -> its title

\* The titles of the open tabs other than p.
OthersTitles(p) == Range(Restrict(names, DOMAIN names \ {p}))

Init == names = <<>>

Open(p) ==
    /\ p \notin DOMAIN names
    /\ DOMAIN names' = DOMAIN names \cup {p}
    /\ \A q \in DOMAIN names : names'[q] = names[q]
    /\ names'[p] \notin Range(names)

Rename(p) ==
    /\ p \in DOMAIN names
    /\ DOMAIN names' = DOMAIN names
    /\ \A q \in DOMAIN names \ {p} : names'[q] = names[q]
    /\ names'[p] \notin OthersTitles(p)

Close(p) ==
    /\ p \in DOMAIN names
    /\ names' = Restrict(names, DOMAIN names \ {p})

Next == \E p \in DOMAIN names \cup DOMAIN names' : Open(p) \/ Rename(p) \/ Close(p)

Spec == Init /\ [][Next]_names
====
