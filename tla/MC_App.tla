------------------------------- MODULE MC_App -------------------------------
EXTENDS App

CONSTANTS n1, n2, c1, c2, e1, e2, pg1, pg2, t1

MC_Names == {n1, n2}
MC_Contents == {c1, c2}
MC_Editors == {e1, e2}
\* Two pages for the shutdown loop; one page where every toolbar entry of
\* every page would multiply the state space.
MC_Pages == {pg1, pg2}
MC_OnePage == {pg1}
\* One stored profile at start; n2 is a name the user may type.
MC_InitProfiles == n1 :> c1
MC_Targets == {t1}
\* c2's command holds -iR: a profile that needs no target.
MC_RandomTargets == {c2}
\* Two saved results: one made with a profile of the stored name but other
\* contents (opening it overwrites the stored profile), one of a command
\* typed without a profile.
MC_SavedResults ==
    {[target |-> t1, profile |-> n1, content |-> c2, args |-> t1],
     [target |-> t1, profile |-> NoName, content |-> Blank, args |-> t1]}
====
