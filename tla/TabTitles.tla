------------------------------ MODULE TabTitles ------------------------------
(***************************************************************************)
(* ScanNotebook's tab titles (zenmapGUI/ScanNotebook.py): the list        *)
(* tab_titles, the scan_num counter for "untitled_scan<n>", and the pages' *)
(* labels, changed by add_scan_page/append_page, set_tab_title and        *)
(* remove_page.                                                            *)
(*                                                                         *)
(* A title is a base and the suffixes sanitize_tab_title appended to it:  *)
(* "%s (%s)" % (title, k) is the title with k appended. A base is a pair  *)
(* <<name, n>>: <<"untitled_scan", 3>> is "untitled_scan3", <<"A", 0>> is *)
(* "A". Equal strings are equal titles, since a user can type any of them *)
(* (InputTitles contains generated forms too).                            *)
(***************************************************************************)
EXTENDS Naturals, Sequences, SequencesExt, FiniteSets

CONSTANTS
    InputTitles, \* titles a caller passes, or a parsed result carries
    Empty,       \* the empty (falsy) title
    MaxPages,    \* pages created over a run
    MaxScanNum   \* last "untitled_scan<n>" number handed out

VARIABLES
    labels,      \* open page -> the text of its tab label
    tab_titles,  \* self.tab_titles, a Python list
    scan_num,    \* self.scan_num
    created      \* pages created so far; page ids are 1..created

vars == <<labels, tab_titles, scan_num, created>>

Pages == 1..MaxPages

Title == [base : STRING \X Nat, sfx : Seq(Nat)]

Untitled(n) == [base |-> <<"untitled_scan", n>>, sfx |-> <<>>]

\* "%s (%s)" % (title, k)
Suffixed(title, k) == [title EXCEPT !.sfx = Append(@, k)]

\* The while loop of sanitize_tab_title, from (title2, scan_id).
\* Mutant of SanitizeFrom: `if` in place of `while`, one suffix tried.
SanitizeFromOnce(list, title, title2, id) ==
    IF Contains(list, title2) THEN Suffixed(title, id) ELSE title2

RECURSIVE SanitizeFrom(_, _, _, _)
SanitizeFrom(list, title, title2, id) ==
    IF Contains(list, title2)
       THEN SanitizeFrom(list, title, Suffixed(title, id), id + 1)
       ELSE title2

\* sanitize_tab_title: the first free variant of title; add_tab_title
\* appends it to the list.
Sanitize(list, title) == SanitizeFrom(list, title, title, 1)

\* get_new_tab_title(parsed_result): a scan name or file name is sanitized,
\* otherwise (named = Empty) the next untitled_scan<scan_num> is.
\* Result: <<title, scan_num after>>.
GetNewTabTitle(list, named, num) ==
    IF named # Empty THEN <<Sanitize(list, named), num>>
    ELSE <<Sanitize(list, Untitled(num)), num + 1>>

\* The untitled counter is bounded by MaxScanNum.
CanName(named) == named = Empty => scan_num <= MaxScanNum

Init ==
    /\ labels = <<>>
    /\ tab_titles = <<>>
    /\ scan_num = 1
    /\ created = 0

\* add_scan_page(title) -> append_page(page, cb, tab_title=title): a given
\* title is sanitized, an empty one replaced by get_new_tab_title().
AddScanPage(title) ==
    /\ created < MaxPages
    /\ CanName(title)
    /\ LET p == created + 1
           new == GetNewTabTitle(tab_titles, title, scan_num)
       IN /\ labels' = labels @@ (p :> new[1])
          /\ tab_titles' = Append(tab_titles, new[1])
          /\ scan_num' = new[2]
          /\ created' = p

\* Mutant of SetTabTitle: the `if not title` test dropped, so an empty title
\* is sanitized and set as the label.
SetTabTitleNoEmptyCheck(p, title, parsedName) ==
    /\ p \in DOMAIN labels
    /\ LET list == RemoveFirst(tab_titles, labels[p])
           new == Sanitize(list, title)
       IN /\ labels' = [labels EXCEPT ![p] = new]
          /\ tab_titles' = Append(list, new)
    /\ UNCHANGED <<scan_num, created>>

\* set_tab_title(page, title): the old label's title is removed from the
\* list, then an empty title is replaced by get_new_tab_title(page.parsed)
\* (parsedName: the result's scan_name or file name, or Empty), any other
\* title sanitized.
SetTabTitle(p, title, parsedName) ==
    /\ p \in DOMAIN labels
    /\ title = Empty => CanName(parsedName)
    /\ LET list == RemoveFirst(tab_titles, labels[p])
           new == IF title = Empty THEN GetNewTabTitle(list, parsedName, scan_num)
                  ELSE <<Sanitize(list, title), scan_num>>
       IN /\ labels' = [labels EXCEPT ![p] = new[1]]
          /\ tab_titles' = Append(list, new[1])
          /\ scan_num' = new[2]
    /\ UNCHANGED created

\* Mutant of RemovePage: remove_tab_title skipped.
RemovePageKeepsTitle(p) ==
    /\ p \in DOMAIN labels
    /\ labels' = [q \in DOMAIN labels \ {p} |-> labels[q]]
    /\ UNCHANGED <<tab_titles, scan_num, created>>

\* remove_page(page_num): the label's title leaves the list, the page the
\* notebook.
RemovePage(p) ==
    /\ p \in DOMAIN labels
    /\ tab_titles' = RemoveFirst(tab_titles, labels[p])
    /\ labels' = [q \in DOMAIN labels \ {p} |-> labels[q]]
    /\ UNCHANGED <<scan_num, created>>

Next ==
    \/ \E t \in InputTitles \cup {Empty} : AddScanPage(t)
    \/ \E p \in Pages, t, n \in InputTitles \cup {Empty} : SetTabTitle(p, t, n)
    \/ \E p \in Pages : RemovePage(p)

Spec == Init /\ [][Next]_vars

-----------------------------------------------------------------------------
TypeOK ==
    /\ DOMAIN labels \subseteq Pages
    /\ \A p \in DOMAIN labels : labels[p] \in Title
    /\ \A k \in 1..Len(tab_titles) : tab_titles[k] \in Title
    /\ scan_num \in 1..MaxScanNum + 1
    /\ created \in 0..MaxPages

\* However titles are given, renamed and freed, tab_titles lists exactly
\* the open tabs' titles, one entry per open tab: the removals in
\* set_tab_title and remove_page and the append in sanitize_tab_title keep
\* the list and the labels in step.
TitlesMatchTabs == ToBag(tab_titles) = ToBag(labels)

\* The notebook's labels implement TabNames, so no two open tabs ever show
\* the same title: every add_scan_page opens a tab under a title no open
\* tab has, every set_tab_title gives the tab a title no other open tab
\* has, and remove_page only closes a tab.
TN == INSTANCE TabNames WITH names <- labels

TabNamesSpec == TN!Spec
====
