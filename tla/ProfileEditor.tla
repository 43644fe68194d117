---------------------------- MODULE ProfileEditor ----------------------------
(***************************************************************************)
(* Profile editor windows (zenmapGUI/ProfileEditor.py) over the profile    *)
(* store, and the profile combo box of every scan page they refresh.      *)
(* Editor windows are not modal: several may be open at once, each        *)
(* holding the profile it was opened on. Opening with delete=True removes *)
(* the profile from the store ("It must be saved again"); Ok saves the     *)
(* entries under the name typed; closing an editor that removed its       *)
(* profile asks first. quit() ends by refreshing every page's combo.      *)
(*                                                                         *)
(* The store is CommandProfile (zenmapCore.UmitConf, not in the           *)
(* repository): a map from profile names to contents. A content is the    *)
(* command, hint, description, annotation and options, abstracted to a    *)
(* model value.                                                            *)
(***************************************************************************)
EXTENDS Naturals, FiniteSets, TLC

CONSTANTS
    Names,        \* profile names a user may type or select
    Contents,     \* profile contents
    Blank,        \* the content of a new editor: empty entries, no options
    NoName,       \* the empty name entry
    Editors,      \* editor windows created over a run
    Pages,        \* open scan pages, each with a profile combo
    InitProfiles  \* the store when Zenmap starts

VARIABLES
    profiles,  \* the CommandProfile store: name -> content
    editors,   \* window -> its state and entries
    combos     \* page -> the names its profile combo lists

peVars == <<profiles, editors, combos>>

Editor == [state : {"unused", "open", "gone"},
           name : Names \cup {NoName},      \* profile_name_entry
           content : Contents \cup {Blank}, \* the other entries and options
           deleted : BOOLEAN]               \* self.deleted

Unused == [state |-> "unused", name |-> NoName, content |-> Blank, deleted |-> FALSE]

\* CommandProfile.get_profile and remove_profile.
GetProfile(store, n) == store[n]

RemoveProfile(store, n) == [m \in DOMAIN store \ {n} |-> store[m]]

\* The stores CommandProfile.add_profile may leave. A new name is added;
\* for a name already stored the repository does not say whether the
\* profile is replaced or kept (the editor's delete on open suggests it
\* may be kept), so both are possible.
AddProfile(store, n, c) ==
    IF n \in DOMAIN store THEN {(n :> c) @@ store, store} ELSE {(n :> c) @@ store}

\* page.toolbar.profile_entry.update() on every page of the notebook.
RefreshCombos(store) == [pg \in Pages |-> DOMAIN store]

PEInit ==
    /\ profiles = InitProfiles
    /\ editors = [e \in Editors |-> Unused]
    /\ combos = RefreshCombos(InitProfiles)

\* ProfileEditor(profile_name, delete): with a name (the profile selected
\* in a page's combo), the entries are filled from get_profile and, if
\* delete, the profile is removed from the store and self.deleted set;
\* without one, the entries are empty.
Open(e, pg, p, delete) ==
    /\ editors[e].state = "unused"
    /\ \/ /\ p = NoName
          /\ editors' = [editors EXCEPT ![e] = [Unused EXCEPT !.state = "open"]]
          /\ UNCHANGED profiles
       \/ /\ p \in combos[pg] \cap DOMAIN profiles
          /\ editors' = [editors EXCEPT ![e] =
                           [state |-> "open", name |-> p,
                            content |-> GetProfile(profiles, p), deleted |-> delete]]
          /\ profiles' = IF delete THEN RemoveProfile(profiles, p) ELSE profiles
    /\ UNCHANGED combos

\* The user types in the name entry and changes the other entries or the
\* options (update_command only redraws the command line).
Edit(e, n, c) ==
    /\ editors[e].state = "open"
    /\ editors' = [editors EXCEPT ![e].name = n, ![e].content = c]
    /\ UNCHANGED <<profiles, combos>>

\* quit() once the window closes: destroy it and refresh every page's
\* combo from the store (the set_active(0) that follows a delete changes
\* the pages' profile entries: ScanToolbar's QuitEditor).
Close(e, eds, store) ==
    /\ editors' = [eds EXCEPT ![e].state = "gone"]
    /\ combos' = RefreshCombos(store)

SaveProfile(e) ==
    /\ editors[e].state = "open"
    /\ editors[e].name # NoName
    /\ profiles' \in AddProfile(profiles, editors[e].name, editors[e].content)
    /\ Close(e, [editors EXCEPT ![e].deleted = FALSE], profiles')

\* quit() from Cancel or the window's close button: when the editor
\* removed its profile the "Deleting Profile" dialog is answered Ok (Cancel
\* returns True and leaves everything as it was); the profile stays out
\* of the store.
Quit(e) ==
    /\ editors[e].state = "open"
    /\ Close(e, editors, profiles)
    /\ UNCHANGED profiles

PENext ==
    \/ \E e \in Editors, pg \in Pages, p \in Names \cup {NoName}, d \in BOOLEAN :
          Open(e, pg, p, d)
    \/ \E e \in Editors, n \in Names \cup {NoName}, c \in Contents : Edit(e, n, c)
    \/ \E e \in Editors : SaveProfile(e) \/ Quit(e)

PESpec == PEInit /\ [][PENext]_peVars

-----------------------------------------------------------------------------
PETypeOK ==
    /\ DOMAIN profiles \subseteq Names
    /\ \A n \in DOMAIN profiles : profiles[n] \in Contents \cup {Blank}
    /\ editors \in [Editors -> Editor]
    /\ combos \in [Pages -> SUBSET Names]
====
