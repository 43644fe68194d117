----------------------------- MODULE ScanToolbar -----------------------------
(***************************************************************************)
(* The toolbar of each scan page (zenmapGUI/ScanNotebook.py): the target  *)
(* entry, the profile entry (the page's profile combo) and the command    *)
(* entry, with the 'changed' and 'key-press-event' handlers that keep the *)
(* command in step with the other two, and the checks of start_scan_cb.   *)
(*                                                                         *)
(* The command is built by CommandProfile().get_command(profile) % target *)
(* from the profile store that the editor windows change. A command is    *)
(* abstracted to where it came from, the target it was formatted with and *)
(* whether it carries -iR or -iL.                                          *)
(***************************************************************************)
EXTENDS ProfileEditor

CONSTANTS
    Targets,        \* addresses the user may type in the target entry
    NoTarget,       \* the empty target entry
    Placeholder,    \* self.empty_target, "<target>"
    RandomTargets   \* contents whose command holds -iR or -iL

VARIABLES
    target,   \* page -> toolbar.selected_target
    ptext,    \* page -> toolbar.selected_profile (NoName: empty)
    command   \* page -> command_toolbar.command

tbVars == <<target, ptext, command>>

\* kind "none": the empty command. A typed command's tgt is Placeholder if
\* the text still holds "<target>" and NoTarget otherwise.
Command == [kind : {"none", "profile", "typed"}, ir : BOOLEAN,
            tgt : Targets \cup {NoTarget, Placeholder}]

NoCommand == [kind |-> "none", ir |-> FALSE, tgt |-> NoTarget]

\* cmd_profile.get_command(profile) % target, from the store `store`.
ProfileCommand(store, p, t) ==
    [kind |-> "profile", ir |-> GetProfile(store, p) \in RandomTargets, tgt |-> t]

\* refresh_command_target: with a non-empty profile entry, the profile's
\* command formatted with the target as it is (an empty one included);
\* ProfileNotFound leaves the command as it was.
RefreshCommandTarget(store, c, p, t) ==
    IF p # NoName /\ p \in DOMAIN store THEN ProfileCommand(store, p, t) ELSE c

\* refresh_command: an empty target is replaced by "<target>" first;
\* ProfileNotFound (an empty or unknown name) leaves the command.
RefreshCommand(store, c, p, t) ==
    IF p \in DOMAIN store
       THEN ProfileCommand(store, p, IF t = NoTarget THEN Placeholder ELSE t)
       ELSE c

TBInit ==
    /\ target = [pg \in Pages |-> NoTarget]
    /\ ptext = [pg \in Pages |-> NoName]
    /\ command = [pg \in Pages |-> NoCommand]

\* The user changes the target entry; its 'changed' signal runs
\* refresh_command_target.
TypeTarget(pg, t) ==
    /\ t # target[pg]
    /\ target' = [target EXCEPT ![pg] = t]
    /\ command' = [command EXCEPT ![pg] = RefreshCommandTarget(profiles, @, ptext[pg], t)]
    /\ UNCHANGED ptext

\* The user selects or types a profile name (select_first_profile sets it
\* the same way); the 'changed' signal runs refresh_command.
SelectProfile(pg, n) ==
    /\ n # ptext[pg]
    /\ ptext' = [ptext EXCEPT ![pg] = n]
    /\ command' = [command EXCEPT ![pg] = RefreshCommand(profiles, @, n, target[pg])]
    /\ UNCHANGED target

\* A key pressed in the command entry: clear_profile_target empties the
\* profile entry (refresh_command('') raises ProfileNotFound) and then the
\* target entry (refresh_command_target returns on the empty profile), and
\* the key edits the command, which may keep "<target>" or gain -iR/-iL.
EditCommand(pg, ph, ir) ==
    /\ ptext' = [ptext EXCEPT ![pg] = NoName]
    /\ target' = [target EXCEPT ![pg] = NoTarget]
    /\ command' = [command EXCEPT ![pg] =
                     [kind |-> "typed", ir |-> ir,
                      tgt |-> IF ph THEN Placeholder ELSE NoTarget]]

\* start_scan_cb's checks: without -iR/-iL a command holding "<target>"
\* ends in "No Target Host", and an empty one in "Empty Nmap Command".
ScanCheckPasses(pg) ==
    /\ command[pg].ir \/ command[pg].tgt # Placeholder
    /\ command[pg].kind # "none"

\* The end of quit() for an editor that removed its profile: when a page's
\* refreshed combo lists any profile, set_active(0) makes the first one
\* active and shows it in the profile entry. update() has just refilled
\* the combo's model, so the active item changes and the combo's 'changed'
\* signal runs refresh_command, whether or not the text differs. Every
\* page lists the same store, so the same name comes first on each; which
\* one ProfileCombo (not in the repository) lists first is left open.
SetActiveFirst(first) ==
    /\ ptext' = [pg \in Pages |-> first]
    /\ command' = [pg \in Pages |->
                     RefreshCommand(profiles, command[pg], first, target[pg])]
    /\ UNCHANGED target

\* quit() from Cancel or the close button, with what it does to the pages'
\* profile entries.
QuitEditor(e) ==
    /\ Quit(e)
    /\ IF editors[e].deleted /\ DOMAIN profiles # {}
          THEN \E first \in DOMAIN profiles : SetActiveFirst(first)
          ELSE UNCHANGED tbVars

\* The editor windows' steps as they reach the toolbar: only quit() after
\* a delete changes it (save_profile clears self.deleted before quit()).
EditorNext ==
    \/ /\ \/ \E e \in Editors, pg \in Pages, p \in Names \cup {NoName}, d \in BOOLEAN :
             Open(e, pg, p, d)
          \/ \E e \in Editors, n \in Names \cup {NoName}, c \in Contents : Edit(e, n, c)
          \/ \E e \in Editors : SaveProfile(e)
       /\ UNCHANGED tbVars
    \/ \E e \in Editors : QuitEditor(e)

TBNext ==
    \/ \E pg \in Pages, t \in Targets \cup {NoTarget} : TypeTarget(pg, t)
    \/ \E pg \in Pages, n \in Names \cup {NoName} : SelectProfile(pg, n)
    \/ \E pg \in Pages, ph, ir \in BOOLEAN : EditCommand(pg, ph, ir)

-----------------------------------------------------------------------------
TBTypeOK ==
    /\ target \in [Pages -> Targets \cup {NoTarget}]
    /\ ptext \in [Pages -> Names \cup {NoName}]
    /\ command \in [Pages -> Command]
====
