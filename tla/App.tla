--------------------------------- MODULE App ---------------------------------
(***************************************************************************)
(* The running application (zenmapGUI/App.py) as its parts meet: profile  *)
(* editor windows, the scan pages whose combos they refresh, each page's   *)
(* toolbar, whose start_scan_cb starts the page's scan,                    *)
(* nmap process and verify_execution timer, and App.safe_shutdown, the    *)
(* handler of the termination signals, which is to kill every page's scan *)
(* and close its tab before _exit_cb and sys.exit.                        *)
(*                                                                         *)
(* A page's scan is abstracted to its process and its timer; the status  *)
(* machine of a tab is ScanTab's. The handler runs to completion when the *)
(* interpreter regains control: it opens no dialog, so no other callback  *)
(* runs inside it.                                                         *)
(***************************************************************************)
EXTENDS ScanToolbar, Sequences, Functions

CONSTANT
    SavedResults  \* results the user may open: the target, profile name,
                  \* profile command and nmap command target they hold

VARIABLES
    scan,   \* page -> "none", "running" or "ended" (process exited, not yet seen)
    timer,  \* page -> is a verify_execution timeout registered
    sd      \* "gui", "signalled" (handler pending) or "exited"

appVars == <<scan, timer, sd>>
vars == <<profiles, editors, combos, target, ptext, command, scan, timer, sd>>

\* self.main_window.scan_notebook.get_children(): the pages, in some order.
Children == CHOOSE s \in [1..Cardinality(Pages) -> Pages] : Range(s) = Pages

\* get_tab_label(selscf) returns self.get_parent()...: its parameter is
\* misspelt, so the name self is not defined and every call raises
\* NameError.
GetTabLabelRaises(pg) == TRUE

\* kill_scan (the process killed, status empty) and close_tab (the timeout
\* removed) on one page.
KillAndClose(st, pg) ==
    [st EXCEPT !.scan[pg] = IF @ = "running" THEN "none" ELSE @,
               !.timer[pg] = FALSE]

\* The loop of safe_shutdown: for each child, log its tab label, kill the
\* scan, close the tab; `except NameError: pass` ends the loop at the first
\* NameError.
RECURSIVE ShutdownLoop(_, _)
ShutdownLoop(todo, st) ==
    IF todo = <<>> THEN st
    ELSE IF GetTabLabelRaises(Head(todo)) THEN st
    ELSE ShutdownLoop(Tail(todo), KillAndClose(st, Head(todo)))

Init ==
    /\ PEInit
    /\ TBInit
    /\ scan = [pg \in Pages |-> "none"]
    /\ timer = [pg \in Pages |-> FALSE]
    /\ sd = "gui"

\* Mutant of AppStartScan: no timeout added.
AppStartScanNoTimer(pg) ==
    /\ sd = "gui"
    /\ scan[pg] = "none"
    /\ scan' = [scan EXCEPT ![pg] = "running"]
    /\ UNCHANGED <<peVars, tbVars, timer, sd>>

\* execute_command: the nmap process is started and a verify_execution
\* timeout added (ScanTab models the rest of the handler).
AppStartScan(pg) ==
    /\ sd = "gui"
    /\ scan[pg] = "none"
    /\ scan' = [scan EXCEPT ![pg] = "running"]
    /\ timer' = [timer EXCEPT ![pg] = TRUE]
    /\ UNCHANGED <<peVars, tbVars, sd>>

\* start_scan_cb: the tab label and the target history aside, a command
\* that passes the checks is handed to execute_command.
StartScanCb(pg) ==
    /\ ScanCheckPasses(pg)
    /\ AppStartScan(pg)

\* The nmap process of a page exits.
ProcessEnds(pg) ==
    /\ sd = "gui"
    /\ scan[pg] = "running"
    /\ scan' = [scan EXCEPT ![pg] = "ended"]
    /\ UNCHANGED <<peVars, tbVars, timer, sd>>

(***************************************************************************)
(* The end of _parse once a result is parsed (ScanTab models the rest).   *)
(* A target t the result carries is typed into the target entry, which   *)
(* runs refresh_command_target if the text changes. A profile name n it carries is added to   *)
(* the store with the result's profile command c (add_profile), this      *)
(* page's combo is refreshed and the name put in the profile entry, which *)
(* runs refresh_command if the text changes. Without a profile name the   *)
(* command entry gets the result's command xc, and clear_profile_target   *)
(* empties the profile and target entries (both handlers then leave the   *)
(* command as it is).                                                      *)
(***************************************************************************)
ParseTail(pg, t, n, c, xc) ==
    LET tgt == IF t # NoTarget THEN t ELSE target[pg]
        cmd == IF t \notin {NoTarget, target[pg]}
                  THEN RefreshCommandTarget(profiles, command[pg], ptext[pg], t)
                  ELSE command[pg]
    IN /\ \E store \in AddProfile(profiles, n, c) :
          IF n # NoName
             THEN /\ profiles' = store
                  /\ combos' = [combos EXCEPT ![pg] = DOMAIN store]
                  /\ ptext' = [ptext EXCEPT ![pg] = n]
                  /\ target' = [target EXCEPT ![pg] = tgt]
                  /\ command' = [command EXCEPT ![pg] =
                                    IF n # ptext[pg]
                                       THEN RefreshCommand(store, cmd, n, tgt)
                                       ELSE cmd]
             ELSE /\ command' = [command EXCEPT ![pg] = [xc EXCEPT !.kind = "typed"]]
                  /\ ptext' = [ptext EXCEPT ![pg] = NoName]
                  /\ target' = [target EXCEPT ![pg] = NoTarget]
                  /\ UNCHANGED <<profiles, combos>>
       /\ UNCHANGED editors

\* verify_execution finds the process gone: parse_result parses its XML
\* and returns False, which removes the timeout. A parse error returns
\* from _parse before its end; otherwise the end runs with the command
\* nmap records in its XML (nmaprun's args), the one start_scan_cb let
\* through: the model takes any command that passes its checks, which
\* spares remembering each page's command while its scan runs. nmap's XML
\* carries no target and no profile name: Zenmap writes those only into
\* the results it saves.
AppVerify(pg) ==
    /\ sd = "gui"
    /\ timer[pg]
    /\ scan[pg] # "running"
    /\ scan' = [scan EXCEPT ![pg] = "none"]
    /\ timer' = [timer EXCEPT ![pg] = FALSE]
    /\ \/ UNCHANGED <<peVars, tbVars>>
       \/ \E xc \in Command :
             /\ xc.kind # "none" /\ (xc.ir \/ xc.tgt # Placeholder)
             /\ ParseTail(pg, NoTarget, NoName, Blank, xc)
    /\ UNCHANGED sd

\* load_result of a result Zenmap saved, which holds the target, the
\* profile name and command and the nmap command of its scan, into a
\* page with no scan running; the main window that calls it is not in the
\* repository. A parse error changes nothing modelled here.
AppLoadResult(pg, t, n, c, x) ==
    /\ sd = "gui"
    /\ scan[pg] = "none"
    /\ ~timer[pg]
    /\ ParseTail(pg, t, n, c, [kind |-> "typed", ir |-> FALSE, tgt |-> x])
    /\ UNCHANGED appVars

\* kill_scan from the user: the process is killed; the timeout stays until
\* verify_execution next runs.
AppKillScan(pg) ==
    /\ sd = "gui"
    /\ scan[pg] = "running"
    /\ scan' = [scan EXCEPT ![pg] = "none"]
    /\ UNCHANGED <<peVars, tbVars, timer, sd>>

\* SIGTERM, SIGINT or SIGHUP arrives; its handler is safe_shutdown.
Signal ==
    /\ sd = "gui"
    /\ sd' = "signalled"
    /\ UNCHANGED <<peVars, tbVars, scan, timer>>

\* safe_shutdown: the loop over the pages, then _exit_cb and sys.exit.
\* Open editor windows are not closed: the process ends with them.
SafeShutdown ==
    /\ sd = "signalled"
    /\ LET st == ShutdownLoop(Children, [scan |-> scan, timer |-> timer])
       IN scan' = st.scan /\ timer' = st.timer
    /\ sd' = "exited"
    /\ UNCHANGED <<peVars, tbVars>>

Next ==
    \/ sd = "gui" /\ EditorNext /\ UNCHANGED appVars
    \/ sd = "gui" /\ TBNext /\ UNCHANGED <<appVars, peVars>>
    \/ \E pg \in Pages : StartScanCb(pg) \/ ProcessEnds(pg) \/ AppVerify(pg)
                         \/ AppKillScan(pg)
    \/ \E pg \in Pages, r \in SavedResults :
         AppLoadResult(pg, r.target, r.profile, r.content, r.args)
    \/ Signal
    \/ SafeShutdown

Spec == Init /\ [][Next]_vars

-----------------------------------------------------------------------------
TypeOK ==
    /\ PETypeOK
    /\ TBTypeOK
    /\ scan \in [Pages -> {"none", "running", "ended"}]
    /\ timer \in [Pages -> BOOLEAN]
    /\ sd \in {"gui", "signalled", "exited"}
    /\ \A pg \in Pages : scan[pg] = "running" => timer[pg]

\* App.safe_shutdown logs ">>> Killing Scan" and kills every page's scan
\* and closes its tab (removing its timer) before it calls _exit_cb: no
\* nmap process is left running and no timer registered.
ShutdownKillsScans ==
    sd = "exited" => \A pg \in Pages : scan[pg] # "running" /\ ~timer[pg]

\* start_scan_cb's "No Target Host" dialog: "Target specification is
\* mandatory. Either by an address in the target input box or through the
\* '-iR' and '-iL' nmap options." A scan started from a profile's command
\* without -iR/-iL runs against the address in the target box, the one
\* set_tab_label puts in "<profile> on <target>".
ProfileScanTargetsEntry ==
    [][\A pg \in Pages :
         (/\ scan[pg] = "none" /\ scan'[pg] = "running"
          /\ command[pg].kind = "profile" /\ ~command[pg].ir)
         => target[pg] # NoTarget /\ command[pg].tgt = target[pg]]_vars

====
