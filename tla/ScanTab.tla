------------------------------ MODULE ScanTab ------------------------------
(***************************************************************************)
(* One scan tab of Zenmap: ScanNotebookPage in zenmapGUI/ScanNotebook.py. *)
(*                                                                         *)
(* The tab runs on the single GTK event-loop thread, but it is not         *)
(* sequential: every HIGAlertDialog.run() inside a callback spins a nested *)
(* main loop, and the 2-second verify_execution timers keep firing inside  *)
(* it.  The variable `stack` holds the callbacks that are suspended in     *)
(* such a modal dialog, innermost last; while it is non-empty the main     *)
(* window takes no user input, but timers fire and the scan process runs.  *)
(*                                                                         *)
(* Scan commands are numbered 1..MaxScans in the order execute_command     *)
(* creates them; `cmd` is self.command_execution (0: not created yet).     *)
(* A poll timer is named by the command whose execute_command added it.    *)
(***************************************************************************)
EXTENDS Naturals, Sequences, SequencesExt, FiniteSets

CONSTANTS
    MaxScans,    \* bound on the scans started in the tab
    NoParse,     \* self.parsed deleted by _parse and not recreated
    FileResult   \* self.parsed loaded from a saved file (load_result)

ASSUME MaxScans \in Nat \ {0}

VARIABLES
    status,    \* self.status (PageStatus)
    cmd,       \* self.command_execution, 0 when it does not exist
    proc,      \* proc[i]: state of the nmap process of command i
    timers,    \* gobject timeout sources running verify_execution
    latest,    \* the source id kept in self.verify_thread_timeout_id
    stack,     \* callbacks suspended in a modal dialog, innermost last
    parsed,    \* the scan self.parsed was parsed from (0: fresh NmapParser)
    hosts,     \* self.hosts is non-empty (host pages with comment views)
    widgets,   \* scan_result.set_sensitive
    handlers,  \* 'changed' handlers connected to the host selection
    closed     \* close_tab has run

vars == <<status, cmd, proc, timers, latest, stack, parsed, hosts,
          widgets, handlers, closed>>

Scans == 1..MaxScans

Statuses == {"empty", "scanning", "parsing_result", "unsaved_unchanged",
             "unsaved_changed", "loaded_unchanged", "loaded_changed",
             "saved", "scan_failed"}

\* What the scan process of a command is doing.  "unpollable": run_scan
\* raised and scan_state() raises in turn; "nostart": run_scan raised and
\* scan_state() reports a dead process.  A command that never started
\* wrote no XML, so parsing its output file can only fail.
ProcStates == {"none", "running", "exited", "killed", "unpollable", "nostart"}

\* A modal dialog and what its callback does once run() returns.
\* timer: the timeout source whose dispatch is suspended (0: none);
\* then: the status parse_result/load_result set after _parse returns.
Frame == [kind : {"confirm_kill", "exec_error", "parse_error", "contribute"},
          timer : Scans \cup {0},
          then : Statuses]

\* The three ways the parser can end on nmap's XML output.
ParseOutcomes == {"error", "no_hosts", "hosts"}

\* What parsing get_xml_output_file() of a dead process can give.
XmlOutcomes(p) == IF p = "nostart" THEN {"error"} ELSE ParseOutcomes

Dead(i) == proc[i] \in {"exited", "killed", "unpollable", "nostart"}

\* GLib does not dispatch a source again while its callback is running.
Suspended == {stack[k].timer : k \in DOMAIN stack}

Idle == stack = <<>>

Init ==
    /\ status = "empty"
    /\ cmd = 0
    /\ proc = [i \in Scans |-> "none"]
    /\ timers = {}
    /\ latest = 0
    /\ stack = <<>>
    /\ parsed = 0
    /\ hosts = FALSE
    /\ widgets = FALSE
    /\ handlers = 0
    /\ closed = FALSE

\* Mutant of Spawn: the poll timer is not added after a successful start.
SpawnNoTimer(procNow, stackNow, widgetsNow) ==
    LET i == cmd + 1 IN
    /\ cmd' = i
    /\ proc' = [procNow EXCEPT ![i] = "running"]
    /\ widgets' = TRUE
    /\ stack' = stackNow
    /\ UNCHANGED <<timers, latest>>

(***************************************************************************)
(* The tail of execute_command from `NmapCommand(command)` on: run_scan    *)
(* either starts nmap, or raises and shows an error dialog, after which    *)
(* the method carries on regardless (ExecErrorReturn).  procNow, stackNow *)
(* and widgetsNow are what the earlier part of the callback left.         *)
(***************************************************************************)
Spawn(procNow, stackNow, widgetsNow) ==
    LET i == cmd + 1 IN
    /\ cmd' = i
    /\ \/ /\ proc' = [procNow EXCEPT ![i] = "running"]
          /\ widgets' = TRUE
          /\ timers' = timers \cup {i}
          /\ latest' = i
          /\ stack' = stackNow
       \/ /\ \E fail \in {"unpollable", "nostart"} :
                proc' = [procNow EXCEPT ![i] = fail]
          /\ stack' = Append(stackNow,
                        [kind |-> "exec_error", timer |-> 0, then |-> "empty"])
          /\ widgets' = widgetsNow
          /\ UNCHANGED <<timers, latest>>

\* kill_scan: kill the process (if alive), clear the output and host
\* views, status empty, widgets off.  Returns the new proc.
KillScan(procNow) ==
    IF cmd # 0 /\ procNow[cmd] = "running"
       THEN [procNow EXCEPT ![cmd] = "killed"] ELSE procNow

\* Mutant of ExecuteCommand: the liveness check before spawning is lost.
ExecuteCommandNoCheck ==
    Spawn(proc, stack, widgets)

\* execute_command up to NmapCommand(command): if self.command_execution
\* reports a live scan, ask "Scan has not finished yet" first.  A
\* scan_state() that raises is swallowed by the bare except.
ExecuteCommand ==
    IF cmd # 0 /\ proc[cmd] = "running"
       THEN /\ stack' = <<[kind |-> "confirm_kill", timer |-> 0,
                           then |-> "empty"]>>
            /\ UNCHANGED <<cmd, proc, timers, latest, widgets>>
       ELSE Spawn(proc, stack, widgets)

\* start_scan_cb with a command that passes its target checks: status
\* scanning, then execute_command.  (The "No Target Host" and "Empty Nmap
\* Command" early returns change nothing modelled.)
StartScan ==
    /\ Idle
    /\ ~closed
    /\ cmd < MaxScans
    /\ status' = "scanning"
    /\ ExecuteCommand
    /\ UNCHANGED <<parsed, hosts, handlers, closed>>

\* The answer to "Scan has not finished yet".  Ok: kill_scan, then the rest
\* of execute_command.  Cancel: execute_command returns.
ConfirmKill ==
    /\ stack /= <<>>
    /\ Last(stack).kind = "confirm_kill"
    /\ UNCHANGED <<parsed, hosts, handlers, closed>>
    /\ \/ /\ status' = "empty"
          /\ Spawn(KillScan(proc), Front(stack), FALSE)
       \/ /\ stack' = Front(stack)
          /\ UNCHANGED <<status, cmd, proc, timers, latest, widgets>>

\* Mutant of ExecErrorReturn: no timer after a failed run_scan.
ExecErrorReturnNoTimer ==
    /\ stack /= <<>>
    /\ Last(stack).kind = "exec_error"
    /\ stack' = Front(stack)
    /\ widgets' = TRUE
    /\ UNCHANGED <<status, cmd, proc, timers, latest, parsed, hosts,
                   handlers, closed>>

\* What execute_command does once the run_scan error dialog is closed:
\* show the output, enable the widgets and add the poll timer all the same.
ExecErrorReturn ==
    /\ stack /= <<>>
    /\ Last(stack).kind = "exec_error"
    /\ stack' = Front(stack)
    /\ widgets' = TRUE
    /\ timers' = timers \cup {cmd}
    /\ latest' = cmd
    /\ UNCHANGED <<status, cmd, proc, parsed, hosts, handlers, closed>>

(***************************************************************************)
(* parse_result/load_result: status parsing_result, then _parse of the     *)
(* result of `source`, then status `then`.  _parse connects the selection  *)
(* handlers again, empties self.hosts and deletes self.parsed; a parse     *)
(* error shows the root/unknown-error dialog and returns, a parse that     *)
(* finds an unknown fingerprint shows the contribute dialog.  `t` is the   *)
(* timer whose verify_execution called parse_result (0: none); it returns  *)
(* False and so is removed once parse_result has returned.                *)
(***************************************************************************)
ParseResult(t, source, then, outcomes) ==
    /\ handlers' = handlers + 1
    /\ \E o \in outcomes :
         IF o = "error"
            THEN /\ parsed' = NoParse
                 /\ hosts' = FALSE
                 /\ status' = "parsing_result"
                 /\ stack' = Append(stack, [kind |-> "parse_error", timer |-> t,
                                            then |-> then])
                 /\ UNCHANGED timers
            ELSE /\ parsed' = source
                 /\ hosts' = (o = "hosts")
                 /\ \/ /\ status' = "parsing_result"
                       /\ stack' = Append(stack, [kind |-> "contribute",
                                                  timer |-> t, then |-> then])
                       /\ UNCHANGED timers
                    \/ /\ status' = then
                       /\ timers' = timers \ {t}
                       /\ UNCHANGED stack

\* The root/unknown-error or contribute dialog returns: _parse returns and
\* parse_result sets its final status; verify_execution returns False.
ParseDialogReturn ==
    /\ stack /= <<>>
    /\ Last(stack).kind \in {"parse_error", "contribute"}
    /\ stack' = Front(stack)
    /\ status' = Last(stack).then
    /\ timers' = timers \ {Last(stack).timer}
    /\ UNCHANGED <<cmd, proc, latest, parsed, hosts, widgets, handlers, closed>>

\* Mutant of VerifyExecution: each timer polls the command it was created
\* for instead of self.command_execution.
VerifyExecutionOwnCommand(t) ==
    /\ t \in timers \ Suspended
    /\ UNCHANGED <<cmd, proc, latest, closed>>
    /\ \/ /\ proc[t] = "unpollable"
          /\ widgets' = FALSE
          /\ status' = "scan_failed"
          /\ timers' = timers \ {t}
          /\ UNCHANGED <<stack, parsed, hosts, handlers>>
       \/ /\ proc[t] \in {"exited", "killed", "nostart"}
          /\ ParseResult(t, t, "unsaved_unchanged", XmlOutcomes(proc[t]))
          /\ UNCHANGED widgets

\* Mutant of VerifyExecution: the timer keeps running after scan_state
\* raised (returns True instead of False).
VerifyExecutionKeepsFailedTimer(t) ==
    /\ t \in timers \ Suspended
    /\ UNCHANGED <<cmd, proc, latest, closed>>
    /\ \/ /\ proc[cmd] = "unpollable"
          /\ widgets' = FALSE
          /\ status' = "scan_failed"
          /\ UNCHANGED <<timers, stack, parsed, hosts, handlers>>
       \/ /\ proc[cmd] \in {"exited", "killed", "nostart"}
          /\ ParseResult(t, cmd, "unsaved_unchanged", XmlOutcomes(proc[cmd]))
          /\ UNCHANGED widgets

(***************************************************************************)
(* verify_execution, fired by timer t.  It polls self.command_execution,   *)
(* whatever command that is now.  scan_state raising: widgets off, status *)
(* scan_failed, the timer stops.  A dead process: parse_result of its XML. *)
(* A live one: the timer keeps running and nothing changes (not an action).*)
(***************************************************************************)
VerifyExecution(t) ==
    /\ t \in timers \ Suspended
    /\ UNCHANGED <<cmd, proc, latest, closed>>
    /\ \/ /\ proc[cmd] = "unpollable"
          /\ widgets' = FALSE
          /\ status' = "scan_failed"
          /\ timers' = timers \ {t}
          /\ UNCHANGED <<stack, parsed, hosts, handlers>>
       \/ /\ proc[cmd] \in {"exited", "killed", "nostart"}
          /\ ParseResult(t, cmd, "unsaved_unchanged", XmlOutcomes(proc[cmd]))
          /\ UNCHANGED widgets

\* nmap terminates on its own.
ProcessExit(i) ==
    /\ proc[i] = "running"
    /\ proc' = [proc EXCEPT ![i] = "exited"]
    /\ UNCHANGED <<status, cmd, timers, latest, stack, parsed, hosts,
                   widgets, handlers, closed>>

\* _save_comment: a host comment view got text inserted or lost focus.
SaveComment ==
    /\ Idle
    /\ ~closed
    /\ hosts
    /\ status' = CASE status = "unsaved_unchanged" -> "unsaved_changed"
                   [] status \in {"loaded_unchanged", "saved"} -> "loaded_changed"
                   [] OTHER -> status
    /\ UNCHANGED <<cmd, proc, timers, latest, stack, parsed, hosts,
                   widgets, handlers, closed>>

\* Mutant of LoadResult: a misspelt final status.
LoadResultTypo ==
    /\ Idle
    /\ ~closed
    /\ status = "empty"
    /\ ParseResult(0, FileResult, "loaded", ParseOutcomes)
    /\ UNCHANGED <<cmd, proc, timers, latest, widgets, closed>>

\* load_result (a saved scan file) and load_from_parsed_result (a search
\* result), called by the main window on a tab that holds nothing yet.
LoadResult ==
    /\ Idle
    /\ ~closed
    /\ status = "empty"
    /\ ParseResult(0, FileResult, "loaded_unchanged", ParseOutcomes)
    /\ UNCHANGED <<cmd, proc, timers, latest, widgets, closed>>

LoadFromParsedResult ==
    /\ Idle
    /\ ~closed
    /\ status = "empty"
    /\ ParseResult(0, FileResult, "unsaved_unchanged", {"no_hosts", "hosts"})
    /\ UNCHANGED <<cmd, proc, timers, latest, widgets, closed>>

\* close_tab: removes the source in verify_thread_timeout_id only.
CloseTab ==
    /\ Idle
    /\ ~closed
    /\ closed' = TRUE
    /\ timers' = timers \ {latest}
    /\ UNCHANGED <<status, cmd, proc, latest, stack, parsed, hosts,
                   widgets, handlers>>

Next ==
    \/ StartScan
    \/ ConfirmKill
    \/ ExecErrorReturn
    \/ ParseDialogReturn
    \/ \E t \in Scans : VerifyExecution(t)
    \/ \E i \in Scans : ProcessExit(i)
    \/ SaveComment
    \/ LoadResult
    \/ LoadFromParsedResult
    \/ CloseTab

(***************************************************************************)
(* Fairness: the event loop dispatches every due timer (WF on each         *)
(* verify_execution), nmap ends (WF on ProcessExit), and a modal dialog,   *)
(* which blocks the whole window, is eventually answered.  User actions    *)
(* (start, comment, load, close) get none.                                 *)
(***************************************************************************)
Fairness ==
    /\ \A t \in Scans : WF_vars(VerifyExecution(t))
    /\ \A i \in Scans : WF_vars(ProcessExit(i))
    /\ WF_vars(ConfirmKill)
    /\ WF_vars(ExecErrorReturn)
    /\ WF_vars(ParseDialogReturn)

Spec == Init /\ [][Next]_vars /\ Fairness

-----------------------------------------------------------------------------
TypeOK ==
    /\ status \in Statuses
    /\ cmd \in 0..MaxScans
    /\ proc \in [Scans -> ProcStates]
    /\ timers \subseteq Scans
    /\ latest \in 0..MaxScans
    /\ stack \in Seq(Frame)
    /\ parsed \in 0..MaxScans \cup {NoParse, FileResult}
    /\ hosts \in BOOLEAN
    /\ widgets \in BOOLEAN
    /\ handlers \in Nat
    /\ closed \in BOOLEAN

\* Statuses in which the tab claims to hold a parsed scan result.
ResultStatuses == {"unsaved_unchanged", "unsaved_changed", "loaded_unchanged",
                   "loaded_changed", "saved"}

\* Only one nmap process per tab is ever alive: execute_command kills the
\* running scan (after the user's Ok) before it creates the next one, even
\* though the dialog's nested main loop lets the old scan end meanwhile.
AtMostOneScanRunning ==
    Cardinality({i \in Scans : proc[i] = "running"}) <= 1

\* While the tab is open, a live nmap process is always watched by some
\* verify_execution timer, so its end will be noticed.
RunningScanIsPolled ==
    (~closed /\ cmd # 0 /\ proc[cmd] = "running") => timers # {}

\* The tab never replaces the result of a scan by the result of an earlier
\* scan, although a stale timer left by kill_scan may parse after the
\* current timer did.
ResultsNeverRegress ==
    [][(parsed \in Scans /\ parsed' \in Scans) => parsed' >= parsed]_parsed

RunningScanShownAsScanning ==
    (Idle /\ cmd # 0 /\ proc[cmd] = "running") => status = "scanning"

\* close_tab removes only the timer in verify_thread_timeout_id; a timer
\* orphaned by kill_scan keeps polling the closed tab. Every such timer
\* still stops: verify_execution returns False once it has parsed or
\* reported the (eventually dead) process, so a closed tab ends up with no
\* timer at all.
ClosedTabTimersStop ==
    closed ~> timers = {}

\* A timer that fires inside the run_scan error dialog can set scan_failed
\* and disable the widgets, which execute_command then re-enables. The
\* timer it adds afterwards disables them again: a failed tab does not stay
\* interactive unless it is closed or leaves scan_failed.
FailedTabDisabled ==
    (status = "scan_failed" /\ widgets) ~>
        (~widgets \/ closed \/ status # "scan_failed")
====
