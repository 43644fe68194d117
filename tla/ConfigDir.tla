------------------------------ MODULE ConfigDir ------------------------------
(***************************************************************************)
(* Where Zenmap takes its configuration from, over several starts         *)
(* (zenmapCore/Paths.py, GetConfigFile.py): Paths.set_umit_conf at each   *)
(* start uses ~/.zenmap/zenmap.conf if it is there and passes the access  *)
(* test, creates ~/.zenmap (create_user_dir: mkdir, then three            *)
(* copy_config_file calls) if it is not there, and otherwise falls back   *)
(* to the installation's config directory. get_config_file later reads   *)
(* the scan profile through Path.__getattr__.                             *)
(*                                                                         *)
(* The file system persists across starts; the process may die between   *)
(* any two of its file-system steps, and a write may fail.                *)
(***************************************************************************)
EXTENDS Naturals, Sequences, FiniteSets

CONSTANTS
    Faults,    \* subset of {"crash", "write_fail"}: the faults that can occur
    Modes,     \* permission sets the user may chmod zenmap.conf to
    MaxStarts  \* Zenmap starts considered

VARIABLES
    home_w,    \* access(HOME, W_OK)
    dir,       \* does ~/.zenmap exist
    files,     \* ~/.zenmap file -> "absent", "empty" (opened for writing,
               \* nothing written) or "complete"
    mode,      \* permissions of ~/.zenmap/zenmap.conf
    pc,        \* "down", "copy" (inside create_user_dir) or "running"
    cur,       \* the copy_config_file call create_user_dir is in
    stage,     \* in that call: "open" (before exists(destiny)) or "write"
    config,    \* where config_file points: "user", "main" or "none"
    profile,   \* what get_config_file("scan_profile") returned: "main", "temp",
               \* or the state of the user's file ("empty", "complete")
    starts

vars == <<home_w, dir, files, mode, pc, cur, stage, config, profile, starts>>

FileStates == {"absent", "empty", "complete"}

UserFiles == {"scan_profile", "version", "conf"}

\* Mutant of CopyOrder: zenmap.conf copied first.
CopyOrderConfFirst == <<"conf", "scan_profile", "version">>

\* Mutant of CopyOrder: zenmap.conf not copied.
CopyOrderNoConf == <<"scan_profile", "version">>

\* The copy_config_file calls of create_user_dir, in order.
CopyOrder == <<"scan_profile", "version", "conf">>

\* return_if_exists(path): the path if the file exists; else it raises.
ReturnIfExists(file) == files[file] # "absent"

\* create_user_dir's test before mkdir: a writable home without ~/.zenmap;
\* otherwise it warns and returns False.
CreateUserDirAllowed == home_w /\ ~dir

\* check_access(path, R_OK and W_OK): exists(path) and access(path, W_OK),
\* since the Python expression `R_OK and W_OK` evaluates to W_OK.
CheckAccess(file) == ReturnIfExists(file) /\ "w" \in mode

Init ==
    /\ home_w \in BOOLEAN
    /\ dir = FALSE
    /\ files = [f \in UserFiles |-> "absent"]
    /\ mode = {"r", "w"}
    /\ pc = "down"
    /\ cur = 1
    /\ stage = "open"
    /\ config = "none"
    /\ profile = "none"
    /\ starts = 0

\* set_umit_conf up to the copies: the main config directory is always
\* found (or a temporary one made); then the user's zenmap.conf is used if
\* it passes check_access; else, when neither it nor a writable ~/.zenmap
\* exists, create_user_dir runs and, with a writable home and no
\* ~/.zenmap, makes the directory; in every other case the main config.
Start ==
    /\ pc = "down"
    /\ starts < MaxStarts
    /\ starts' = starts + 1
    /\ IF CheckAccess("conf")
          THEN pc' = "running" /\ config' = "user" /\ UNCHANGED dir
       ELSE IF ~ReturnIfExists("conf") /\ ~dir /\ CreateUserDirAllowed
          THEN pc' = "copy" /\ dir' = TRUE /\ UNCHANGED config
       ELSE pc' = "running" /\ config' = "main" /\ UNCHANGED dir
    /\ cur' = 1
    /\ stage' = "open"
    /\ UNCHANGED <<home_w, files, mode, profile>>

\* copy_config_file(CopyOrder[cur]): an existing destination is kept; a
\* missing one is created by open(destiny, 'w'). When the last copy
\* returns, set_umit_conf uses the new directory.
CopyOpen ==
    /\ pc = "copy"
    /\ stage = "open"
    /\ LET f == CopyOrder[cur] IN
       IF files[f] = "absent"
          THEN /\ files' = [files EXCEPT ![f] = "empty"]
               /\ mode' = IF f = "conf" THEN {"r", "w"} ELSE mode
               /\ stage' = "write"
               /\ UNCHANGED <<pc, cur, config>>
       ELSE IF cur < Len(CopyOrder)
          THEN cur' = cur + 1 /\ UNCHANGED <<files, mode, stage, pc, config>>
       ELSE pc' = "running" /\ config' = "user" /\ UNCHANGED <<files, mode, cur, stage>>
    /\ UNCHANGED <<home_w, dir, profile, starts>>

\* destiny_file.write(origin_file.read()), then the next copy or the end.
CopyWrite ==
    /\ pc = "copy"
    /\ stage = "write"
    /\ files' = [files EXCEPT ![CopyOrder[cur]] = "complete"]
    /\ stage' = "open"
    /\ IF cur < Len(CopyOrder)
          THEN cur' = cur + 1 /\ UNCHANGED <<pc, config>>
          ELSE pc' = "running" /\ config' = "user" /\ UNCHANGED cur
    /\ UNCHANGED <<home_w, dir, mode, profile, starts>>

\* Mutant of CopyWriteFails: the fallback to the main config skipped.
CopyWriteFailsNoFallback ==
    /\ "write_fail" \in Faults
    /\ pc = "copy"
    /\ stage = "write"
    /\ pc' = "running"
    /\ UNCHANGED <<home_w, dir, files, mode, cur, stage, config, profile, starts>>

\* The write raises (disk full, quota): the exception leaves
\* create_user_dir, set_umit_conf's `except` logs it, and the main config
\* is used.
CopyWriteFails ==
    /\ "write_fail" \in Faults
    /\ pc = "copy"
    /\ stage = "write"
    /\ pc' = "running"
    /\ config' = "main"
    /\ UNCHANGED <<home_w, dir, files, mode, cur, stage, profile, starts>>

\* The process dies inside create_user_dir; the file system stays.
Crash ==
    /\ "crash" \in Faults
    /\ pc = "copy"
    /\ pc' = "down"
    /\ UNCHANGED <<home_w, dir, files, mode, cur, stage, config, profile, starts>>

\* Path.scan_profile (__getattr__ for a name of config_files_list):
\* return_if_exists(config_dir/scan_profile.usp), which raises if it is
\* missing. The main directory's file always exists.
ScanProfileLookup ==
    CASE config = "main" -> "main"
      [] ReturnIfExists("scan_profile") -> files["scan_profile"]
      [] OTHER -> "raise"

\* get_config_file("scan_profile", content): the file Path names, if it
\* exists and is readable; if the lookup raises, a temporary file holding
\* the content.
ReadProfile ==
    /\ pc = "running"
    /\ profile = "none"
    /\ profile' = IF ScanProfileLookup = "raise" THEN "temp" ELSE ScanProfileLookup
    /\ UNCHANGED <<home_w, dir, files, mode, pc, cur, stage, config, starts>>

\* Zenmap quits.
Quit ==
    /\ pc = "running"
    /\ pc' = "down"
    /\ config' = "none"
    /\ profile' = "none"
    /\ UNCHANGED <<home_w, dir, files, mode, cur, stage, starts>>

\* Between starts the user changes the permissions of zenmap.conf.
Chmod(m) ==
    /\ pc = "down"
    /\ files["conf"] # "absent"
    /\ mode' = m
    /\ UNCHANGED <<home_w, dir, files, pc, cur, stage, config, profile, starts>>

\* Between starts the user makes the home directory writable or not.
ChmodHome ==
    /\ pc = "down"
    /\ home_w' = ~home_w
    /\ UNCHANGED <<dir, files, mode, pc, cur, stage, config, profile, starts>>

Next ==
    \/ Start \/ CopyOpen \/ CopyWrite \/ CopyWriteFails \/ Crash
    \/ ReadProfile \/ Quit \/ ChmodHome
    \/ \E m \in Modes : Chmod(m)

Spec == Init /\ [][Next]_vars

-----------------------------------------------------------------------------
\* The type, and: config_file is set exactly while Zenmap runs.
TypeOK ==
    /\ home_w \in BOOLEAN
    /\ dir \in BOOLEAN
    /\ files \in [UserFiles -> FileStates]
    /\ mode \subseteq {"r", "w"}
    /\ pc \in {"down", "copy", "running"}
    /\ cur \in 1..Len(CopyOrder)
    /\ stage \in {"open", "write"}
    /\ config \in {"none", "user", "main"}
    /\ (config # "none") = (pc = "running")
    /\ profile \in {"none", "main", "temp", "empty", "complete"}
    /\ starts \in 0..MaxStarts

\* Whatever start dies or fails where, a scan profile read from the user's
\* directory was written out in full: create_user_dir copies zenmap.conf,
\* the file whose presence makes later starts use the directory, last.
UserProfileComplete ==
    /\ profile # "empty"
    /\ config = "user" => files["scan_profile"] = "complete"

\* The configuration set_umit_conf hands to config_parser.read is a
\* complete zenmap.conf that Zenmap can read (the main one, or the user's).
ConfigReadable ==
    config = "user" => files["conf"] = "complete" /\ "r" \in mode
====
