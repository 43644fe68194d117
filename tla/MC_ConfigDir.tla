---------------------------- MODULE MC_ConfigDir ----------------------------
EXTENDS ConfigDir

\* Crashes inside create_user_dir and failing writes.
MC_AllFaults == {"crash", "write_fail"}
MC_Crash == {"crash"}
\* chmod 600, 400, 200 and 000 of zenmap.conf
MC_Modes == {{"r", "w"}, {"r"}, {"w"}, {}}
MC_MaxStarts == 4
====
