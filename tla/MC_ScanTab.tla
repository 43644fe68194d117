----------------------------- MODULE MC_ScanTab -----------------------------
EXTENDS ScanTab

\* Three scans: enough for a kill-and-restart followed by a further scan.
MC_MaxScans == 3
====
