---------------------------- MODULE Fingerprints ----------------------------
(***************************************************************************)
(* ScanNotebookPage.check_fingerprints (zenmapGUI/ScanNotebook.py): split  *)
(* the nmap output into blocks, walk them with a current-address cursor,  *)
(* file every OS ("SInfo...);") and service ("SF-Port...);") fingerprint  *)
(* under the cursor, then prompt the user with the addresses found.       *)
(*                                                                         *)
(* A block is abstracted to the first match of each of the three regexes  *)
(* in it (re.search): an address, an OS fingerprint, a service one, each  *)
(* possibly absent.                                                        *)
(***************************************************************************)
EXTENDS Naturals, Sequences, SequencesExt, FiniteSets

CONSTANTS
    IPs,        \* dotted-quad addresses that occur in the output
    FPs,        \* fingerprint texts
    NoIP,       \* a block with no address
    NoFP,       \* a block with no fingerprint of that kind
    None,       \* Python's None: the cursor before the first address
    MaxBlocks,  \* longest output considered, in blank-line separated blocks
    Encoding    \* how the text reaches check_fingerprints: "escaped" if its
                \* newlines are the two characters \n, "newlines" if real

ASSUME Encoding \in {"escaped", "newlines"}

VARIABLES
    text,          \* self.parsed.nmap_output, as its sequence of blocks
    blocks,        \* nmap_output.split("\\n\\n")
    i,             \* the loop's position in blocks
    current_ip,
    fingerprints,  \* address -> [os, service]
    prompt,        \* what show_contribute_dialog is asked to say
    pc

vars == <<text, blocks, i, current_ip, fingerprints, prompt, pc>>

Block == [ip : IPs \cup {NoIP}, os : FPs \cup {NoFP}, service : FPs \cup {NoFP}]

Keys == IPs \cup {None}

Entry == [os : FPs \cup {NoFP}, service : FPs \cup {NoFP}]

NoPrompt == [kind |-> "none", hosts |-> {}]

Prompts == {NoPrompt} \cup [kind : {"single", "several"}, hosts : SUBSET Keys]

\* The first match of a field's regex in the text as a whole.
FirstMatch(bs, field, absent) ==
    LET k == SelectInSeq(bs, LAMBDA b : b[field] # absent)
    IN IF k = 0 THEN absent ELSE bs[k][field]

\* str.split on the two characters \n\n: with real newlines in the text the
\* separator never occurs and the whole output is one block, on which each
\* regex finds its first match in the output.
SplitBlocks(t) ==
    IF Encoding = "escaped" THEN t
    ELSE <<[ip |-> FirstMatch(t, "ip", NoIP),
            os |-> FirstMatch(t, "os", NoFP),
            service |-> FirstMatch(t, "service", NoFP)]>>

\* Mutant of Attach: the service key misspelt ("sevice").
AttachTypo(fps, key, field, fp) ==
    LET f == IF field = "service" THEN "sevice" ELSE field
    IN (key :> [g \in {"os", "service", f} |->
                          IF g = f THEN fp
                          ELSE IF key \in DOMAIN fps /\ g \in DOMAIN fps[key]
                               THEN fps[key][g] ELSE NoFP]) @@ fps

\* fingerprints[key][field] = fp, creating fingerprints[key] = {} first.
Attach(fps, key, field, fp) ==
    IF key \in DOMAIN fps
       THEN [fps EXCEPT ![key][field] = fp]
       ELSE fps @@ (key :> [[os |-> NoFP, service |-> NoFP] EXCEPT ![field] = fp])

Init ==
    /\ text \in UNION {[1..n -> Block] : n \in 1..MaxBlocks}
    /\ blocks = <<>>
    /\ i = 0
    /\ current_ip = None
    /\ fingerprints = <<>>
    /\ prompt = NoPrompt
    /\ pc = "split"

\* The split and the initialisations before the loop.
Split ==
    /\ pc = "split"
    /\ blocks' = SplitBlocks(text)
    /\ i' = 1
    /\ current_ip' = None
    /\ fingerprints' = <<>>
    /\ pc' = "loop"
    /\ UNCHANGED <<text, prompt>>

\* Mutant of ScanBlock: the fingerprints are filed before the cursor moves.
ScanBlockLateCursor ==
    /\ pc = "loop"
    /\ i <= Len(blocks)
    /\ LET b == blocks[i]
           withOs == IF b.os # NoFP
                        THEN Attach(fingerprints, current_ip, "os", b.os)
                        ELSE fingerprints
       IN /\ current_ip' = IF b.ip # NoIP THEN b.ip ELSE current_ip
          /\ fingerprints' = IF b.service # NoFP
                                THEN Attach(withOs, current_ip, "service", b.service)
                                ELSE withOs
    /\ i' = i + 1
    /\ UNCHANGED <<text, blocks, prompt, pc>>

\* One iteration of `for line in nmap_output`: an address moves the cursor,
\* then an OS and a service fingerprint are filed under it.
ScanBlock ==
    /\ pc = "loop"
    /\ i <= Len(blocks)
    /\ LET b == blocks[i]
           ip == IF b.ip # NoIP THEN b.ip ELSE current_ip
           withOs == IF b.os # NoFP
                        THEN Attach(fingerprints, ip, "os", b.os)
                        ELSE fingerprints
       IN /\ current_ip' = ip
          /\ fingerprints' = IF b.service # NoFP
                                THEN Attach(withOs, ip, "service", b.service)
                                ELSE withOs
    /\ i' = i + 1
    /\ UNCHANGED <<text, blocks, prompt, pc>>

\* After the loop: one key gives the singular message naming it, several
\* the plural one listing all of them, none no dialog.
Prompt ==
    /\ pc = "loop"
    /\ i > Len(blocks)
    /\ LET keys == DOMAIN fingerprints IN
       prompt' = CASE Cardinality(keys) = 1 -> [kind |-> "single", hosts |-> keys]
                   [] Cardinality(keys) > 1 -> [kind |-> "several", hosts |-> keys]
                   [] OTHER -> NoPrompt
    /\ pc' = "done"
    /\ UNCHANGED <<text, blocks, i, current_ip, fingerprints>>

Next == Split \/ ScanBlock \/ Prompt

Spec == Init /\ [][Next]_vars

-----------------------------------------------------------------------------
(***************************************************************************)
(* The extraction the spec (4.3) describes, stated on the real blocks:     *)
(* a fingerprint belongs to the address of the last address block at or   *)
(* before it, blocks before any address are dropped, and a later          *)
(* fingerprint of the same kind for the same address replaces an earlier. *)
(***************************************************************************)
OwnerOf(bs, k) ==
    LET js == {j \in 1..k : bs[j].ip # NoIP}
    IN IF js = {} THEN NoIP ELSE bs[Max(js)].ip

LastFor(bs, ip, field) ==
    LET ks == {k \in DOMAIN bs : bs[k][field] # NoFP /\ OwnerOf(bs, k) = ip}
    IN IF ks = {} THEN NoFP ELSE bs[Max(ks)][field]

SpecFingerprints(bs) ==
    LET owners == {ip \in IPs : LastFor(bs, ip, "os") # NoFP
                                \/ LastFor(bs, ip, "service") # NoFP}
    IN [ip \in owners |-> [os |-> LastFor(bs, ip, "os"),
                           service |-> LastFor(bs, ip, "service")]]

TypeOK ==
    /\ text \in Seq(Block)
    /\ blocks \in Seq(Block)
    /\ i \in 0..MaxBlocks + 1
    /\ current_ip \in Keys
    /\ DOMAIN fingerprints \subseteq Keys
    /\ \A k \in DOMAIN fingerprints : fingerprints[k] \in Entry
    /\ prompt \in Prompts
    /\ pc \in {"split", "loop", "done"}

\* Whatever blocks come first, the cursor walk files every fingerprint of
\* a real address exactly where the spec's extraction does: same addresses,
\* same OS and service fingerprint for each (the last one seen).
AddressesMatchSpec ==
    pc = "done" =>
        LET spec == SpecFingerprints(blocks) IN
        /\ DOMAIN fingerprints \cap IPs = DOMAIN spec
        /\ \A ip \in DOMAIN spec : fingerprints[ip] = spec[ip]

\* The spec (8.4): the extraction is that of the blank-line separated
\* blocks of the output, so two hosts, each with its own fingerprint,
\* give two entries. collect_umit_info stores the output just before,
\* from NmapCommand.get_raw_output or the text view.
ExtractionMatchesSpec ==
    pc = "done" =>
        Restrict(fingerprints, DOMAIN fingerprints \cap IPs) = SpecFingerprints(text)
====
