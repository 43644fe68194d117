----------------------------- MODULE ResultIndex -----------------------------
(***************************************************************************)
(* The result store of a scan tab and the views built from it             *)
(* (zenmapGUI/ScanNotebook.py): _parse resets self.hosts and             *)
(* self.services and walks the parsed hosts, filing each host under its   *)
(* hostname and each open/filtered port under its service name; then the *)
(* selection handlers update_host_info and update_service_info pick the   *)
(* host detail pages to show.                                              *)
(*                                                                         *)
(* A host detail page is named by the parse that built it and the host's  *)
(* position in that parse. The row builders only copy port fields into    *)
(* tree and list stores; a view is abstracted to the pages it packs.      *)
(***************************************************************************)
EXTENDS Naturals, Sequences, SequencesExt, FiniteSets

CONSTANTS
    Hostnames,   \* host.get_hostname() values
    PortIds,
    SvcNames,    \* service["service_name"] values
    PortStates,  \* service["port_state"] values
    MaxHosts,    \* hosts in one parsed result
    MaxParses    \* _parse calls on the tab

VARIABLES
    result,    \* self.parsed.get_hosts()
    gen,       \* number of _parse calls so far
    k,         \* position of the loop over result
    hosts,     \* self.hosts: hostname -> page
    services,  \* self.services: name -> its "hosts" list
    rows,      \* scan_host_view's host list: hostnames, one row per add_host
    view,      \* what the host details pane shows
    phase

vars == <<result, gen, k, hosts, services, rows, view, phase>>

PortInfo == [service_name : SvcNames, port_state : PortStates]

HostRec == [hostname : Hostnames,
            ports : UNION {[D -> PortInfo] : D \in SUBSET PortIds}]

Results == UNION {[1..n -> HostRec] : n \in 0..MaxHosts}

Page == [gen : 1..MaxParses, k : 1..MaxHosts]

\* Mutant of ListStates: "filtered" left out.
ListStatesNoFiltered == {"open", "open|filtered"}

\* list_states in _parse.
ListStates == {"open", "filtered", "open|filtered"}

NoView == [kind |-> "none", rows |-> {}, names |-> {}, pages |-> <<>>]

Init ==
    /\ result = <<>>
    /\ gen = 0
    /\ k = 1
    /\ hosts = <<>>
    /\ services = <<>>
    /\ rows = <<>>
    /\ view = NoView
    /\ phase = "idle"

\* Mutant of Parse: self.services not reset.
ParseKeepsServices(r) ==
    /\ phase # "loop"
    /\ gen < MaxParses
    /\ result' = r
    /\ gen' = gen + 1
    /\ k' = 1
    /\ hosts' = <<>>
    /\ rows' = <<>>
    /\ view' = NoView
    /\ phase' = "loop"
    /\ UNCHANGED services

\* _parse up to its loop: the host list is cleared, self.hosts and
\* self.services are reset and self.parsed replaced by result r.
Parse(r) ==
    /\ phase # "loop"
    /\ gen < MaxParses
    /\ result' = r
    /\ gen' = gen + 1
    /\ k' = 1
    /\ hosts' = <<>>
    /\ services' = <<>>
    /\ rows' = <<>>
    /\ view' = NoView
    /\ phase' = "loop"

\* The "hosts" entries one host adds to self.services, service by service.
HostEntries(h, pg, names) ==
    [n \in names |->
        SetToSeq({[page |-> pg, hostname |-> h.hostname, portid |-> p] :
                  p \in {q \in DOMAIN h.ports : h.ports[q].service_name = n
                                                /\ h.ports[q].port_state \in ListStates}})]

\* Extends self.services by one host's entries, creating missing names.
AddEntries(svcs, new) ==
    [n \in DOMAIN svcs \cup DOMAIN new |->
        (IF n \in DOMAIN svcs THEN svcs[n] ELSE <<>>)
        \o (IF n \in DOMAIN new THEN new[n] ELSE <<>>)]

\* Mutant of ParseHost: the service name is created before the state test.
ParseHostEarlyKey ==
    /\ phase = "loop"
    /\ k <= Len(result)
    /\ LET h == result[k]
           pg == [gen |-> gen, k |-> k]
       IN /\ services' = AddEntries(services,
                 HostEntries(h, pg, {h.ports[q].service_name : q \in DOMAIN h.ports}))
          /\ hosts' = [n \in DOMAIN hosts \cup {h.hostname} |->
                          IF n = h.hostname THEN pg ELSE hosts[n]]
          /\ rows' = Append(rows, h.hostname)
    /\ k' = k + 1
    /\ UNCHANGED <<result, gen, view, phase>>

\* One iteration of the loop over the parsed hosts: set_host_details builds
\* the page, ports in list_states are filed under their service name,
\* self.hosts[hostname] is (over)written, and a row is added.
ParseHost ==
    /\ phase = "loop"
    /\ k <= Len(result)
    /\ LET h == result[k]
           pg == [gen |-> gen, k |-> k]
           kept == {q \in DOMAIN h.ports : h.ports[q].port_state \in ListStates}
       IN /\ services' = AddEntries(services,
                 HostEntries(h, pg, {h.ports[q].service_name : q \in kept}))
          /\ hosts' = [n \in DOMAIN hosts \cup {h.hostname} |->
                          IF n = h.hostname THEN pg ELSE hosts[n]]
          /\ rows' = Append(rows, h.hostname)
    /\ k' = k + 1
    /\ UNCHANGED <<result, gen, view, phase>>

\* update_host_info for the selected rows: each row's hostname is looked up
\* in self.hosts; one page is shown alone, several as a list.
HostsView(sel) ==
    LET objs == [j \in 1..Cardinality(sel) |->
                   hosts[rows[CHOOSE i \in sel :
                             Cardinality({x \in sel : x < i}) = j - 1]]]
    IN [kind |-> IF Len(objs) = 1 THEN "host" ELSE "hosts",
        rows |-> sel, names |-> {}, pages |-> objs]

\* The end of the loop: the first row is selected, which runs
\* update_host_info (the "changed" handler), and _parse returns.
ParseEnd ==
    /\ phase = "loop"
    /\ k > Len(result)
    /\ view' = IF rows = <<>> THEN NoView ELSE HostsView({1})
    /\ phase' = "ready"
    /\ UNCHANGED <<result, gen, k, hosts, services, rows>>

\* The user selects host rows.
SelectHosts(sel) ==
    /\ phase = "ready"
    /\ sel \subseteq 1..Len(rows)
    /\ view' = HostsView(sel)
    /\ UNCHANGED <<result, gen, k, hosts, services, rows, phase>>

\* Removes repeated pages, keeping the first (the `not in pages` test).
Dedup(s) == FoldLeft(LAMBDA acc, x : IF Contains(acc, x) THEN acc ELSE Append(acc, x),
                     <<>>, s)

PagesOf(entries) == [j \in 1..Len(entries) |-> entries[j].page]

\* Mutant of ServicesView: the loop over several services stops one short.
ServicesViewDropsLast(sel) ==
    LET objs == SetToSeq(sel)
    IN IF Len(objs) = 1
          THEN [kind |-> "service", rows |-> {}, names |-> sel,
                pages |-> PagesOf(services[objs[1]])]
          ELSE [kind |-> "services", rows |-> {}, names |-> sel,
                pages |-> Dedup(FoldLeft(LAMBDA acc, n : acc \o PagesOf(services[n]),
                                         <<>>, SubSeq(objs, 1, Len(objs) - 1)))]

\* update_service_info: one service shows the pages of all its entries,
\* several the pages of all their entries, each page once.
ServicesView(sel) ==
    LET objs == SetToSeq(sel)
    IN IF Len(objs) = 1
          THEN [kind |-> "service", rows |-> {}, names |-> sel,
                pages |-> PagesOf(services[objs[1]])]
          ELSE [kind |-> "services", rows |-> {}, names |-> sel,
                pages |-> Dedup(FoldLeft(LAMBDA acc, n : acc \o PagesOf(services[n]),
                                         <<>>, objs))]

\* The user selects service rows (set_services(self.services.keys())).
SelectServices(sel) ==
    /\ phase = "ready"
    /\ sel \subseteq DOMAIN services
    /\ view' = ServicesView(sel)
    /\ UNCHANGED <<result, gen, k, hosts, services, rows, phase>>

Next ==
    \/ \E r \in Results : Parse(r)
    \/ ParseHost
    \/ ParseEnd
    \/ \E sel \in SUBSET (1..MaxHosts) : SelectHosts(sel)
    \/ \E sel \in SUBSET SvcNames : SelectServices(sel)

Spec == Init /\ [][Next]_vars

-----------------------------------------------------------------------------
\* The type, and: every service name in self.services has at least one
\* entry, since update_service_info reads s["hosts"][0] of each.
TypeOK ==
    /\ result \in Results
    /\ gen \in 0..MaxParses
    /\ k \in 1..MaxHosts + 1
    /\ DOMAIN hosts \subseteq Hostnames
    /\ \A n \in DOMAIN hosts : hosts[n] \in Page
    /\ DOMAIN services \subseteq SvcNames
    /\ \A n \in DOMAIN services : services[n] # <<>>
    /\ rows \in Seq(Hostnames)
    /\ view.kind \in {"none", "host", "hosts", "service", "services"}
    /\ view.pages \in Seq(Page)
    /\ phase \in {"idle", "loop", "ready"}

\* Entries of self.services[n] that come from host i of the result.
EntriesFor(n, i) ==
    IF n \in DOMAIN services
       THEN {j \in 1..Len(services[n]) : services[n][j].page = [gen |-> gen, k |-> i]}
       ELSE {}

\* The spec (4.1, 8.1): once _parse is done, self.services holds one entry
\* per port of the result whose state is open, filtered or open|filtered,
\* under that port's service name and host, and none for other ports.
ServicesIndexExact ==
    phase = "ready" =>
        \A n \in SvcNames, i \in 1..Len(result) :
            Cardinality(EntriesFor(n, i)) =
            Cardinality({q \in DOMAIN result[i].ports :
                            /\ result[i].ports[q].service_name = n
                            /\ result[i].ports[q].port_state \in
                                  {"open", "filtered", "open|filtered"}})

\* The spec (4.1, 8.6): after a re-parse nothing of the previous result
\* survives: every host and every service entry is one of this parse's
\* pages, and the hostnames are exactly those of the new result.
ReparseReplaces ==
    phase = "ready" =>
        /\ DOMAIN hosts = {result[i].hostname : i \in 1..Len(result)}
        /\ \A n \in DOMAIN hosts : hosts[n].gen = gen
        /\ \A n \in DOMAIN services :
              \A j \in 1..Len(services[n]) : services[n][j].page.gen = gen

\* The spec (2, 4.2): a service view is a function of the result and the
\* selection. Once _parse is done, the host pages update_service_info packs,
\* through one service or several, are exactly the pages of this parse's
\* hosts that have a port in an open or filtered state under a selected
\* service name, whichever hosts share a hostname.
ServiceViewShowsOfferingHosts ==
    (phase = "ready" /\ view.kind \in {"service", "services"}) =>
        Range(view.pages) =
            {[gen |-> gen, k |-> i] :
                i \in {j \in 1..Len(result) :
                        \E q \in DOMAIN result[j].ports :
                            /\ result[j].ports[q].service_name \in view.names
                            /\ result[j].ports[q].port_state \in
                                  {"open", "filtered", "open|filtered"}}}
====
