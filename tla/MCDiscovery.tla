----------------------------- MODULE MCDiscovery -----------------------------
(***************************************************************************)
(* Instances of Discovery: at most two hosts, two daemons, a container     *)
(* with three ports and one that shares its group and its name.            *)
(***************************************************************************)
EXTENDS Discovery, TLC

\* Two spellings of one name, and a second name.
MCLower == [n \in {"nas", "NAS", "pi"} |-> IF n = "pi" THEN "pi" ELSE "nas"]

Address(scheme, host, user) == [scheme |-> scheme, host |-> host, user |-> user]

Host(name, address) == [name |-> name, address |-> address, tls |-> "none"]

Local == Host("nas", NoAddress)
Tcp == Host("pi", Address("tcp", "pi", ""))
Ssh == Host("nas", Address("ssh", "nas", "alice"))

\* The lists hazards are about; the last four must not validate.
MCHostLists ==
  {<<Local>>, <<Local, Tcp>>, <<Tcp, Ssh>>,
   <<>>, <<Local, Host("NAS", Tcp.address)>>, <<Ssh, Host("pi", Address("ssh", "nas", "bob"))>>,
   <<[Tcp EXCEPT !.tls = "half"]>>, <<[Local EXCEPT !.tls = "files"]>>}

Container(name, title, group, ports) ==
  [name |-> name, title |-> title, group |-> group, ports |-> ports,
   enable |-> TRUE, running |-> TRUE]

Web == Container("web", "", "", {[public |-> 0, type |-> "tcp"], [public |-> 90, type |-> "tcp"],
                                 [public |-> 80, type |-> "tcp"], [public |-> 53, type |-> "udp"]})
Twin == [Container("twin", "web", "Other", {}) EXCEPT !.running = FALSE]
Quiet == [Container("quiet", "", "Media", {}) EXCEPT !.enable = FALSE]

MCContainers == {{}, {Web, Twin, Quiet}}

MCGroupOrder == <<"Media", "Other">>
MCNameOrder == <<"quiet", "web">>
MCIdOrder == <<<<"pi", "web">>, <<"nas", "twin">>, <<"nas", "web">>, <<"pi", "twin">>>>
==============================================================================
