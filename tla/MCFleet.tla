------------------------------- MODULE MCFleet -------------------------------
(***************************************************************************)
(* Two hosts; on each a container may come and go.                         *)
(***************************************************************************)
EXTENDS Fleet

Host(name, address) == [name |-> name, address |-> address, tls |-> "none"]

MCHostLists ==
  {<<Host("nas", NoAddress),
     Host("pi", [scheme |-> "tcp", host |-> "pi", user |-> ""])>>}

MCLower == [n \in {"nas", "pi"} |-> n]

Web(port) == [name |-> "web", title |-> "", group |-> "", enable |-> TRUE, running |-> TRUE,
              ports |-> {[public |-> port, type |-> "tcp"]}]

MCContainers == {{}, {Web(80)}}

MCGroupOrder == <<"Other">>
MCNameOrder == <<"web">>
MCIdOrder == <<<<"nas", "web">>, <<"pi", "web">>>>
MCIdText == [id \in ToSet(MCIdOrder) |-> id[1] \o "/" \o id[2]]
MCServiceIds == <<"nas/web", "pi/web">>
MCHash == [port \in {80} |-> "h80"]
==============================================================================
