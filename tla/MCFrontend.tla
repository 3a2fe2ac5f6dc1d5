------------------------------ MODULE MCFrontend ------------------------------
(* Small instances of Frontend for TLC. *)
EXTENDS Frontend
CONSTANTS a, b, k, biology, physics, cells, plants

MCSections == <<"chat">>
MCHome == [chat \in {cells, plants} |-> biology]
MCFirstNames == [i \in {biology, physics, cells, plants} |->
  IF i = biology THEN "name" ELSE IF i = cells THEN "New Chat" ELSE None]
MCCut == [v \in Names |-> IF v = "long name" THEN "name" ELSE v]
=============================================================================
