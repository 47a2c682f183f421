------------------------- MODULE MCServerContainers -------------------------
(* Instances of ServerContainers for TLC. *)
EXTENDS ServerContainers, SequencesExt, TLC

\* A template that publishes one port.
TemplatePorts == <<1>>

\* The server that exists has the port the template prefers.
PreferredPort == [s \in Existing |-> {1}]

\* Every server that exists has a port of its own.
OwnPorts ==
  LET order == SetToSeq(Existing)
  IN  [s \in Existing |-> {CHOOSE n \in DOMAIN order : order[n] = s}]

\* Every kind of request is made about every server.
EveryKind == [s \in Servers |-> EditKinds \cup {"delete", "power"}]

\* The same, but of the server that exists only the ports are edited.
KindsBeside == [s \in Servers |-> IF s \in Existing THEN {"network"} ELSE EveryKind[s]]

\* Requests are interchangeable.
Symmetry == Permutations(Requests)
=============================================================================
