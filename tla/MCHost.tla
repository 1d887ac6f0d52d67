------------------------------- MODULE MCHost -------------------------------
(* Host for TLC: a target dataset with a child, and a dataset that does not *)
(* exist.                                                                   *)
EXTENDS Host

Laptop == <<"laptop">>
Home   == <<"laptop", "home">>
Gone   == <<"tower">>

MCOrder    == <<Laptop, Home, Gone>>
MCNested   == {Laptop, Home}
MCSingle   == {Home}
MCVersions == {<<2, 3, 0>>, <<2, 2, 9>>, <<>>}
MCArguments == {<<>>, <<Home, Gone, Home>>, <<<<"", "laptop">>>>}

NoClients  == [n \in {} |-> {}]
MCServerFile ==
  [server |-> TRUE, source |-> FALSE, remotes |-> {}, datasets |-> NoClients,
   clients |-> [n \in {"a", "b"} |-> IF n = "a" THEN {Home, Laptop} ELSE {Home, Gone}]]
SourceFile ==
  [server |-> FALSE, source |-> TRUE, remotes |-> {"r"}, clients |-> NoClients,
   datasets |-> [d \in {Home, Gone} |-> {"r"}]]
BadRemote  == [SourceFile EXCEPT !.remotes = {}]
NoConfig   == [SourceFile EXCEPT !.source = FALSE]

MCConfigs    == {MCServerFile, SourceFile, BadRemote, NoConfig}
MCServerOnly == {MCServerFile}
MCStuck      == {Home}
MCSupported  == {<<2, 3, 0>>}
=============================================================================
