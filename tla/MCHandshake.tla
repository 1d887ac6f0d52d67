---------------------------- MODULE MCHandshake ----------------------------
(* Handshake for TLC: two clients, two datasets, versions that agree, differ *)
(* in patch or minor, lack a part, and do not parse.                         *)
EXTENDS Handshake
CONSTANTS laptop, desktop, home, docs

MCServerVersion  == <<0, 3, 1>>
MCClientVersions == {<<0, 3, 1>>, <<0, 3, 0>>, <<0, 4, 1>>, <<1, 3, 1>>, <<0>>,
                     <<0, NotANumber>>}
=============================================================================
