--------------------------- MODULE MCEpollWorker ---------------------------
(***************************************************************************)
(* Instances of EpollWorker for TLC: which port a client uses and what it  *)
(* sends.                                                                  *)
(***************************************************************************)
EXTENDS EpollWorker, TLC

CONSTANTS c1, c2, c3, p1, p2, w1, w2

Symmetry == Permutations({w1, w2})

(* Two clients on two ports; three of them.                                *)
PortTwo   == (c1 :> p1) @@ (c2 :> p2)
PortThree == (c1 :> p1) @@ (c2 :> p2) @@ (c3 :> p1)

(* A request with keep-alive beside a TLS client.                          *)
ScriptMix == (c1 :> <<"ka">>) @@ (c2 :> <<"hello", "fin", "bye">>)

(* A request in two parts beside a TLS client.                             *)
ScriptParts == (c1 :> <<"head", "rest">>) @@ (c2 :> <<"hello">>)

(* Two requests on one connection.                                         *)
ScriptKeep == (c1 :> <<"ka", "ka">>) @@ (c2 :> <<"ka">>)

(* One request each.                                                       *)
ScriptOne == [c \in Conns |-> <<"bye">>]
=============================================================================
