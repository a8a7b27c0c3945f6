------------------------------ MODULE MCReqRes ------------------------------
(***************************************************************************)
(* Finite instances of ReqRes for TLC.                                      *)
(***************************************************************************)
EXTENDS ReqRes, TLC

CONSTANTS c1, c2

MCClients == {c1, c2}
ClientSymmetry == Permutations(MCClients)
NoFaults == {}
AllFaults == {"loan", "send", "clock", "serialize", "deserialize"}
=============================================================================
