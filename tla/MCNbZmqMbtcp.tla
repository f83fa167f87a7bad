---------------------------- MODULE MCNbZmqMbtcp ----------------------------
(***************************************************************************)
(* The register client on a small instance: two registers, the address the *)
(* program uses and two init_ip_port refuses.                              *)
(***************************************************************************)
EXTENDS NbZmqMbtcp, TLC

CONSTANTS u1, u2, u3

MCIds == {u1, u2, u3}
MCAddresses == {[len |-> 11, port |-> 502], [len |-> 11, port |-> 5001],
                [len |-> 5, port |-> 502]}

IdSymmetry == Permutations(MCIds)
=============================================================================
