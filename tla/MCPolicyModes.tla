---------------------------- MODULE MCPolicyModes ----------------------------
(* Two parts, the Default map and two others, two programs and one bank: a
   part and its neighbour, the map chosen, the one a file asks for and the
   power-on one. *)
EXTENDS PolicyModes
==============================================================================
