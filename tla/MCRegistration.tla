--------------------------- MODULE MCRegistration ---------------------------
(* Values of the constants of Registration for TLC. *)
EXTENDS Registration, TLC

CONSTANTS h1, h2, c1, c2
ChannelSymmetry == Permutations({c1, c2})
Symmetry == Permutations({h1, h2}) \cup ChannelSymmetry
=============================================================================
