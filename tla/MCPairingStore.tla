--------------------------- MODULE MCPairingStore ---------------------------
(* Instances of PairingStore for TLC: the users differ by who is named in the *)
(* settings and who owns the bot, so there is no symmetry to use.             *)
EXTENDS PairingStore, TLC

=============================================================================
