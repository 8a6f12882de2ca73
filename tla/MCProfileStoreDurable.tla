------------------------ MODULE MCProfileStoreDurable ------------------------
(* Small instances of ProfileStoreDurable for TLC. *)
EXTENDS ProfileStoreDurable, MCProfileStore
=============================================================================
