------------------------ MODULE MCProfileStoreRegister ------------------------
(* Small instances of ProfileStoreRegister for TLC. *)
EXTENDS ProfileStoreRegister, MCProfileStore
=============================================================================
