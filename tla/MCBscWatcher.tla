---------------------------- MODULE MCBscWatcher ----------------------------
(* Instances of BscWatcher for TLC. *)
EXTENDS BscWatcher
=============================================================================
