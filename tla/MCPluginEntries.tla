---------------------------- MODULE MCPluginEntries ----------------------------
(* Instances of PluginEntries for TLC. *)
EXTENDS PluginEntries
=============================================================================
