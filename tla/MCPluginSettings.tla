-------------------------- MODULE MCPluginSettings --------------------------
(***************************************************************************)
(* PluginSettings on small instances.                                      *)
(***************************************************************************)
EXTENDS PluginSettings, TLC

MCPlugin == {"share"}
MCGated == {"share"}
MCNone == {}
=============================================================================
