---------------------------- MODULE MCPluginGate ----------------------------
(***************************************************************************)
(* PluginGate on small instances: share and sms stand for two ordinary     *)
(* plugins, mousepad for one that is off from the start, whose packets no  *)
(* id covers and whose capabilities are never withheld.                    *)
(***************************************************************************)
EXTENDS PluginGate, TLC

MCPlugin == {"share", "sms", "mousepad"}
MCGated == {"share", "sms"}
MCAnnounced == {"share", "sms"}
MCSeed == {"mousepad"}

Symmetry == Permutations(Conn)
=============================================================================
