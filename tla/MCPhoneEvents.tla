---------------------------- MODULE MCPhoneEvents ----------------------------
(***************************************************************************)
(* PhoneEvents on small instances: one phone with two notifications and    *)
(* another one that uses one of the two ids.  One of them changes.         *)
(***************************************************************************)
EXTENDS PhoneEvents

MCNote == {<<"phone", "i">>, <<"phone", "j">>, <<"tablet", "i">>}
MCContent == {"news", "changed"}
MCSent == (MCNote \X {"news"}) \cup {<<<<"phone", "i">>, "changed">>}
=============================================================================
