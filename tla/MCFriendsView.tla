---------------------------- MODULE MCFriendsView ----------------------------
(* Values for TLC: negative numbers cannot be written in a configuration. *)
EXTENDS FriendsView

OnOff == {-1, 1}
=============================================================================
