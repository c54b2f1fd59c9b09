--------------------------- MODULE MCSubscriptions ---------------------------
(* A finite instance of Subscriptions for TLC: two connections and two     *)
(* subscriptions, on one connection or on two, of the type that is         *)
(* broadcast or of the one that is not.  A second feed would add that two  *)
(* broadcasts may meet on a connection, which ends like one meeting a      *)
(* response.                                                               *)
EXTENDS Subscriptions

CONSTANTS c1, c2
=============================================================================
