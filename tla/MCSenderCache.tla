---------------------------- MODULE MCSenderCache ----------------------------
(* A finite instance of SenderCache for TLC.  Two goroutines look up one   *)
(* sender: entries of different senders share nothing but the lock.  The   *)
(* service is sure of a high score, or it is not; an entry lives for two   *)
(* ticks and a request takes up to two.                                    *)
EXTENDS SenderCache

CONSTANTS c1, c2

MCScoreResults == {[composite |-> 9000, confidence |-> 9000],
                   [composite |-> 9000, confidence |-> 3000]}
MCDiscounts    == {0, 2500}
=============================================================================
