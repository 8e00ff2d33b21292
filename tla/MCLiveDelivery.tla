--------------------------- MODULE MCLiveDelivery ---------------------------
(***************************************************************************)
(* LiveDelivery under three loads: one socket over a longer history, one   *)
(* socket beside HTTP requests, and two sockets of one Stream.             *)
(***************************************************************************)
EXTENDS LiveDelivery

CONSTANTS s1, s2

MCSockets == {s1, s2}
MCLoads == {[sockets |-> {s1}, head |-> MaxHead, http |-> FALSE],
            [sockets |-> {s1}, head |-> 2, http |-> TRUE],
            [sockets |-> {s1, s2}, head |-> 1, http |-> FALSE]}

=============================================================================
