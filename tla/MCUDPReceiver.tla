--------------------------- MODULE MCUDPReceiver ----------------------------
(***************************************************************************)
(* Instances of UDPReceiver for TLC.  Two sockets at a time, so that one   *)
(* handler can act on the other's subscription, and more subscriptions     *)
(* than descriptors, so that descriptors are reused.  The batch holds one  *)
(* datagram less than a socket may.                                        *)
(***************************************************************************)
EXTENDS UDPReceiver, TLC

CONSTANTS f0, f1, f2, r1, r2, timerTag, none, freed

MCTimeouts == {0}
MCSymmetry == Permutations({f1, f2}) \cup Permutations({r1, r2})
MCCallbacks == [receiver : Receivers, sub : Subs]
=============================================================================
