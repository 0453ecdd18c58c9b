-------------------------- MODULE MCReceiveBuffer ---------------------------
(* Scaled-down sizes: a cache line of 4 bytes, a huge page of 16, and every   *)
(* relation of bufferSize to them (0, less, equal, one more).                 *)
EXTENDS ReceiveBuffer

MCConfigs == [batchSize : {0, 1, 2}, bufferSize : {0, 3, 4, 5}] \cup
             [batchSize : {3}, bufferSize : {5}]
MCDatagrams == [size : {0, 3, 6}, stamped : {TRUE}] \cup {[size |-> 5, stamped |-> FALSE]}
=============================================================================
