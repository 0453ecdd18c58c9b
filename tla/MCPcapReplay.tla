---------------------------- MODULE MCPcapReplay ----------------------------
(***************************************************************************)
(* The instance of PcapReplay for TLC: empty and short files, packets      *)
(* closer than a millisecond, packets with equal and with decreasing       *)
(* timestamps, and more packets than a batch takes.                        *)
(***************************************************************************)
EXTENDS PcapReplay

MCFiles == {<<>>, <<5>>, <<3, 4, 4, 7, 8>>, <<2, 5, 3, 7>>}
=============================================================================
