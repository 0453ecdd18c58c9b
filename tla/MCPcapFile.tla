----------------------------- MODULE MCPcapFile -----------------------------
(* Capture files for PcapFile: legacy and pcapng, in either byte order, whole *)
(* and cut short by any number of bytes up to Cut, with the interface options *)
(* that matter.                                                               *)
EXTENDS PcapFile, TLC

CONSTANT Cut   \* how many bytes at most a file is cut short by

Packet(sec, frac, cap) ==
    [type |-> "packet", len |-> PktHdr + cap, sec |-> sec, frac |-> frac,
     cap |-> cap, orig |-> cap]
Legacy(order, isNano, link, blocks) ==
    [format |-> "pcap", order |-> order, nano |-> isNano, link |-> link,
     size |-> 0, blocks |-> blocks]
Ng(order, blocks) ==
    [format |-> "ng", order |-> order, nano |-> FALSE, link |-> 0, size |-> 0,
     blocks |-> blocks]
Epb(ifId, raw, cap) ==
    [type |-> "packet", len |-> BlockHdr + EpbBody + 4 * ((cap + 3) \div 4) + 4,
     ifId |-> ifId, raw |-> raw, cap |-> cap, orig |-> cap]
Idb(link, options, unit) ==
    [type |-> "IDB", len |-> 20 + 8 * Len(options), link |-> link,
     options |-> options, unit |-> unit]
Other(len) == [type |-> "other", len |-> len]
Tsresol(base, exp) == [code |-> 9, vlen |-> 1, base |-> base, exp |-> exp]
EndMark == [code |-> 0, vlen |-> 0]

Whole(f) == [f EXCEPT !.size = Starts(f)[Len(f.blocks) + 1]]
CutShort(f) ==
    {[f EXCEPT !.size = n] : n \in {n \in 0 .. Whole(f).size : n >= Whole(f).size - Cut}}

Shb == Other(28)
Micro == Legacy("native", FALSE, 1, << Packet(3, 7, 2), Packet(4, 0, 5) >>)
Nano == Legacy("swapped", TRUE, 113, << Packet(3, 77, 0) >>)
Unknown == [Nano EXCEPT !.format = "other"]
Plain == Ng("native", << Shb, Idb(1, << >>, UsPerSec), Epb(0, 42, 2), Epb(0, 43, 3) >>)
Two == Ng("swapped",
          << Shb, Idb(1, << Tsresol(10, 3), EndMark, Tsresol(10, 1) >>, 1000),
             Idb(113, << Tsresol(2, 5) >>, 32), Epb(1, 75, 1), Other(12), Epb(0, 4321, 4) >>)
Late == Ng("native", << Shb, Idb(1, << >>, UsPerSec), Epb(0, 42, 0),
                        Idb(113, << Tsresol(10, 4) >>, 10000), Epb(1, 9999, 0) >>)
Broken == Ng("native", << Shb, Idb(1, << >>, UsPerSec), Epb(0, 1, 0), Other(0) >>)
BrokenPacket == [Broken EXCEPT !.blocks[4] = [Epb(0, 2, 0) EXCEPT !.len = 4]]
\* Resolutions that do not fit: a wrapped power, a shift by more than the width,
\* and a power that is 0.
Fine == Ng("native",
           << Shb, Idb(1, << Tsresol(10, 7) >>, Word), Idb(1, << Tsresol(2, 21) >>, Word),
              Idb(1, << Tsresol(10, 20) >>, Word), Epb(0, 42, 0), Epb(1, 43, 0), Epb(2, 44, 0) >>)
\* A packet block that ends in its own body, and captured lengths beyond the block.
Short == Ng("native",
            << Shb, Idb(1, << >>, UsPerSec), [Epb(0, 42, 2) EXCEPT !.len = 12],
               [Epb(0, 43, 3) EXCEPT !.cap = 9], [Epb(0, 44, 0) EXCEPT !.cap = 50] >>)
BadOrder == Ng("bad", << Shb >>)

First == {Whole(Micro), Whole(Plain), Whole(Fine), Whole(BadOrder), [Nano EXCEPT !.size = 23]}
Second ==
    UNION {CutShort(f) : f \in {Micro, Plain, Two}}
      \cup {Whole(f) : f \in {Nano, Unknown, Late, Fine, Short, BadOrder}}
      \cup {[f EXCEPT !.size = Whole(f).size + 8] : f \in {Broken, BrokenPacket}}
MCFiles == << First, Second >>

MCGarbage == {Other(0), Other(31), [Epb(0, 5, 1) EXCEPT !.len = 33] @@ [sec |-> 1, frac |-> 1]}
=============================================================================
