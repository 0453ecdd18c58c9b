------------------------------ MODULE PcapFile ------------------------------
(***************************************************************************)
(* Reading a capture file with PcapReceiver: open, rewind, step and the    *)
(* destructor, in the legacy pcap and in the pcapng format.                *)
(*                                                                         *)
(* A file is a record: "format" ("pcap", "ng", or "other" for a magic      *)
(* number the code does not know), "order" (the byte order: "native",      *)
(* "swapped", or "bad" for an unknown byte order magic), "nano", "link",   *)
(* its "size" in bytes, and its "blocks" in the order of the file.  A file *)
(* may be cut off: then size is less than what the blocks need.  A block   *)
(* has a "type" ("packet", "IDB" or "other"), its length "len" in bytes    *)
(* and the fields of its type.  The cursor m_currentPtr is the offset      *)
(* "pos" from m_mappedData, so every bound is checked in bytes.            *)
(*                                                                         *)
(* The packet handler runs in the middle of step(), before the cursor      *)
(* moves on; it may itself call step() and rewind().  "stack" holds the    *)
(* steps whose handler is running.  Which port a packet goes to is         *)
(* PcapDispatch's subject, and when it is played PcapReplay's: here the    *)
(* receiver is in STEP mode, and m_firstPacket is left out.                *)
(***************************************************************************)
EXTENDS Integers, Sequences, FiniteSets

CONSTANTS Files,        \* Files[n]: the files the n-th call of open() may meet
          Garbage,      \* blocks the code may see where no block starts
          MaxRewinds,   \* bound on calls of rewind()
          MaxDepth,     \* bound on step() calls inside one another
          NsPerSec,     \* 1000000000
          UsPerSec,     \* 1000000
          Word,         \* 2^64, the range of uint64_t
          WordBits      \* 64

ASSUME UnitsAssumption ==
    /\ NsPerSec \in Nat \ {0, 1} /\ UsPerSec \in Nat \ {0} /\ Word \in Nat \ {0}
    /\ NsPerSec % UsPerSec = 0 /\ WordBits \in Nat \ {0}

MaxOpens == Len(Files)   \* bound on calls of open()

NoFile == [format |-> "none", order |-> "native", size |-> 0, blocks |-> << >>]
NoPacket == [at |-> -1]

VARIABLES fd, mapped, size, pos,               \* the mapping and the cursor
          isPcapNg, swapped, nano, linkType,   \* what open() found
          interfaces, finished,
          pc, stack, out,        \* the call in progress, the packet handed over
          usable, alive,         \* the last open() succeeded; not yet destroyed
          fds, maps,             \* what the kernel holds for this receiver
          opens, ngOpens, rewinds, reentered, played   \* history

mapping == << fd, mapped, size, fds, maps >>
format == << isPcapNg, swapped, nano, linkType >>
history == << opens, ngOpens, rewinds, reentered, played >>
fileVars == << mapping, pos, format, interfaces, finished, pc, stack, out,
               usable, alive, history >>

FileInit ==
    /\ fd = -1 /\ mapped = NoFile /\ size = 0 /\ pos = 0
    /\ isPcapNg = TRUE /\ swapped = FALSE /\ nano = FALSE /\ linkType = 0
    /\ interfaces = << >> /\ finished = FALSE
    /\ pc = "app" /\ stack = << >> /\ out = NoPacket
    /\ usable = FALSE /\ alive = TRUE /\ fds = 0 /\ maps = 0
    /\ opens = 0 /\ ngOpens = 0 /\ rewinds = 0 /\ reentered = FALSE /\ played = 0
-----------------------------------------------------------------------------
(* Layout: the sizes of the structures on disk, in bytes.                  *)

FileHdr == 24      \* sizeof(pcap_file_header)
PktHdr == 16       \* sizeof(pcap_sf_pkthdr)
BlockHdr == 8      \* sizeof(PcapNgBlockHeader)
EpbBody == 20      \* sizeof(PcapNgEPBBody)

FirstBlock(f) == IF f.format = "ng" THEN 0 ELSE FileHdr

\* Starts(f)[i] is the offset of the i-th block of the file.
Starts(f) ==
    LET start[i \in 1 .. Len(f.blocks) + 1] ==
          IF i = 1 THEN FirstBlock(f) ELSE start[i - 1] + f.blocks[i - 1].len
    IN  start

\* The block the code sees at the cursor: a block of the file where one starts
\* and the fields are read in the file's byte order, and anything otherwise.
BlocksAtCursor ==
    LET here == {i \in 1 .. Len(mapped.blocks) : Starts(mapped)[i] = pos}
    IN  IF here # {} /\ mapped.format # "other" /\ swapped = (mapped.order = "swapped")
        THEN {mapped.blocks[i] : i \in here}
        ELSE Garbage
-----------------------------------------------------------------------------
(* open(), rewind() and the destructor.                                    *)

CanOpen == alive /\ pc = "app" /\ stack = << >> /\ opens < MaxOpens

\* ::open fails, or fstat fails and the new descriptor is closed again.  The
\* descriptor of an earlier file is forgotten either way.
OpenFails ==
    /\ CanOpen
    /\ fd' = -1 /\ usable' = FALSE /\ opens' = opens + 1
    /\ UNCHANGED << mapped, size, fds, maps, pos, format, interfaces, finished, pc,
                    stack, out, alive, ngOpens, rewinds, reentered, played >>

\* mmap fails (as it must on an empty file): m_fileSize is already the new one.
OpenCannotMap(f) ==
    /\ CanOpen
    /\ fd' = -1 /\ size' = f.size /\ usable' = FALSE /\ opens' = opens + 1
    /\ UNCHANGED << mapped, fds, maps, pos, format, interfaces, finished, pc,
                    stack, out, alive, ngOpens, rewinds, reentered, played >>

\* The byte order magic of a pcapng file; an unknown one changes nothing.
ReadByteOrder(f) ==
    /\ swapped' = IF f.order = "bad" THEN swapped ELSE f.order = "swapped"
    /\ nano' = IF f.order = "bad" THEN nano ELSE TRUE

\* The magic number of a legacy file; an unknown one changes nothing.
ReadMagic(f) ==
    /\ swapped' = IF f.format = "other" THEN swapped ELSE f.order = "swapped"
    /\ nano' = IF f.format = "other" THEN nano ELSE f.nano

ReadHeader(f) ==
    \/ /\ f.size < FileHdr
       /\ usable' = FALSE
       /\ UNCHANGED << pos, format >>
    \/ /\ f.size >= FileHdr /\ f.format = "ng"
       /\ isPcapNg' = TRUE /\ pos' = 0 /\ ReadByteOrder(f)
       /\ usable' = (f.order # "bad")
       /\ UNCHANGED linkType
    \/ /\ f.size >= FileHdr /\ f.format # "ng"
       /\ isPcapNg' = FALSE /\ pos' = FileHdr /\ ReadMagic(f)
       /\ linkType' = f.link /\ usable' = TRUE

OpenMaps(f) ==
    /\ CanOpen /\ f.size > 0
    /\ fd' = opens /\ mapped' = f /\ size' = f.size
    /\ fds' = fds + 1 /\ maps' = maps + 1
    /\ ReadHeader(f)
    /\ opens' = opens + 1 /\ played' = 0
    /\ ngOpens' = ngOpens + (IF f.format = "ng" THEN 1 ELSE 0)
    /\ UNCHANGED << interfaces, finished, pc, stack, out, alive, rewinds, reentered >>

Rewound == IF isPcapNg THEN 0 ELSE FileHdr

\* rewind(), called by the application or by a packet handler.  The table of
\* interfaces is kept.
Rewind ==
    /\ alive /\ usable /\ pc = "app" /\ rewinds < MaxRewinds
    /\ pos' = Rewound
    /\ finished' = FALSE
    /\ played' = 0 /\ rewinds' = rewinds + 1
    /\ reentered' = (reentered \/ stack # << >>)
    /\ UNCHANGED << mapping, format, interfaces, pc, stack, out, usable, alive,
                    opens, ngOpens >>

\* Mutant: the mapping of a file that open() rejected is not released.
IsMappedUsable == usable

IsMapped == mapped # NoFile

\* ~PcapReceiver.
Destroy ==
    /\ alive /\ pc = "app" /\ stack = << >>
    /\ alive' = FALSE
    /\ maps' = IF IsMapped THEN maps - 1 ELSE maps
    /\ fds' = IF fd >= 0 THEN fds - 1 ELSE fds
    /\ UNCHANGED << fd, mapped, size, pos, format, interfaces, finished, pc, stack,
                    out, usable, history >>
-----------------------------------------------------------------------------
(* step(): internalStep for a legacy file, stepPcapNg for a pcapng file.   *)

\* step() is called by the application or by a packet handler.
Step ==
    /\ alive /\ usable /\ pc = "app" /\ Len(stack) < MaxDepth
    /\ pc' = "step"
    /\ reentered' = (reentered \/ stack # << >>)
    /\ UNCHANGED << mapping, pos, format, interfaces, finished, stack, out, usable,
                    alive, opens, ngOpens, rewinds, played >>

\* What the fields of the packet become.  f is the sub-second part in the unit
\* of the file; the products are taken in uint64_t.
LegacyTime(sec, f) ==
    [sec |-> sec, nsec |-> IF nano THEN f ELSE f * (NsPerSec \div UsPerSec)]

Timespec(raw, div) ==
    [sec |-> raw \div div, nsec |-> (((raw % div) * NsPerSec) % Word) \div div]

\* Mutant: options are read past the end-of-options mark.
EndOfOptionsIgnored(o) == FALSE

\* Units per second from the options of an interface: the last if_tsresol of
\* one byte before the end-of-options mark, microseconds without one.
EndOfOptions(o) == o.code = 0

\* base to the n in an arithmetic where arith[x] is what becomes of a product x.
PowerIn(arith, base, n) ==
    LET p[i \in 0 .. n] == IF i = 0 THEN 1 ELSE arith[p[i - 1] * base]
    IN  p[n]

Wrapped == [x \in Nat |-> x % Word]

\* Mutant: the product starts from 0.
PowerFromZero(base, n) == 0

\* 10^n by repeated multiplication in uint64_t: 0 from n = WordBits on.
Power(base, n) == PowerIn(Wrapped, base, n)

\* 1ULL << n: from WordBits on undefined, in the builds a shift by n modulo the
\* width or the loss of the bit.
Shifts(n) == IF n < WordBits THEN {Power(2, n)} ELSE {Power(2, n % WordBits), 0}

Divisors(options) ==
    LET ends == {i \in DOMAIN options : EndOfOptions(options[i])}
        tsresol == {i \in DOMAIN options : /\ options[i].code = 9 /\ options[i].vlen = 1
                                           /\ \A j \in ends : i < j}
        last == options[CHOOSE i \in tsresol : \A j \in tsresol : j <= i]
    IN  IF tsresol = {} THEN {UsPerSec}
        ELSE IF last.base = 2 THEN Shifts(last.exp) ELSE {Power(10, last.exp)}

\* m_interfaces[ifId]: operator[] makes an entry of zeros for an unknown id.
Interface(ifId) ==
    IF ifId \in DOMAIN interfaces THEN interfaces[ifId] ELSE [link |-> 0, div |-> 0]

\* parseAndDispatch's arguments are fixed and the handler runs; afterwards the
\* cursor becomes `then` (legacy), or moves on by `then` bytes (pcapng).
HandOver(b, time, link, data, then) ==
    /\ out' = [at |-> pos, time |-> time, link |-> link, caplen |-> b.cap,
               len |-> b.orig, from |-> data, to |-> data + b.cap]
    /\ stack' = Append(stack, [ng |-> isPcapNg, then |-> then])
    /\ played' = IF reentered THEN 0 ELSE played + 1
    /\ pc' = "app"
    /\ UNCHANGED << mapping, pos, format, interfaces, finished, usable, alive,
                    opens, ngOpens, rewinds, reentered >>

StepEnds ==
    /\ finished' = TRUE /\ pc' = "app"
    /\ UNCHANGED << mapping, pos, format, interfaces, stack, out, usable, alive,
                    history >>

\* Mutant: a block that ends where the file ends is not read.
NoRoomForLast(bytes) == pos + bytes >= size

NoRoomFor(bytes) == pos + bytes > size

\* Mutants: a length is not compared with the end, or not with the minimum.
BadLengthTooShort(b) == b.len < BlockHdr
BadLengthTooLong(b) == NoRoomFor(b.len)

BadLength(b) == b.len < BlockHdr \/ NoRoomFor(b.len)

LegacyEof == pc = "step" /\ ~isPcapNg /\ NoRoomFor(PktHdr) /\ StepEnds

\* Mutant: the cursor moves on by the data alone.
NextLegacyData(b) == pos + b.cap

NextLegacy(b) == pos + PktHdr + b.cap

LegacyPacket(b) ==
    /\ pc = "step" /\ ~isPcapNg /\ ~NoRoomFor(PktHdr)
    /\ b.type = "packet"
    /\ HandOver(b, LegacyTime(b.sec, b.frac), linkType, pos + PktHdr, NextLegacy(b))

NgEof ==
    /\ pc = "step" /\ isPcapNg
    /\ NoRoomFor(BlockHdr) \/ \E b \in BlocksAtCursor : BadLength(b)
    /\ StepEnds

NgBlock(b) == pc = "step" /\ isPcapNg /\ ~NoRoomFor(BlockHdr) /\ ~BadLength(b)

\* Mutant: m_interfaceCount is incremented before it is used.
InterfaceCountFromOne == Cardinality(DOMAIN interfaces) + 1

InterfaceCount == Cardinality(DOMAIN interfaces)

\* A block that is no packet is skipped; an interface is entered in the table.
NgSkip(b) ==
    /\ NgBlock(b) /\ b.type # "packet"
    /\ pos' = pos + b.len
    /\ \/ b.type # "IDB" /\ UNCHANGED interfaces
       \/ /\ b.type = "IDB"
          /\ \E div \in Divisors(b.options) :
               interfaces' = [id \in DOMAIN interfaces \cup {InterfaceCount} |->
                                IF id = InterfaceCount
                                THEN [link |-> b.link, div |-> div] ELSE interfaces[id]]
    /\ UNCHANGED << mapping, format, finished, pc, stack, out, usable, alive, history >>

NgPacket(b) ==
    /\ NgBlock(b) /\ b.type = "packet" /\ Interface(b.ifId).div # 0
    /\ LET info == Interface(b.ifId)
       IN  HandOver(b, Timespec(b.raw, info.div), info.link,
                    pos + BlockHdr + EpbBody, b.len)

\* The division by a resolution of 0 ends the process: that of an unknown interface,
\* or one that does not fit in uint64_t.
NgDivideByZero(b) ==
    /\ NgBlock(b) /\ b.type = "packet" /\ Interface(b.ifId).div = 0
    /\ pc' = "crashed"
    /\ UNCHANGED << mapping, pos, format, interfaces, finished, stack, out, usable,
                    alive, history >>

\* The handler returns to the step that called it, which moves the cursor and
\* returns true.
HandlerReturns ==
    /\ pc = "app" /\ stack # << >>
    /\ LET step == stack[Len(stack)]
       IN  pos' = IF step.ng THEN pos + step.then ELSE step.then
    /\ stack' = SubSeq(stack, 1, Len(stack) - 1) /\ out' = NoPacket
    /\ UNCHANGED << mapping, format, interfaces, finished, pc, usable, alive,
                    history >>
-----------------------------------------------------------------------------
Reading ==
    \/ LegacyEof \/ NgEof
    \/ \E b \in BlocksAtCursor :
          LegacyPacket(b) \/ NgSkip(b) \/ NgPacket(b) \/ NgDivideByZero(b)

FileNext ==
    \/ OpenFails \/ Rewind \/ Destroy \/ Step \/ HandlerReturns \/ Reading
    \/ CanOpen /\ \E f \in Files[opens + 1] : OpenCannotMap(f) \/ OpenMaps(f)

FileSpec == FileInit /\ [][FileNext]_fileVars

\* A call of step() is a loop without waiting: it goes on once it has begun.
FairFileSpec == FileSpec /\ WF_fileVars(Reading)
-----------------------------------------------------------------------------
(* What the file says, to compare with what the code hands over.           *)

IdbsOf(f) == {i \in 1 .. Len(f.blocks) : f.blocks[i].type = "IDB"}

IdbsBefore(f, i) == Cardinality({j \in IdbsOf(f) : j < i})

\* The description of the interface that the packets of the file call id.
Described(f, id) == f.blocks[CHOOSE i \in IdbsOf(f) : IdbsBefore(f, i) = id]

\* The packets of which the file holds enough: all of a pcapng block, whose length
\* must include its header, and the header of a legacy packet.
Playable(f) ==
    {i \in 1 .. Len(f.blocks) :
       /\ f.blocks[i].type = "packet"
       /\ f.format = "ng" => f.blocks[i].len >= BlockHdr
       /\ Starts(f)[i] + (IF f.format = "ng" THEN f.blocks[i].len ELSE PktHdr) <= f.size}

\* No legacy packet has its header inside the file and its data cut off.
DataComplete(f) ==
    \A i \in Playable(f) : Starts(f)[i] + f.blocks[i].len <= f.size

\* Every interface is described before the first packet.
InterfacesFirst(f) ==
    \A i, j \in 1 .. Len(f.blocks) :
        f.blocks[i].type = "IDB" /\ f.blocks[j].type = "packet" => i < j

(***************************************************************************)
(* The files: a legacy packet is its header and its data.  The captured    *)
(* length of a packet of a pcapng file need not agree with the length of   *)
(* its block (a block shorter than its body lies over the next ones, whose *)
(* bytes are then its fields), but the packet names an interface described *)
(* before it.  The blocks are all of the file: no header fits behind the   *)
(* last one, or the last one states a length that ends reading.            *)
(***************************************************************************)
IsBlock(b) ==
    /\ b.type \in {"packet", "IDB", "other"} /\ b.len \in Nat
    /\ b.type = "packet" => b.cap \in Nat

LegacyBlock(f, b) ==
    /\ b.type = "packet" /\ b.len = PktHdr + b.cap /\ b.sec \in Nat
    /\ b.frac \in 0 .. (IF f.nano THEN NsPerSec ELSE UsPerSec) - 1

\* Units per second of a resolution, Word for all that do not fit in uint64_t.
Saturated == [x \in Nat |-> IF x < Word THEN x ELSE Word]

UnitOf(o) == IF o.exp < WordBits THEN PowerIn(Saturated, o.base, o.exp) ELSE Word

\* The options of an interface say how many units a second has: the last option
\* if_tsresol, of one byte, with no end-of-options mark before it, or the default.
UnitIs(options, unit) ==
    LET Says(i) == /\ options[i].code = 9 /\ options[i].vlen = 1
                   /\ \A j \in DOMAIN options : options[j].code = 0 => i < j
    IN  \/ unit = UsPerSec /\ \A i \in DOMAIN options : ~Says(i)
        \/ \E i \in DOMAIN options :
             /\ Says(i) /\ unit = UnitOf(options[i])
             /\ \A j \in DOMAIN options : Says(j) => j <= i

\* The byte of an if_tsresol: its high bit is the base, the others the exponent.
IsOption(o) == o.code = 9 /\ o.vlen = 1 => o.base \in {2, 10} /\ o.exp \in 0 .. 127

NgBlockAt(f, i) ==
    LET b == f.blocks[i]
    IN  /\ i < Len(f.blocks) => b.len >= BlockHdr
        /\ b.type = "packet" => b.raw \in Nat /\ b.ifId \in 0 .. IdbsBefore(f, i) - 1
        /\ b.type = "IDB" => /\ b.unit \in Nat \ {0} /\ UnitIs(b.options, b.unit)
                             /\ DOMAIN b.options \subseteq Nat
                             /\ \A o \in DOMAIN b.options : IsOption(b.options[o])

NoTail(f) ==
    LET n == Len(f.blocks)
    IN  IF f.format = "ng"
        THEN \/ n > 0 /\ f.blocks[n].len < BlockHdr
             \/ Starts(f)[n + 1] + BlockHdr > f.size
        ELSE Starts(f)[n + 1] + PktHdr > f.size

IsFile(f) ==
    /\ f.format \in {"pcap", "ng", "other"} /\ f.order \in {"native", "swapped", "bad"}
    /\ f.nano \in BOOLEAN /\ f.size \in Nat
    /\ f.blocks \in Seq({f.blocks[i] : i \in DOMAIN f.blocks})
    /\ \A i \in 1 .. Len(f.blocks) :
         /\ IsBlock(f.blocks[i])
         /\ IF f.format = "ng" THEN NgBlockAt(f, i) ELSE LegacyBlock(f, f.blocks[i])
    /\ NoTail(f)

ASSUME FilesAssumption ==
    /\ Len(Files) \in Nat /\ MaxDepth \in Nat
    /\ \A n \in 1 .. Len(Files) : \A f \in Files[n] : IsFile(f)
    /\ \A b \in Garbage : IsBlock(b)

\* What a reader of the file should be given for the packet at offset at.  The
\* "unit" of an interface is its resolution in units per second.
Nanoseconds(f, b) ==
    IF f.format = "ng" THEN (b.raw * NsPerSec) \div Described(f, b.ifId).unit
    ELSE b.sec * NsPerSec + b.frac * (IF f.nano THEN 1 ELSE NsPerSec \div UsPerSec)

LinkOf(f, b) == IF f.format = "ng" THEN Described(f, b.ifId).link ELSE f.link

\* The unit fits in uint64_t.
ResolutionFits(f, b) == Described(f, b.ifId).unit < Word

\* The unit is coarse enough for the conversion to stay inside uint64_t.
UnitFits(f, b) ==
    f.format = "ng" => Described(f, b.ifId).unit <= Word \div NsPerSec

Captured(f, b) ==
    /\ out.link = LinkOf(f, b) /\ out.caplen = b.cap /\ out.len = b.orig
    /\ UnitFits(f, b) =>
         /\ out.time.nsec \in 0 .. NsPerSec - 1
         /\ out.time.sec * NsPerSec + out.time.nsec = Nanoseconds(f, b)

Delivered == {b \in BlocksAtCursor : out.at = pos}

\* The table of interfaces belongs to the file: it is the only pcapng file opened
\* so far, and it was not read again from the start while the table was partial.
OwnTable == ngOpens = 1 /\ (rewinds = 0 \/ InterfacesFirst(mapped))
Known == mapped.format # "other" /\ (isPcapNg => OwnTable /\ ~reentered)
-----------------------------------------------------------------------------
(* Properties.                                                             *)

\* Every variable stays in its type; the table of interfaces has no gaps.
FileTypeOK ==
    /\ fd \in -1 .. MaxOpens /\ size \in Nat /\ pos \in Nat
    /\ isPcapNg \in BOOLEAN /\ swapped \in BOOLEAN /\ nano \in BOOLEAN
    /\ finished \in BOOLEAN /\ pc \in {"app", "step", "crashed"} /\ Len(stack) <= MaxDepth
    /\ usable => mapped # NoFile /\ mapped.size = size /\ fd >= 0
    /\ interfaces = << >> \/ DOMAIN interfaces = 0 .. Cardinality(DOMAIN interfaces) - 1

\* The bytes handed to a handler lie inside the mapping.  For a pcapng file this
\* holds wherever it is cut off and wherever handlers moved the cursor, as long as
\* the captured length of the packet fits in its block: stepPcapNg compares the
\* block with the end of the file, but not the captured length with the block.
\* internalStep compares only the header with the end: a legacy file must not be
\* cut off in the data of a packet.
ReadsInsideFile ==
    out # NoPacket =>
        IF isPcapNg
        THEN BlockHdr + EpbBody + out.caplen <= stack[Len(stack)].then => out.to <= size
        ELSE mapped.format = "pcap" /\ DataComplete(mapped) => out.to <= size

\* A handler is given the packet as the file describes it: lengths, link layer,
\* and a normalised timestamp that is exact to the nanosecond.  For a legacy file
\* this holds whatever was opened before and however often it is rewound.  Two
\* cases of a pcapng file are left out.  UnitFits: with a finer resolution the
\* product of the conversion, or the resolution itself, overflows uint64_t, and
\* only the time is wrong.  OwnTable: when another pcapng file was read before, or
\* the file again with a partial table, m_interfaceCount goes on counting, and the
\* ids in the file are not the indexes of the table ("Maps Interface ID (index in
\* file) to its metadata", PcapReceiver.h:207).
PacketAsCaptured == Known => \A b \in Delivered : Captured(mapped, b)

\* With every interface described before its packets (stepPcapNg, "Assuming IDB
\* appeared before EPB"), a timestamp is divided by zero only when the resolution
\* that the table holds for the interface is 0, never because the interface is
\* missing from it, also after rewinds and other files, unless a handler moved the
\* cursor under a step.  In a table that is the file's own it is 0 only when the
\* resolution stated does not fit in uint64_t (10^64 units per second, or a shift
\* by 64 bits, and more).
InterfaceKnown ==
    pc = "crashed" /\ ~reentered =>
        \E b \in BlocksAtCursor :
            /\ b.type = "packet" /\ b.ifId \in DOMAIN interfaces
            /\ OwnTable => ~ResolutionFits(mapped, b)

\* Between two calls the cursor is where a block of the file starts (or at its
\* end).  For a legacy file a handler that steps or rewinds cannot disturb it,
\* for internalStep sets the cursor from the packet it read.
CursorAtBlock ==
    usable /\ mapped.format # "other" /\ pc = "app" /\ stack = << >>
           /\ (isPcapNg => ~reentered) =>
        \E i \in DOMAIN Starts(mapped) : pos = Starts(mapped)[i]

\* Between two rewinds no packet is left out or played twice: a step that hands
\* over a packet hands over the next one of the file, and step() reports the end
\* only when every packet of which the file holds enough (all of a pcapng block, the
\* header alone of a legacy packet) has been handed over.
NextPacketOrEnd ==
    [][pc = "step" /\ pc' = "app" /\ Known /\ ~reentered =>
          IF stack' # stack
          THEN LET i == CHOOSE i \in 1 .. Len(mapped.blocks) : Starts(mapped)[i] = pos
               IN  /\ i \in Playable(mapped)
                   /\ played = Cardinality({j \in Playable(mapped) : j < i})
          ELSE played = Cardinality(Playable(mapped))]_fileVars

\* The destructor releases the mapping and the descriptor, whichever step of
\* open() failed, for a receiver on which open() was called once.
ReleasedWhenDestroyed == ~alive /\ opens <= 1 => fds = 0 /\ maps = 0

\* Every call of step() comes to an end, whatever lengths the blocks state.
StepReturns == pc = "step" ~> pc # "step"
=============================================================================
