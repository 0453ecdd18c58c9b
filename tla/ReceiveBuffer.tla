---------------------------- MODULE ReceiveBuffer ---------------------------
(***************************************************************************)
(* The memory of a receiver: the buffer PacketReceiver maps and divides    *)
(* into slots, the message headers UDPReceiver keeps for recvmmsg, and     *)
(* their use by handleRead, batch after batch.                             *)
(*                                                                         *)
(* Addresses are offsets from m_hugeBuffer, and "memory" says which        *)
(* datagram each byte belongs to.  A packet handler may call runOnce,      *)
(* which may call handleRead again while the outer call is still handing   *)
(* over its batch: "frames" holds the calls in progress.                   *)
(***************************************************************************)
EXTENDS Integers, Sequences

CONSTANTS
  Configs,       \* the values of ReceiverConfig: [batchSize, bufferSize]
  CacheLine,     \* 64
  HugePage,      \* 2 MiB
  Datagrams,     \* what may arrive: [size, stamped]
  MaxDatagrams,  \* bound on the datagrams received
  MaxDepth       \* bound on handleRead calls inside one another

ASSUME BufferAssumption ==
  /\ Configs \subseteq [batchSize : Nat, bufferSize : Nat]
  /\ CacheLine \in Nat \ {0} /\ HugePage \in Nat \ {0}
  /\ Datagrams \subseteq [size : Nat, stamped : BOOLEAN]
  /\ MaxDatagrams \in Nat /\ MaxDepth \in Nat

VARIABLES
  config, stage,          \* "new", "thrown", "ready" or "destroyed"
  stride, mappedSize,     \* m_alignedBufferSize, m_mappedSize
  iov, header,            \* m_ioVectors, m_msgHeaders with their control buffers
  memory,                 \* offset -> number of the datagram, 0 for none
  frames, handed,         \* handleRead calls in progress; what the handler got
  received, nested        \* history: all datagrams; some call was a nested one

bufVars == <<config, stage, stride, mappedSize, iov, header, memory, frames,
             handed, received, nested>>
layout == <<config, stride, mappedSize, iov>>

Nothing == [from |-> -1]
Slots == 0 .. config.batchSize - 1

BufInit ==
  /\ config \in Configs
  /\ stage = "new" /\ stride = 0 /\ mappedSize = 0
  /\ iov = << >> /\ header = << >> /\ memory = << >>
  /\ frames = << >> /\ handed = Nothing
  /\ received = << >> /\ nested = FALSE
-----------------------------------------------------------------------------
\* (n + unit - 1) & ~(unit - 1)
RoundUp(n, unit) == ((n + unit - 1) \div unit) * unit

Stride == RoundUp(config.bufferSize, CacheLine)

\* Mutant: the mapping has room for unaligned slots only.
TotalUnaligned == config.batchSize * config.bufferSize

TotalRequested == config.batchSize * Stride

\* Mutant: the slots lie bufferSize apart.
SlotUnaligned(i) == i * config.bufferSize

\* Where slot i starts in the mapping.
Slot(i) == i * Stride

\* m_msgHeaders[i] after the constructor's memset.
NoMessage == [len |-> 0, truncated |-> FALSE, control |-> 0, stamp |-> 0]

(***************************************************************************)
(* The constructors.  mmap is tried with and without huge pages and fails  *)
(* for an empty mapping: then the constructor throws.                      *)
(***************************************************************************)
Construct ==
  /\ stage = "new"
  /\ stride' = Stride
  /\ LET size == RoundUp(TotalRequested, HugePage)
     IN  \/ /\ stage' = "thrown" /\ mappedSize' = 0
            /\ UNCHANGED <<iov, header, memory>>
         \/ /\ size > 0
            /\ stage' = "ready" /\ mappedSize' = size
            /\ iov' = [i \in Slots |-> [base |-> Slot(i), len |-> config.bufferSize]]
            /\ header' = [i \in Slots |-> NoMessage]
            /\ memory' = [a \in 0 .. size - 1 |-> 0]
  /\ UNCHANGED <<config, frames, handed, received, nested>>

\* ~PacketReceiver unmaps the buffer.  No handler of the receiver is running.
Destroy ==
  /\ stage = "ready" /\ frames = << >>
  /\ stage' = "destroyed" /\ memory' = << >>
  /\ UNCHANGED <<layout, header, frames, handed, received, nested>>
-----------------------------------------------------------------------------
(***************************************************************************)
(* recvmmsg, outside the repository: datagram number n is copied to the    *)
(* iovec of message k as far as it fits.  Its time stamp is stored if the  *)
(* control buffer has room, and msg_controllen set to what was stored.     *)
(***************************************************************************)
Copied(d, k) == IF d.size <= iov[k].len THEN d.size ELSE iov[k].len

Message(d, n, k, room) ==
  [len |-> Copied(d, k), truncated |-> d.size > iov[k].len,
   control |-> IF d.stamped THEN room ELSE 0,
   stamp |-> IF d.stamped /\ room = 1 THEN n ELSE 0]

\* Mutant: the room for control messages is what the last call left.
ControlRoomStale(k) == header[k].control

\* handleRead gives every message its whole control buffer again (1 stands for
\* CMSG_SPACE(sizeof(struct timespec))).
ControlRoom(k) == 1

\* handleRead up to the return of recvmmsg, which got the datagrams ds (none
\* when it failed).  Called by the loop, or by runOnce inside a packet handler.
HandleRead(ds) ==
  /\ stage = "ready"
  /\ frames # << >> => handed # Nothing
  /\ Len(frames) < MaxDepth
  /\ Len(ds) <= config.batchSize
  /\ LET first == Len(received) + 1
     IN  /\ header' = [k \in Slots |->
               IF k < Len(ds) THEN Message(ds[k + 1], first + k, k, ControlRoom(k))
               ELSE [header[k] EXCEPT !.control = ControlRoom(k)]]
         /\ memory' = [a \in DOMAIN memory |->
               LET hit == {k \in Slots : /\ k < Len(ds)
                                         /\ iov[k].base <= a
                                         /\ a < iov[k].base + Copied(ds[k + 1], k)}
               IN  IF hit = {} THEN memory[a]
                   ELSE first + (CHOOSE k \in hit : \A j \in hit : j <= k)]
         /\ frames' = Append(frames, [k |-> 0, n |-> Len(ds), first |-> first])
  /\ received' = received \o ds
  /\ nested' = (nested \/ frames # << >>)
  /\ handed' = Nothing
  /\ UNCHANGED <<stage, layout>>

Frame == frames[Len(frames)]

\* The calls of handleRead that wait for the innermost one.
OuterFrames == SubSeq(frames, 1, Len(frames) - 1)

MoreMessages == Frame.k < Frame.n

\* One round of the delivery loop; an empty datagram is passed over.
Deliver ==
  /\ frames # << >> /\ handed = Nothing /\ MoreMessages
  /\ frames' = Append(OuterFrames, [Frame EXCEPT !.k = @ + 1])
  /\ LET k == Frame.k
     IN  handed' = IF header[k].len = 0 THEN Nothing
                   ELSE [from |-> k * stride, len |-> header[k].len, slot |-> k,
                         truncated |-> header[k].truncated, stamp |-> header[k].stamp]
  /\ UNCHANGED <<stage, layout, header, memory, received, nested>>

HandlerReturns ==
  /\ handed # Nothing
  /\ handed' = Nothing
  /\ UNCHANGED <<stage, layout, header, memory, frames, received, nested>>

\* handleRead returns, and with it, if it was nested, the handler that called
\* runOnce: the outer call goes on with its next message.
HandleReadReturns ==
  /\ frames # << >> /\ handed = Nothing /\ ~MoreMessages
  /\ frames' = OuterFrames
  /\ UNCHANGED <<stage, layout, header, memory, handed, received, nested>>

BufNext ==
  \/ Construct \/ Destroy \/ Deliver \/ HandlerReturns \/ HandleReadReturns
  \/ /\ stage = "ready"
     /\ \E n \in 0 .. config.batchSize :
          /\ Len(received) + n <= MaxDatagrams
          /\ \E ds \in [1 .. n -> Datagrams] : HandleRead(ds)

BufSpec == BufInit /\ [][BufNext]_bufVars
-----------------------------------------------------------------------------
\* The constructor's layout: every slot the kernel writes to is aligned to a
\* cache line, lies inside the mapping, and shares no byte with another slot.
SlotsLaidOut ==
  stage = "ready" =>
    \A i \in Slots :
      /\ iov[i].base % CacheLine = 0
      /\ iov[i].base >= 0 /\ iov[i].base + iov[i].len <= mappedSize
      /\ \A j \in Slots : i < j => iov[i].base + iov[i].len <= iov[j].base

\* What handleRead hands over lies inside one slot and the mapping, also when a
\* nested call has replaced the headers the outer call goes on to use.
HandedInsideSlot ==
  handed # Nothing =>
    /\ handed.from = iov[handed.slot].base
    /\ handed.len <= iov[handed.slot].len
    /\ handed.from + handed.len <= mappedSize

\* A handler sees the datagram that was received for it, whole or marked as
\* truncated, with the time stamp the kernel gave to this datagram and to no
\* earlier one, as long as no handler runs the loop ("handleRead assumes exclusive
\* access to m_flatBuffer").
OwnDatagram ==
  handed # Nothing /\ ~nested =>
    LET id == Frame.first + handed.slot
        d == received[id]
    IN  /\ \A a \in handed.from .. handed.from + handed.len - 1 : memory[a] = id
        /\ handed.truncated = (d.size > config.bufferSize)
        /\ handed.len = IF handed.truncated THEN config.bufferSize ELSE d.size
        /\ handed.stamp = IF d.stamped THEN id ELSE 0
=============================================================================
