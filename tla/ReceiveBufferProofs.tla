------------------------ MODULE ReceiveBufferProofs -------------------------
(***************************************************************************)
(* For every configuration, cache line and page size: the slots of the     *)
(* receive buffer are laid out correctly, handleRead never hands over      *)
(* bytes outside a slot, however deep its calls are nested, and without    *)
(* nested calls every handler is given the datagram received for it.       *)
(***************************************************************************)
EXTENDS ReceiveBuffer, TLAPS

-----------------------------------------------------------------------------
(* Arithmetic of the layout.                                               *)

\* Rounding up loses nothing and gives a multiple of the unit.
LEMMA RoundUpBounds ==
  ASSUME NEW n \in Nat, NEW unit \in Nat \ {0}
  PROVE  /\ RoundUp(n, unit) \in Nat
         /\ RoundUp(n, unit) >= n
         /\ \E q \in Nat : RoundUp(n, unit) = q * unit
<1> DEFINE q == (n + unit - 1) \div unit
<1>1. q \in Nat /\ q * unit <= n + unit - 1 /\ n + unit - 1 < q * unit + unit
  OBVIOUS
<1>2. RoundUp(n, unit) = q * unit
  BY DEF RoundUp
<1> HIDE DEF q
<1>3. RoundUp(n, unit) \in Nat /\ RoundUp(n, unit) >= n
  BY <1>1, <1>2
<1>4. QED BY <1>1, <1>2, <1>3

\* A slot starts at a multiple of the cache line.
LEMMA MultipleOfMultiple ==
  ASSUME NEW i \in Nat, NEW q \in Nat, NEW unit \in Nat \ {0}
  PROVE (i * (q * unit)) % unit = 0
<1>1. i * (q * unit) = (i * q) * unit /\ i * q \in Nat
  OBVIOUS
<1>2. \A m \in Nat : (m * unit) % unit = 0
  OBVIOUS
<1>3. QED BY <1>1, <1>2

\* Slots are at least a stride apart.
LEMMA StrideApart ==
  ASSUME NEW i \in Nat, NEW j \in Nat, NEW s \in Nat, i < j
  PROVE i * s \in Nat /\ j * s \in Nat /\ i * s + s <= j * s
OBVIOUS

-----------------------------------------------------------------------------
(***************************************************************************)
(* The inductive invariant.  The headers are bounded by the slots whatever *)
(* call wrote them, so a call may use headers of another one; a call in    *)
(* progress stays below batchSize.                                         *)
(***************************************************************************)
Frames == [k : Nat, n : 0 .. config.batchSize, first : Nat]

LayoutInv ==
  stage = "ready" =>
    /\ stride = Stride
    /\ mappedSize = RoundUp(TotalRequested, HugePage)
    /\ iov = [i \in Slots |-> [base |-> Slot(i), len |-> config.bufferSize]]

HeaderInv ==
  stage = "ready" => \A k \in Slots : header[k].len \in 0 .. config.bufferSize

HandedInv ==
  handed # Nothing =>
    /\ frames # << >>
    /\ handed.slot \in Slots
    /\ handed.from = handed.slot * stride
    /\ handed.len \in 0 .. config.bufferSize

BufInv ==
  /\ config \in Configs
  /\ received \in Seq(Datagrams)
  /\ frames \in Seq(Frames)
  /\ frames # << >> => stage = "ready"
  /\ LayoutInv /\ HeaderInv /\ HandedInv

LEMMA ConfigType ==
  ASSUME config \in Configs
  PROVE  config.batchSize \in Nat /\ config.bufferSize \in Nat /\ Stride \in Nat
         /\ Stride >= config.bufferSize /\ TotalRequested \in Nat
<1>1. config.batchSize \in Nat /\ config.bufferSize \in Nat
  BY BufferAssumption
<1>2. Stride \in Nat /\ Stride >= config.bufferSize
  BY <1>1, RoundUpBounds, BufferAssumption DEF Stride
<1>3. QED BY <1>1, <1>2 DEF TotalRequested

LEMMA BufInitially == BufInit => BufInv
BY DEF BufInit, BufInv, LayoutInv, HeaderInv, HandedInv, Nothing

\* The last frame is a frame, and replacing or removing it keeps the sequence.
LEMMA FrameStack ==
  ASSUME frames \in Seq(Frames), frames # << >>
  PROVE  /\ Frame \in Frames
         /\ OuterFrames \in Seq(Frames)
         /\ \A f \in Frames : Append(OuterFrames, f) \in Seq(Frames)
<1>1. Len(frames) \in Nat \ {0} /\ Frame \in Frames
  BY DEF Frame
<1>2. OuterFrames \in Seq(Frames)
  BY <1>1 DEF OuterFrames
<1>3. QED BY <1>1, <1>2

-----------------------------------------------------------------------------
(* Every step keeps the invariant.                                         *)

LEMMA ConstructKeeps == BufInv /\ Construct => BufInv'
<1> SUFFICES ASSUME BufInv, Construct PROVE BufInv'
  OBVIOUS
<1> USE DEF Construct, Nothing
<1>1. config' = config /\ received' = received /\ frames' = frames /\ handed' = handed
  OBVIOUS
<1>2. frames = << >> /\ handed = Nothing
  BY DEF BufInv, HandedInv
<1>3. LayoutInv'
  BY <1>1 DEF LayoutInv, Stride, TotalRequested, Slots, Slot
<1>4. HeaderInv'
  <2> SUFFICES ASSUME stage' = "ready", NEW k \in Slots'
               PROVE header'[k].len \in 0 .. config.bufferSize
    BY <1>1 DEF HeaderInv
  <2>1. config.bufferSize \in Nat
    BY ConfigType DEF BufInv
  <2>2. header' = [i \in Slots |-> NoMessage] /\ Slots' = Slots
    BY <1>1 DEF Slots
  <2>3. QED BY <2>1, <2>2 DEF NoMessage
<1>5. HandedInv'
  BY <1>1, <1>2 DEF HandedInv
<1>6. QED
  BY <1>1, <1>2, <1>3, <1>4, <1>5 DEF BufInv, Frames

LEMMA DestroyKeeps == BufInv /\ Destroy => BufInv'
<1> SUFFICES ASSUME BufInv, Destroy PROVE BufInv'
  OBVIOUS
<1>1. config' = config /\ received' = received /\ frames' = << >> /\ handed' = handed
      /\ stage' = "destroyed"
  BY DEF Destroy, layout
<1>2. QED
  BY <1>1 DEF BufInv, LayoutInv, HeaderInv, HandedInv, Frames, Destroy

\* What recvmmsg copies fits the slot, so the headers stay bounded by it.
LEMMA HandleReadKeeps ==
  ASSUME NEW n \in Nat, NEW ds \in [1 .. n -> Datagrams], BufInv, HandleRead(ds)
  PROVE  BufInv'
<1>1. UNCHANGED <<stage, layout>> /\ handed' = Nothing /\ stage = "ready"
  BY DEF HandleRead
<1>2. config' = config /\ stride' = stride /\ mappedSize' = mappedSize /\ iov' = iov
  BY <1>1 DEF layout
<1>3. Slots' = Slots
  BY <1>2 DEF Slots
<1>4. ds \in Seq(Datagrams) /\ Len(ds) = n /\ n <= config.batchSize
  <2>1. ds \in Seq(Datagrams)
    OBVIOUS
  <2>2. Len(ds) = n
    BY <2>1
  <2>3. QED BY <2>1, <2>2 DEF HandleRead
<1>5. received' \in Seq(Datagrams)
  BY <1>4 DEF HandleRead, BufInv
<1>6. frames' \in Seq(Frames')
  <2>1. frames' = Append(frames, [k |-> 0, n |-> Len(ds), first |-> Len(received) + 1])
    BY DEF HandleRead
  <2>2. Len(received) \in Nat
    BY DEF BufInv
  <2>3. [k |-> 0, n |-> Len(ds), first |-> Len(received) + 1] \in Frames
    BY <1>4, <2>2, ConfigType DEF Frames, BufInv
  <2>4. Frames' = Frames
    BY <1>2 DEF Frames
  <2>5. QED BY <2>1, <2>3, <2>4 DEF BufInv
<1>7. LayoutInv'
  BY <1>1, <1>2, <1>3 DEF BufInv, LayoutInv, Stride, TotalRequested, Slot
<1>8. HeaderInv'
  <2> SUFFICES ASSUME NEW k \in Slots
               PROVE  header'[k].len \in 0 .. config.bufferSize
    BY <1>1, <1>2, <1>3 DEF HeaderInv
  <2>1. header' = [j \in Slots |->
               IF j < Len(ds)
               THEN Message(ds[j + 1], Len(received) + 1 + j, j, ControlRoom(j))
               ELSE [header[j] EXCEPT !.control = ControlRoom(j)]]
    BY DEF HandleRead
  <2>2. k \in Nat /\ config.bufferSize \in Nat
    BY ConfigType DEF BufInv, Slots
  <2>3. CASE k < Len(ds)
    <3>1. header'[k].len = Copied(ds[k + 1], k)
      BY <2>1, <2>3 DEF Message
    <3>2. ds[k + 1].size \in Nat
      BY <1>4, <2>2, <2>3, BufferAssumption
    <3>3. iov[k].len = config.bufferSize
      BY <1>1 DEF BufInv, LayoutInv
    <3>4. QED BY <2>2, <3>1, <3>2, <3>3 DEF Copied
  <2>4. CASE ~(k < Len(ds))
    <3>1. header'[k] = [header[k] EXCEPT !.control = ControlRoom(k)]
      BY <2>1, <2>4
    <3>2. header'[k].len = header[k].len
      BY <3>1
    <3>3. QED BY <1>1, <3>2 DEF BufInv, HeaderInv
  <2>5. QED BY <2>3, <2>4
<1>9. HandedInv'
  BY <1>1 DEF HandedInv
<1>10. QED
  BY <1>1, <1>2, <1>5, <1>6, <1>7, <1>8, <1>9 DEF BufInv

LEMMA AdvanceFrame ==
  ASSUME NEW f \in Frames
  PROVE  [f EXCEPT !.k = @ + 1] \in Frames
<1>1. f.k + 1 \in Nat /\ f.n \in 0 .. config.batchSize /\ f.first \in Nat
  BY DEF Frames
<1>2. [f EXCEPT !.k = @ + 1] = [k |-> f.k + 1, n |-> f.n, first |-> f.first]
  BY DEF Frames
<1>3. QED BY <1>1, <1>2 DEF Frames

LEMMA DeliverKeeps == BufInv /\ Deliver => BufInv'
<1> SUFFICES ASSUME BufInv, Deliver PROVE BufInv'
  OBVIOUS
<1>1. UNCHANGED <<stage, layout, header, received>> /\ frames # << >>
  BY DEF Deliver
<1>2. config' = config /\ stride' = stride /\ mappedSize' = mappedSize /\ iov' = iov
  BY <1>1 DEF layout
<1>3. Slots' = Slots /\ Frames' = Frames /\ stage = "ready" /\ config \in Configs
  BY <1>1, <1>2 DEF Slots, Frames, BufInv
<1>4. LayoutInv' /\ HeaderInv'
  BY <1>1, <1>2, <1>3 DEF BufInv, LayoutInv, HeaderInv, Stride, TotalRequested, Slot
<1>5. Frame \in Frames /\ \A f \in Frames : Append(OuterFrames, f) \in Seq(Frames)
  BY <1>1, FrameStack DEF BufInv
<1>6. frames' \in Seq(Frames') /\ frames' # << >>
  <2>1. [Frame EXCEPT !.k = @ + 1] \in Frames
    BY <1>5, AdvanceFrame
  <2>2. frames' = Append(OuterFrames, [Frame EXCEPT !.k = @ + 1])
    BY DEF Deliver
  <2>3. OuterFrames \in Seq(Frames)
    BY <1>1, FrameStack DEF BufInv
  <2>4. QED BY <1>3, <1>5, <2>1, <2>2, <2>3
<1>7. Frame.k \in Slots
  <2>1. config.batchSize \in Nat
    BY <1>3, ConfigType
  <2>2. Frame.k \in Nat /\ Frame.n \in 0 .. config.batchSize
    BY <1>5 DEF Frames
  <2>3. Frame.k < Frame.n
    BY DEF Deliver, MoreMessages
  <2>4. QED BY <2>1, <2>2, <2>3 DEF Slots
<1>8. HandedInv'
  <2> DEFINE k == Frame.k
  <2>1. handed' # Nothing =>
          handed' = [from |-> k * stride, len |-> header[k].len, slot |-> k,
                     truncated |-> header[k].truncated, stamp |-> header[k].stamp]
    BY DEF Deliver
  <2>2. header[k].len \in 0 .. config.bufferSize
    BY <1>3, <1>7 DEF BufInv, HeaderInv
  <2> HIDE DEF k
  <2>3. handed' # Nothing =>
          /\ handed'.slot = k /\ handed'.from = k * stride
          /\ handed'.len \in 0 .. config.bufferSize
    BY <2>1, <2>2
  <2>4. QED BY <1>2, <1>3, <1>6, <1>7, <2>3 DEF HandedInv, k
<1>9. QED BY <1>1, <1>2, <1>3, <1>4, <1>6, <1>8 DEF BufInv

LEMMA HandlerReturnsKeeps == BufInv /\ HandlerReturns => BufInv'
<1> SUFFICES ASSUME BufInv, HandlerReturns PROVE BufInv'
  OBVIOUS
<1>1. UNCHANGED <<stage, layout, header, received, frames>> /\ handed' = Nothing
  BY DEF HandlerReturns
<1>2. config' = config /\ stride' = stride /\ mappedSize' = mappedSize /\ iov' = iov
  BY <1>1 DEF layout
<1>3. Slots' = Slots /\ Frames' = Frames
  BY <1>2 DEF Slots, Frames
<1>4. LayoutInv' /\ HeaderInv' /\ HandedInv'
  BY <1>1, <1>2, <1>3
  DEF BufInv, LayoutInv, HeaderInv, HandedInv, Stride, TotalRequested, Slot
<1>5. QED BY <1>1, <1>2, <1>3, <1>4 DEF BufInv

LEMMA HandleReadReturnsKeeps == BufInv /\ HandleReadReturns => BufInv'
<1> SUFFICES ASSUME BufInv, HandleReadReturns PROVE BufInv'
  OBVIOUS
<1>1. UNCHANGED <<stage, layout, header, received, handed>> /\ handed = Nothing
      /\ frames # << >> /\ frames' = OuterFrames
  BY DEF HandleReadReturns
<1>2. config' = config /\ stride' = stride /\ mappedSize' = mappedSize /\ iov' = iov
  BY <1>1 DEF layout
<1>3. Slots' = Slots /\ Frames' = Frames
  BY <1>2 DEF Slots, Frames
<1>4. LayoutInv' /\ HeaderInv' /\ HandedInv'
  BY <1>1, <1>2, <1>3
  DEF BufInv, LayoutInv, HeaderInv, HandedInv, Stride, TotalRequested, Slot
<1>5. frames' \in Seq(Frames') /\ stage' = "ready"
  BY <1>1, <1>3, FrameStack DEF BufInv
<1>6. QED BY <1>1, <1>2, <1>4, <1>5 DEF BufInv

LEMMA BufInvHolds == BufSpec => []BufInv
<1>1. BufInv /\ [BufNext]_bufVars => BufInv'
  <2> SUFFICES ASSUME BufInv, [BufNext]_bufVars PROVE BufInv'
    OBVIOUS
  <2>1. CASE Construct
    BY <2>1, ConstructKeeps
  <2>2. CASE Destroy
    BY <2>2, DestroyKeeps
  <2>3. CASE Deliver
    BY <2>3, DeliverKeeps
  <2>4. CASE HandlerReturns
    BY <2>4, HandlerReturnsKeeps
  <2>5. CASE HandleReadReturns
    BY <2>5, HandleReadReturnsKeeps
  <2>6. CASE \E n \in 0 .. config.batchSize : \E ds \in [1 .. n -> Datagrams] : HandleRead(ds)
    BY <2>6, HandleReadKeeps, ConfigType DEF BufInv
  <2>7. CASE UNCHANGED bufVars
    BY <2>7 DEF bufVars, BufInv, LayoutInv, HeaderInv, HandedInv, Frames, Slots, Stride,
                TotalRequested, Slot
  <2>8. QED
    BY <2>1, <2>2, <2>3, <2>4, <2>5, <2>6, <2>7 DEF BufNext
<1>2. QED
  BY BufInitially, <1>1, PTL DEF BufSpec

-----------------------------------------------------------------------------
(* What follows from the invariant.                                        *)

\* Slot i, and the room up to the next one, lie inside the mapping.
LEMMA SlotBounds ==
  ASSUME config \in Configs, NEW i \in Slots
  PROVE  /\ i \in Nat /\ Slot(i) \in Nat
         /\ Slot(i) + config.bufferSize <= RoundUp(TotalRequested, HugePage)
<1>1. /\ config.batchSize \in Nat /\ config.bufferSize \in Nat /\ Stride \in Nat
      /\ Stride >= config.bufferSize /\ TotalRequested \in Nat
  BY ConfigType
<1>2. i \in Nat /\ i < config.batchSize
  BY <1>1 DEF Slots
<1>3. Slot(i) \in Nat /\ Slot(i) + Stride <= TotalRequested
  BY <1>1, <1>2, StrideApart DEF Slot, TotalRequested
<1>4. RoundUp(TotalRequested, HugePage) \in Nat
      /\ RoundUp(TotalRequested, HugePage) >= TotalRequested
  BY <1>1, RoundUpBounds, BufferAssumption
<1>5. QED BY <1>1, <1>2, <1>3, <1>4

\* For every configuration the constructors lay the slots out aligned, apart and
\* inside the mapping.
THEOREM LayoutCorrect == BufSpec => []SlotsLaidOut
<1>1. BufInv => SlotsLaidOut
  <2> SUFFICES ASSUME BufInv, stage = "ready", NEW i \in Slots
               PROVE  /\ iov[i].base % CacheLine = 0
                      /\ iov[i].base >= 0 /\ iov[i].base + iov[i].len <= mappedSize
                      /\ \A j \in Slots : i < j => iov[i].base + iov[i].len <= iov[j].base
    BY DEF SlotsLaidOut
  <2>1. \A j \in Slots : iov[j].base = Slot(j) /\ iov[j].len = config.bufferSize
    BY DEF BufInv, LayoutInv
  <2>2. config \in Configs /\ mappedSize = RoundUp(TotalRequested, HugePage)
    BY DEF BufInv, LayoutInv
  <2>3. i \in Nat /\ Slot(i) \in Nat /\ Slot(i) + config.bufferSize <= mappedSize
    BY <2>2, SlotBounds
  <2>4. Slot(i) % CacheLine = 0
    <3>1. PICK q \in Nat : Stride = q * CacheLine
      BY <2>2, ConfigType, RoundUpBounds, BufferAssumption, Zenon DEF Stride
    <3>2. Slot(i) = i * (q * CacheLine)
      BY <3>1 DEF Slot
    <3>3. QED BY <2>3, <3>2, MultipleOfMultiple, BufferAssumption
  <2>5. ASSUME NEW j \in Slots, i < j
        PROVE  Slot(i) + config.bufferSize <= Slot(j)
    <3>1. j \in Nat /\ Stride \in Nat /\ Stride >= config.bufferSize
          /\ config.bufferSize \in Nat
      BY <2>2, ConfigType, SlotBounds
    <3>2. i * Stride \in Nat /\ j * Stride \in Nat /\ i * Stride + Stride <= j * Stride
      BY <2>3, <2>5, <3>1, StrideApart
    <3>3. QED BY <3>1, <3>2 DEF Slot
  <2>6. \A j \in Slots : i < j => iov[i].base + iov[i].len <= iov[j].base
    BY <2>1, <2>5
  <2>7. iov[i].base = Slot(i) /\ iov[i].len = config.bufferSize
    BY <2>1
  <2>8. QED BY <2>3, <2>4, <2>6, <2>7
<1>2. QED BY BufInvHolds, <1>1, PTL

\* For every configuration, handleRead hands over bytes of one slot only, at any
\* depth of nesting.
THEOREM HandedInside == BufSpec => []HandedInsideSlot
<1>1. BufInv => HandedInsideSlot
  <2> SUFFICES ASSUME BufInv, handed # Nothing PROVE HandedInsideSlot
    BY DEF HandedInsideSlot
  <2>1. /\ handed.slot \in Slots /\ handed.from = handed.slot * stride
        /\ handed.len \in 0 .. config.bufferSize /\ stage = "ready"
    BY DEF BufInv, HandedInv
  <2>2. /\ iov[handed.slot].base = Slot(handed.slot)
        /\ iov[handed.slot].len = config.bufferSize
        /\ handed.from = Slot(handed.slot)
        /\ mappedSize = RoundUp(TotalRequested, HugePage)
    BY <2>1 DEF BufInv, LayoutInv, Slot
  <2>3. Slot(handed.slot) \in Nat /\ Slot(handed.slot) + config.bufferSize <= mappedSize
    BY <2>1, <2>2, SlotBounds DEF BufInv
  <2>4. config.bufferSize \in Nat /\ mappedSize \in Nat
    BY <2>2, ConfigType, RoundUpBounds, BufferAssumption, Zenon DEF BufInv
  <2>5. QED BY <2>1, <2>2, <2>3, <2>4 DEF HandedInsideSlot
<1>2. QED BY BufInvHolds, <1>1, PTL

-----------------------------------------------------------------------------
(***************************************************************************)
(* While no call is nested there is at most one call in progress, and its  *)
(* slots hold its own datagrams: in the headers, in the time stamps and in *)
(* the bytes.  The slots are disjoint, so no message of a batch overwrites *)
(* another one.                                                            *)
(***************************************************************************)
OwnSlot(k) ==
  LET id == Frame.first + k
  IN  /\ id \in 1 .. Len(received)
      /\ header[k] = Message(received[id], id, k, 1)
      /\ \A a \in Slot(k) .. Slot(k) + header[k].len - 1 : memory[a] = id

DatagramInv ==
  /\ stage = "ready" => DOMAIN memory = 0 .. mappedSize - 1
  /\ ~nested =>
       /\ Len(frames) <= 1
       /\ frames # << >> => \A k \in 0 .. Frame.n - 1 : OwnSlot(k)
       /\ handed # Nothing =>
            /\ handed.slot \in 0 .. Frame.n - 1
            /\ handed.from = Slot(handed.slot)
            /\ handed.len = header[handed.slot].len
            /\ handed.truncated = header[handed.slot].truncated
            /\ handed.stamp = header[handed.slot].stamp

\* An address belongs to one slot at most.
LEMMA SlotUnique ==
  ASSUME config \in Configs, NEW i \in Slots, NEW j \in Slots, NEW a \in Int,
         Slot(i) <= a, a < Slot(i) + config.bufferSize,
         Slot(j) <= a, a < Slot(j) + config.bufferSize
  PROVE  i = j
<1>1. /\ i \in Nat /\ j \in Nat /\ Stride \in Nat /\ Stride >= config.bufferSize
      /\ config.bufferSize \in Nat /\ Slot(i) \in Nat /\ Slot(j) \in Nat
  BY ConfigType, SlotBounds
<1>2. ~(i < j)
  <2>1. i < j => Slot(i) + Stride <= Slot(j)
    BY <1>1, StrideApart DEF Slot
  <2> QED
    BY <1>1, <2>1
<1>3. ~(j < i)
  <2>1. j < i => Slot(j) + Stride <= Slot(i)
    BY <1>1, StrideApart DEF Slot
  <2> QED
    BY <1>1, <2>1
<1> QED
  BY <1>1, <1>2, <1>3

\* What recvmmsg wrote for message k stays in place: the bytes of slot k are the
\* bytes of datagram first + k.
LEMMA HandleReadOwn ==
  ASSUME NEW n \in Nat, NEW ds \in [1 .. n -> Datagrams], BufInv, DatagramInv, HandleRead(ds)
  PROVE  DatagramInv'
<1>1. PICK first : first = Len(received) + 1
  OBVIOUS
<1>2. /\ stage = "ready" /\ stage' = "ready" /\ handed' = Nothing /\ nested' = (nested \/ frames # << >>)
      /\ config' = config /\ stride' = stride /\ mappedSize' = mappedSize /\ iov' = iov
      /\ received' = received \o ds
      /\ frames' = Append(frames, [k |-> 0, n |-> Len(ds), first |-> first])
      /\ Len(ds) <= config.batchSize
  BY <1>1 DEF HandleRead, layout
<1>3. header' = [k \in Slots |->
               IF k < Len(ds) THEN Message(ds[k + 1], first + k, k, ControlRoom(k))
               ELSE [header[k] EXCEPT !.control = ControlRoom(k)]]
  BY <1>1 DEF HandleRead
<1>4. memory' = [a \in DOMAIN memory |->
               LET hit == {k \in Slots : /\ k < Len(ds)
                                         /\ iov[k].base <= a
                                         /\ a < iov[k].base + Copied(ds[k + 1], k)}
               IN  IF hit = {} THEN memory[a]
                   ELSE first + (CHOOSE k \in hit : \A j \in hit : j <= k)]
  BY <1>1 DEF HandleRead
<1>5. /\ ds \in Seq(Datagrams) /\ Len(ds) = n /\ n <= config.batchSize
      /\ config \in Configs /\ config.batchSize \in Nat /\ config.bufferSize \in Nat
      /\ received \in Seq(Datagrams) /\ Len(received) \in Nat /\ first \in Nat
  <2>1. ds \in Seq(Datagrams)
    OBVIOUS
  <2>2. Len(ds) = n
    BY <2>1
  <2> QED
    BY <1>1, <1>2, <2>1, <2>2, ConfigType, SMTT(30) DEF BufInv
<1>6. /\ Slots' = Slots /\ \A k : Slot(k)' = Slot(k)
      /\ \A k \in Slots : iov[k].base = Slot(k) /\ iov[k].len = config.bufferSize
      /\ mappedSize = RoundUp(TotalRequested, HugePage)
  BY <1>2 DEF Slots, Slot, Stride, BufInv, LayoutInv
<1>7. DOMAIN memory' = 0 .. mappedSize' - 1
  BY <1>2, <1>4 DEF DatagramInv
<1>8. SUFFICES ASSUME ~nested'
               PROVE  /\ Len(frames') <= 1
                      /\ \A k \in 0 .. Frame'.n - 1 : OwnSlot(k)'
  BY <1>2, <1>7 DEF DatagramInv
<1>9. frames = << >> /\ Len(frames') = 1 /\ Frame' = [k |-> 0, n |-> n, first |-> first]
  <2>1. frames = << >>
    BY <1>2, <1>8, Zenon
  <2>2. frames' = <<[k |-> 0, n |-> n, first |-> first]>>
    BY <1>2, <1>5, <2>1
  <2> QED
    BY <2>1, <2>2 DEF Frame
<1>10. ASSUME NEW k \in 0 .. n - 1
       PROVE  OwnSlot(k)'
  <2>1. /\ k \in Slots /\ k \in Nat /\ k < n /\ k + 1 \in 1 .. n
        /\ first + k \in 1 .. Len(received')
    BY <1>1, <1>2, <1>5 DEF Slots
  <2>2. received'[first + k] = ds[k + 1] /\ ds[k + 1] \in Datagrams
    BY <1>1, <1>2, <1>5, <2>1, SMTT(30)
  <2>3. header'[k] = Message(ds[k + 1], first + k, k, 1)
    BY <1>3, <1>5, <2>1 DEF ControlRoom
  <2>4. Message(received[first + k], first + k, k, 1)' = Message(ds[k + 1], first + k, k, 1)
    BY <1>2, <2>2 DEF Message, Copied
  <2>5. PICK c : c = Copied(ds[k + 1], k)
    OBVIOUS
  <2>6. header'[k].len = c /\ c \in 0 .. config.bufferSize
    <3>1. header'[k].len = c
      BY <2>3, <2>5 DEF Message
    <3>2. ds[k + 1].size \in Nat
      BY <2>2, BufferAssumption
    <3>3. iov[k].len = config.bufferSize
      BY <1>6, <2>1
    <3> QED
      BY <1>5, <2>5, <3>1, <3>2, <3>3, SMTT(30) DEF Copied
  <2>7. ASSUME NEW a \in Slot(k) .. Slot(k) + c - 1
        PROVE  memory'[a] = first + k
    <3>1. Slot(k) \in Nat /\ Slot(k) + config.bufferSize <= mappedSize
      BY <1>5, <1>6, <2>1, SlotBounds
    <3>2. mappedSize \in Nat
      BY <1>5, <1>6, ConfigType, RoundUpBounds, BufferAssumption, Zenon
    <3>3. a \in 0 .. mappedSize - 1 /\ Slot(k) <= a /\ a < Slot(k) + c
          /\ a < Slot(k) + config.bufferSize
      BY <1>5, <2>6, <3>1, <3>2, SMTT(30)
    <3>4. a \in DOMAIN memory
      BY <1>2, <3>3 DEF DatagramInv
    <3>5. PICK hit : hit = {i \in Slots : /\ i < Len(ds)
                                          /\ iov[i].base <= a
                                          /\ a < iov[i].base + Copied(ds[i + 1], i)}
      BY Zenon
    <3>6. memory'[a] = IF hit = {} THEN memory[a]
                       ELSE first + (CHOOSE i \in hit : \A j \in hit : j <= i)
      BY <1>4, <3>4, <3>5
    <3>7. k \in hit
      BY <1>5, <1>6, <2>1, <2>5, <3>3, <3>5
    <3>8. ASSUME NEW i \in hit
          PROVE  i = k
      <4>1. i \in Slots /\ i \in Nat /\ i < n
        BY <1>5, <3>5 DEF Slots
      <4>2. ds[i + 1].size \in Nat
        <5>1. i + 1 \in 1 .. n
          BY <4>1
        <5> QED
          BY <5>1, BufferAssumption
      <4>3. Copied(ds[i + 1], i) \in 0 .. config.bufferSize
        BY <1>5, <1>6, <4>1, <4>2 DEF Copied
      <4>4. Slot(i) <= a /\ a < Slot(i) + Copied(ds[i + 1], i) /\ Slot(i) \in Nat
        BY <1>5, <1>6, <3>5, <4>1, SlotBounds
      <4>5. a < Slot(i) + config.bufferSize /\ a \in Int
        BY <1>5, <3>3, <4>3, <4>4
      <4> QED
        BY <1>5, <2>1, <3>3, <4>1, <4>4, <4>5, SlotUnique
    <3>9. hit = {k}
      BY <3>7, <3>8, Zenon
    <3>10. (CHOOSE i \in hit : \A j \in hit : j <= i) = k
      BY <2>1, <3>9, SMTT(30)
    <3> QED
      BY <3>6, <3>9, <3>10
  <2>8. /\ Frame'.first + k = first + k /\ Slot(k)' = Slot(k)
        /\ \A a \in Slot(k)' .. Slot(k)' + header'[k].len - 1 : memory'[a] = first + k
    BY <1>6, <1>9, <2>6, <2>7
  <2> QED
    BY <2>1, <2>3, <2>4, <2>8 DEF OwnSlot
<1> QED
  BY <1>9, <1>10

\* One round of the delivery loop hands over what the header of its slot says.
LEMMA DeliverOwn == BufInv /\ DatagramInv /\ Deliver => DatagramInv'
<1> SUFFICES ASSUME BufInv, DatagramInv, Deliver PROVE DatagramInv'
  OBVIOUS
<1>1. /\ UNCHANGED <<stage, config, stride, mappedSize, iov, header, memory, received, nested>>
      /\ frames # << >> /\ frames' = Append(OuterFrames, [Frame EXCEPT !.k = @ + 1])
      /\ Frame.k < Frame.n
  BY DEF Deliver, layout, MoreMessages
<1>2. SUFFICES ASSUME ~nested
               PROVE  /\ Len(frames') <= 1
                      /\ \A k \in 0 .. Frame'.n - 1 : OwnSlot(k)'
                      /\ handed' # Nothing =>
                           /\ handed'.slot \in 0 .. Frame'.n - 1
                           /\ handed'.from = Slot(handed.slot)'
                           /\ handed'.len = header'[handed'.slot].len
                           /\ handed'.truncated = header'[handed'.slot].truncated
                           /\ handed'.stamp = header'[handed'.slot].stamp
  BY <1>1 DEF DatagramInv
<1>3. /\ frames \in Seq(Frames) /\ Len(frames) = 1 /\ Frame \in Frames
      /\ config.batchSize \in Nat /\ stage = "ready" /\ stride = Stride
  <2>1. frames \in Seq(Frames) /\ config \in Configs /\ stage = "ready" /\ stride = Stride
    BY <1>1 DEF BufInv, LayoutInv
  <2>2. Len(frames) <= 1 /\ Len(frames) # 0 /\ Len(frames) \in Nat
    BY <1>1, <1>2, <2>1 DEF DatagramInv
  <2> QED
    <3>1. Frame \in Frames
      BY <1>1, <2>1, FrameStack
    <3>2. config.batchSize \in Nat
      BY <2>1, ConfigType
    <3>3. Len(frames) = 1
      <4>1. \A m \in Nat : m <= 1 /\ m # 0 => m = 1
        OBVIOUS
      <4> QED
        BY <2>2, <4>1, Zenon
    <3> QED
      BY <2>1, <3>1, <3>2, <3>3, Zenon
<1>4. /\ Len(frames') = 1 /\ Frame' = [Frame EXCEPT !.k = @ + 1]
  <2>1. OuterFrames = << >>
    BY <1>3 DEF OuterFrames
  <2>2. frames' = <<[Frame EXCEPT !.k = @ + 1]>>
    BY <1>1, <2>1
  <2> QED
    BY <2>2 DEF Frame
<1>5. Frame'.n = Frame.n /\ Frame'.first = Frame.first
  BY <1>3, <1>4 DEF Frames
<1>6. \A k \in 0 .. Frame'.n - 1 : OwnSlot(k)'
  <2>1. \A k : OwnSlot(k) => OwnSlot(k)'
    BY <1>1, <1>5 DEF OwnSlot, Message, Copied, Slot, Stride
  <2> QED
    BY <1>1, <1>2, <1>5, <2>1, Zenon DEF DatagramInv
<1>7. PICK k : k = Frame.k
  OBVIOUS
<1>8. k \in 0 .. Frame'.n - 1 /\ Slot(k)' = k * stride
  BY <1>1, <1>3, <1>5, <1>7 DEF Frames, Slot, Stride
<1>9. handed' = IF header[k].len = 0 THEN Nothing
                ELSE [from |-> k * stride, len |-> header[k].len, slot |-> k,
                      truncated |-> header[k].truncated, stamp |-> header[k].stamp]
  BY <1>7 DEF Deliver
<1> QED
  BY <1>1, <1>4, <1>6, <1>8, <1>9

LEMMA DatagramInvHolds == BufSpec => []DatagramInv
<1>1. BufInit => DatagramInv
  BY DEF BufInit, DatagramInv, Nothing
<1>2. BufInv /\ DatagramInv /\ [BufNext]_bufVars => DatagramInv'
  <2> SUFFICES ASSUME BufInv, DatagramInv, [BufNext]_bufVars PROVE DatagramInv'
    OBVIOUS
  <2>1. CASE Construct
    <3>1. frames = << >> /\ handed = Nothing
      BY <2>1 DEF Construct, BufInv, HandedInv
    <3>2. frames' = << >> /\ handed' = Nothing
      BY <2>1, <3>1 DEF Construct
    <3>3. stage' = "ready" => DOMAIN memory' = 0 .. mappedSize' - 1
      BY <2>1 DEF Construct
    <3> QED
      BY <3>2, <3>3 DEF DatagramInv
  <2>2. CASE Destroy
    <3>1. frames' = << >> /\ handed' = handed /\ frames = << >> /\ stage' = "destroyed"
      BY <2>2 DEF Destroy
    <3>2. handed = Nothing
      BY <3>1 DEF BufInv, HandedInv
    <3> QED
      BY <3>1, <3>2 DEF DatagramInv
  <2>3. CASE Deliver
    BY <2>3, DeliverOwn
  <2>4. CASE HandlerReturns
    <3>1. /\ UNCHANGED <<stage, config, stride, mappedSize, iov, header, memory, received, nested, frames>>
          /\ handed' = Nothing
      BY <2>4 DEF HandlerReturns, layout
    <3>2. \A k : OwnSlot(k) <=> OwnSlot(k)'
      BY <3>1, ZenonT(30) DEF OwnSlot, Message, Copied, Slot, Stride, Frame
    <3> QED
      BY <3>1, <3>2 DEF DatagramInv, Frame
  <2>5. CASE HandleReadReturns
    <3>1. /\ UNCHANGED <<stage, mappedSize, memory, nested, handed>>
          /\ frames # << >> /\ frames' = OuterFrames /\ handed = Nothing
      BY <2>5 DEF HandleReadReturns, layout
    <3>2. frames \in Seq(Frames)
      BY DEF BufInv
    <3>3. ~nested => frames' = << >>
      <4>1. ~nested => Len(frames) <= 1
        BY DEF DatagramInv
      <4> QED
        BY <3>1, <3>2, <4>1, SMTT(30) DEF OuterFrames
    <3> QED
      BY <3>1, <3>3 DEF DatagramInv
  <2>6. CASE \E n \in 0 .. config.batchSize : \E ds \in [1 .. n -> Datagrams] : HandleRead(ds)
    BY <2>6, HandleReadOwn, ConfigType DEF BufInv
  <2>7. CASE UNCHANGED bufVars
    <3>1. \A k : OwnSlot(k) <=> OwnSlot(k)'
      BY <2>7 DEF bufVars, OwnSlot, Message, Copied, Slot, Stride, Frame
    <3> QED
      BY <2>7, <3>1, Zenon DEF bufVars, DatagramInv, Frame, Slot, Stride
  <2>8. QED
    BY <2>1, <2>2, <2>3, <2>4, <2>5, <2>6, <2>7 DEF BufNext
<1>3. QED
  BY BufInvHolds, <1>1, <1>2, PTL DEF BufSpec

\* For every configuration, batch after batch, a handler is given the datagram
\* received for it, with its own bytes, length and time stamp, as long as no
\* handler runs the loop.
THEOREM OwnData == BufSpec => []OwnDatagram
<1>1. BufInv /\ DatagramInv => OwnDatagram
  <2> SUFFICES ASSUME BufInv, DatagramInv, handed # Nothing, ~nested PROVE OwnDatagram
    BY DEF OwnDatagram
  <2>1. PICK s, id, d : s = handed.slot /\ id = Frame.first + s /\ d = received[id]
    OBVIOUS
  <2>2. /\ OwnSlot(s) /\ handed.from = Slot(s) /\ handed.len = header[s].len
        /\ handed.truncated = header[s].truncated /\ handed.stamp = header[s].stamp
    BY <2>1, Zenon DEF DatagramInv, BufInv, HandedInv
  <2>3. /\ id \in 1 .. Len(received) /\ header[s] = Message(d, id, s, 1)
        /\ \A a \in Slot(s) .. Slot(s) + header[s].len - 1 : memory[a] = id
    BY <2>1, <2>2 DEF OwnSlot
  <2>4. iov[s].len = config.bufferSize /\ config.bufferSize \in Nat
    <3>1. s \in Slots /\ stage = "ready"
      BY <2>1 DEF BufInv, HandedInv
    <3> QED
      BY <3>1, ConfigType DEF BufInv, LayoutInv
  <2>5. d.size \in Nat /\ d.stamped \in BOOLEAN
    BY <2>1, <2>3, BufferAssumption, SMTT(30) DEF BufInv
  <2>6. /\ handed.truncated = (d.size > config.bufferSize)
        /\ handed.len = IF d.size <= config.bufferSize THEN d.size ELSE config.bufferSize
        /\ handed.stamp = IF d.stamped THEN id ELSE 0
    BY <2>2, <2>3, <2>4 DEF Message, Copied
  <2>7. handed.len = IF handed.truncated THEN config.bufferSize ELSE d.size
    <3>1. CASE d.size > config.bufferSize
      <4>1. handed.truncated
        BY <2>6, <3>1, Zenon
      <4>2. handed.len = config.bufferSize
        BY <2>4, <2>5, <2>6, <3>1
      <4> QED
        BY <4>1, <4>2, Zenon
    <3>2. CASE ~(d.size > config.bufferSize)
      <4>1. ~handed.truncated
        BY <2>6, <3>2, Zenon
      <4>2. handed.len = d.size
        BY <2>4, <2>5, <2>6, <3>2
      <4> QED
        BY <4>1, <4>2, Zenon
    <3> QED
      BY <3>1, <3>2
  <2>8. \A a \in handed.from .. handed.from + handed.len - 1 : memory[a] = id
    BY <2>2, <2>3
  <2> QED
    BY <2>1, <2>6, <2>7, <2>8 DEF OwnDatagram
<1>2. QED BY BufInvHolds, DatagramInvHolds, <1>1, PTL
=============================================================================
