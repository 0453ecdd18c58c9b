-------------------------- MODULE EventLoopProofs ---------------------------
(***************************************************************************)
(* Proofs about EventLoop, for any number of descriptors, handlers, tasks  *)
(* and events: sequences and what Filter keeps of one, the source tables,  *)
(* the types, the batch of events, the queue of tasks, and why runOnce     *)
(* comes to its end.                                                       *)
(*                                                                         *)
(* A property about one descriptor depends on no other cell holding its    *)
(* handler, which TableInv says: a cell in use holds a handler made for    *)
(* the descriptor it belongs to, and two descriptors never share a node.   *)
(***************************************************************************)
EXTENDS EventLoop, Induction

-----------------------------------------------------------------------------
(* Sequences.                                                              *)

LEMMA NothingAdded ==
  ASSUME NEW S, NEW s \in Seq(S)
  PROVE  s \o << >> = s /\ << >> \o s = s
  OBVIOUS

LEMMA AddedOne ==
  ASSUME NEW S, NEW s \in Seq(S), NEW x \in S
  PROVE  Append(s, x) = s \o <<x>>
  OBVIOUS

LEMMA AddedTwice ==
  ASSUME NEW S, NEW s \in Seq(S), NEW t \in Seq(S), NEW u \in Seq(S)
  PROVE  (s \o t) \o u = s \o (t \o u)
  BY SMTT(30)

LEMMA PartOf ==
  ASSUME NEW S, NEW s \in Seq(S), NEW m \in 1 .. Len(s) + 1, NEW n \in 0 .. Len(s)
  PROVE  /\ SubSeq(s, m, n) \in Seq(S)
         /\ Len(SubSeq(s, m, n)) = IF m <= n THEN n - m + 1 ELSE 0
         /\ \A i \in 1 .. n - m + 1 : SubSeq(s, m, n)[i] = s[m + i - 1]
  OBVIOUS

LEMMA SplitAt ==
  ASSUME NEW S, NEW s \in Seq(S), NEW n \in 0 .. Len(s)
  PROVE  SubSeq(s, 1, n) \o SubSeq(s, n + 1, Len(s)) = s
<1>1. SubSeq(s, 1, Len(s)) = s
  OBVIOUS
<1>2. ASSUME NEW k \in 0 .. Len(s), NEW m \in k .. Len(s)
      PROVE  SubSeq(s, 1, k) \o SubSeq(s, k + 1, m) = SubSeq(s, 1, m)
  OBVIOUS
<1>3. SubSeq(s, 1, n) \o SubSeq(s, n + 1, Len(s)) = SubSeq(s, 1, Len(s))
  <2>1. Len(s) \in n .. Len(s)
    OBVIOUS
  <2> QED
    BY <1>2, <2>1, Zenon
<1> QED
  BY <1>1, <1>3, Zenon

LEMMA SameSeq ==
  ASSUME NEW S, NEW s \in Seq(S), NEW t \in Seq(S),
         Len(s) = Len(t), \A i \in 1 .. Len(s) : s[i] = t[i]
  PROVE  s = t
  OBVIOUS

LEMMA WiderSeq ==
  ASSUME NEW A, NEW B, A \subseteq B, NEW s \in Seq(A)
  PROVE  s \in Seq(B)
  OBVIOUS

-----------------------------------------------------------------------------
(* Filtering a list: what the recursion of Filter computes.                *)

Kept(kept, list, S, T) ==
  /\ kept \in [0 .. Len(list) -> Seq(T \cap S)]
  /\ kept[0] = << >>
  /\ \A i \in 1 .. Len(list) :
       kept[i] = IF list[i] \in S THEN Append(kept[i - 1], list[i]) ELSE kept[i - 1]

LEMMA FilterKeeps ==
  ASSUME NEW T, NEW list \in Seq(T), NEW S
  PROVE  \E kept : Kept(kept, list, S, T) /\ Filter(list, S) = kept[Len(list)]
<1> DEFINE V == Seq(T \cap S)
           n == Len(list)
           Body(f) == [i \in 0 .. n |->
                         IF i = 0 THEN << >>
                         ELSE IF list[i] \in S THEN Append(f[i - 1], list[i]) ELSE f[i - 1]]
           step == [i \in 0 .. n |->
                      [v \in V |-> IF i \in 1 .. n /\ list[i] \in S THEN Append(v, list[i]) ELSE v]]
<1>1. /\ n \in Nat /\ 0 \in Int /\ n \in Int /\ 0 <= n
      /\ \A i \in 1 .. n : list[i] \in T
      /\ << >> \in V
  OBVIOUS
<1> HIDE DEF n
<1>2. \A i \in 0 .. n, v \in V :
        (IF i \in 1 .. n /\ list[i] \in S THEN Append(v, list[i]) ELSE v) \in V
  BY <1>1
<1>3. \A i \in 0 .. n, v \in V :
        step[i][v] = IF i \in 1 .. n /\ list[i] \in S THEN Append(v, list[i]) ELSE v
  OBVIOUS
<1> HIDE DEF V
<1>4. step \in [0 .. n -> [V -> V]]
  BY <1>2
<1> HIDE DEF step
<1>5. PICK f : f \in [0 .. n -> V] /\ Recursive(f, 0, n, V, << >>, step)
  BY <1>1, <1>4, RecursionExists, Zenon
<1>6. ASSUME NEW i \in 0 .. n, i # 0
      PROVE  f[i] = IF list[i] \in S THEN Append(f[i - 1], list[i]) ELSE f[i - 1]
  <2>1. i \in 1 .. n /\ i - 1 \in 0 .. n /\ f[i - 1] \in V
    BY <1>1, <1>5, <1>6
  <2>2. f[i] = step[i][f[i - 1]]
    BY <1>5, <1>6, <2>1 DEF Recursive
  <2> QED
    BY <1>3, <2>1, <2>2
<1>7. f = Body(f)
  BY <1>1, <1>5, <1>6, SMTT(30) DEF Recursive
<1> DEFINE g == CHOOSE h : h = Body(h)
<1>8. g = Body(g)
  BY <1>7, Zenon
<1>9. Filter(list, S) = g[n]
  BY DEF Filter, n
<1> HIDE DEF g
<1>10. /\ DOMAIN g = 0 .. n /\ g[0] = << >>
       /\ \A i \in 1 .. n : g[i] = IF list[i] \in S THEN Append(g[i - 1], list[i]) ELSE g[i - 1]
  <2>1. DOMAIN Body(g) = 0 .. n /\ Body(g)[0] = << >>
    BY <1>1
  <2>2. \A i \in 1 .. n : Body(g)[i] = IF list[i] \in S THEN Append(g[i - 1], list[i]) ELSE g[i - 1]
    BY <1>1
  <2> HIDE DEF Body
  <2> QED
    BY <1>8, <2>1, <2>2, Zenon
<1>11. Recursive(g, 0, n, V, << >>, step)
  BY <1>1, <1>3, <1>10 DEF Recursive
<1>12. \A i \in 0 .. n : g[i] \in V
  BY <1>1, <1>4, <1>11, RecursionType, Zenon
<1>13. g \in [0 .. n -> V]
  BY <1>8, <1>12
<1> QED
  BY <1>9, <1>10, <1>13 DEF Kept, V, n

LEMMA FilterType ==
  ASSUME NEW T, NEW list \in Seq(T), NEW S
  PROVE  Filter(list, S) \in Seq(T \cap S)
<1>1. PICK kept : Kept(kept, list, S, T) /\ Filter(list, S) = kept[Len(list)]
  BY FilterKeeps
<1>2. Len(list) \in 0 .. Len(list)
  OBVIOUS
<1> QED
  BY <1>1, <1>2 DEF Kept

LEMMA FilterEmpty == \A S : Filter(<< >>, S) = << >>
<1> SUFFICES ASSUME NEW S PROVE Filter(<< >>, S) = << >>
  OBVIOUS
<1>1. PICK kept : Kept(kept, << >>, S, {}) /\ Filter(<< >>, S) = kept[Len(<< >>)]
  BY FilterKeeps, << >> \in Seq({}), Zenon
<1> QED
  BY <1>1 DEF Kept

\* The elements kept of two lists, one after the other.
LEMMA FilterConcat ==
  ASSUME NEW T, NEW a \in Seq(T), NEW b \in Seq(T), NEW S
  PROVE  Filter(a \o b, S) = Filter(a, S) \o Filter(b, S)
<1> DEFINE m == Len(a)  n == Len(b)  U == T \cap S
<1>1. /\ m \in Nat /\ n \in Nat /\ a \o b \in Seq(T) /\ Len(a \o b) = m + n
      /\ \A i \in 1 .. m : (a \o b)[i] = a[i] /\ a[i] \in T
      /\ \A i \in 1 .. n : (a \o b)[m + i] = b[i] /\ b[i] \in T
  OBVIOUS
<1>2. PICK ka : Kept(ka, a, S, T) /\ Filter(a, S) = ka[m]
  BY FilterKeeps
<1>3. PICK kb : Kept(kb, b, S, T) /\ Filter(b, S) = kb[n]
  BY FilterKeeps
<1>4. PICK k : Kept(k, a \o b, S, T) /\ Filter(a \o b, S) = k[m + n]
  <2>1. PICK k : Kept(k, a \o b, S, T) /\ Filter(a \o b, S) = k[Len(a \o b)]
    BY <1>1, FilterKeeps, Zenon
  <2> QED
    BY <1>1, <2>1, Zenon
<1>5. /\ ka \in [0 .. m -> Seq(U)] /\ ka[0] = << >>
      /\ \A i \in 1 .. m : ka[i] = IF a[i] \in S THEN Append(ka[i - 1], a[i]) ELSE ka[i - 1]
  BY <1>2 DEF Kept
<1>6. /\ kb \in [0 .. n -> Seq(U)] /\ kb[0] = << >>
      /\ \A i \in 1 .. n : kb[i] = IF b[i] \in S THEN Append(kb[i - 1], b[i]) ELSE kb[i - 1]
  BY <1>3 DEF Kept
<1>7. /\ k[0] = << >>
      /\ \A i \in 1 .. m + n :
           k[i] = IF (a \o b)[i] \in S THEN Append(k[i - 1], (a \o b)[i]) ELSE k[i - 1]
  BY <1>1, <1>4 DEF Kept
<1>8. m \in Int /\ n \in Int /\ 0 \in Int /\ m \in 0 .. m /\ n \in 0 .. n /\ 0 \in 0 .. n /\ m + 0 = m
  BY <1>1
<1> HIDE DEF m, n, U
<1>9. k[m] = ka[m]
  <2> DEFINE P == {i \in 0 .. m : k[i] = ka[i]}
  <2>1. 0 \in P
    BY <1>1, <1>5, <1>7
  <2>2. ASSUME NEW i \in 0 .. m, i # 0, i - 1 \in P PROVE i \in P
    <3>1. i \in 1 .. m /\ i \in 1 .. m + n /\ (a \o b)[i] = a[i]
      BY <1>1, <2>2
    <3> QED
      BY <1>5, <1>7, <2>2, <3>1, Zenon
  <2> HIDE DEF P
  <2>3. \A i \in 0 .. m : i \in P
    BY <1>8, <2>1, <2>2, IntervalInduction, Zenon
  <2> QED
    BY <1>1, <2>3 DEF P
<1>10. k[m + n] = ka[m] \o kb[n]
  <2> DEFINE P == {i \in 0 .. n : k[m + i] = ka[m] \o kb[i]}
  <2>1. ka[m] \in Seq(U) /\ \A i \in 0 .. n : kb[i] \in Seq(U)
    BY <1>5, <1>6, <1>8
  <2>2. 0 \in P
    <3>1. ka[m] \o << >> = ka[m]
      BY <2>1, NothingAdded
    <3> QED
      BY <1>6, <1>9, <1>8, <3>1, Zenon
  <2>3. ASSUME NEW i \in 0 .. n, i # 0, i - 1 \in P PROVE i \in P
    <3>1. /\ i \in 1 .. n /\ m + i \in 1 .. m + n /\ (a \o b)[m + i] = b[i] /\ b[i] \in T
          /\ (m + i) - 1 = m + (i - 1)
      BY <1>1, <2>3
    <3>2. k[m + (i - 1)] = ka[m] \o kb[i - 1] /\ kb[i - 1] \in Seq(U)
      BY <2>1, <2>3, <3>1, Zenon
    <3>3. CASE b[i] \in S
      <4>1. k[m + i] = Append(ka[m] \o kb[i - 1], b[i]) /\ kb[i] = Append(kb[i - 1], b[i])
        BY <1>6, <1>7, <3>1, <3>2, <3>3, Zenon
      <4>2. b[i] \in U
        BY <3>1, <3>3 DEF U
      <4>3. Append(ka[m] \o kb[i - 1], b[i]) = ka[m] \o Append(kb[i - 1], b[i])
        <5> DEFINE s == ka[m]  t == kb[i - 1]  x == b[i]
        <5>1. s \in Seq(U) /\ t \in Seq(U) /\ x \in U
          BY <2>1, <3>2, <4>2
        <5> HIDE DEF s, t, x
        <5>2. Append(s \o t, x) = s \o Append(t, x)
          <6> HIDE DEF P
          <6>1. s \o t \in Seq(U) /\ <<x>> \in Seq(U)
            BY <5>1
          <6>2. Append(s \o t, x) = (s \o t) \o <<x>>
            BY <5>1, <6>1, AddedOne
          <6>3. Append(t, x) = t \o <<x>>
            BY <5>1, <6>1, AddedOne
          <6>4. (s \o t) \o <<x>> = s \o (t \o <<x>>)
            BY <5>1, <6>1, AddedTwice, SMTT(30)
          <6> QED
            BY <6>2, <6>3, <6>4, Zenon
        <5> QED
          BY <5>2 DEF s, t, x
      <4> QED
        BY <4>1, <4>3, Zenon
    <3>4. CASE b[i] \notin S
      BY <1>6, <1>7, <3>1, <3>2, <3>4, Zenon
    <3> QED
      BY <3>3, <3>4, Zenon
  <2> HIDE DEF P
  <2>4. \A i \in 0 .. n : i \in P
    BY <1>8, <2>2, <2>3, IntervalInduction, Zenon
  <2> QED
    BY <1>8, <2>4, Zenon DEF P
<1> QED
  BY <1>2, <1>3, <1>4, <1>10 DEF m, n

\* Filtering a single element.
LEMMA FilterOne ==
  ASSUME NEW x, NEW S
  PROVE  Filter(<<x>>, S) = IF x \in S THEN <<x>> ELSE << >>
<1>1. <<x>> \in Seq({x}) /\ Len(<<x>>) = 1 /\ <<x>>[1] = x
  OBVIOUS
<1>2. PICK kept : Kept(kept, <<x>>, S, {x}) /\ Filter(<<x>>, S) = kept[1]
  BY <1>1, FilterKeeps, Zenon
<1>3. kept[0] = << >> /\ kept[1] = IF x \in S THEN Append(kept[0], x) ELSE kept[0]
  BY <1>1, <1>2 DEF Kept
<1> QED
  BY <1>2, <1>3

-----------------------------------------------------------------------------
(* The source tables.                                                      *)

TagsFor(fd) == {h \in UDPReceiverTag : h.fd = fd}
TagsIn(S) == {h \in UDPReceiverTag : h.fd \in S}

TableInv ==
  /\ mem \in [FastFds \cup Nodes -> Handlers \cup {None, Freed}]
  /\ mem[TimerFd] = TimerTag
  /\ \A fd \in FastFds \ {TimerFd} : mem[fd] \in TagsFor(fd) \cup {None}
  /\ DOMAIN slowSources \subseteq SlowFds
  /\ \A fd \in DOMAIN slowSources : slowSources[fd] \in Nodes /\ mem[slowSources[fd]] \in TagsFor(fd)
  /\ \A f, g \in DOMAIN slowSources : slowSources[f] = slowSources[g] => f = g

\* What epoll watches has a cell.
WatchedInv ==
  /\ DOMAIN interest \subseteq FastFds \cup DOMAIN slowSources
  /\ InterestHasHandler

\* A handler in a fast cell has not been removed since it was added.
RemovedInv ==
  /\ removed \subseteq Handlers
  /\ \A fd \in FastFds : mem[fd] \notin removed

SourceInv == TableInv /\ WatchedInv /\ RemovedInv

-----------------------------------------------------------------------------
LEMMA SourceInitially == Init => SourceInv
<1> SUFFICES ASSUME Init PROVE SourceInv
  OBVIOUS
<1>1. /\ FastFds \cap Nodes = {} /\ TimerFd \in FastFds /\ TimerFd \notin Nodes
  BY LoopAssumption DEF Fds
<1>2. TableInv
  BY <1>1 DEF Init, TableInv, Handlers, TagsFor
<1>3. WatchedInv
  BY <1>1, Zenon DEF Init, WatchedInv, InterestHasHandler
<1>4. RemovedInv
  BY DEF Init, RemovedInv
<1> QED
  BY <1>2, <1>3, <1>4 DEF SourceInv

\* Steps that change no table keep the invariant.
LEMMA OthersKeep ==
  ASSUME SourceInv, UNCHANGED <<mem, slowSources, interest, removed>>
  PROVE  SourceInv'
  BY DEF SourceInv, TableInv, WatchedInv, InterestHasHandler, RemovedInv

\* A tag is a handler, and neither of the two marks of an empty cell.
LEMMA TagType ==
  ASSUME NEW fd, NEW h \in TagsFor(fd)
  PROVE  h \in Handlers /\ h # None /\ h # Freed /\ h # TimerTag /\ h.fd = fd
  BY LoopAssumption DEF TagsFor, Handlers

LEMMA AddSourceKeeps ==
  ASSUME SourceInv, NEW fd \in Fds \ {TimerFd}, NEW h \in UDPReceiverTag, h.fd = fd,
         NEW ctlFails \in BOOLEAN, AddSource(fd, h, ctlFails)
  PROVE  SourceInv'
<1>1. PICK p \in Cells(fd) :
        /\ mem' = [mem EXCEPT ![p] = h]
        /\ slowSources' = IF fd \in FastFds THEN slowSources
                          ELSE [f \in DOMAIN slowSources \cup {fd} |->
                                  IF f = fd THEN p ELSE slowSources[f]]
        /\ IF ctlFails \/ fd \notin open \/ fd \in DOMAIN interest
             THEN UNCHANGED <<interest, readyList>>
             ELSE EpollCtlAdd(fd, p)
  BY Zenon DEF AddSource
<1>2. /\ FastFds \cap Nodes = {} /\ FastFds \cap SlowFds = {}
      /\ TimerFd \in FastFds /\ TimerFd \notin Nodes
      /\ fd \in FastFds \cup SlowFds /\ fd # TimerFd
  BY LoopAssumption DEF Fds
<1>3. h \in TagsFor(fd)
  BY DEF TagsFor
<1>4. removed' = removed \ {h}
  BY DEF AddSource
<1>5. TableInv
  BY DEF SourceInv
<1>6. CASE fd \in FastFds
  <2>1. p = fd
    BY <1>2, <1>5, <1>6 DEF Cells, CellsFresh, TableInv
  <2>2. slowSources' = slowSources
    BY <1>1, <1>6
  <2>3. \A q \in FastFds \cup Nodes : mem'[q] = IF q = fd THEN h ELSE mem[q]
    BY <1>1, <1>5, <1>6, <2>1 DEF TableInv
  <2>4. TableInv'
    <3>1. mem' \in [FastFds \cup Nodes -> Handlers \cup {None, Freed}]
      BY <1>1, <1>3, <1>5, TagType, Zenon DEF TableInv
    <3>2. mem'[TimerFd] = TimerTag
      BY <1>2, <1>5, <2>3 DEF TableInv
    <3>3. \A f \in FastFds \ {TimerFd} : mem'[f] \in TagsFor(f) \cup {None}
      BY <1>3, <1>5, <2>3 DEF TableInv
    <3>4. \A f \in DOMAIN slowSources : slowSources[f] \in Nodes /\ mem'[slowSources[f]] \in TagsFor(f)
      BY <1>2, <1>5, <1>6, <2>3 DEF TableInv
    <3> QED
      BY <1>5, <2>2, <3>1, <3>2, <3>3, <3>4 DEF TableInv
  <2>5. WatchedInv'
    <3>1. DOMAIN interest' \subseteq DOMAIN interest \cup {fd}
      BY <1>1 DEF EpollCtlAdd
    <3>2. \A f \in DOMAIN interest' : interest'[f] = IF f \in FastFds THEN f ELSE slowSources[f]
      BY <1>1, <1>6, <2>1 DEF EpollCtlAdd, SourceInv, WatchedInv, InterestHasHandler
    <3>3. DOMAIN interest \subseteq FastFds \cup DOMAIN slowSources
      BY DEF SourceInv, WatchedInv
    <3>4. \A f \in DOMAIN interest' :
            IF f = TimerFd THEN mem'[f] = TimerTag ELSE mem'[interest'[f]] \in TagsFor(f)
      <4> SUFFICES ASSUME NEW f \in DOMAIN interest'
                   PROVE  IF f = TimerFd THEN mem'[f] = TimerTag
                          ELSE mem'[interest'[f]] \in TagsFor(f)
        OBVIOUS
      <4>1. CASE f = fd
        BY <1>2, <1>3, <1>6, <2>3, <3>2, <4>1
      <4>2. CASE f # fd
        <5>1. /\ f \in DOMAIN interest
              /\ interest'[f] = interest[f]
              /\ interest[f] = IF f \in FastFds THEN f ELSE slowSources[f]
          BY <3>1, <3>2, <4>2, Zenon DEF SourceInv, WatchedInv, InterestHasHandler
        <5>2. interest[f] \in FastFds \cup Nodes /\ interest[f] # fd
          BY <1>2, <1>5, <1>6, <3>3, <4>2, <5>1 DEF TableInv
        <5>3. mem'[interest[f]] = mem[interest[f]]
          BY <2>3, <5>2
        <5> QED
          BY <1>2, <2>3, <4>2, <5>1, <5>3 DEF SourceInv, WatchedInv, InterestHasHandler, TagsFor
      <4> QED
        BY <4>1, <4>2
    <3> QED
      BY <1>6, <2>2, <3>1, <3>2, <3>3, <3>4 DEF WatchedInv, InterestHasHandler, TagsFor
  <2>6. RemovedInv'
    BY <1>4, <2>3 DEF SourceInv, RemovedInv
  <2> QED
    BY <2>4, <2>5, <2>6 DEF SourceInv
<1>7. CASE fd \notin FastFds
  <2>1. fd \in SlowFds /\ p \in Nodes
    BY <1>2, <1>5, <1>7 DEF Cells, CellsFresh, TableInv
  <2>2. \A f \in DOMAIN slowSources : slowSources[f] = p => f = fd
    <3>1. CASE fd \in DOMAIN slowSources
      BY <1>5, <3>1 DEF Cells, TableInv
    <3>2. CASE fd \notin DOMAIN slowSources
      <4>1. mem[p] = Freed
        BY <1>7, <3>2 DEF Cells, CellsFresh
      <4> QED
        BY <1>5, <4>1, TagType DEF TableInv
    <3> QED
      BY <3>1, <3>2
  <2>3. \A q \in FastFds \cup Nodes : mem'[q] = IF q = p THEN h ELSE mem[q]
    BY <1>1, <1>5, <2>1 DEF TableInv
  <2>4. /\ DOMAIN slowSources' = DOMAIN slowSources \cup {fd}
        /\ slowSources'[fd] = p
        /\ \A f \in DOMAIN slowSources : f # fd => slowSources'[f] = slowSources[f]
    BY <1>1, <1>7, Zenon
  <2>5. TableInv'
    <3>1. mem' \in [FastFds \cup Nodes -> Handlers \cup {None, Freed}]
      BY <1>1, <1>3, <1>5, TagType, Zenon DEF TableInv
    <3>2. \A f \in DOMAIN slowSources' :
            slowSources'[f] \in Nodes /\ mem'[slowSources'[f]] \in TagsFor(f)
      BY <1>3, <1>5, <2>1, <2>2, <2>3, <2>4, Zenon DEF TableInv
    <3>3. \A f, g \in DOMAIN slowSources' : slowSources'[f] = slowSources'[g] => f = g
      BY <1>5, <2>2, <2>4 DEF TableInv
    <3>4. mem'[TimerFd] = TimerTag /\ \A f \in FastFds : mem'[f] = mem[f]
      BY <1>2, <1>5, <2>1, <2>3, Zenon DEF TableInv
    <3> QED
      BY <1>5, <2>1, <2>4, <3>1, <3>2, <3>3, <3>4, Zenon DEF TableInv
  <2>6. WatchedInv'
    <3>1. DOMAIN interest' \subseteq DOMAIN interest \cup {fd}
      BY <1>1 DEF EpollCtlAdd
    <3>2. DOMAIN interest \subseteq FastFds \cup DOMAIN slowSources
      BY DEF SourceInv, WatchedInv
    <3>3. CASE fd \in DOMAIN interest
      <4>1. interest' = interest /\ interest[fd] = slowSources[fd] /\ fd \in DOMAIN slowSources
        BY <1>1, <1>7, <3>2, <3>3, SMTT(30) DEF SourceInv, WatchedInv, InterestHasHandler
      <4>2. p = slowSources[fd]
        BY <4>1 DEF Cells
      <4>3. \A f \in DOMAIN interest' :
              interest'[f] = IF f \in FastFds THEN f ELSE slowSources'[f]
        BY <1>7, <2>4, <3>2, <4>1, <4>2 DEF SourceInv, WatchedInv, InterestHasHandler
      <4> QED
        BY <1>2, <2>1, <2>3, <2>4, <2>5, <3>2, <4>1, <4>3
           DEF TableInv, SourceInv, WatchedInv, InterestHasHandler, TagsFor
    <3>4. CASE fd \notin DOMAIN interest
      <4>1. \A f \in DOMAIN interest' :
              interest'[f] = IF f \in FastFds THEN f ELSE slowSources'[f]
        BY <1>1, <1>7, <2>4, <3>2, <3>4
           DEF EpollCtlAdd, SourceInv, WatchedInv, InterestHasHandler
      <4>2. \A f \in DOMAIN interest' :
              IF f = TimerFd THEN mem'[f] = TimerTag ELSE mem'[interest'[f]] \in TagsFor(f)
        <5> SUFFICES ASSUME NEW f \in DOMAIN interest'
                     PROVE  IF f = TimerFd THEN mem'[f] = TimerTag
                            ELSE mem'[interest'[f]] \in TagsFor(f)
          OBVIOUS
        <5>1. CASE f \in FastFds
          <6>1. f \in DOMAIN interest /\ interest[f] = f /\ mem'[f] = mem[f]
            BY <1>2, <1>7, <2>1, <2>3, <3>1, <5>1, SMTT(30)
               DEF SourceInv, WatchedInv, InterestHasHandler
          <6> QED
            BY <4>1, <5>1, <6>1, Zenon DEF SourceInv, WatchedInv, InterestHasHandler, TagsFor
        <5>2. CASE f \notin FastFds
          BY <1>2, <2>4, <2>5, <3>1, <3>2, <4>1, <5>2 DEF TableInv
        <5> QED
          BY <5>1, <5>2
      <4> QED
        BY <2>4, <3>1, <3>2, <4>1, <4>2 DEF WatchedInv, InterestHasHandler, TagsFor
    <3> QED
      BY <3>3, <3>4, Zenon
  <2>7. RemovedInv'
    BY <1>2, <1>4, <2>1, <2>3 DEF SourceInv, RemovedInv
  <2> QED
    BY <2>5, <2>6, <2>7 DEF SourceInv
<1> QED
  BY <1>6, <1>7

\* removeSource, for every descriptor of S, empties their cells and no other.
LEMMA ForgetKeeps ==
  ASSUME SourceInv, NEW S, S \subseteq Fds \ {TimerFd}, Forget(S)
  PROVE  SourceInv'
<1>1. /\ FastFds \cap Nodes = {} /\ FastFds \cap SlowFds = {}
      /\ TimerFd \in FastFds /\ TimerFd \notin Nodes
      /\ S \subseteq FastFds \cup SlowFds /\ TimerFd \notin S
  BY LoopAssumption DEF Fds
<1>2. TableInv
  BY DEF SourceInv
<1>3. /\ mem' = Emptied(S)
      /\ slowSources' = [f \in DOMAIN slowSources \ S |-> slowSources[f]]
      /\ removed' = removed \cup ({mem[p] : p \in CellsOf(S)} \cap Handlers)
      /\ interest' = [f \in DOMAIN interest \ S |-> interest[f]]
  BY DEF Forget, EpollForgets
<1>4. /\ DOMAIN slowSources' = DOMAIN slowSources \ S
      /\ \A f \in DOMAIN slowSources' : slowSources'[f] = slowSources[f]
  BY <1>3
<1>5. /\ DOMAIN mem = FastFds \cup Nodes
      /\ CellsOf(S) = (S \cap FastFds) \cup {slowSources[f] : f \in S \cap DOMAIN slowSources}
  BY <1>2 DEF TableInv, CellsOf
<1>6. \A q \in FastFds \cup Nodes : q \notin CellsOf(S) => mem'[q] = mem[q]
  BY <1>3, <1>5 DEF Emptied
<1>7. \A f \in FastFds : f \notin S => f \notin CellsOf(S)
  BY <1>1, <1>2, <1>5 DEF TableInv
<1>8. \A f \in DOMAIN slowSources : f \notin S => slowSources[f] \notin CellsOf(S)
  BY <1>1, <1>2, <1>5 DEF TableInv
<1>9. \A f \in S \cap FastFds : mem'[f] = None
  BY <1>1, <1>3, <1>5 DEF Emptied
<1>10. TableInv'
  <2>1. mem' \in [FastFds \cup Nodes -> Handlers \cup {None, Freed}]
    BY <1>2, <1>3 DEF Emptied, TableInv
  <2>2. mem'[TimerFd] = TimerTag
    BY <1>1, <1>2, <1>6, <1>7 DEF TableInv
  <2>3. \A f \in FastFds \ {TimerFd} : mem'[f] \in TagsFor(f) \cup {None}
    BY <1>2, <1>6, <1>7, <1>9 DEF TableInv
  <2>4. \A f \in DOMAIN slowSources' :
          slowSources'[f] \in Nodes /\ mem'[slowSources'[f]] \in TagsFor(f)
    BY <1>2, <1>4, <1>6, <1>8 DEF TableInv
  <2> QED
    BY <1>2, <1>4, <2>1, <2>2, <2>3, <2>4 DEF TableInv
<1>11. WatchedInv'
  <2>1. /\ DOMAIN interest' = DOMAIN interest \ S
        /\ \A f \in DOMAIN interest' : interest'[f] = interest[f]
    BY <1>3
  <2>2. ASSUME NEW f \in DOMAIN interest'
        PROVE  /\ f \in FastFds \cup DOMAIN slowSources'
               /\ interest'[f] = IF f \in FastFds THEN f ELSE slowSources'[f]
               /\ mem'[interest'[f]] = mem[interest[f]]
    <3>1. /\ f \in FastFds \cup DOMAIN slowSources /\ f \notin S
          /\ interest[f] = IF f \in FastFds THEN f ELSE slowSources[f]
      BY <2>1 DEF SourceInv, WatchedInv, InterestHasHandler
    <3>2. interest[f] \in FastFds \cup Nodes /\ interest[f] \notin CellsOf(S)
      BY <1>2, <1>7, <1>8, <3>1, Zenon DEF TableInv
    <3> QED
      BY <1>4, <1>6, <2>1, <3>1, <3>2
  <2>3. \A f \in DOMAIN interest' :
          IF f = TimerFd THEN mem'[f] = TimerTag ELSE mem'[interest'[f]] \in TagsFor(f)
    BY <1>10, <2>1, <2>2 DEF TableInv, SourceInv, WatchedInv, InterestHasHandler, TagsFor
  <2> QED
    BY <2>2, <2>3 DEF WatchedInv, InterestHasHandler, TagsFor
<1>12. RemovedInv'
  <2>1. None \notin Handlers
    BY LoopAssumption
  <2>2. \A q \in CellsOf(S) : mem[q] \in TagsIn(S) \cup {None}
    BY <1>1, <1>2, <1>5 DEF TableInv, TagsIn, TagsFor
  <2>3. removed' \subseteq Handlers /\ removed' \subseteq removed \cup TagsIn(S)
    BY <1>3, <2>1, <2>2 DEF SourceInv, RemovedInv
  <2>4. ASSUME NEW f \in FastFds PROVE mem'[f] \notin removed'
    <3>1. CASE f \in S
      BY <1>9, <2>1, <2>3, <3>1
    <3>2. CASE f \notin S
      <4>1. mem'[f] = mem[f] /\ mem[f] \notin removed
        BY <1>6, <1>7, <3>2 DEF SourceInv, RemovedInv
      <4>2. mem[f] \in TagsFor(f) \cup {None, TimerTag}
        BY <1>2 DEF TableInv
      <4>3. mem[f] \notin TagsIn(S)
        BY <3>2, <4>2, LoopAssumption DEF TagsIn, TagsFor, Handlers
      <4> QED
        BY <2>3, <4>1, <4>3
    <3> QED
      BY <3>1, <3>2
  <2> QED
    BY <2>3, <2>4 DEF RemovedInv
<1> QED
  BY <1>10, <1>11, <1>12 DEF SourceInv

\* A registration that epoll takes leads to its handler, and disturbs no other.
LEMMA AddSourceOthers ==
  ASSUME SourceInv, NEW fd \in Fds \ {TimerFd}, NEW h \in UDPReceiverTag, h.fd = fd,
         NEW ctlFails \in BOOLEAN, AddSource(fd, h, ctlFails),
         fd \in open, fd \notin DOMAIN interest
  PROVE  /\ DOMAIN interest' = IF ctlFails THEN DOMAIN interest ELSE DOMAIN interest \cup {fd}
         /\ \A g \in DOMAIN interest : mem'[interest'[g]] = mem[interest[g]]
         /\ ~ctlFails => mem'[interest'[fd]] = h
<1>1. PICK p \in Cells(fd) :
        /\ mem' = [mem EXCEPT ![p] = h]
        /\ IF ctlFails THEN UNCHANGED <<interest, readyList>> ELSE EpollCtlAdd(fd, p)
  BY Zenon DEF AddSource
<1>2. /\ FastFds \cap Nodes = {} /\ FastFds \cap SlowFds = {} /\ TimerFd \notin Nodes
      /\ fd \in FastFds \cup SlowFds /\ fd # TimerFd
  BY LoopAssumption DEF Fds
<1>3. TableInv /\ WatchedInv
  BY DEF SourceInv
<1>4. p \in FastFds \cup Nodes
  BY <1>2, <1>3 DEF Cells, CellsFresh, TableInv
<1>5. ASSUME NEW g \in DOMAIN interest
      PROVE  interest[g] \in FastFds \cup Nodes /\ interest[g] # p
  <2>1. g # fd /\ interest[g] = (IF g \in FastFds THEN g ELSE slowSources[g])
        /\ g \in FastFds \cup DOMAIN slowSources
    BY <1>3 DEF WatchedInv, InterestHasHandler
  <2>2. CASE fd \in FastFds
    BY <1>2, <1>3, <2>1, <2>2 DEF Cells, CellsFresh, TableInv
  <2>3. CASE fd \notin FastFds /\ fd \in DOMAIN slowSources
    BY <1>2, <1>3, <2>1, <2>3 DEF Cells, TableInv
  <2>4. CASE fd \notin FastFds /\ fd \notin DOMAIN slowSources
    <3>1. mem[p] = Freed /\ p \in Nodes
      BY <2>4 DEF Cells, CellsFresh
    <3> QED
      BY <1>2, <1>3, <2>1, <3>1, TagType, SMTT(30) DEF TableInv
  <2> QED
    BY <2>2, <2>3, <2>4
<1>6. \A q \in FastFds \cup Nodes : mem'[q] = IF q = p THEN h ELSE mem[q]
  BY <1>1, <1>3, <1>4, Zenon DEF TableInv
<1>7. CASE ctlFails
  BY <1>1, <1>5, <1>6, <1>7
<1>8. CASE ~ctlFails
  <2>1. /\ DOMAIN interest' = DOMAIN interest \cup {fd}
        /\ interest'[fd] = p
        /\ \A g \in DOMAIN interest : interest'[g] = interest[g]
    BY <1>1, <1>8 DEF EpollCtlAdd
  <2> QED
    BY <1>4, <1>5, <1>6, <1>8, <2>1
<1> QED
  BY <1>7, <1>8

\* removeSource disturbs no other registration.
LEMMA ForgetOthers ==
  ASSUME SourceInv, NEW S, Forget(S)
  PROVE  /\ DOMAIN interest' = DOMAIN interest \ S
         /\ \A g \in DOMAIN interest \ S : mem'[interest'[g]] = mem[interest[g]]
<1>1. /\ DOMAIN interest' = DOMAIN interest \ S
      /\ \A g \in DOMAIN interest \ S : interest'[g] = interest[g]
  BY DEF Forget, EpollForgets
<1>2. TableInv /\ WatchedInv
  BY DEF SourceInv
<1>3. FastFds \cap Nodes = {} /\ FastFds \cap SlowFds = {}
  BY LoopAssumption DEF Fds
<1>4. ASSUME NEW g \in DOMAIN interest \ S
      PROVE  interest[g] \in DOMAIN mem /\ interest[g] \notin CellsOf(S)
  <2>1. interest[g] = (IF g \in FastFds THEN g ELSE slowSources[g])
        /\ g \in FastFds \cup DOMAIN slowSources
    BY <1>2 DEF WatchedInv, InterestHasHandler
  <2> QED
    BY <1>2, <1>3, <2>1 DEF CellsOf, TableInv
<1>5. \A q \in DOMAIN mem : q \notin CellsOf(S) => mem'[q] = mem[q]
  BY DEF Forget, Emptied
<1> QED
  BY <1>1, <1>4, <1>5

-----------------------------------------------------------------------------
(* Types.                                                                  *)

SourceTypes ==
  /\ mem \in [FastFds \cup Nodes -> Handlers \cup {None, Freed}]
  /\ DOMAIN slowSources \subseteq SlowFds
  /\ \A fd \in DOMAIN slowSources : slowSources[fd] \in Nodes
  /\ removed \subseteq Handlers

KernelTypes ==
  /\ open \subseteq Fds
  /\ DOMAIN interest \subseteq open
  /\ \A fd \in DOMAIN interest : interest[fd] \in FastFds \cup Nodes
  /\ readable \subseteq open
  /\ readyList \in Seq(DOMAIN interest)

LoopTypes ==
  /\ pc \in {"idle", "wait", "dispatch", "handler", "tasks", "task"}
  /\ timeout \in Timeouts \cup {0}
  /\ events \in Seq(FastFds \cup Nodes)
  /\ current \in Handlers \cup {None}
  /\ pendingTasks \in Seq(Tasks)
  /\ tasks \in Seq(Tasks)
  /\ running \in {<< >>} \cup {<<t>> : t \in Tasks}

LEMMA TypesInitially == Init => TypeOK
<1> SUFFICES ASSUME Init PROVE TypeOK
  OBVIOUS
<1>1. SourceTypes
  BY LoopAssumption DEF Init, SourceTypes, Handlers
<1>2. KernelTypes
  BY LoopAssumption DEF Init, KernelTypes, Fds
<1>3. LoopTypes
  BY DEF Init, LoopTypes
<1> QED
  BY <1>1, <1>2, <1>3 DEF TypeOK, SourceTypes, KernelTypes, LoopTypes

LEMMA ReadyType ==
  ASSUME TypeOK
  PROVE  Ready \in Seq(DOMAIN interest \cap readable)
  BY FilterType, Zenon DEF TypeOK, Ready

LEMMA EpollWaitTypes ==
  ASSUME TypeOK, EpollWait
  PROVE  TypeOK'
<1> DEFINE n == IF Len(Ready) < MaxEvents THEN Len(Ready) ELSE MaxEvents
           taken == SubSeq(Ready, 1, n)
           W == DOMAIN interest
<1>1. Ready \in Seq(W)
  BY ReadyType, WiderSeq
<1>2. n \in Nat /\ n <= Len(Ready) /\ Len(Ready) \in Nat
  BY <1>1, LoopAssumption
<1>3. taken \in Seq(W) /\ Len(taken) = n /\ SubSeq(Ready, n + 1, Len(Ready)) \in Seq(W)
  BY <1>1, <1>2, PartOf, SMTT(30)
<1>4. /\ events' = [i \in 1 .. n |-> interest[taken[i]]]
      /\ readyList' = SubSeq(Ready, n + 1, Len(Ready)) \o taken
      /\ pc' = "dispatch"
      /\ UNCHANGED <<mem, slowSources, open, interest, readable, removed, timeout,
                     current, taskVars>>
  BY DEF EpollWait
<1> HIDE DEF n, taken
<1>5. readyList' \in Seq(W)
  BY <1>3, <1>4
<1>6. \A i \in 1 .. n : interest[taken[i]] \in FastFds \cup Nodes
  BY <1>2, <1>3 DEF TypeOK
<1>7. events' \in Seq(FastFds \cup Nodes)
  BY <1>2, <1>4, <1>6, SMTT(30)
<1>8. KernelTypes'
  BY <1>4, <1>5, Zenon DEF TypeOK, KernelTypes
<1>9. LoopTypes'
  BY <1>4, <1>7 DEF TypeOK, LoopTypes, taskVars
<1>10. SourceTypes'
  BY <1>4 DEF TypeOK, SourceTypes
<1> QED
  BY <1>8, <1>9, <1>10 DEF TypeOK, SourceTypes, KernelTypes, LoopTypes

LEMMA DispatchTypes ==
  ASSUME TypeOK, Dispatch
  PROVE  TypeOK'
<1>1. events \in Seq(FastFds \cup Nodes) /\ events # << >>
  BY DEF TypeOK, Dispatch, Undispatched
<1>2. Tail(events) \in Seq(FastFds \cup Nodes) /\ Head(events) \in FastFds \cup Nodes
  BY <1>1
<1>3. Visit(Head(events)) \subseteq Handlers \cup {None}
  BY <1>2, Zenon DEF Visit, TypeOK
<1>4. LoopTypes'
  BY <1>2, <1>3, Zenon DEF Dispatch, TypeOK, LoopTypes, taskVars
<1>5. KernelTypes' /\ SourceTypes'
  BY Zenon DEF Dispatch, TypeOK, KernelTypes, SourceTypes
<1> QED
  BY <1>4, <1>5, Zenon DEF TypeOK, SourceTypes, KernelTypes, LoopTypes

LEMMA OtherLoopTypes ==
  ASSUME TypeOK,
         \/ \E t \in Timeouts : RunOnce(t)
         \/ EndHandler \/ TakeTasks \/ StartTask \/ EndTask \/ RunOnceReturns
         \/ EpollInterrupted
  PROVE  TypeOK'
<1>1. UNCHANGED sourceVars
  BY Zenon DEF RunOnce, EndHandler, TakeTasks, StartTask, EndTask, RunOnceReturns, EpollInterrupted
<1>2. KernelTypes' /\ SourceTypes'
  BY <1>1 DEF sourceVars, TypeOK, KernelTypes, SourceTypes
<1>3. \A t \in Timeouts : EpollTimeout(t) \in Timeouts \cup {0}
  BY DEF EpollTimeout
<1>4. LoopTypes'
  <2>1. ASSUME NEW t \in Timeouts, RunOnce(t) PROVE LoopTypes'
    BY <1>3, <2>1 DEF TypeOK, LoopTypes, RunOnce, taskVars
  <2>2. CASE TakeTasks
    BY <2>2 DEF TypeOK, LoopTypes, TakeTasks
  <2>3. CASE StartTask
    <3>1. Head(tasks) \in Tasks /\ Tail(tasks) \in Seq(Tasks)
      BY <2>3, SMTT(30) DEF StartTask, TypeOK
    <3> QED
      BY <2>3, <3>1 DEF TypeOK, LoopTypes, StartTask
  <2>4. CASE EndHandler \/ EndTask \/ RunOnceReturns \/ EpollInterrupted
    BY <2>4, Zenon DEF TypeOK, LoopTypes, EndHandler, EndTask, RunOnceReturns, EpollInterrupted, taskVars
  <2> QED
    BY <2>1, <2>2, <2>3, <2>4, Zenon
<1> QED
  BY <1>2, <1>4 DEF TypeOK, SourceTypes, KernelTypes, LoopTypes

LEMMA DataArrivesTypes ==
  ASSUME TypeOK, NEW fd, DataArrives(fd)
  PROVE  TypeOK'
<1>1. SourceTypes' /\ LoopTypes'
  BY DEF DataArrives, TypeOK, SourceTypes, LoopTypes, loopVars, taskVars
<1>2. readyList' \in Seq(DOMAIN interest)
  <2>1. readyList \in Seq(DOMAIN interest)
    BY DEF TypeOK
  <2>2. readyList' = readyList \/ (fd \in DOMAIN interest /\ readyList' = Append(readyList, fd))
    BY Zenon DEF DataArrives
  <2> QED
    BY <2>1, <2>2, SMTT(30)
<1>3. KernelTypes'
  BY <1>2, Zenon DEF DataArrives, TypeOK, KernelTypes
<1> QED
  BY <1>1, <1>3, Zenon DEF TypeOK, SourceTypes, KernelTypes, LoopTypes

LEMMA AddSourceTypes ==
  ASSUME TypeOK, NEW fd \in Fds, NEW h \in UDPReceiverTag, NEW ctlFails,
         AddSource(fd, h, ctlFails)
  PROVE  TypeOK'
<1>1. PICK p \in Cells(fd) :
        /\ mem' = [mem EXCEPT ![p] = h]
        /\ slowSources' = IF fd \in FastFds THEN slowSources
                          ELSE [f \in DOMAIN slowSources \cup {fd} |->
                                  IF f = fd THEN p ELSE slowSources[f]]
        /\ IF ctlFails \/ fd \notin open \/ fd \in DOMAIN interest
             THEN UNCHANGED <<interest, readyList>>
             ELSE EpollCtlAdd(fd, p)
  BY Zenon DEF AddSource
<1>2. p \in FastFds \cup Nodes /\ (fd \notin FastFds => fd \in SlowFds /\ p \in Nodes)
  BY LoopAssumption DEF Cells, CellsFresh, TypeOK, Fds
<1>3. SourceTypes'
  BY <1>1, <1>2, Zenon DEF AddSource, TypeOK, SourceTypes, Handlers
<1>4. LoopTypes'
  BY DEF AddSource, TypeOK, LoopTypes, loopVars, taskVars
<1>5. KernelTypes'
  <2>1. CASE UNCHANGED <<interest, readyList>>
    BY <2>1, SMTT(30) DEF AddSource, TypeOK, KernelTypes
  <2>2. CASE fd \in open /\ EpollCtlAdd(fd, p)
    <3>1. /\ DOMAIN interest' = DOMAIN interest \cup {fd}
          /\ \A f \in DOMAIN interest' : interest'[f] = IF f = fd THEN p ELSE interest[f]
          /\ readyList' = IF fd \in readable THEN Append(readyList, fd) ELSE readyList
      BY <2>2, Zenon DEF EpollCtlAdd
    <3>2. readyList \in Seq(DOMAIN interest')
      BY <3>1, WiderSeq DEF TypeOK
    <3>3. readyList' \in Seq(DOMAIN interest')
      BY <3>1, <3>2, SMTT(30)
    <3> QED
      BY <1>2, <2>2, <3>1, <3>3, SMTT(30) DEF AddSource, TypeOK, KernelTypes
  <2> QED
    BY <1>1, <2>1, <2>2, SMTT(30)
<1> QED
  BY <1>3, <1>4, <1>5 DEF TypeOK, SourceTypes, KernelTypes, LoopTypes

\* Descriptors leave epoll, together with their cells or not, and may be closed.
LEMMA ForgetTypes ==
  ASSUME TypeOK, NEW S, EpollForgets(S),
         Forget(S) \/ UNCHANGED <<mem, slowSources, removed>>,
         open' \subseteq open, open \ S \subseteq open', readable' \subseteq readable \cap open',
         UNCHANGED <<loopVars, taskVars>>
  PROVE  TypeOK'
<1>1. SourceTypes'
  <2>1. CASE Forget(S)
    BY <2>1, LoopAssumption, SMTT(30) DEF Forget, Emptied, TypeOK, SourceTypes
  <2>2. CASE UNCHANGED <<mem, slowSources, removed>>
    BY <2>2, Zenon DEF TypeOK, SourceTypes
  <2> QED
    BY <2>1, <2>2, SMTT(30)
<1>2. LoopTypes'
  BY Zenon DEF TypeOK, LoopTypes, loopVars, taskVars
<1>3. KernelTypes'
  <2>1. /\ DOMAIN interest' = DOMAIN interest \ S
        /\ \A f \in DOMAIN interest' : interest'[f] = interest[f]
    BY DEF EpollForgets
  <2>2. DOMAIN interest \cap (Fds \ S) \subseteq DOMAIN interest'
    BY <2>1, Zenon
  <2>3. readyList' \in Seq(DOMAIN interest \cap (Fds \ S))
    BY FilterType, Zenon DEF EpollForgets, TypeOK
  <2>4. readyList' \in Seq(DOMAIN interest')
    BY <2>2, <2>3, WiderSeq
  <2> QED
    BY <2>1, <2>4 DEF TypeOK, KernelTypes
<1> QED
  BY <1>1, <1>2, <1>3 DEF TypeOK, SourceTypes, KernelTypes, LoopTypes

-----------------------------------------------------------------------------
LEMMA NextKeeps == SourceInv /\ [Next]_vars => SourceInv'
<1> SUFFICES ASSUME SourceInv, [Next]_vars PROVE SourceInv'
  OBVIOUS
<1>1. CASE \E fd \in Fds : DataArrives(fd)
  BY <1>1, OthersKeep DEF DataArrives
<1>2. CASE User
  <2>1. ASSUME NEW fd \in Fds, ReadFd(fd) PROVE SourceInv'
    BY <2>1, OthersKeep DEF ReadFd
  <2>2. ASSUME NEW fd \in Fds \ {TimerFd}, OpenFd(fd) \/ CloseFd(fd) PROVE SourceInv'
    BY <2>2, OthersKeep DEF OpenFd, CloseFd
  <2>3. ASSUME NEW t \in Tasks, RunInLoop(t) PROVE SourceInv'
    BY <2>3, OthersKeep DEF RunInLoop, sourceVars
  <2>4. ASSUME NEW fd \in Fds \ {TimerFd}, RemoveSource(fd) PROVE SourceInv'
    BY <2>4, ForgetKeeps DEF RemoveSource
  <2> QED
    BY <1>2, <2>1, <2>2, <2>3, <2>4, AddSourceKeeps DEF User
<1>3. CASE Loop
  <2>1. UNCHANGED <<mem, slowSources, interest, removed>>
    BY <1>3, Zenon DEF Loop, RunOnce, EpollWait, Dispatch, EndHandler, TakeTasks, StartTask,
                EndTask, RunOnceReturns, sourceVars
  <2> QED
    BY <2>1, OthersKeep, ZenonT(30)
<1>4. CASE EpollInterrupted
  BY <1>4, OthersKeep DEF EpollInterrupted, sourceVars
<1>5. CASE UNCHANGED vars
  BY <1>5, OthersKeep DEF vars, sourceVars
<1> QED
  BY <1>1, <1>2, <1>3, <1>4, <1>5 DEF Next

LEMMA SourceInvHolds == Spec => []SourceInv
  BY SourceInitially, NextKeeps, PTL DEF Spec

(***************************************************************************)
(* Every descriptor epoll watches leads to the cell and the handler that   *)
(* addSource made for it, whatever order of addSource and removeSource     *)
(* calls, failed ones included, came before.                               *)
(***************************************************************************)
THEOREM WatchedHasHandler == Spec => []InterestHasHandler
<1>1. SourceInv => InterestHasHandler
  BY DEF SourceInv, WatchedInv
<1> QED
  BY <1>1, SourceInvHolds, PTL

(***************************************************************************)
(* runOnce never calls, through the source of a descriptor below           *)
(* MAX_FAST_FDS, a handler that removeSource has taken out, even when its  *)
(* event was in the batch already.                                         *)
(***************************************************************************)
THEOREM RemovedNotCalled == Spec => NoFastCallAfterRemove
<1>1. SourceInv /\ [Next]_vars => [~CallsRemoved(FastFds)]_vars
  <2> SUFFICES ASSUME SourceInv, Next, CallsRemoved(FastFds)
               PROVE  FALSE
    BY DEF vars
  <2>1. pc = "dispatch" /\ pc' = "handler" /\ Head(events) \in FastFds /\ current' \in removed
    BY Zenon DEF CallsRemoved
  <2>2. Dispatch
    BY <2>1, Zenon DEF Next, User, Loop, DataArrives, ReadFd, OpenFd, CloseFd, RemoveSource,
                AddSource, RunInLoop, UserCode, RunOnce, EpollWait, EndHandler, TakeTasks,
                StartTask, EndTask, RunOnceReturns, EpollInterrupted, loopVars
  <2>3. mem[Head(events)] # Freed
    BY <2>1, LoopAssumption, TagType DEF SourceInv, TableInv, Handlers
  <2>4. current' = mem[Head(events)]
    BY <2>1, <2>2, <2>3 DEF Dispatch, Visit
  <2> QED
    BY <2>1, <2>4 DEF SourceInv, RemovedInv
<1> QED
  BY <1>1, SourceInvHolds, PTL DEF Spec, NoFastCallAfterRemove
-----------------------------------------------------------------------------
(* The types of the loop, and the calls of a loop without slow sources.    *)

LEMMA NextTypes == TypeOK /\ [Next]_vars => TypeOK'
<1> SUFFICES ASSUME TypeOK, [Next]_vars PROVE TypeOK'
  OBVIOUS
<1>1. ASSUME NEW fd \in Fds, DataArrives(fd) PROVE TypeOK'
  BY <1>1, DataArrivesTypes
<1>2. ASSUME NEW fd \in Fds, ReadFd(fd) PROVE TypeOK'
  BY <1>2, Zenon DEF ReadFd, TypeOK, loopVars, taskVars
<1>3. ASSUME NEW fd \in Fds, OpenFd(fd) PROVE TypeOK'
  BY <1>3, Zenon DEF OpenFd, TypeOK, loopVars, taskVars
<1>4. ASSUME NEW fd \in Fds, CloseFd(fd) PROVE TypeOK'
  BY <1>4, Zenon DEF CloseFd, TypeOK, loopVars, taskVars
<1>5. ASSUME NEW fd \in Fds, RemoveSource(fd) PROVE TypeOK'
  <2>1. /\ Forget({fd}) /\ EpollForgets({fd}) /\ open' = open /\ readable' = readable
        /\ UNCHANGED <<loopVars, taskVars>>
    BY <1>5, Zenon DEF RemoveSource, Forget
  <2>2. /\ open' \subseteq open /\ open \ {fd} \subseteq open'
        /\ readable' \subseteq readable \cap open'
    BY <2>1, Zenon DEF TypeOK
  <2> QED
    BY <2>1, <2>2, ForgetTypes, Zenon
<1>6. ASSUME NEW fd \in Fds, NEW h \in UDPReceiverTag, NEW f \in BOOLEAN, AddSource(fd, h, f)
      PROVE  TypeOK'
  BY <1>6, AddSourceTypes DEF Handlers
<1>7. ASSUME NEW t \in Tasks, RunInLoop(t) PROVE TypeOK'
  <2>1. pendingTasks' \in Seq(Tasks)
    BY <1>7 DEF RunInLoop, TypeOK
  <2> QED
    BY <1>7, <2>1, ZenonT(30) DEF RunInLoop, TypeOK, sourceVars, loopVars
<1>8. CASE Loop \/ EpollInterrupted
  BY <1>8, EpollWaitTypes, DispatchTypes, OtherLoopTypes, Zenon DEF Loop
<1>9. CASE UNCHANGED vars
  BY <1>9, Zenon DEF TypeOK, vars, sourceVars, loopVars, taskVars
<1> QED
  BY <1>1, <1>2, <1>3, <1>4, <1>5, <1>6, <1>7, <1>8, <1>9, Zenon DEF Next, User

LEMMA TypesHold == Spec => []TypeOK
  BY TypesInitially, NextTypes, PTL DEF Spec

\* Without slow descriptors every event of the batch points into m_fastSources.
BatchInv == \A i \in DOMAIN events : events[i] \in FastFds

LEMMA BatchKept ==
  ASSUME SlowFds = {}
  PROVE  TypeOK /\ SourceInv /\ BatchInv /\ [Next]_vars => BatchInv'
<1> SUFFICES ASSUME TypeOK, SourceInv, BatchInv, [Next]_vars PROVE BatchInv'
  OBVIOUS
<1>1. CASE EpollWait
  <2> DEFINE n == IF Len(Ready) < MaxEvents THEN Len(Ready) ELSE MaxEvents
             taken == SubSeq(Ready, 1, n)
  <2>1. Ready \in Seq(DOMAIN interest)
    BY ReadyType, WiderSeq
  <2>2. n \in Nat /\ n <= Len(Ready) /\ Len(Ready) \in Nat
    BY <2>1, LoopAssumption
  <2>3. taken \in Seq(DOMAIN interest) /\ Len(taken) = n
    BY <2>1, <2>2, PartOf, SMTT(30)
  <2>4. events' = [i \in 1 .. n |-> interest[taken[i]]]
    BY <1>1, SMTT(30) DEF EpollWait
  <2>5. \A fd \in DOMAIN interest : interest[fd] = fd /\ fd \in FastFds
    BY DEF SourceInv, WatchedInv, InterestHasHandler, TypeOK, Fds
  <2> HIDE DEF n, taken
  <2> QED
    BY <2>2, <2>3, <2>4, <2>5 DEF BatchInv
<1>2. CASE Dispatch
  <2>1. events \in Seq(FastFds \cup Nodes) /\ events # << >> /\ events' = Tail(events)
    BY <1>2 DEF Dispatch, Undispatched, TypeOK
  <2>2. \A i \in DOMAIN events' : i + 1 \in DOMAIN events /\ events'[i] = events[i + 1]
    BY <2>1
  <2> QED
    BY <2>2, SMTT(30) DEF BatchInv
<1>3. CASE UNCHANGED events
  BY <1>3 DEF BatchInv
<1> QED
  BY <1>1, <1>2, <1>3, Zenon DEF Next, User, Loop, DataArrives, ReadFd, OpenFd, CloseFd,
       RemoveSource, AddSource, RunInLoop, RunOnce, EndHandler, TakeTasks, StartTask, EndTask,
       RunOnceReturns, EpollInterrupted, vars, loopVars

(***************************************************************************)
(* In a process whose descriptors stay below MAX_FAST_FDS, removeSource    *)
(* keeps the promise of PacketReceiver.cc:76 without exception: no removed *)
(* handler is called, whatever the batch of runOnce holds.                 *)
(***************************************************************************)
THEOREM NoneCalledWhenFast ==
  ASSUME SlowFds = {}
  PROVE  Spec => NoCallAfterRemove
<1>1. Init => BatchInv
  BY DEF Init, BatchInv
<1>2. TypeOK /\ SourceInv /\ BatchInv /\ [Next]_vars => BatchInv'
  BY BatchKept
<1>3. TypeOK /\ BatchInv /\ [~CallsRemoved(FastFds)]_vars /\ [Next]_vars
        => [~CallsRemoved(FastFds \cup Nodes)]_vars
  <2> SUFFICES ASSUME TypeOK, BatchInv, Next, CallsRemoved(FastFds \cup Nodes)
               PROVE  CallsRemoved(FastFds)
    BY DEF vars
  <2>1. pc = "dispatch" /\ pc' = "handler" /\ current' \in removed
    BY Zenon DEF CallsRemoved
  <2>2. Dispatch
    BY <2>1, Zenon DEF Next, User, Loop, DataArrives, ReadFd, OpenFd, CloseFd, RemoveSource,
                AddSource, RunInLoop, UserCode, RunOnce, EpollWait, EndHandler, TakeTasks,
                StartTask, EndTask, RunOnceReturns, EpollInterrupted, loopVars
  <2>3. events \in Seq(FastFds \cup Nodes) /\ events # << >>
    BY <2>2 DEF Dispatch, Undispatched, TypeOK
  <2>4. Head(events) = events[1] /\ 1 \in DOMAIN events
    BY <2>3
  <2> QED
    BY <2>1, <2>4 DEF CallsRemoved, BatchInv
<1> QED
  BY <1>1, <1>2, <1>3, TypesHold, SourceInvHolds, RemovedNotCalled, PTL
     DEF Spec, NoFastCallAfterRemove, NoCallAfterRemove

-----------------------------------------------------------------------------
(***************************************************************************)
(* The deferred tasks.  The swap in runOnce drops the old content of the   *)
(* local vector, so it loses no task only because the vector is empty      *)
(* whenever runOnce is not at its tasks; and a task runs exactly while the *)
(* thread is in one.                                                       *)
(***************************************************************************)
TaskInv ==
  /\ pc \notin {"tasks", "task"} => tasks = << >>
  /\ pc = "task" <=> running # << >>

Queue == INSTANCE TaskQueue WITH queue <- tasks \o pendingTasks

LEMMA TaskInvKept == TypeOK /\ TaskInv /\ [Next]_vars => TaskInv'
<1> SUFFICES ASSUME TypeOK, TaskInv, [Next]_vars PROVE TaskInv'
  OBVIOUS
<1>1. CASE StartTask
  <2>1. running' # << >> /\ pc' = "task"
    BY <1>1 DEF StartTask
  <2> QED
    BY <2>1 DEF TaskInv
<1>2. CASE UNCHANGED <<pc, taskVars>> \/ (UserCode /\ UNCHANGED <<pc, tasks, running>>)
  BY <1>2, SMTT(30) DEF TaskInv, taskVars
<1>3. CASE \/ \E t \in Timeouts : RunOnce(t)
           \/ EpollWait \/ Dispatch \/ EndHandler \/ TakeTasks \/ EndTask
           \/ RunOnceReturns \/ EpollInterrupted
  BY <1>3 DEF TaskInv, RunOnce, EpollWait, Dispatch, EndHandler, TakeTasks, EndTask,
              RunOnceReturns, EpollInterrupted, taskVars
<1> QED
  BY <1>1, <1>2, <1>3, Zenon DEF Next, User, Loop, DataArrives, ReadFd, OpenFd, CloseFd,
       RemoveSource, AddSource, RunInLoop, vars, loopVars, taskVars

\* What each step does to the queue: nothing, or what TaskQueue allows.
LEMMA TaskStep ==
  ASSUME TypeOK, TaskInv, [Next]_vars
  PROVE  [Queue!QueueNext]_(Queue!qvars)
<1>0. tasks \in Seq(Tasks) /\ pendingTasks \in Seq(Tasks)
  BY DEF TypeOK
<1>1. ASSUME NEW t \in Tasks, RunInLoop(t) PROVE Queue!Submit(t)
  <2>1. tasks \o Append(pendingTasks, t) = Append(tasks \o pendingTasks, t)
    <3>1. tasks \o pendingTasks \in Seq(Tasks) /\ <<t>> \in Seq(Tasks)
      BY <1>0
    <3>2. Append(pendingTasks, t) = pendingTasks \o <<t>>
      BY <1>0, AddedOne
    <3>3. Append(tasks \o pendingTasks, t) = (tasks \o pendingTasks) \o <<t>>
      BY <3>1, AddedOne
    <3> QED
      BY <1>0, <3>1, <3>2, <3>3, AddedTwice
  <2> QED
    BY <1>1, <2>1 DEF RunInLoop, Queue!Submit
<1>2. CASE TakeTasks
  <2>1. tasks = << >> /\ tasks' = pendingTasks /\ pendingTasks' = << >> /\ running' = running
    BY <1>2 DEF TakeTasks, TaskInv
  <2>2. tasks' \o pendingTasks' = tasks \o pendingTasks
    BY <1>0, <2>1, NothingAdded
  <2> QED
    BY <2>1, <2>2 DEF Queue!qvars
<1>3. CASE StartTask
  <2>1. /\ running = << >> /\ tasks # << >> /\ running' = <<Head(tasks)>>
        /\ tasks' = Tail(tasks) /\ pendingTasks' = pendingTasks
    BY <1>3 DEF StartTask, TaskInv
  <2>2. /\ tasks \o pendingTasks # << >>
        /\ Head(tasks \o pendingTasks) = Head(tasks)
        /\ Tail(tasks \o pendingTasks) = Tail(tasks) \o pendingTasks
    BY <1>0, <2>1, SMTT(30)
  <2>3. Queue!Start
    BY <2>1, <2>2, Zenon DEF Queue!Start
  <2> QED
    BY <2>3 DEF Queue!QueueNext
<1>4. CASE EndTask
  <2>1. Queue!Finish
    BY <1>4, Zenon DEF EndTask, TaskInv, Queue!Finish
  <2> QED
    BY <2>1 DEF Queue!QueueNext
<1>5. CASE UNCHANGED taskVars
  BY <1>5 DEF taskVars, Queue!qvars
<1> QED
  BY <1>1, <1>2, <1>3, <1>4, <1>5, Zenon DEF Next, User, Loop, DataArrives, ReadFd, OpenFd,
       CloseFd, RemoveSource, AddSource, RunOnce, EpollWait, Dispatch, EndHandler,
       RunOnceReturns, EpollInterrupted, vars, Queue!QueueNext

(***************************************************************************)
(* The functions passed to runInLoop run one at a time, each once, in the  *)
(* order of submission, those that a running function submits included:    *)
(* m_pendingTasks and the vector runOnce swaps it into are one queue.      *)
(***************************************************************************)
THEOREM TasksRunInOrder == Spec => Queue!FifoSpec
<1>1. Init => TaskInv /\ Queue!QueueInit
  <2>1. << >> \in Seq(Tasks) /\ << >> \o << >> = << >>
    OBVIOUS
  <2> QED
    BY <2>1 DEF Init, TaskInv, Queue!QueueInit
<1>2. TypeOK /\ TaskInv /\ [Next]_vars => TaskInv'
  BY TaskInvKept
<1>3. TypeOK /\ TaskInv /\ [Next]_vars => [Queue!QueueNext]_(Queue!qvars)
  BY TaskStep
<1> QED
  BY <1>1, <1>2, <1>3, TypesHold, PTL DEF Spec, Queue!FifoSpec
-----------------------------------------------------------------------------
(***************************************************************************)
(* The measure behind RunOnceTerminates: what a runOnce that came back     *)
(* from epoll_wait has left to do in its present phase, where a handler or *)
(* a task that runs counts one and one that waits counts two.              *)
(***************************************************************************)
Phase == CASE pc \in {"dispatch", "handler"} -> 2
           [] pc \in {"tasks", "task"} -> 1
           [] OTHER -> 0

Remaining ==
  IF Phase = 2 THEN 2 * Len(events) + (IF pc = "handler" THEN 1 ELSE 0)
               ELSE 2 * Len(tasks) + (IF pc = "task" THEN 1 ELSE 0)

Shrinks == Phase' < Phase \/ (Phase' = Phase /\ Remaining' < Remaining)

\* Every step of the loop itself brings the end of the call nearer, and no call
\* that a handler or a task makes moves it away.
RoundShrinks ==
  Phase # 0 => IF Loop THEN Shrinks ELSE Phase' = Phase /\ Remaining' = Remaining

LEMMA LoopShrinks ==
  ASSUME TypeOK, Loop, Phase # 0
  PROVE  Shrinks
<1>1. Len(events) \in Nat /\ Len(tasks) \in Nat
  BY DEF TypeOK
<1>2. CASE Dispatch
  <2>1. Len(events') = Len(events) - 1 /\ Len(events') \in Nat
    BY <1>2 DEF Dispatch, Undispatched, TypeOK
  <2>2. pc = "dispatch" /\ pc' \in {"dispatch", "handler"}
    BY <1>2, Zenon DEF Dispatch
  <2> QED
    BY <1>1, <2>1, <2>2, SMTT(30) DEF Shrinks, Phase, Remaining
<1>3. CASE EndHandler
  BY <1>1, <1>3 DEF EndHandler, Shrinks, Phase, Remaining
<1>4. CASE TakeTasks
  BY <1>4 DEF TakeTasks, Shrinks, Phase
<1>5. CASE StartTask
  <2>1. Len(tasks') = Len(tasks) - 1 /\ Len(tasks') \in Nat
    BY <1>5 DEF StartTask, TypeOK
  <2> QED
    BY <1>1, <1>5, <2>1, SMTT(30) DEF StartTask, Shrinks, Phase, Remaining
<1>6. CASE EndTask
  BY <1>1, <1>6 DEF EndTask, Shrinks, Phase, Remaining
<1>7. CASE RunOnceReturns
  BY <1>7 DEF RunOnceReturns, Shrinks, Phase
<1>8. CASE EpollWait \/ \E t \in Timeouts : RunOnce(t)
  BY <1>8 DEF EpollWait, RunOnce, Phase
<1> QED
  BY <1>2, <1>3, <1>4, <1>5, <1>6, <1>7, <1>8, SMTT(30) DEF Loop

(***************************************************************************)
(* A runOnce that came back from epoll_wait works through a fixed batch of *)
(* events and then a fixed vector of tasks: each of its own steps shrinks  *)
(* what is left, and no addSource, removeSource, runInLoop or input that   *)
(* falls between them makes it grow.                                       *)
(***************************************************************************)
THEOREM RunOnceShrinks == Spec => [][RoundShrinks]_vars
<1>1. TypeOK /\ [Next]_vars => [RoundShrinks]_vars
  <2> SUFFICES ASSUME TypeOK, Next, Phase # 0 PROVE RoundShrinks
    BY DEF RoundShrinks, vars
  <2>1. CASE Loop
    BY <2>1, LoopShrinks DEF RoundShrinks
  <2>2. CASE ~Loop
    <3>1. UNCHANGED <<pc, events, tasks>>
      <4>1. ~EpollInterrupted
        BY DEF EpollInterrupted, Phase
      <4> QED
        BY <2>2, <4>1, Zenon DEF Next, User, DataArrives, ReadFd, OpenFd, CloseFd, RemoveSource,
             AddSource, RunInLoop, loopVars, taskVars
    <3> QED
      BY <2>2, <3>1 DEF RoundShrinks, Phase, Remaining
  <2> QED
    BY <2>1, <2>2
<1> QED
  BY <1>1, TypesHold, PTL DEF Spec
=============================================================================
