--------------------------- MODULE ChainAgentProofs ---------------------------
(***************************************************************************)
(* What is proved of the agent's intake, for any number of streams and of      *)
(* candidates: where every candidate of every source is, and in which order    *)
(* they are handled.                                                         *)
(***************************************************************************)
EXTENDS ChainAgent, FiniteSetTheorems, SequenceTheorems, TLAPS

LEMMA ItemParts ==
  ASSUME NEW c \in Items
  PROVE  c[1] \in Sources /\ c[2] \in 1..MaxProduced /\ c = <<c[1], c[2]>>
BY AgentAssumption DEF Candidates

LEMMA Markers == Nothing \notin Items /\ QueueClosed \notin Items /\ Done \notin Items
BY QueueAssumption, AgentAssumption

LEMMA RealtimeApart == Realtime \notin Streams /\ Realtime \in Sources /\ Streams \subseteq Sources
BY AgentAssumption DEF Sources

\* How many of a source's have been handled.
Count(h, s) == Cardinality({i \in DOMAIN h : h[i][1] = s})

LEMMA CountIsNat ==
  ASSUME NEW h \in Seq(Items), NEW s
  PROVE  IsFiniteSet({i \in DOMAIN h : h[i][1] = s}) /\ Count(h, s) \in Nat
<1>1. DOMAIN h = 1..Len(h) /\ 1 \in Int /\ Len(h) \in Int
  OBVIOUS
<1>2. IsFiniteSet(1..Len(h))
  BY <1>1, FS_Interval
<1>3. IsFiniteSet({i \in DOMAIN h : h[i][1] = s})
  BY <1>1, <1>2, FS_Subset
<1> QED BY <1>3, FS_CardinalityType DEF Count

LEMMA CountAppend ==
  ASSUME NEW h \in Seq(Items), NEW c \in Items, NEW s
  PROVE  Count(Append(h, c), s) = Count(h, s) + (IF c[1] = s THEN 1 ELSE 0)
<1> DEFINE old == {i \in DOMAIN h : h[i][1] = s}
           longer == Append(h, c)
           new == {i \in DOMAIN longer : longer[i][1] = s}
<1>1. Len(h) \in Nat /\ DOMAIN h = 1..Len(h)
  OBVIOUS
<1>2. /\ DOMAIN longer = 1..(Len(h) + 1)
      /\ \A i \in 1..Len(h) : longer[i] = h[i]
      /\ longer[Len(h) + 1] = c
  BY <1>1, AppendProperties
<1>3. IsFiniteSet(old) /\ Cardinality(old) \in Nat
  BY CountIsNat DEF Count
<1>4. CASE c[1] = s
  <2>1. new = old \cup {Len(h) + 1} /\ Len(h) + 1 \notin old
    <3> HIDE DEF longer
    <3> QED BY <1>1, <1>2, <1>4
  <2>2. Cardinality(new) = Cardinality(old) + 1
    <3> HIDE DEF old, new
    <3> QED BY <1>3, <2>1, FS_AddElement
  <2> QED BY <1>4, <2>2 DEF Count
<1>5. CASE c[1] # s
  <2>1. new = old
    <3> HIDE DEF longer
    <3> QED BY <1>1, <1>2, <1>5
  <2>2. Count(longer, s) = Cardinality(new) /\ Count(h, s) = Cardinality(old)
    BY DEF Count
  <2>3. Count(longer, s) = Count(h, s) /\ Count(h, s) \in Nat
    <3> HIDE DEF longer, new, old
    <3> QED BY <1>3, <2>1, <2>2
  <2> HIDE DEF new, old
  <2> QED BY <1>5, <2>3
<1> QED BY <1>4, <1>5
-----------------------------------------------------------------------------
(* Types, and what the places say of each other. *)

\* The hand is full exactly while it is handled, with the merge's candidate still in its
\* promise; the queue is closed exactly at the end; who waits has not been answered.
Places ==
  /\ loc \in {"top", "retrying", "drained", "racing"} => hand = Nothing
  /\ loc = "handling" => hand \in Items /\ (hand[1] # Realtime => hand = subgraphPromise)
  /\ closed = (loc = "ended")
  /\ ~watched => resolved = <<>> /\ waiters = <<>>
  /\ loc = "racing" /\ watched => resolved # <<>>
  /\ \A i \in DOMAIN items : items[i][1] = Realtime
  /\ \A w \in DOMAIN resolved : resolved[w] \in Items => resolved[w][1] = Realtime
  /\ \A i \in DOMAIN waiters : waiters[i] \in DOMAIN resolved /\ resolved[waiters[i]] = Nothing
  /\ \A i, j \in DOMAIN waiters : i # j => waiters[i] # waiters[j]
  /\ waiters = <<>> \/ items = <<>>

Shape == TypeOK /\ Places

LEMMA ShapeInit == Init => Shape
<1> SUFFICES ASSUME Init PROVE Shape
  OBVIOUS
<1>1. /\ <<>> \in Seq(Items) /\ <<>> \in Seq(Nat) /\ <<>> \in Seq(Items \cup {Nothing, QueueClosed})
      /\ DOMAIN <<>> = {}
  BY EmptySeq
<1>2. TypeOK
  <2>1. QueueTypeOK
    BY <1>1 DEF Init, QueueInit, QueueTypeOK
  <2>2. produced \in [Sources -> 0..MaxProduced]
    BY AgentAssumption DEF Init
  <2>3. handled \in Seq(Items) /\ watched \in BOOLEAN /\ slot \in [Streams -> Items \cup {Nothing, Done}]
    BY <1>1 DEF Init
  <2> QED BY <2>1, <2>2, <2>3 DEF Init, TypeOK
<1>3. Places
  <2>1. /\ items = <<>> /\ waiters = <<>> /\ resolved = <<>> /\ closed = FALSE
        /\ loc = "top" /\ hand = Nothing
    BY DEF Init, QueueInit
  <2>2. DOMAIN items = {} /\ DOMAIN waiters = {} /\ DOMAIN resolved = {}
    BY <1>1, <2>1
  <2> QED BY <2>1, <2>2 DEF Places
<1> QED BY <1>2, <1>3 DEF Shape

\* A push in full: what becomes of a realtime candidate.
LEMMA PushOutcomes ==
  ASSUME Shape, NEW c \in Items, Push(c), loc # "ended"
  PROVE  \/ /\ waiters # <<>> /\ items = <<>>
            /\ Head(waiters) \in DOMAIN resolved /\ resolved[Head(waiters)] = Nothing
            /\ resolved' = [resolved EXCEPT ![Head(waiters)] = c]
            /\ waiters' = Tail(waiters) /\ UNCHANGED <<items, closed>>
         \/ /\ waiters = <<>> /\ items' = Append(items, c)
            /\ UNCHANGED <<waiters, closed, resolved>>
<1>1. ~closed
  BY DEF Shape, Places
<1>2. CASE waiters # <<>>
  <2>1. 1 \in DOMAIN waiters /\ Head(waiters) = waiters[1]
    BY <1>2 DEF Shape, TypeOK, QueueTypeOK
  <2> QED BY <1>1, <1>2, <2>1 DEF Push, Shape, Places
<1>3. CASE waiters = <<>>
  BY <1>1, <1>3 DEF Push
<1> QED BY <1>2, <1>3

Given == Items \cup {Nothing, QueueClosed}

\* Writing over one of a sequence.
LEMMA ExceptIsSeq ==
  ASSUME NEW q \in Seq(Given), NEW w \in DOMAIN q, NEW c \in Given
  PROVE  [q EXCEPT ![w] = c] \in Seq(Given) /\ Len([q EXCEPT ![w] = c]) = Len(q)
<1>1. Len(q) \in Nat /\ q \in [1..Len(q) -> Given]
  OBVIOUS
<1>2. [q EXCEPT ![w] = c] \in [1..Len(q) -> Given]
  BY <1>1
<1> QED BY <1>1, <1>2, SeqDef

\* Of the drain the loop sees only whether it starts over.
Upon == {"top", "retrying", "drained"}
LEMMA DrainOutcome ==
  ASSUME Drain
  PROVE  /\ loc \in Upon /\ loc' \in Upon
         /\ UNCHANGED <<queueVars, watched, produced, active, slot, subgraphPromise, hand, handled, streamWins>>
BY DEF Drain, DrainDispatches, RetriesDone, DrainFindsNone, Upon

LEMMA ShapeStep == Shape /\ [Next]_vars => Shape'
<1> SUFFICES ASSUME Shape, [Next]_vars PROVE Shape'
  OBVIOUS
<1> USE DEF Shape
<1>0. /\ resolved \in Seq(Given) /\ items \in Seq(Items) /\ waiters \in Seq(Nat)
      /\ Len(resolved) \in Nat /\ DOMAIN resolved = 1..Len(resolved)
      /\ Len(waiters) \in Nat /\ DOMAIN waiters = 1..Len(waiters)
      /\ Len(items) \in Nat /\ DOMAIN items = 1..Len(items)
  BY DEF TypeOK, QueueTypeOK, Given
<1>1. CASE RealtimePush
  <2> DEFINE c == <<Realtime, produced'[Realtime]>>
  <2>1. /\ produced' \in [Sources -> 0..MaxProduced] /\ produced'[Realtime] = produced[Realtime] + 1
        /\ produced'[Realtime] \in 1..MaxProduced
    BY <1>1, RealtimeApart, AgentAssumption DEF RealtimePush, Produce, TypeOK
  <2>2. c \in Items /\ c[1] = Realtime
    BY <2>1, RealtimeApart, AgentAssumption DEF Candidates
  <2>3. Push(c) /\ watched /\ UNCHANGED <<watched, active, slot, subgraphPromise, loc, hand, handled, streamWins>>
    BY <1>1 DEF RealtimePush
  <2> HIDE DEF c
  <2>4. CASE loc = "ended"
    <3>1. UNCHANGED queueVars
      BY <2>3, <2>4 DEF Push, Places
    <3> QED BY <2>1, <2>3, <3>1 DEF TypeOK, QueueTypeOK, Places, queueVars
  <2>5. CASE /\ waiters # <<>> /\ items = <<>>
             /\ Head(waiters) \in DOMAIN resolved /\ resolved[Head(waiters)] = Nothing
             /\ resolved' = [resolved EXCEPT ![Head(waiters)] = c]
             /\ waiters' = Tail(waiters) /\ UNCHANGED <<items, closed>>
    <3>1. resolved' \in Seq(Given) /\ Len(resolved') = Len(resolved) /\ DOMAIN resolved' = DOMAIN resolved
      BY <1>0, <2>2, <2>5, ExceptIsSeq DEF Given
    <3>2. /\ waiters' \in Seq(Nat) /\ Len(waiters') = Len(waiters) - 1 /\ DOMAIN waiters' = 1..(Len(waiters) - 1)
          /\ Head(waiters) = waiters[1] /\ \A i \in 1..(Len(waiters) - 1) : waiters'[i] = waiters[i + 1]
      BY <1>0, <2>5
    <3>3. TypeOK'
      BY <2>1, <2>3, <2>5, <3>1, <3>2 DEF TypeOK, QueueTypeOK, Given
    <3>4. \A i \in DOMAIN waiters' : waiters'[i] \in DOMAIN resolved' /\ resolved'[waiters'[i]] = Nothing
      <4>1. ASSUME NEW i \in 1..(Len(waiters) - 1) PROVE waiters'[i] \in DOMAIN resolved' /\ resolved'[waiters'[i]] = Nothing
        <5>1. i + 1 \in DOMAIN waiters /\ i + 1 # 1 /\ 1 \in DOMAIN waiters
          BY <1>0
        <5>2. waiters[i + 1] # waiters[1] /\ waiters[i + 1] \in DOMAIN resolved /\ resolved[waiters[i + 1]] = Nothing
          BY <5>1 DEF Places
        <5> QED BY <2>5, <3>1, <3>2, <5>2
      <4> QED BY <3>2, <4>1
    <3>5. \A i, j \in DOMAIN waiters' : i # j => waiters'[i] # waiters'[j]
      <4>1. ASSUME NEW i \in 1..(Len(waiters) - 1), NEW j \in 1..(Len(waiters) - 1), i # j
            PROVE  waiters'[i] # waiters'[j]
        <5>1. i + 1 \in DOMAIN waiters /\ j + 1 \in DOMAIN waiters /\ i + 1 # j + 1
          BY <1>0, <4>1
        <5>2. waiters[i + 1] # waiters[j + 1]
          BY <5>1 DEF Places
        <5> QED BY <3>2, <5>2
      <4> QED BY <3>2, <4>1
    <3>6. \A w \in DOMAIN resolved' : resolved'[w] \in Items => resolved'[w][1] = Realtime
      BY <2>2, <2>5, <3>1 DEF Places
    <3>7. resolved' # <<>>
      BY <2>5, <3>1
    <3> QED BY <2>3, <2>5, <3>3, <3>4, <3>5, <3>6, <3>7 DEF Places
  <2>6. CASE waiters = <<>> /\ items' = Append(items, c) /\ UNCHANGED <<waiters, closed, resolved>>
    <3>1. /\ items' \in Seq(Items) /\ DOMAIN items' = 1..(Len(items) + 1)
          /\ \A i \in 1..Len(items) : items'[i] = items[i]
          /\ items'[Len(items) + 1] = c
      BY <1>0, <2>2, <2>6, AppendProperties
    <3>2. TypeOK'
      BY <2>1, <2>3, <2>6, <3>1 DEF TypeOK, QueueTypeOK
    <3>3. \A i \in DOMAIN items' : items'[i][1] = Realtime
      BY <1>0, <2>2, <3>1 DEF Places
    <3> QED BY <2>3, <2>6, <3>2, <3>3 DEF Places
  <2> QED BY <2>2, <2>3, <2>4, <2>5, <2>6, PushOutcomes
<1>2. ASSUME NEW s \in Streams, StreamYields(s) PROVE Shape'
  <2>1. /\ produced' \in [Sources -> 0..MaxProduced] /\ produced'[s] \in 1..MaxProduced
    BY <1>2, RealtimeApart, AgentAssumption DEF StreamYields, Produce, TypeOK
  <2>2. <<s, produced'[s]>> \in Items
    BY <2>1, RealtimeApart, AgentAssumption DEF Candidates
  <2>3. TypeOK'
    BY <1>2, <2>1, <2>2 DEF StreamYields, TypeOK, QueueTypeOK, queueVars
  <2>4. Places'
    BY <1>2 DEF StreamYields, Places, queueVars
  <2> QED BY <2>3, <2>4
<1>3. ASSUME NEW s \in Streams, StreamEnds(s) PROVE Shape'
  BY <1>3 DEF StreamEnds, TypeOK, QueueTypeOK, Places, queueVars
<1>4. ASSUME NEW s \in Streams, MergeYields(s) PROVE Shape'
  <2>1. TypeOK'
    BY <1>4 DEF MergeYields, TypeOK, QueueTypeOK, queueVars
  <2>2. Places'
    BY <1>4, Markers DEF MergeYields, Places, queueVars
  <2> QED BY <2>1, <2>2
<1>5. ASSUME NEW s \in Streams, MergeDrops(s) PROVE Shape'
  <2>1. TypeOK'
    BY <1>5 DEF MergeDrops, TypeOK, QueueTypeOK, queueVars
  <2>2. Places'
    BY <1>5, Markers DEF MergeDrops, Places, queueVars
  <2> QED BY <2>1, <2>2
<1>14. CASE Drain
  <2>1. /\ loc \in Upon /\ loc' \in Upon
        /\ UNCHANGED <<items, waiters, closed, resolved, watched, produced, active, slot, subgraphPromise,
                       hand, handled, streamWins>>
    BY <1>14, DrainOutcome DEF queueVars
  <2>2. TypeOK'
    BY <2>1 DEF Upon, TypeOK, QueueTypeOK
  <2>3. Places'
    <3>1. /\ loc' # "handling" /\ loc' # "racing" /\ (loc' = "ended") = FALSE
          /\ loc # "handling" /\ loc # "racing" /\ (loc = "ended") = FALSE
      BY <2>1 DEF Upon
    <3>2. hand = Nothing /\ closed = FALSE
      BY <2>1, <3>1 DEF Upon, Places
    <3>3. /\ hand' = Nothing /\ closed' = (loc' = "ended")
          /\ loc' # "handling" /\ loc' # "racing"
      BY <2>1, <3>1, <3>2
    <3>4. /\ ~watched => resolved = <<>> /\ waiters = <<>>
          /\ \A i \in DOMAIN items : items[i][1] = Realtime
          /\ \A w \in DOMAIN resolved : resolved[w] \in Items => resolved[w][1] = Realtime
          /\ \A i \in DOMAIN waiters : waiters[i] \in DOMAIN resolved /\ resolved[waiters[i]] = Nothing
          /\ \A i, j \in DOMAIN waiters : i # j => waiters[i] # waiters[j]
          /\ waiters = <<>> \/ items = <<>>
      BY DEF Places
    <3>5. /\ ~watched' => resolved' = <<>> /\ waiters' = <<>>
          /\ \A i \in DOMAIN items' : items'[i][1] = Realtime
          /\ \A w \in DOMAIN resolved' : resolved'[w] \in Items => resolved'[w][1] = Realtime
          /\ \A i \in DOMAIN waiters' : waiters'[i] \in DOMAIN resolved' /\ resolved'[waiters'[i]] = Nothing
          /\ \A i, j \in DOMAIN waiters' : i # j => waiters'[i] # waiters'[j]
          /\ waiters' = <<>> \/ items' = <<>>
      BY <2>1, <3>4
    <3> QED BY <3>3, <3>5 DEF Places
  <2> QED BY <2>2, <2>3
<1>6. CASE TakeImmediate
  <2>1. PICK c \in Items : TryShift(c) /\ Handle(c)
    BY <1>6 DEF TakeImmediate
  <2>2. /\ items # <<>> /\ c = items[1] /\ Len(items) > 0
        /\ items' \in Seq(Items) /\ DOMAIN items' = 1..(Len(items) - 1)
        /\ \A i \in 1..(Len(items) - 1) : items'[i] = items[i + 1]
    BY <1>0, <2>1 DEF TryShift
  <2>3. c[1] = Realtime
    <3>1. 1 \in DOMAIN items
      BY <1>0, <2>2
    <3>2. \A i \in DOMAIN items : items[i][1] = Realtime
      BY DEF Places
    <3> QED BY <2>2, <3>1, <3>2
  <2>4. TypeOK'
    BY <1>6, <2>1, <2>2 DEF TakeImmediate, TryShift, Handle, TypeOK, QueueTypeOK
  <2>5. \A i \in DOMAIN items' : items'[i][1] = Realtime
    <3>1. ASSUME NEW i \in 1..(Len(items) - 1) PROVE items'[i][1] = Realtime
      <4>1. i + 1 \in DOMAIN items
        BY <1>0
      <4> QED BY <2>2, <4>1 DEF Places
    <3> QED BY <2>2, <3>1
  <2>6. Places'
    BY <1>6, <2>1, <2>2, <2>3, <2>5 DEF TakeImmediate, TryShift, Handle, Places
  <2> QED BY <2>4, <2>6
<1>7. CASE StartRace
  <2>1. CASE ~watched
    BY <1>7, <2>1 DEF StartRace, TypeOK, QueueTypeOK, Places, queueVars
  <2>2. CASE watched
    <3>1. ~closed /\ loc = "drained" /\ Park
      BY <1>7, <2>2 DEF StartRace, Places
    <3>2. /\ items = <<>> /\ items' = items /\ closed' = closed
          /\ resolved' = Append(resolved, Nothing) /\ waiters' = Append(waiters, Len(resolved'))
      BY <3>1 DEF Park
    <3>3. /\ resolved' \in Seq(Given) /\ Len(resolved') = Len(resolved) + 1
          /\ DOMAIN resolved' = 1..(Len(resolved) + 1)
          /\ \A w \in 1..Len(resolved) : resolved'[w] = resolved[w]
          /\ resolved'[Len(resolved) + 1] = Nothing
      BY <1>0, <3>2, AppendProperties DEF Given
    <3>4. /\ waiters' \in Seq(Nat) /\ DOMAIN waiters' = 1..(Len(waiters) + 1)
          /\ \A i \in 1..Len(waiters) : waiters'[i] = waiters[i]
          /\ waiters'[Len(waiters) + 1] = Len(resolved) + 1
      BY <1>0, <3>2, <3>3, AppendProperties
    <3>5. TypeOK'
      BY <1>7, <3>2, <3>3, <3>4 DEF StartRace, TypeOK, QueueTypeOK, Given
    <3>10. ASSUME NEW i \in 1..Len(waiters)
           PROVE  /\ waiters'[i] = waiters[i] /\ waiters[i] \in 1..Len(resolved)
                  /\ resolved[waiters[i]] = Nothing /\ waiters[i] # Len(resolved) + 1
      <4>1. waiters[i] \in DOMAIN resolved /\ resolved[waiters[i]] = Nothing
        BY <1>0 DEF Places
      <4> QED BY <1>0, <3>4, <4>1
    <3>6. \A i \in DOMAIN waiters' : waiters'[i] \in DOMAIN resolved' /\ resolved'[waiters'[i]] = Nothing
      <4>1. ASSUME NEW i \in DOMAIN waiters' PROVE waiters'[i] \in DOMAIN resolved' /\ resolved'[waiters'[i]] = Nothing
        <5>1. CASE i \in 1..Len(waiters)
          BY <3>3, <3>10, <5>1
        <5>2. CASE i = Len(waiters) + 1
          BY <1>0, <3>3, <3>4, <5>2
        <5> QED BY <1>0, <3>4, <5>1, <5>2
      <4> QED BY <4>1
    <3>7. \A i, j \in DOMAIN waiters' : i # j => waiters'[i] # waiters'[j]
      <4>1. ASSUME NEW i \in DOMAIN waiters', NEW j \in DOMAIN waiters', i # j PROVE waiters'[i] # waiters'[j]
        <5>1. CASE i \in 1..Len(waiters) /\ j \in 1..Len(waiters)
          BY <1>0, <3>10, <4>1, <5>1 DEF Places
        <5>2. CASE ~(i \in 1..Len(waiters) /\ j \in 1..Len(waiters))
          <6>1. CASE i = Len(waiters) + 1
            <7>1. j \in 1..Len(waiters) /\ waiters'[i] = Len(resolved) + 1
              BY <1>0, <3>4, <4>1, <6>1
            <7> QED BY <3>10, <7>1
          <6>2. CASE j = Len(waiters) + 1
            <7>1. i \in 1..Len(waiters) /\ waiters'[j] = Len(resolved) + 1
              BY <1>0, <3>4, <4>1, <6>2
            <7> QED BY <3>10, <7>1
          <6> QED BY <1>0, <3>4, <5>2, <6>1, <6>2
        <5> QED BY <5>1, <5>2
      <4> QED BY <4>1
    <3>8. \A w \in DOMAIN resolved' : resolved'[w] \in Items => resolved'[w][1] = Realtime
      BY <1>0, <3>3, Markers DEF Places
    <3>9. resolved' # <<>>
      BY <1>0, <3>3
    <3> QED BY <1>7, <2>2, <3>1, <3>2, <3>5, <3>6, <3>7, <3>8, <3>9 DEF StartRace, Places
  <2> QED BY <2>1, <2>2
<1>8. CASE RealtimeWins
  <2>1. OwnWaiter \in DOMAIN resolved
    BY <1>0, <1>8 DEF RealtimeWins, Places, OwnWaiter
  <2>2. resolved[OwnWaiter] \in Items /\ resolved[OwnWaiter][1] = Realtime
    BY <1>8, <2>1 DEF RealtimeWins, Places
  <2> QED BY <1>8, <2>2 DEF RealtimeWins, Handle, TypeOK, QueueTypeOK, Places, queueVars
<1>9. CASE SubgraphWins
  BY <1>9 DEF SubgraphWins, Handle, TypeOK, QueueTypeOK, Places, queueVars
<1>10. CASE SubgraphDone
  <2>1. /\ resolved' = [w \in DOMAIN resolved |-> IF resolved[w] = Nothing THEN QueueClosed ELSE resolved[w]]
        /\ closed' = TRUE /\ items' = <<>> /\ waiters' = <<>> /\ loc' = "ended" /\ UNCHANGED hand
        /\ UNCHANGED <<watched, produced, active, slot, subgraphPromise, handled, streamWins>>
    BY <1>10 DEF SubgraphDone, End, Shutdown
  <2>2. \A w \in 1..Len(resolved) : resolved[w] \in Given
    BY <1>0
  <2>3. resolved' \in [1..Len(resolved) -> Given]
    BY <1>0, <2>1, <2>2 DEF Given
  <2>4. resolved' \in Seq(Given) /\ DOMAIN resolved' = DOMAIN resolved
    <3>1. DOMAIN resolved' = DOMAIN resolved
      BY <2>1
    <3>2. \A n \in Nat : \A q \in [1..n -> Given] : q \in Seq(Given)
      BY SeqDef
    <3> QED BY <1>0, <2>3, <3>1, <3>2
  <2>5. TypeOK'
    BY <2>1, <2>4 DEF TypeOK, QueueTypeOK, Given
  <2>6. \A w \in DOMAIN resolved' : resolved'[w] \in Items => resolved'[w][1] = Realtime
    BY <2>1, Markers DEF Places
  <2>7. ~watched => resolved' = <<>>
    <3>1. ASSUME ~watched PROVE resolved' = <<>>
      <4>1. Len(resolved) = 0 /\ DOMAIN resolved' = 1..0
        BY <1>0, <2>4, <3>1 DEF Places
      <4>2. Len(resolved') = 0
        BY <2>4, <4>1
      <4> QED BY <2>4, <4>2, EmptySeq
    <3> QED BY <3>1
  <2>8. \A i \in DOMAIN items' : FALSE
    BY <2>1
  <2>9. \A i \in DOMAIN waiters' : FALSE
    BY <2>1
  <2> QED BY <2>1, <2>5, <2>6, <2>7, <2>8, <2>9 DEF Places
<1>11. CASE Handled
  <2>1. hand \in Items
    BY <1>11 DEF Handled, Places
  <2>2. TypeOK'
    BY <1>11, <2>1 DEF Handled, TypeOK, QueueTypeOK, queueVars
  <2>3. Places'
    BY <1>11 DEF Handled, Places, queueVars
  <2> QED BY <2>2, <2>3
<1>12. CASE UNCHANGED vars
  BY <1>12 DEF vars, queueVars, agentVars, TypeOK, QueueTypeOK, Places
<1> QED BY <1>1, <1>2, <1>3, <1>4, <1>5, <1>6, <1>7, <1>8, <1>9, <1>10, <1>11, <1>12, <1>14 DEF Next, Merge, Loop
-----------------------------------------------------------------------------
(* The streams. *)

\* A stream's slot holds the last it made; what the merge holds came before that, and
\* what is handled before both.
StreamOrder ==
  /\ \A s \in Streams : slot[s] \in Items => slot[s] = <<s, produced[s]>>
  /\ subgraphPromise \in Items =>
       /\ subgraphPromise[1] \in Streams
       /\ subgraphPromise[2] <= produced[subgraphPromise[1]]
       /\ slot[subgraphPromise[1]] \in Items => subgraphPromise[2] < produced[subgraphPromise[1]]
  /\ \A s \in Streams : \A i \in DOMAIN handled :
       handled[i][1] = s =>
         /\ handled[i][2] <= produced[s]
         /\ slot[s] \in Items => handled[i][2] < produced[s]
         /\ subgraphPromise \in Items /\ subgraphPromise[1] = s => handled[i][2] < subgraphPromise[2]

StreamCount ==
  \A s \in Streams :
    produced[s] = Count(handled, s) + (IF slot[s] \in Items THEN 1 ELSE 0)
                    + (IF subgraphPromise \in Items /\ subgraphPromise[1] = s THEN 1 ELSE 0)

StreamsInv == StreamOrder /\ StreamCount

\* What handling a candidate appends.
LEMMA HandledOutcome ==
  ASSUME Shape, Handled
  PROVE  /\ hand \in Items /\ hand' = Nothing /\ loc = "handling" /\ loc' = "top"
         /\ handled' = Append(handled, hand) /\ DOMAIN handled' = 1..(Len(handled) + 1)
         /\ Len(handled) \in Nat /\ DOMAIN handled = 1..Len(handled)
         /\ \A i \in 1..Len(handled) : handled'[i] = handled[i]
         /\ handled'[Len(handled) + 1] = hand
         /\ \A i \in DOMAIN handled' : i \in DOMAIN handled \/ i = Len(handled) + 1
<1>1. /\ hand \in Items /\ hand' = Nothing /\ loc = "handling" /\ loc' = "top"
      /\ handled' = Append(handled, hand) /\ handled \in Seq(Items)
  BY DEF Handled, Shape, Places, TypeOK
<1>2. Len(handled) \in Nat /\ DOMAIN handled = 1..Len(handled)
  BY <1>1
<1>3. /\ handled' \in Seq(Items) /\ Len(handled') = Len(handled) + 1
      /\ \A i \in 1..Len(handled) : handled'[i] = handled[i]
      /\ handled'[Len(handled) + 1] = hand
  BY <1>1, AppendProperties
<1>4. DOMAIN handled' = 1..(Len(handled) + 1)
  BY <1>2, <1>3
<1> QED BY <1>1, <1>2, <1>3, <1>4

\* No step outside the streams and the merge touches what they hold, but for the end of
\* the handling.
LEMMA ElsewhereLeavesStreams ==
  ASSUME Shape, RealtimePush \/ Drain \/ TakeImmediate \/ StartRace \/ RealtimeWins \/ SubgraphWins \/ SubgraphDone \/ UNCHANGED vars
  PROVE  UNCHANGED <<slot, subgraphPromise, handled>> /\ \A s \in Streams : produced'[s] = produced[s]
<1>1. CASE RealtimePush
  BY <1>1, RealtimeApart DEF RealtimePush, Produce, Shape, TypeOK
<1>2. CASE TakeImmediate \/ StartRace \/ RealtimeWins \/ SubgraphWins \/ SubgraphDone \/ UNCHANGED vars
  BY <1>2 DEF TakeImmediate, StartRace, RealtimeWins, SubgraphWins, SubgraphDone, vars, agentVars
<1>3. CASE Drain
  BY <1>3, DrainOutcome
<1> QED BY <1>1, <1>2, <1>3

LEMMA StreamsInvInit == Init => StreamsInv
<1> SUFFICES ASSUME Init PROVE StreamsInv
  OBVIOUS
<1>1. handled = <<>> /\ DOMAIN <<>> = {}
  BY DEF Init
<1>2. \A s \in Streams : produced[s] = 0 /\ slot[s] = Nothing
  BY RealtimeApart DEF Init
<1>3. subgraphPromise = Nothing
  BY DEF Init
<1>4. \A s : Count(handled, s) = 0
  BY <1>1, FS_EmptySet DEF Count
<1> QED BY <1>1, <1>2, <1>3, <1>4, Markers DEF StreamsInv, StreamOrder, StreamCount

LEMMA StreamsInvStep == Shape /\ StreamsInv /\ [Next]_vars => StreamsInv'
<1> SUFFICES ASSUME Shape, StreamsInv, [Next]_vars PROVE StreamsInv'
  OBVIOUS
<1>0. /\ produced \in [Sources -> 0..MaxProduced] /\ slot \in [Streams -> Items \cup {Nothing, Done}]
      /\ handled \in Seq(Items)
      /\ \A s \in Streams : produced[s] \in Nat
      /\ \A i \in DOMAIN handled : handled[i] \in Items /\ handled[i][2] \in Nat
  <2>1. /\ produced \in [Sources -> 0..MaxProduced] /\ slot \in [Streams -> Items \cup {Nothing, Done}]
        /\ handled \in Seq(Items)
    BY DEF Shape, TypeOK
  <2>2. \A s \in Streams : produced[s] \in Nat
    BY <2>1, RealtimeApart, AgentAssumption
  <2>3. \A i \in DOMAIN handled : handled[i] \in Items
    BY <2>1
  <2> QED BY <2>1, <2>2, <2>3, ItemParts, AgentAssumption
<1>7. \A s : Count(handled, s) \in Nat
  BY <1>0, CountIsNat
<1>1. CASE RealtimePush \/ Drain \/ TakeImmediate \/ StartRace \/ RealtimeWins \/ SubgraphWins \/ SubgraphDone \/ UNCHANGED vars
  BY <1>1, ElsewhereLeavesStreams DEF StreamsInv, StreamOrder, StreamCount
<1>2. ASSUME NEW s \in Streams, StreamYields(s) PROVE StreamsInv'
  <2>1. /\ slot[s] = Nothing /\ produced' = [produced EXCEPT ![s] = @ + 1]
        /\ slot' = [slot EXCEPT ![s] = <<s, produced'[s]>>]
        /\ UNCHANGED <<subgraphPromise, handled>>
    BY <1>2 DEF StreamYields, Produce
  <2>2. /\ produced'[s] = produced[s] + 1 /\ slot'[s] = <<s, produced'[s]>>
        /\ \A t \in Streams : t # s => produced'[t] = produced[t] /\ slot'[t] = slot[t]
    BY <1>0, <2>1, RealtimeApart
  <2>3. slot'[s] \in Items
    <3>1. produced'[s] \in 1..MaxProduced
      BY <1>0, <1>2, <2>2, RealtimeApart, AgentAssumption DEF StreamYields, Produce
    <3> QED BY <2>2, <3>1, RealtimeApart, AgentAssumption DEF Candidates
  <2>4. StreamCount'
    BY <1>0, <1>7, <2>1, <2>2, <2>3, Markers DEF StreamsInv, StreamCount
  <2>5. StreamOrder'
    <3>1. \A t \in Streams : slot'[t] \in Items => slot'[t] = <<t, produced'[t]>>
      BY <2>2 DEF StreamsInv, StreamOrder
    <3>2. subgraphPromise \in Items => subgraphPromise[2] \in Nat
      BY ItemParts, AgentAssumption
    <3>3. subgraphPromise' \in Items =>
            /\ subgraphPromise'[1] \in Streams
            /\ subgraphPromise'[2] <= produced'[subgraphPromise'[1]]
            /\ slot'[subgraphPromise'[1]] \in Items => subgraphPromise'[2] < produced'[subgraphPromise'[1]]
      BY <1>0, <2>1, <2>2, <3>2 DEF StreamsInv, StreamOrder
    <3>4. ASSUME NEW t \in Streams, NEW i \in DOMAIN handled, handled[i][1] = t
          PROVE  /\ handled[i][2] <= produced'[t]
                 /\ slot'[t] \in Items => handled[i][2] < produced'[t]
                 /\ subgraphPromise \in Items /\ subgraphPromise[1] = t => handled[i][2] < subgraphPromise[2]
      BY <1>0, <2>2, <3>4 DEF StreamsInv, StreamOrder
    <3> QED BY <2>1, <3>1, <3>3, <3>4 DEF StreamOrder
  <2> QED BY <2>4, <2>5 DEF StreamsInv
<1>3. ASSUME NEW s \in Streams, StreamEnds(s) PROVE StreamsInv'
  <2>1. /\ slot[s] = Nothing /\ slot'[s] = Done /\ \A t \in Streams : t # s => slot'[t] = slot[t]
        /\ UNCHANGED <<produced, subgraphPromise, handled>>
    BY <1>0, <1>3 DEF StreamEnds
  <2> QED BY <2>1, Markers DEF StreamsInv, StreamOrder, StreamCount
<1>4. ASSUME NEW s \in Streams, MergeYields(s) PROVE StreamsInv'
  <2>1. /\ subgraphPromise = Nothing /\ slot[s] \in Items /\ slot'[s] = Nothing
        /\ \A t \in Streams : t # s => slot'[t] = slot[t]
        /\ subgraphPromise' = slot[s] /\ UNCHANGED <<produced, handled>>
    BY <1>0, <1>4 DEF MergeYields
  <2>2. slot[s] = <<s, produced[s]>>
    BY <2>1 DEF StreamsInv, StreamOrder
  <2>3. StreamCount'
    <3>1. subgraphPromise \notin Items /\ slot'[s] \notin Items /\ slot[s][1] = s
      BY <2>1, <2>2, Markers
    <3>2. produced[s] = Count(handled, s) + 1
      BY <1>0, <1>7, <2>1, <3>1 DEF StreamsInv, StreamCount
    <3>3. ASSUME NEW t \in Streams, t # s
          PROVE  produced[t] = Count(handled, t) + (IF slot'[t] \in Items THEN 1 ELSE 0)
      BY <1>0, <1>7, <2>1, <3>1, <3>3 DEF StreamsInv, StreamCount
    <3>4. ASSUME NEW t \in Streams
          PROVE  produced'[t] = Count(handled', t) + (IF slot'[t] \in Items THEN 1 ELSE 0)
                                  + (IF subgraphPromise' \in Items /\ subgraphPromise'[1] = t THEN 1 ELSE 0)
      <4>1. CASE t = s
        BY <1>7, <2>1, <3>1, <3>2, <4>1
      <4>2. CASE t # s
        BY <1>7, <2>1, <3>1, <3>3, <4>2
      <4> QED BY <4>1, <4>2
    <3> QED BY <3>4 DEF StreamCount
  <2>4. StreamOrder'
    BY <1>0, <2>1, <2>2, Markers DEF StreamsInv, StreamOrder
  <2> QED BY <2>3, <2>4 DEF StreamsInv
<1>5. ASSUME NEW s \in Streams, MergeDrops(s) PROVE StreamsInv'
  <2>1. subgraphPromise \notin Items /\ subgraphPromise' \notin Items /\ UNCHANGED <<produced, slot, handled>>
    BY <1>5, Markers DEF MergeDrops
  <2> QED BY <2>1 DEF StreamsInv, StreamOrder, StreamCount
<1>6. CASE Handled
  <2>1. /\ subgraphPromise' = IF hand = subgraphPromise THEN Nothing ELSE subgraphPromise
        /\ UNCHANGED <<produced, slot>> /\ handled' = Append(handled, hand) /\ hand \in Items
    BY <1>6, HandledOutcome DEF Handled
  <2>2. \A s : Count(handled', s) = Count(handled, s) + (IF hand[1] = s THEN 1 ELSE 0)
    BY <1>0, <2>1, CountAppend
  <2>3. CASE hand = subgraphPromise
    <3>1. subgraphPromise \in Items /\ subgraphPromise' \notin Items /\ hand[1] \in Streams
      BY <2>1, <2>3, Markers DEF StreamsInv, StreamOrder
    <3>2. StreamCount'
      BY <1>0, <1>7, <2>1, <2>2, <2>3, <3>1 DEF StreamsInv, StreamCount
    <3>3. ASSUME NEW t \in Streams, NEW i \in DOMAIN handled', handled'[i][1] = t
          PROVE  handled'[i][2] <= produced[t] /\ (slot[t] \in Items => handled'[i][2] < produced[t])
      <4>1. CASE i \in DOMAIN handled
        BY <1>6, <3>3, <4>1, HandledOutcome DEF StreamsInv, StreamOrder
      <4>2. CASE i = Len(handled) + 1
        BY <1>6, <2>3, <3>1, <3>3, <4>2, HandledOutcome DEF StreamsInv, StreamOrder
      <4> QED BY <1>6, <4>1, <4>2, HandledOutcome
    <3>4. StreamOrder'
      BY <2>1, <3>1, <3>3 DEF StreamsInv, StreamOrder
    <3> QED BY <3>2, <3>4 DEF StreamsInv
  <2>4. CASE hand # subgraphPromise
    <3>1. hand[1] \notin Streams /\ subgraphPromise' = subgraphPromise
      BY <1>6, <2>1, <2>4, HandledOutcome, RealtimeApart DEF Shape, Places
    <3>2. StreamCount'
      BY <1>7, <2>1, <2>2, <3>1 DEF StreamsInv, StreamCount
    <3>3. ASSUME NEW t \in Streams, NEW i \in DOMAIN handled', handled'[i][1] = t
          PROVE  i \in DOMAIN handled /\ handled'[i] = handled[i]
      BY <1>6, <3>1, <3>3, HandledOutcome
    <3>4. StreamOrder'
      BY <2>1, <3>1, <3>3 DEF StreamsInv, StreamOrder
    <3> QED BY <3>2, <3>4 DEF StreamsInv
  <2> QED BY <2>3, <2>4
<1> QED BY <1>1, <1>2, <1>3, <1>4, <1>5, <1>6 DEF Next, Merge, Loop
-----------------------------------------------------------------------------
(* The realtime candidates. *)

\* Those that left the queue, or never were in it.
Out == {c \in Items : c[1] = Realtime /\ (c \in Range(handled) \/ c = hand \/ c \in Range(resolved))}

\* What is queued came after all that, in order; no waiter was given what another was;
\* what the loop takes came after everything it handled.
RealtimeOrder ==
  /\ \A c \in Out : c[2] <= produced[Realtime]
  /\ \A i \in DOMAIN items : items[i][2] <= produced[Realtime] /\ \A c \in Out : c[2] < items[i][2]
  /\ \A i, j \in DOMAIN items : i < j => items[i][2] < items[j][2]
  /\ \A v, w \in DOMAIN resolved : resolved[v] \in Items /\ resolved[v] = resolved[w] => v = w
  /\ loc = "racing" /\ watched /\ resolved[OwnWaiter] \in Items =>
       \A i \in DOMAIN handled : handled[i][1] = Realtime => handled[i][2] < resolved[OwnWaiter][2]
  /\ hand \in Items /\ hand[1] = Realtime =>
       \A i \in DOMAIN handled : handled[i][1] = Realtime => handled[i][2] < hand[2]

LEMMA RealtimeOrderInit == Init => RealtimeOrder
<1> SUFFICES ASSUME Init PROVE RealtimeOrder
  OBVIOUS
<1>1. handled = <<>> /\ items = <<>> /\ resolved = <<>> /\ hand = Nothing /\ loc = "top" /\ DOMAIN <<>> = {}
  BY DEF Init, QueueInit
<1>2. Out = {}
  BY <1>1, Markers DEF Out, Range
<1> QED BY <1>1, <1>2, Markers DEF RealtimeOrder

\* What every shape says of the sequences.
LEMMA Lengths ==
  ASSUME Shape
  PROVE  /\ Len(resolved) \in Nat /\ DOMAIN resolved = 1..Len(resolved)
         /\ Len(waiters) \in Nat /\ DOMAIN waiters = 1..Len(waiters)
         /\ Len(items) \in Nat /\ DOMAIN items = 1..Len(items)
         /\ \A i \in DOMAIN items : items[i] \in Items /\ items[i][2] \in Nat /\ items[i][1] = Realtime
         /\ \A i \in DOMAIN handled : handled[i] \in Items /\ handled[i][2] \in Nat
         /\ produced[Realtime] \in Nat
         /\ \A c \in Items : c[2] \in Nat
         /\ OwnWaiter = Len(resolved)
<1>1. /\ resolved \in Seq(Items \cup {Nothing, QueueClosed}) /\ waiters \in Seq(Nat) /\ items \in Seq(Items)
      /\ handled \in Seq(Items) /\ produced \in [Sources -> 0..MaxProduced]
  BY DEF Shape, TypeOK, QueueTypeOK
<1>2. \A c \in Items : c[2] \in Nat
  BY ItemParts, AgentAssumption
<1>3. \A i \in DOMAIN items : items[i] \in Items
  BY <1>1
<1>4. \A i \in DOMAIN handled : handled[i] \in Items
  BY <1>1
<1>5. produced[Realtime] \in Nat
  BY <1>1, RealtimeApart, AgentAssumption
<1> QED BY <1>1, <1>2, <1>3, <1>4, <1>5 DEF Shape, Places, OwnWaiter

\* The candidate that is pushed is newer than all others.
LEMMA Pushed ==
  ASSUME Shape, RealtimePush
  PROVE  LET c == <<Realtime, produced'[Realtime]>> IN
         /\ c \in Items /\ c[1] = Realtime /\ c[2] = produced[Realtime] + 1
         /\ Push(c) /\ watched /\ produced'[Realtime] = produced[Realtime] + 1
         /\ UNCHANGED <<watched, loc, hand, handled, streamWins>>
<1>1. /\ produced'[Realtime] = produced[Realtime] + 1
      /\ produced'[Realtime] \in 1..MaxProduced
  BY RealtimeApart, AgentAssumption DEF RealtimePush, Produce, Shape, TypeOK
<1>2. <<Realtime, produced'[Realtime]>> \in Items
  BY <1>1, RealtimeApart, AgentAssumption DEF Candidates
<1> QED BY <1>1, <1>2 DEF RealtimePush

\* The candidate that is taken at once is the first of the queue.
LEMMA Taken ==
  ASSUME Shape, TakeImmediate
  PROVE  /\ items # <<>> /\ 1 \in DOMAIN items /\ hand' = items[1] /\ hand = Nothing
         /\ Len(items') = Len(items) - 1 /\ DOMAIN items' = 1..(Len(items) - 1)
         /\ \A i \in 1..(Len(items) - 1) : items'[i] = items[i + 1]
         /\ loc = "drained" /\ loc' = "handling" /\ watched
         /\ UNCHANGED <<watched, produced, waiters, closed, resolved, handled, streamWins>>
<1>1. PICK c \in Items : TryShift(c) /\ Handle(c)
  BY DEF TakeImmediate
<1>2. items \in Seq(Items) /\ items # <<>>
  BY <1>1 DEF TryShift, Shape, TypeOK, QueueTypeOK
<1> QED BY <1>1, <1>2 DEF TakeImmediate, TryShift, Handle, Shape, Places

\* A race begins with the loop's own waiter as the last.
LEMMA Parked ==
  ASSUME Shape, StartRace, watched
  PROVE  /\ Len(resolved') = Len(resolved) + 1 /\ DOMAIN resolved' = 1..(Len(resolved) + 1)
         /\ \A w \in 1..Len(resolved) : resolved'[w] = resolved[w]
         /\ resolved'[Len(resolved) + 1] = Nothing
         /\ Len(waiters') = Len(waiters) + 1
         /\ loc = "drained" /\ loc' = "racing" /\ hand = Nothing
         /\ UNCHANGED <<watched, produced, items, hand, handled, streamWins>>
<1>1. ~closed /\ loc = "drained" /\ Park
  BY DEF StartRace, Shape, Places
<1>2. /\ items' = items /\ resolved' = Append(resolved, Nothing) /\ waiters' = Append(waiters, Len(resolved'))
  BY <1>1 DEF Park
<1>3. /\ Len(resolved') = Len(resolved) + 1
      /\ resolved' \in Seq(Given)
      /\ \A w \in 1..Len(resolved) : resolved'[w] = resolved[w]
      /\ resolved'[Len(resolved) + 1] = Nothing
  BY <1>2, AppendProperties DEF Shape, TypeOK, QueueTypeOK, Given
<1>4. Len(waiters') = Len(waiters) + 1
  <2>1. waiters \in Seq(Nat) /\ Len(resolved') \in Nat
    BY <1>3 DEF Shape, TypeOK, QueueTypeOK
  <2> QED BY <1>2, <2>1, AppendProperties
<1>5. DOMAIN resolved' = 1..(Len(resolved) + 1)
  BY <1>3
<1> QED BY <1>1, <1>2, <1>3, <1>4, <1>5 DEF StartRace, Shape, Places

\* Steps that move no realtime candidate.
LEMMA StandsStill ==
  ASSUME Shape, RealtimeOrder,
         UNCHANGED <<queueVars, watched, loc, hand, handled>>, produced'[Realtime] = produced[Realtime]
  PROVE  RealtimeOrder'
<1>1. Out' = Out
  BY DEF Out, Range, queueVars
<1> QED BY <1>1 DEF RealtimeOrder, queueVars, OwnWaiter

LEMMA StreamsMoveNothing ==
  ASSUME Shape, NEW s \in Streams, StreamYields(s) \/ StreamEnds(s) \/ MergeYields(s) \/ MergeDrops(s)
  PROVE  UNCHANGED <<queueVars, watched, loc, hand, handled, streamWins>> /\ produced'[Realtime] = produced[Realtime]
BY RealtimeApart DEF StreamYields, StreamEnds, MergeYields, MergeDrops, Produce, Shape, TypeOK

LEMMA RealtimeOrderStep == Shape /\ StreamOrder /\ RealtimeOrder /\ [Next]_vars => RealtimeOrder'
<1> SUFFICES ASSUME Shape, StreamOrder, RealtimeOrder, [Next]_vars PROVE RealtimeOrder'
  OBVIOUS
<1>0. \A c \in Out : c \in Items /\ c[2] \in Nat
  BY Lengths DEF Out
<1>1. CASE RealtimePush
  <2> DEFINE c == <<Realtime, produced'[Realtime]>>
  <2>1. /\ c \in Items /\ c[1] = Realtime /\ c[2] = produced[Realtime] + 1
        /\ Push(c) /\ watched /\ produced'[Realtime] = produced[Realtime] + 1
        /\ UNCHANGED <<watched, loc, hand, handled, streamWins>>
    BY <1>1, Pushed
  <2> HIDE DEF c
  <2>2. CASE loc = "ended"
    <3>1. UNCHANGED queueVars
      BY <2>1, <2>2 DEF Push, Shape, Places
    <3>2. Out' = Out
      BY <2>1, <3>1 DEF Out, Range, queueVars
    <3> QED BY <1>0, <2>1, <3>1, <3>2, Lengths DEF RealtimeOrder, queueVars, OwnWaiter
  <2>3. CASE /\ waiters # <<>> /\ items = <<>>
             /\ Head(waiters) \in DOMAIN resolved /\ resolved[Head(waiters)] = Nothing
             /\ resolved' = [resolved EXCEPT ![Head(waiters)] = c]
             /\ waiters' = Tail(waiters) /\ UNCHANGED <<items, closed>>
    <3> DEFINE w == Head(waiters)
    <3>1. /\ w \in DOMAIN resolved /\ DOMAIN resolved' = DOMAIN resolved /\ resolved'[w] = c
          /\ \A v \in DOMAIN resolved : v # w => resolved'[v] = resolved[v]
          /\ DOMAIN items' = {}
      BY <2>3
    <3>2. Out' = Out \cup {c}
      BY <2>1, <2>3, <3>1, Markers DEF Out, Range
    <3>3. OwnWaiter' = OwnWaiter
      <4>1. Len(resolved') = Len(resolved)
        BY <2>1, <2>3, ExceptIsSeq DEF Shape, TypeOK, QueueTypeOK, Given
      <4> QED BY <4>1 DEF OwnWaiter
    <3>4. c \notin Out
      BY <1>0, <2>1, Lengths DEF RealtimeOrder
    <3>5. \A v \in DOMAIN resolved : resolved[v] # c
      <4>1. \A v \in DOMAIN resolved : resolved[v] \in Items => resolved[v] \in Out
        BY DEF Out, Range, Shape, Places
      <4> QED BY <2>1, <3>4, <4>1
    <3> HIDE DEF w
    <3>6. \A v, u \in DOMAIN resolved' : resolved'[v] \in Items /\ resolved'[v] = resolved'[u] => v = u
      BY <3>1, <3>5 DEF RealtimeOrder
    <3>7. \A d \in Out' : d[2] <= produced'[Realtime]
      BY <1>0, <2>1, <3>2, Lengths DEF RealtimeOrder
    <3>8. ASSUME loc = "racing", resolved'[OwnWaiter] \in Items, NEW i \in DOMAIN handled, handled[i][1] = Realtime
          PROVE  handled[i][2] < resolved'[OwnWaiter][2]
      <4>1. OwnWaiter \in DOMAIN resolved
        BY <2>1, <3>8, Lengths DEF Shape, Places
      <4>2. CASE OwnWaiter = w
        <5>1. handled[i] \in Out
          BY <3>8, Lengths DEF Out, Range
        <5>2. handled[i][2] <= produced[Realtime] /\ handled[i][2] \in Nat /\ produced[Realtime] \in Nat
          BY <5>1, Lengths DEF RealtimeOrder
        <5> QED BY <2>1, <3>1, <4>2, <5>2
      <4>3. CASE OwnWaiter # w
        BY <2>1, <3>1, <3>8, <4>1, <4>3 DEF RealtimeOrder
      <4> QED BY <4>2, <4>3
    <3>9. hand' \in Items /\ hand'[1] = Realtime =>
            \A i \in DOMAIN handled' : handled'[i][1] = Realtime => handled'[i][2] < hand'[2]
      BY <2>1 DEF RealtimeOrder
    <3> QED BY <2>1, <3>1, <3>3, <3>6, <3>7, <3>8, <3>9 DEF RealtimeOrder
  <2>4. CASE waiters = <<>> /\ items' = Append(items, c) /\ UNCHANGED <<waiters, closed, resolved>>
    <3>1. /\ Len(items) \in Nat /\ DOMAIN items = 1..Len(items) /\ DOMAIN items' = 1..(Len(items) + 1)
          /\ \A i \in 1..Len(items) : items'[i] = items[i]
          /\ items'[Len(items) + 1] = c
      BY <2>1, <2>4, AppendProperties DEF Shape, TypeOK, QueueTypeOK
    <3>2. Out' = Out
      BY <2>1, <2>4 DEF Out, Range
    <3>3. ASSUME NEW i \in DOMAIN items'
          PROVE  items'[i][2] <= produced'[Realtime] /\ \A d \in Out : d[2] < items'[i][2]
      <4>1. CASE i \in 1..Len(items)
        BY <1>0, <2>1, <3>1, <4>1, Lengths DEF RealtimeOrder
      <4>2. CASE i = Len(items) + 1
        BY <1>0, <2>1, <3>1, <4>2, Lengths DEF RealtimeOrder
      <4> QED BY <3>1, <4>1, <4>2
    <3>4. ASSUME NEW i \in DOMAIN items', NEW j \in DOMAIN items', i < j PROVE items'[i][2] < items'[j][2]
      <4>1. i \in 1..Len(items)
        BY <3>1, <3>4
      <4>2. CASE j \in 1..Len(items)
        BY <3>1, <3>4, <4>1, <4>2 DEF RealtimeOrder
      <4>3. CASE j = Len(items) + 1
        BY <2>1, <3>1, <4>1, <4>3, Lengths DEF RealtimeOrder
      <4> QED BY <3>1, <4>2, <4>3
    <3>5. \A d \in Out' : d[2] <= produced'[Realtime]
      BY <1>0, <2>1, <3>2, Lengths DEF RealtimeOrder
    <3> QED BY <2>1, <2>4, <3>2, <3>3, <3>4, <3>5 DEF RealtimeOrder, OwnWaiter
  <2> QED BY <2>1, <2>2, <2>3, <2>4, PushOutcomes
<1>2. ASSUME NEW s \in Streams, StreamYields(s) \/ StreamEnds(s) \/ MergeYields(s) \/ MergeDrops(s)
      PROVE RealtimeOrder'
  BY <1>2, StreamsMoveNothing, StandsStill
<1>3. CASE TakeImmediate
  <2>1. hand' \in Items /\ hand'[1] = Realtime /\ hand' = items[1] /\ 1 \in DOMAIN items
    BY <1>3, Taken, Lengths
  <2>2. \A d \in Out' : d \in Out \/ d = hand'
    BY <1>3, Taken DEF Out
  <2>3. \A d \in Out' : d[2] <= produced[Realtime]
    BY <2>1, <2>2 DEF RealtimeOrder
  <2>4. ASSUME NEW i \in DOMAIN items'
        PROVE  /\ i + 1 \in DOMAIN items /\ 1 < i + 1 /\ items'[i] = items[i + 1]
               /\ items'[i][2] <= produced[Realtime] /\ \A d \in Out' : d[2] < items'[i][2]
    <3>1. i + 1 \in DOMAIN items /\ 1 < i + 1 /\ items'[i] = items[i + 1]
      BY <1>3, Taken, Lengths
    <3> QED BY <2>1, <2>2, <3>1 DEF RealtimeOrder
  <2>5. \A i, j \in DOMAIN items' : i < j => items'[i][2] < items'[j][2]
    <3>1. ASSUME NEW i \in DOMAIN items', NEW j \in DOMAIN items', i < j PROVE items'[i][2] < items'[j][2]
      <4>1. i + 1 < j + 1
        BY <1>3, <3>1, Taken, Lengths
      <4> QED BY <2>4, <4>1 DEF RealtimeOrder
    <3> QED BY <3>1
  <2>6. ASSUME NEW i \in DOMAIN handled, handled[i][1] = Realtime PROVE handled[i][2] < hand'[2]
    <3>1. handled[i] \in Out
      BY <2>6, Lengths DEF Out, Range
    <3> QED BY <2>1, <3>1 DEF RealtimeOrder
  <2> QED BY <1>3, <2>3, <2>4, <2>5, <2>6, Taken DEF RealtimeOrder
<1>4. CASE StartRace
  <2>1. CASE ~watched
    <3>1. UNCHANGED <<queueVars, watched, produced, hand, handled>>
      BY <1>4, <2>1 DEF StartRace
    <3>2. Out' = Out
      BY <3>1 DEF Out, Range, queueVars
    <3> QED BY <2>1, <3>1, <3>2 DEF RealtimeOrder, queueVars
  <2>2. CASE watched
    <3>1. \A d \in Out' : d \in Out
      BY <1>4, <2>2, Parked, Lengths, Markers DEF Out, Range
    <3>2. \A v, u \in DOMAIN resolved' : resolved'[v] \in Items /\ resolved'[v] = resolved'[u] => v = u
      <4>1. ASSUME NEW v \in DOMAIN resolved', NEW u \in DOMAIN resolved', resolved'[v] \in Items, resolved'[v] = resolved'[u]
            PROVE  v = u
        <5>1. v \in 1..Len(resolved) /\ u \in 1..Len(resolved)
          BY <1>4, <2>2, <4>1, Parked, Lengths, Markers
        <5> QED BY <1>4, <2>2, <4>1, <5>1, Parked, Lengths DEF RealtimeOrder
      <4> QED BY <4>1
    <3>3. resolved'[OwnWaiter'] \notin Items
      BY <1>4, <2>2, Parked, Markers DEF OwnWaiter
    <3>4. hand' \notin Items
      BY <1>4, <2>2, Parked, Markers
    <3> QED BY <1>4, <2>2, <3>1, <3>2, <3>3, <3>4, Parked DEF RealtimeOrder
  <2> QED BY <2>1, <2>2
<1>5. CASE RealtimeWins
  <2>1. /\ loc = "racing" /\ watched /\ resolved[OwnWaiter] \in Items /\ hand' = resolved[OwnWaiter]
        /\ loc' = "handling" /\ UNCHANGED <<queueVars, watched, produced, handled>>
    BY <1>5 DEF RealtimeWins, Handle
  <2>2. OwnWaiter \in DOMAIN resolved
    BY <2>1, Lengths DEF Shape, Places
  <2>3. \A d \in Out' : d \in Out
    BY <2>1, <2>2 DEF Out, Range, queueVars
  <2> QED BY <2>1, <2>3 DEF RealtimeOrder, queueVars
<1>6. CASE SubgraphWins
  <2>1. /\ hand' = subgraphPromise /\ subgraphPromise \in Items /\ loc' = "handling"
        /\ UNCHANGED <<queueVars, watched, produced, handled>>
    BY <1>6 DEF SubgraphWins, Handle
  <2>2. hand'[1] # Realtime
    BY <2>1, RealtimeApart DEF StreamOrder
  <2>3. \A d \in Out' : d \in Out
    BY <2>1, <2>2 DEF Out, queueVars
  <2> QED BY <2>1, <2>2, <2>3 DEF RealtimeOrder, queueVars
<1>7. CASE SubgraphDone
  <2>1. /\ resolved' = [w \in DOMAIN resolved |-> IF resolved[w] = Nothing THEN QueueClosed ELSE resolved[w]]
        /\ items' = <<>> /\ loc' = "ended" /\ UNCHANGED <<watched, produced, hand, handled>>
    BY <1>7 DEF SubgraphDone, End, Shutdown
  <2>2. DOMAIN resolved' = DOMAIN resolved /\ \A w \in DOMAIN resolved : resolved'[w] \in Items => resolved'[w] = resolved[w]
    BY <2>1, Markers
  <2>3. \A d \in Out' : d \in Out
    BY <2>1, <2>2 DEF Out, Range
  <2>4. DOMAIN items' = {}
    BY <2>1
  <2> QED BY <2>1, <2>2, <2>3, <2>4 DEF RealtimeOrder
<1>8. CASE Handled
  <2>1. UNCHANGED <<queueVars, watched, produced>>
    BY <1>8 DEF Handled
  <2>2. \A d \in Out' : d \in Out
    <3>1. \A i \in DOMAIN handled' : handled'[i] = hand \/ handled'[i] \in Range(handled)
      BY <1>8, HandledOutcome DEF Range
    <3> QED BY <1>8, <2>1, <3>1, HandledOutcome, Markers DEF Out, Range, queueVars
  <2> QED BY <1>8, <2>1, <2>2, HandledOutcome, Markers DEF RealtimeOrder, queueVars
<1>9. CASE UNCHANGED vars
  BY <1>9, StandsStill DEF vars, agentVars
<1>10. CASE Drain
  <2>1. /\ UNCHANGED <<queueVars, watched, produced, hand, handled>> /\ loc' # "racing"
    BY <1>10, DrainOutcome DEF Upon
  <2>2. Out' = Out
    BY <2>1 DEF Out, Range, queueVars
  <2> QED BY <2>1, <2>2 DEF RealtimeOrder, queueVars
<1> QED BY <1>1, <1>2, <1>3, <1>4, <1>5, <1>6, <1>7, <1>8, <1>9, <1>10 DEF Next, Merge, Loop
-----------------------------------------------------------------------------
(* The ledger. *)

\* The realtime candidate the loop has, of the race or in its hand.
InLoop ==
  IF loc = "racing" /\ watched THEN {resolved[OwnWaiter]} \cap Items
  ELSE {hand} \cap ({Realtime} \X (1..MaxProduced))

\* As long as the agent runs each realtime candidate is in one place, and who waits, what
\* the race has won and what is lost was paid for by a race that the merge won or the one
\* that goes on.
Ledger ==
  loc # "ended" =>
    /\ IsFiniteSet(Lost)
    /\ produced[Realtime] = Len(items) + Cardinality(InLoop) + Count(handled, Realtime) + Cardinality(Lost)
    /\ watched =>
         Cardinality(Lost) + Len(waiters) + (IF loc = "racing" THEN Cardinality(InLoop) ELSE 0)
           <= streamWins + (IF loc = "racing" THEN 1 ELSE 0)

LEMMA Sizes ==
  ASSUME NEW x, NEW S
  PROVE  Cardinality({x} \cap S) = IF x \in S THEN 1 ELSE 0
<1>1. CASE x \in S
  <2>1. {x} \cap S = {x}
    BY <1>1
  <2> QED BY <1>1, <2>1, FS_Singleton
<1>2. CASE x \notin S
  <2>1. {x} \cap S = {}
    BY <1>2
  <2> QED BY <1>2, <2>1, FS_EmptySet
<1> QED BY <1>1, <1>2

LEMMA OfRealtime ==
  ASSUME NEW x \in Items \cup {Nothing}
  PROVE  x \in {Realtime} \X (1..MaxProduced) <=> x \in Items /\ x[1] = Realtime
<1>1. CASE x \in Items
  BY <1>1, ItemParts
<1>2. CASE x = Nothing
  BY <1>2, Markers, RealtimeApart, AgentAssumption DEF Candidates
<1> QED BY <1>1, <1>2

\* What the loop has, in numbers.
InLoopSized ==
  Cardinality(InLoop) = IF loc = "racing" /\ watched THEN IF resolved[OwnWaiter] \in Items THEN 1 ELSE 0
                        ELSE IF hand \in Items /\ hand[1] = Realtime THEN 1 ELSE 0

LEMMA InLoopSize == Shape => InLoopSized
<1> SUFFICES ASSUME Shape PROVE InLoopSized
  OBVIOUS
<1>1. CASE loc = "racing" /\ watched
  BY <1>1, Sizes DEF InLoop, InLoopSized
<1>2. CASE ~(loc = "racing" /\ watched)
  <2>1. hand \in Items \cup {Nothing}
    BY DEF Shape, TypeOK
  <2>2. InLoop = {hand} \cap ({Realtime} \X (1..MaxProduced))
    BY <1>2 DEF InLoop
  <2>3. Cardinality(InLoop) = IF hand \in {Realtime} \X (1..MaxProduced) THEN 1 ELSE 0
    BY <2>2, Sizes
  <2> QED BY <1>2, <2>1, <2>3, OfRealtime DEF InLoopSized
<1> QED BY <1>1, <1>2

LEMMA InLoopSizeNext == Shape' => InLoopSized'
BY InLoopSize, PTL

\* Who is lost.
LEMMA LostMembers ==
  \A d : d \in Lost <=>
           /\ d \in Items /\ d \notin Range(handled) /\ d # hand
           /\ \E w \in DOMAIN resolved : (w < OwnWaiter \/ loc # "racing") /\ resolved[w] = d
BY DEF Lost, Orphans

LEMMA LostMembersNext ==
  \A d : d \in Lost' <=>
           /\ d \in Items /\ d \notin Range(handled') /\ d # hand'
           /\ \E w \in DOMAIN resolved' : (w < OwnWaiter' \/ loc' # "racing") /\ resolved'[w] = d
BY DEF Lost, Orphans

LEMMA LedgerInit == Init => Ledger
<1> SUFFICES ASSUME Init PROVE Ledger
  OBVIOUS
<1>1. /\ handled = <<>> /\ items = <<>> /\ waiters = <<>> /\ resolved = <<>> /\ hand = Nothing /\ loc = "top"
      /\ DOMAIN <<>> = {} /\ Len(<<>>) = 0 /\ streamWins = 0
  BY DEF Init, QueueInit
<1>2. produced[Realtime] = 0
  BY RealtimeApart DEF Init
<1>3. Lost = {} /\ Count(handled, Realtime) = 0
  BY <1>1, FS_EmptySet DEF Lost, Orphans, Count
<1>4. Cardinality(InLoop) = 0
  BY <1>1, ShapeInit, InLoopSize, Markers DEF InLoopSized
<1> QED BY <1>1, <1>2, <1>3, <1>4, FS_EmptySet DEF Ledger

LEMMA LedgerStep == Shape /\ Shape' /\ StreamOrder /\ RealtimeOrder /\ Ledger /\ [Next]_vars => Ledger'
<1> SUFFICES ASSUME Shape, Shape', StreamOrder, RealtimeOrder, Ledger, [Next]_vars, loc' # "ended" PROVE Ledger'
  BY DEF Ledger
<1>1. CASE loc = "ended"
  BY <1>1 DEF Next, RealtimePush, StreamYields, StreamEnds, Merge, MergeYields, MergeDrops, Loop, Drain, DrainDispatches, RetriesDone,
    DrainFindsNone, TakeImmediate, StartRace, RealtimeWins, SubgraphWins, SubgraphDone, Handled, Handle, End, vars, agentVars
<1> SUFFICES ASSUME loc # "ended" PROVE Ledger'
  BY <1>1
<1> DEFINE held == Cardinality(InLoop)
           lost == Cardinality(Lost)
           count == Count(handled, Realtime)
<1>2. /\ IsFiniteSet(Lost) /\ lost \in Nat /\ count \in Nat
      /\ streamWins \in Nat /\ streamWins' \in Nat
      /\ produced[Realtime] = Len(items) + held + count + lost
      /\ watched => lost + Len(waiters) + (IF loc = "racing" THEN held ELSE 0)
                      <= streamWins + (IF loc = "racing" THEN 1 ELSE 0)
  BY FS_CardinalityType, CountIsNat DEF Ledger, Shape, TypeOK
<1>3. held \in Nat
  BY InLoopSize DEF InLoopSized
<1>4. \A c : c \notin Lost => IsFiniteSet(Lost \cup {c}) /\ Cardinality(Lost \cup {c}) = lost + 1
  BY <1>2, FS_AddElement
<1> HIDE DEF held, lost, count
<1>5. CASE RealtimePush
  <2> DEFINE c == <<Realtime, produced'[Realtime]>>
  <2>1. /\ c \in Items /\ c[1] = Realtime /\ c[2] = produced[Realtime] + 1
        /\ Push(c) /\ watched /\ produced'[Realtime] = produced[Realtime] + 1
        /\ UNCHANGED <<watched, loc, hand, handled, streamWins>>
    BY <1>5, Pushed
  <2> HIDE DEF c
  <2>2. c \notin Out
    BY <2>1, Lengths DEF RealtimeOrder
  <2>3. c \notin Range(handled) /\ c # hand /\ c \notin Range(resolved)
    BY <2>1, <2>2 DEF Out
  <2>4. Count(handled', Realtime) = count
    BY <2>1 DEF count
  <2>5. CASE /\ waiters # <<>> /\ items = <<>>
             /\ Head(waiters) \in DOMAIN resolved /\ resolved[Head(waiters)] = Nothing
             /\ resolved' = [resolved EXCEPT ![Head(waiters)] = c]
             /\ waiters' = Tail(waiters) /\ UNCHANGED <<items, closed>>
    <3> DEFINE w == Head(waiters)
    <3>1. /\ w \in DOMAIN resolved /\ DOMAIN resolved' = DOMAIN resolved /\ resolved'[w] = c
          /\ resolved[w] = Nothing
          /\ \A v \in DOMAIN resolved : v # w => resolved'[v] = resolved[v]
      BY <2>5
    <3>2. OwnWaiter' = OwnWaiter /\ OwnWaiter = Len(resolved)
      <4>1. Len(resolved') = Len(resolved)
        BY <2>1, <2>5, ExceptIsSeq DEF Shape, TypeOK, QueueTypeOK, Given
      <4> QED BY <4>1 DEF OwnWaiter
    <3>3. Len(waiters') = Len(waiters) - 1 /\ Len(items') = Len(items) /\ Len(waiters) \in Nat /\ Len(items) \in Nat
      BY <2>5, Lengths DEF Shape, TypeOK, QueueTypeOK
    <3>4. loc = "racing" => OwnWaiter \in DOMAIN resolved
      BY <2>1, Lengths DEF Shape, Places
    <3> HIDE DEF w
    <3>5. CASE loc = "racing" /\ w = OwnWaiter
      <4>1. Lost' = Lost
        <5>1. \A v \in DOMAIN resolved : v < OwnWaiter => resolved'[v] = resolved[v]
          BY <3>1, <3>2, <3>5, Lengths
        <5>2. \A d : (\E v \in DOMAIN resolved' : v < OwnWaiter' /\ resolved'[v] = d)
                     <=> (\E v \in DOMAIN resolved : v < OwnWaiter /\ resolved[v] = d)
          BY <3>1, <3>2, <5>1
        <5>3. handled' = handled /\ hand' = hand /\ loc' = "racing" /\ loc = "racing"
          BY <2>1, <3>5
        <5>4. \A d : d \in Lost' <=> d \in Lost
          BY <5>2, <5>3, LostMembers, LostMembersNext
        <5> QED BY <5>4
      <4>2. held = 0 /\ Cardinality(InLoop') = 1
        BY <2>1, <3>1, <3>2, <3>5, Markers, InLoopSize, InLoopSizeNext DEF held, InLoopSized
      <4> QED BY <1>2, <2>1, <2>4, <3>3, <3>5, <4>1, <4>2 DEF Ledger, lost
    <3>6. CASE ~(loc = "racing" /\ w = OwnWaiter)
      <4>1. w < OwnWaiter \/ loc # "racing"
        BY <3>1, <3>2, <3>6, Lengths
      <4>2. Lost' = Lost \cup {c} /\ c \notin Lost
        <5>1. c \in Lost'
          BY <2>1, <2>3, <3>1, <3>2, <4>1, LostMembersNext
        <5>2. c \notin Lost
          BY <2>3, LostMembers DEF Range
        <5>3. ASSUME NEW d, d # c PROVE d \in Lost' <=> d \in Lost
          <6>1. d \in Items => d # resolved[w]
            BY <3>1, Markers
          <6> QED BY <2>1, <3>1, <3>2, <5>3, <6>1, LostMembers, LostMembersNext
        <5> QED BY <5>1, <5>2, <5>3
      <4>3. Cardinality(InLoop') = held
        BY <2>1, <3>1, <3>2, <3>4, <3>6, InLoopSize, InLoopSizeNext DEF held, InLoopSized
      <4>4. IsFiniteSet(Lost') /\ Cardinality(Lost') = lost + 1
        BY <1>4, <4>2
      <4> QED BY <1>2, <1>3, <2>1, <2>4, <3>3, <4>3, <4>4 DEF Ledger
    <3> QED BY <3>5, <3>6
  <2>6. CASE waiters = <<>> /\ items' = Append(items, c) /\ UNCHANGED <<waiters, closed, resolved>>
    <3>1. Len(items') = Len(items) + 1 /\ Len(items) \in Nat
      BY <2>1, <2>6, AppendProperties DEF Shape, TypeOK, QueueTypeOK
    <3>2. Lost' = Lost /\ InLoop' = InLoop
      BY <2>1, <2>6 DEF Lost, Orphans, InLoop, OwnWaiter
    <3> QED BY <1>2, <1>3, <2>1, <2>4, <2>6, <3>1, <3>2 DEF Ledger, lost, held
  <2> QED BY <2>1, <2>5, <2>6, PushOutcomes
<1>6. ASSUME NEW s \in Streams, StreamYields(s) \/ StreamEnds(s) \/ MergeYields(s) \/ MergeDrops(s)
      PROVE Ledger'
  <2>1. UNCHANGED <<queueVars, watched, loc, hand, handled, streamWins>> /\ produced'[Realtime] = produced[Realtime]
    BY <1>6, StreamsMoveNothing
  <2>2. Lost' = Lost /\ InLoop' = InLoop
    BY <2>1 DEF Lost, Orphans, InLoop, OwnWaiter, queueVars
  <2> QED BY <2>1, <2>2 DEF Ledger, queueVars
<1>7. CASE TakeImmediate
  <2>1. /\ hand' = items[1] /\ 1 \in DOMAIN items /\ items[1] \in Items /\ items[1][1] = Realtime /\ items[1][2] \in Nat
        /\ Len(items') = Len(items) - 1 /\ Len(items) \in Nat /\ hand = Nothing
        /\ loc = "drained" /\ loc' = "handling" /\ watched
        /\ UNCHANGED <<watched, produced, waiters, closed, resolved, handled, streamWins>>
    BY <1>7, Taken, Lengths
  <2>2. hand' \notin Out
    BY <2>1 DEF RealtimeOrder
  <2>3. hand' \notin Range(resolved)
    BY <2>1, <2>2 DEF Out
  <2>4. Lost' = Lost
    <3>1. \A w \in DOMAIN resolved : resolved[w] # hand'
      BY <2>3 DEF Range
    <3>2. \A d \in Items : d # hand
      BY <2>1, Markers
    <3>3. handled' = handled /\ resolved' = resolved /\ loc # "racing" /\ loc' # "racing"
      BY <2>1
    <3>4. \A d : d \in Lost' <=> d \in Lost
      BY <3>1, <3>2, <3>3, LostMembers, LostMembersNext
    <3> QED BY <3>4
  <2>5. held = 0 /\ Cardinality(InLoop') = 1
    BY <2>1, Markers, InLoopSize, InLoopSizeNext DEF held, InLoopSized
  <2> QED BY <1>2, <2>1, <2>4, <2>5, Lengths DEF Ledger, lost, count
<1>8. CASE StartRace
  <2>1. CASE ~watched
    <3>1. /\ UNCHANGED <<queueVars, watched, produced, hand, handled, streamWins>> /\ hand = Nothing
          /\ resolved = <<>> /\ DOMAIN resolved = {} /\ loc = "drained" /\ loc' = "racing"
      BY <1>8, <2>1, Lengths DEF StartRace, Shape, Places
    <3>2. Lost' = Lost
      BY <3>1, LostMembers, LostMembersNext DEF queueVars
    <3>3. held = 0 /\ Cardinality(InLoop') = 0
      BY <2>1, <3>1, Markers, InLoopSize, InLoopSizeNext DEF held, InLoopSized
    <3> QED BY <1>2, <2>1, <3>1, <3>2, <3>3 DEF Ledger, queueVars, lost, count
  <2>2. CASE watched
    <3>1. /\ Len(resolved') = Len(resolved) + 1 /\ DOMAIN resolved' = 1..(Len(resolved) + 1)
          /\ Len(resolved) \in Nat /\ DOMAIN resolved = 1..Len(resolved)
          /\ \A w \in 1..Len(resolved) : resolved'[w] = resolved[w]
          /\ resolved'[Len(resolved) + 1] = Nothing
          /\ Len(waiters') = Len(waiters) + 1 /\ Len(waiters) \in Nat
          /\ loc = "drained" /\ loc' = "racing" /\ hand = Nothing
          /\ UNCHANGED <<watched, produced, items, hand, handled, streamWins>>
          /\ OwnWaiter' = Len(resolved) + 1
      BY <1>8, <2>2, Parked, Lengths DEF OwnWaiter
    <3>2. Lost' = Lost
      <4>1. \A w \in DOMAIN resolved' : w < OwnWaiter' <=> w \in DOMAIN resolved
        BY <3>1
      <4>2. \A w \in DOMAIN resolved : w \in DOMAIN resolved' /\ resolved'[w] = resolved[w]
        BY <3>1
      <4>3. handled' = handled /\ hand' = hand /\ loc # "racing" /\ loc' = "racing"
        BY <3>1
      <4> QED BY <4>1, <4>2, <4>3, LostMembers, LostMembersNext
    <3>3. held = 0 /\ Cardinality(InLoop') = 0
      BY <2>2, <3>1, Markers, InLoopSize, InLoopSizeNext DEF held, InLoopSized
    <3> QED BY <1>2, <2>2, <3>1, <3>2, <3>3 DEF Ledger, lost, count
  <2> QED BY <2>1, <2>2
<1>9. CASE RealtimeWins
  <2>1. /\ loc = "racing" /\ watched /\ resolved[OwnWaiter] \in Items /\ hand' = resolved[OwnWaiter]
        /\ loc' = "handling" /\ UNCHANGED <<queueVars, watched, produced, handled, streamWins>>
    BY <1>9 DEF RealtimeWins, Handle
  <2>2. /\ OwnWaiter \in DOMAIN resolved /\ resolved[OwnWaiter][1] = Realtime /\ hand = Nothing
        /\ \A w \in DOMAIN resolved : w < OwnWaiter \/ w = OwnWaiter
        /\ OwnWaiter' = OwnWaiter /\ resolved' = resolved
    BY <2>1, Lengths DEF Shape, Places, OwnWaiter, queueVars
  <2>3. \A w \in DOMAIN resolved : w < OwnWaiter => resolved[w] # resolved[OwnWaiter]
    BY <2>1, <2>2, Lengths DEF RealtimeOrder
  <2>4. Lost' = Lost
    BY <2>1, <2>2, <2>3, LostMembers, LostMembersNext, Markers
  <2>5. held = 1 /\ Cardinality(InLoop') = 1
    BY <2>1, <2>2, InLoopSize, InLoopSizeNext DEF held, InLoopSized
  <2> QED BY <1>2, <2>1, <2>4, <2>5, Lengths DEF Ledger, lost, count, queueVars
<1>10. CASE SubgraphWins
  <2>1. /\ loc = "racing" /\ hand' = subgraphPromise /\ subgraphPromise \in Items /\ loc' = "handling"
        /\ hand = Nothing /\ streamWins' = streamWins + 1
        /\ UNCHANGED <<queueVars, watched, produced, handled>>
    BY <1>10 DEF SubgraphWins, Handle, Shape, Places
  <2>2. hand'[1] # Realtime
    BY <2>1, RealtimeApart DEF StreamOrder
  <2>3. resolved' = resolved /\ OwnWaiter' = OwnWaiter
    BY <2>1 DEF queueVars, OwnWaiter
  <2>4. \A w \in DOMAIN resolved : resolved[w] \in Items => resolved[w] # hand' /\ resolved[w] # hand
    BY <2>1, <2>2, Markers DEF Shape, Places
  <2>5. Cardinality(InLoop') = 0
    BY <2>1, <2>2, InLoopSizeNext DEF InLoopSized
  <2>6. CASE watched /\ resolved[OwnWaiter] \in Items
    <3> DEFINE c == resolved[OwnWaiter]
    <3>1. /\ OwnWaiter \in DOMAIN resolved /\ c[1] = Realtime /\ c \in Items
          /\ \A w \in DOMAIN resolved : w < OwnWaiter \/ w = OwnWaiter
          /\ ~(OwnWaiter < OwnWaiter)
      BY <2>1, <2>6, Lengths DEF Shape, Places
    <3>2. \A w \in DOMAIN resolved : w < OwnWaiter => resolved[w] # c
      BY <2>6, <3>1, Lengths DEF RealtimeOrder
    <3>3. c \notin Range(handled)
      <4>1. \A i \in DOMAIN handled : handled[i][1] = Realtime => handled[i][2] < c[2]
        BY <2>1, <2>6 DEF RealtimeOrder
      <4>2. \A i \in DOMAIN handled : handled[i] # c
        BY <3>1, <4>1, Lengths
      <4> QED BY <4>2 DEF Range
    <3>4. c # hand' /\ c # hand
      BY <2>4, <3>1
    <3> HIDE DEF c
    <3>5. c \notin Lost
      BY <2>1, <3>2, LostMembers
    <3>6. Lost' = Lost \cup {c}
      <4>1. ASSUME NEW d \in Lost' PROVE d \in Lost \cup {c}
        <5>1. d \in Items /\ d \notin Range(handled) /\ \E w \in DOMAIN resolved : resolved[w] = d
          BY <2>1, <2>3, LostMembersNext
        <5>2. PICK w \in DOMAIN resolved : resolved[w] = d
          BY <5>1
        <5>3. d # hand
          BY <2>4, <5>1, <5>2
        <5>4. CASE w < OwnWaiter
          BY <5>1, <5>2, <5>3, <5>4, LostMembers
        <5>5. CASE w = OwnWaiter
          BY <5>2, <5>5 DEF c
        <5> QED BY <3>1, <5>4, <5>5
      <4>2. ASSUME NEW d \in Lost PROVE d \in Lost'
        <5>1. d \in Items /\ d \notin Range(handled) /\ \E w \in DOMAIN resolved : resolved[w] = d
          BY LostMembers
        <5>2. d # hand'
          BY <2>4, <5>1
        <5> QED BY <2>1, <2>3, <5>1, <5>2, LostMembersNext
      <4>3. c \in Lost'
        <5>1. resolved'[OwnWaiter] = c /\ OwnWaiter \in DOMAIN resolved'
          BY <2>3, <3>1 DEF c
        <5> QED BY <2>1, <3>1, <3>3, <3>4, <5>1, LostMembersNext
      <4> QED BY <4>1, <4>2, <4>3
    <3>7. held = 1
      BY <2>1, <2>6, InLoopSize DEF held, InLoopSized
    <3>8. IsFiniteSet(Lost') /\ Cardinality(Lost') = lost + 1
      BY <1>4, <3>5, <3>6
    <3> QED BY <1>2, <2>1, <2>5, <3>7, <3>8, Lengths DEF Ledger, lost, count, queueVars
  <2>7. CASE ~(watched /\ resolved[OwnWaiter] \in Items)
    <3>1. held = 0
      BY <2>1, <2>7, Markers, InLoopSize DEF held, InLoopSized
    <3>2. \A w \in DOMAIN resolved : resolved[w] \in Items => w < OwnWaiter
      <4>1. CASE ~watched
        BY <4>1, Lengths DEF Shape, Places
      <4>2. CASE watched
        BY <2>7, <4>2, Lengths
      <4> QED BY <4>1, <4>2
    <3>3. Lost' = Lost
      BY <2>1, <2>3, <2>4, <3>2, LostMembers, LostMembersNext
    <3> QED BY <1>2, <2>1, <2>5, <3>1, <3>3, Lengths DEF Ledger, lost, count, queueVars
  <2> QED BY <2>6, <2>7
<1>11. CASE SubgraphDone
  BY <1>11 DEF SubgraphDone, End
<1>12. CASE Handled
  <2>1. /\ UNCHANGED <<queueVars, watched, produced, streamWins>> /\ hand \in Items /\ hand' = Nothing
        /\ loc = "handling" /\ loc' = "top" /\ handled' = Append(handled, hand)
    BY <1>12, HandledOutcome DEF Handled
  <2>2. Count(handled', Realtime) = count + (IF hand[1] = Realtime THEN 1 ELSE 0)
    BY <2>1, CountAppend DEF count, Shape, TypeOK
  <2>3. \A d : d \in Range(handled') <=> d \in Range(handled) \/ d = hand
    BY <1>12, HandledOutcome DEF Range
  <2>4. Lost' = Lost
    BY <2>1, <2>3, LostMembers, LostMembersNext, Markers DEF queueVars
  <2>5. held = (IF hand[1] = Realtime THEN 1 ELSE 0) /\ Cardinality(InLoop') = 0
    BY <2>1, Markers, InLoopSize, InLoopSizeNext DEF held, InLoopSized
  <2> QED BY <1>2, <2>1, <2>2, <2>4, <2>5, Lengths DEF Ledger, lost, queueVars
<1>13. CASE UNCHANGED vars
  <2>1. Lost' = Lost /\ InLoop' = InLoop
    BY <1>13 DEF Lost, Orphans, InLoop, OwnWaiter, vars, queueVars, agentVars
  <2> QED BY <1>13, <2>1 DEF Ledger, vars, queueVars, agentVars
<1>14. CASE Drain
  <2>1. /\ UNCHANGED <<queueVars, watched, produced, hand, handled, streamWins>>
        /\ loc # "racing" /\ loc' # "racing"
    BY <1>14, DrainOutcome DEF Upon
  <2>2. Lost' = Lost
    BY <2>1, LostMembers, LostMembersNext DEF queueVars
  <2>3. InLoop' = InLoop
    BY <2>1 DEF InLoop
  <2> QED BY <2>1, <2>2, <2>3 DEF Ledger, queueVars
<1> QED BY <1>5, <1>6, <1>7, <1>8, <1>9, <1>10, <1>11, <1>12, <1>13, <1>14 DEF Next, Merge, Loop
-----------------------------------------------------------------------------
LEMMA InOrderStep == Shape /\ StreamOrder /\ RealtimeOrder /\ InOrder /\ [Next]_vars => InOrder'
<1> SUFFICES ASSUME Shape, StreamOrder, RealtimeOrder, InOrder, [Next]_vars PROVE InOrder'
  OBVIOUS
<1>1. CASE Handled
  <2>1. ASSUME NEW i \in DOMAIN handled, handled[i][1] = hand[1] PROVE handled[i][2] < hand[2]
    <3>1. hand \in Items /\ loc = "handling"
      BY <1>1, HandledOutcome
    <3>2. CASE hand[1] = Realtime
      BY <2>1, <3>1, <3>2 DEF RealtimeOrder
    <3>3. CASE hand[1] # Realtime
      <4>1. hand = subgraphPromise
        BY <3>1, <3>3 DEF Shape, Places
      <4> QED BY <2>1, <3>1, <4>1 DEF StreamOrder
    <3> QED BY <3>2, <3>3
  <2>2. ASSUME NEW i \in DOMAIN handled', NEW j \in DOMAIN handled', i < j, handled'[i][1] = handled'[j][1]
        PROVE  handled'[i][2] < handled'[j][2]
    <3>1. i \in DOMAIN handled
      BY <1>1, <2>2, HandledOutcome
    <3>2. CASE j \in DOMAIN handled
      BY <1>1, <2>2, <3>1, <3>2, HandledOutcome DEF InOrder
    <3>3. CASE j = Len(handled) + 1
      BY <1>1, <2>1, <2>2, <3>1, <3>3, HandledOutcome
    <3> QED BY <1>1, <3>2, <3>3, HandledOutcome
  <2> QED BY <2>2 DEF InOrder
<1>2. CASE ~Handled
  <2>1. handled' = handled
    BY <1>2 DEF Next, RealtimePush, StreamYields, StreamEnds, Merge, MergeYields, MergeDrops, Loop, Drain, DrainDispatches, RetriesDone,
      DrainFindsNone, TakeImmediate, StartRace, RealtimeWins, SubgraphWins, SubgraphDone, vars, agentVars
  <2> QED BY <2>1 DEF InOrder
<1> QED BY <1>1, <1>2

IntakeInv == Shape /\ StreamsInv /\ RealtimeOrder /\ Ledger /\ InOrder

LEMMA IntakeInvHolds == Spec => []IntakeInv
<1>1. Init => IntakeInv
  <2>1. Init => InOrder
    <3>1. ASSUME Init PROVE InOrder
      <4>1. DOMAIN handled = {}
        BY <3>1 DEF Init
      <4> QED BY <4>1 DEF InOrder
    <3> QED BY <3>1
  <2> QED BY <2>1, ShapeInit, StreamsInvInit, RealtimeOrderInit, LedgerInit DEF IntakeInv
<1>2. IntakeInv /\ [Next]_vars => IntakeInv'
  BY ShapeStep, StreamsInvStep, RealtimeOrderStep, LedgerStep, InOrderStep DEF IntakeInv, StreamsInv
<1> QED BY <1>1, <1>2, PTL DEF Spec

\* The intake keeps its types.
THEOREM IntakeTypeCorrect == Spec => []TypeOK
BY IntakeInvHolds, PTL DEF IntakeInv, Shape

\* CandidatesAccounted holds always: orchestrator.ts loses no candidate of a stream while the
\* agent runs, at most one realtime candidate for each race the merge wins, and handles
\* each source in its order, for any number of streams and candidates.
THEOREM CandidatesAccountedCorrect == Spec => []CandidatesAccounted
<1>1. IntakeInv => CandidatesAccounted
  <2> SUFFICES ASSUME IntakeInv PROVE CandidatesAccounted
    OBVIOUS
  <2>1. Shape /\ Ledger /\ StreamCount
    BY DEF IntakeInv, StreamsInv
  <2>2. RealtimeAccounted
    BY <2>1 DEF Ledger, InLoop, Count, RealtimeAccounted
  <2>3. LostBounded
    <3> SUFFICES ASSUME watched, loc # "ended"
                 PROVE  Cardinality(Lost) + Len(waiters) <= streamWins + (IF loc = "racing" THEN 1 ELSE 0)
      BY DEF LostBounded
    <3>1. Cardinality(InLoop) \in Nat
      BY <2>1, InLoopSize DEF InLoopSized
    <3>2. Cardinality(Lost) \in Nat
      BY <2>1, FS_CardinalityType DEF Ledger
    <3>3. Len(waiters) \in Nat /\ streamWins \in Nat
      BY <2>1, Lengths DEF Shape, TypeOK
    <3> QED BY <2>1, <3>1, <3>2, <3>3 DEF Ledger
  <2>4. StreamsAccounted
    BY <2>1 DEF StreamCount, Count, StreamsAccounted
  <2> QED BY <2>2, <2>3, <2>4 DEF IntakeInv, CandidatesAccounted
<1> QED BY <1>1, IntakeInvHolds, PTL
=============================================================================
