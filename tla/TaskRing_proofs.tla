--------------------------- MODULE TaskRing_proofs ---------------------------
(***************************************************************************)
(* Donkey Kong's task ring for any number of slots and any messages: the   *)
(* queued messages are one run of slots from head to tail, none is ever    *)
(* stranded behind a free slot, none waits longer than a ring's worth of   *)
(* frames, and the ring is a bounded first-in first-out queue.             *)
(***************************************************************************)
EXTENDS TaskRing, FiniteSetTheorems, TLAPS

USE SlotsAssumption, MessageAssumption, FrameAssumption

-----------------------------------------------------------------------------
(* The arithmetic of the ring.                                             *)

\* The pointers stay inside the ring.
LEMMA AfterInRing == \A slot \in Slot : After(slot) \in Slot
  BY DEF After, Slot

\* Distances from the head are below the ring's size, and tell slots apart.
LEMMA AheadBounds ==
  ASSUME head \in Slot
  PROVE  /\ \A slot \in Slot : Ahead(slot) \in 0 .. Slots - 1
         /\ \A a, b \in Slot : Ahead(a) = Ahead(b) => a = b
         /\ \A slot \in Slot : Ahead(slot) = 0 <=> slot = head
  BY DEF Ahead, Slot

\* The slot after the tail is one further ahead, unless it is the head.
LEMMA AheadAfter ==
  ASSUME head \in Slot, NEW slot \in Slot
  PROVE  /\ After(slot) # head => Ahead(After(slot)) = Ahead(slot) + 1
         /\ After(slot) = head => Ahead(slot) = Slots - 1
  BY DEF Ahead, After, Slot

\* When the head steps on, every other slot comes one closer.
LEMMA AheadWhenHeadSteps ==
  ASSUME head \in Slot, head' = After(head)
  PROVE  \A slot \in Slot : Ahead(slot)' = IF slot = head THEN Slots - 1 ELSE Ahead(slot) - 1
  BY DEF Ahead, After, Slot

-----------------------------------------------------------------------------
\* The ring clearRamAndInitHardware leaves is free, and nobody has waited.
LEMMA InitIInv == Init => IInv
<1> SUFFICES ASSUME Init PROVE IInv
  OBVIOUS
<1>0. 0 \in Slot /\ 0 \in 0 .. FrameValues - 1 /\ 0 \in 0 .. MaxPosts
  BY DEF Slot
<1>1. TypeOK
  BY <1>0 DEF Init, TypeOK
<1>2. Occupied = {}
  BY DEF Init, Occupied
<1>3. QED
  BY <1>1, <1>2 DEF Init, IInv, RingShape, WaitsAtMostTheRing, FreshFree, FrameDone

\* Dispatching takes the head's message out of the run and lets the others come closer.
LEMMA DispatchKeepsShape ==
  ASSUME IInv, DispatchTask
  PROVE  /\ Occupied' = Occupied \ {head}
         /\ RingShape' /\ WaitsAtMostTheRing'
<1>1. head \in Slot /\ tail \in Slot /\ head' = After(head) /\ tail' = tail
  BY DEF IInv, TypeOK, DispatchTask, Release
<1>2. head \in Occupied
  BY <1>1 DEF DispatchTask, NoTask, Occupied
<1>3. Occupied' = Occupied \ {head}
  BY <1>1 DEF IInv, TypeOK, DispatchTask, Release, Occupied
<1>4. \A slot \in Slot : Ahead(slot)' = IF slot = head THEN Slots - 1 ELSE Ahead(slot) - 1
  BY <1>1, AheadWhenHeadSteps
<1>5. \A slot \in Slot : Ahead(slot) \in 0 .. Slots - 1
  BY <1>1, AheadBounds
<1>6. head' \in Slot /\ (\A slot \in Slot : Ahead(slot)' \in Nat /\ (Ahead(slot)' = 0 <=> slot = head'))
  <2>1. head' \in Slot
    BY <1>1, AfterInRing
  <2>2. \A slot \in Slot : Ahead(slot)' = IF slot >= head' THEN slot - head' ELSE slot - head' + Slots
    BY DEF Ahead
  <2>3. head' \in 0 .. Slots - 1 /\ Slots \in Nat
    BY <2>1 DEF Slot
  <2>4. \A slot \in 0 .. Slots - 1 : Ahead(slot)' \in Nat /\ (Ahead(slot)' = 0 <=> slot = head')
    BY <2>2, <2>3 DEF Slot
  <2>5. QED
    BY <2>1, <2>4 DEF Slot
<1>7. RingShape'
  <2>1. CASE head = tail
    <3>1. Occupied' = Slot \ {head}
      BY <1>2, <1>3, <2>1 DEF IInv, RingShape
    <3>2. Slot \ {head} = {slot \in Slot : Ahead(slot)' < Slots - 1}
      BY <1>1, <1>4, <1>5
    <3>3. CASE head' = tail
      <4>1. Slot = {head}
        BY <1>1, <2>1, <3>3 DEF After, Slot
      <4>2. QED
        BY <1>1, <3>1, <3>3, <4>1 DEF RingShape
    <3>4. CASE head' # tail
      BY <1>1, <1>4, <2>1, <3>1, <3>2, <3>4 DEF RingShape, Slot
    <3>5. QED
      BY <3>3, <3>4
  <2>2. CASE head # tail
    <3>1. Occupied = {slot \in Slot : Ahead(slot) < Ahead(tail)}
      BY <2>2 DEF IInv, RingShape
    <3>2. Ahead(tail)' = Ahead(tail) - 1 /\ Ahead(tail) \in 0 .. Slots - 1
      BY <1>1, <1>4, <1>5, <2>2
    <3>3. Occupied' = {slot \in Slot : Ahead(slot)' < Ahead(tail)'}
      <4>1. \A slot \in Slot :
              Ahead(slot)' < Ahead(tail)' <=> (slot # head /\ Ahead(slot) < Ahead(tail))
        BY <1>4, <1>5, <3>2
      <4>2. QED
        BY <1>3, <3>1, <4>1
    <3>4. CASE head' = tail
      <4>1. Ahead(tail)' = 0
        BY <1>1, <1>6, <3>4
      <4>2. Occupied' = {}
        BY <1>6, <3>3, <4>1
      <4>3. QED
        BY <1>1, <3>4, <4>2 DEF RingShape
    <3>5. CASE head' # tail
      BY <1>1, <3>3, <3>5 DEF RingShape, Slot
    <3>6. QED
      BY <3>4, <3>5
  <2>3. QED
    BY <2>1, <2>2
<1>8. WaitsAtMostTheRing'
  <2> SUFFICES ASSUME NEW slot \in Occupied'
               PROVE  age'[slot] + Ahead(slot)' < Slots
    BY DEF WaitsAtMostTheRing
  <2>1. slot \in Occupied /\ slot # head /\ slot \in Slot
    BY <1>3 DEF Occupied
  <2>2. age'[slot] <= age[slot] + 1 /\ age[slot] \in Nat /\ age'[slot] \in Nat
    BY <2>1 DEF IInv, TypeOK, DispatchTask, PassEnds, Older
  <2>3. Ahead(slot)' = Ahead(slot) - 1 /\ Ahead(slot) \in Int
    BY <1>4, <1>5, <2>1
  <2>4. age[slot] + Ahead(slot) < Slots
    BY <2>1 DEF IInv, WaitsAtMostTheRing
  <2>5. QED
    BY <2>2, <2>3, <2>4
<1>9. QED
  BY <1>3, <1>7, <1>8

\* When the slot at the head is free the whole ring is.
LEMMA NoTaskNoneQueued ==
  ASSUME IInv, NoTask
  PROVE  Occupied = {}
<1>1. head \in Slot /\ tail \in Slot /\ head \notin Occupied
  BY DEF IInv, TypeOK, NoTask, Occupied
<1>2. CASE head = tail
  BY <1>1, <1>2 DEF IInv, RingShape
<1>3. CASE head # tail
  <2>1. Ahead(head) = 0 /\ Ahead(tail) # 0 /\ Ahead(tail) \in Nat
    BY <1>1, <1>3, AheadBounds
  <2>2. head \in {slot \in Slot : Ahead(slot) < Ahead(tail)}
    BY <1>1, <2>1
  <2>3. QED
    BY <1>1, <1>3, <2>2 DEF IInv, RingShape
<1>4. QED
  BY <1>2, <1>3

\* A message that gets in extends the run by the slot at its end; it finds the tail slot
\* free, so the ring was not full.
LEMMA EnqueueKeepsShape ==
  ASSUME IInv, NEW msg \in Message, EnqueueTask(msg)
  PROVE  RingShape' /\ WaitsAtMostTheRing'
<1>1. head \in Slot /\ tail \in Slot /\ head' = head /\ age' = age /\ age \in [Slot -> Nat]
  BY DEF IInv, TypeOK, EnqueueTask, passVars
<1>2. \A slot : Ahead(slot)' = Ahead(slot)
  BY <1>1 DEF Ahead
<1>3. /\ \A slot \in Slot : Ahead(slot) \in 0 .. Slots - 1
      /\ \A a, b \in Slot : Ahead(a) = Ahead(b) => a = b
      /\ \A slot \in Slot : Ahead(slot) = 0 <=> slot = head
  BY <1>1, AheadBounds
<1>4. CASE TailFree
  <2>1. tail' = After(tail) /\ After(tail) \in Slot
    BY <1>1, <1>4, AfterInRing DEF EnqueueTask, Store
  <2>2. tail \notin Occupied /\ Occupied' = Occupied \cup {tail}
    BY <1>1, <1>4, MessageAssumption DEF IInv, TypeOK, EnqueueTask, Store, TailFree, Occupied
  <2>3. Occupied = {slot \in Slot : Ahead(slot) < Ahead(tail)}
    <3>1. CASE head = tail
      <4>1. Occupied = {}
        BY <1>1, <2>2, <3>1 DEF IInv, RingShape
      <4>2. Ahead(tail) = 0
        BY <1>1, <1>3, <3>1
      <4>3. QED
        BY <1>3, <4>1, <4>2
    <3>2. CASE head # tail
      BY <3>2 DEF IInv, RingShape
    <3>3. QED
      BY <3>1, <3>2
  <2>4. Occupied' = {slot \in Slot : Ahead(slot) < Ahead(tail) + 1}
    <3>1. \A slot \in Slot : Ahead(slot) < Ahead(tail) + 1 <=> (Ahead(slot) < Ahead(tail) \/ slot = tail)
      BY <1>1, <1>3
    <3>2. QED
      BY <2>2, <2>3, <3>1, <1>1 DEF Slot
  <2>5. ASSUME After(tail) = head PROVE RingShape'
    <3>1. Ahead(tail) = Slots - 1
      BY <1>1, <2>5, AheadAfter
    <3>2. Occupied' = Slot
      BY <1>3, <2>4, <3>1
    <3>3. QED
      BY <1>1, <2>1, <2>5, <3>2 DEF RingShape, Slot
  <2>6. ASSUME After(tail) # head PROVE RingShape'
    <3>1. Ahead(tail)' = Ahead(tail) + 1
      <4>1. Ahead(After(tail)) = Ahead(tail) + 1
        BY <1>1, <2>6, AheadAfter
      <4>2. Ahead(tail)' = Ahead(tail')
        BY <1>1 DEF Ahead
      <4>3. QED
        BY <2>1, <4>1, <4>2
    <3>2. Occupied' = {slot \in Slot : Ahead(slot)' < Ahead(tail)'}
      <4>1. \A slot \in Slot : Ahead(slot) < Ahead(tail) + 1 <=> Ahead(slot)' < Ahead(tail)'
        BY <1>2, <3>1
      <4>2. QED
        BY <2>4, <4>1
    <3>3. head' # tail'
      BY <1>1, <2>1, <2>6
    <3>4. QED
      BY <3>2, <3>3 DEF RingShape, Slot
  <2>7. WaitsAtMostTheRing'
    <3> SUFFICES ASSUME NEW slot \in Occupied'
                 PROVE  age'[slot] + Ahead(slot)' < Slots
      BY DEF WaitsAtMostTheRing
    <3>1. CASE slot \in Occupied
      BY <1>1, <1>2, <3>1 DEF IInv, WaitsAtMostTheRing
    <3>2. CASE slot = tail
      <4>1. age[tail] = 0
        BY <1>1, <2>2 DEF IInv, FreshFree
      <4>2. slot \in Slot
        BY <1>1, <3>2
      <4>3. age'[slot] = 0
        BY <1>1, <3>2, <4>1
      <4>4. Ahead(slot)' \in 0 .. Slots - 1
        BY <1>2, <1>3, <4>2
      <4>5. QED
        BY <4>3, <4>4
    <3>3. QED
      BY <2>2, <3>1, <3>2
  <2>8. QED
    BY <2>5, <2>6, <2>7
<1>5. CASE ~TailFree
  <2>1. tail' = tail /\ ring' = ring /\ Occupied' = Occupied /\ Slot' = Slot
    BY <1>5 DEF EnqueueTask, Store, Occupied, Slot
  <2>2. Ahead(tail)' = Ahead(tail)
    BY <1>1, <2>1 DEF Ahead
  <2>3. RingShape'
    BY <1>1, <1>2, <2>1, <2>2 DEF IInv, RingShape
  <2>4. WaitsAtMostTheRing'
    BY <1>1, <1>2, <2>1 DEF IInv, WaitsAtMostTheRing
  <2>5. QED
    BY <2>3, <2>4
<1>6. QED
  BY <1>4, <1>5

\* Every main pass and every step of an NMI keeps the inductive invariant.
LEMMA StepIInv == IInv /\ [Next]_vars => IInv'
<1> SUFFICES ASSUME IInv, [Next]_vars PROVE IInv'
  OBVIOUS
<1>1. CASE DispatchTask
  <2>1. TypeOK'
    <3>1. head' \in Slot /\ ring' \in [Slot -> Message \cup {Free}] /\ dispatched' \in Message \cup {Free}
      BY <1>1, AfterInRing DEF IInv, TypeOK, DispatchTask, Release
    <3>2. age' \in [Slot -> Nat] /\ turn' = "vblank" /\ spun' = FALSE
      BY <1>1 DEF IInv, TypeOK, DispatchTask, PassEnds, Older
    <3>3. QED
      BY <1>1, <3>1, <3>2 DEF IInv, TypeOK, DispatchTask, frameVars
  <2>2. RingShape' /\ WaitsAtMostTheRing'
    BY <1>1, DispatchKeepsShape
  <2>3. FreshFree'
    <3>1. Occupied' = Occupied \ {head}
      BY <1>1, DispatchKeepsShape
    <3>2. QED
      BY <1>1, <3>1 DEF FreshFree, DispatchTask, PassEnds, Slot
  <2>4. FrameDone'
    BY <1>1 DEF DispatchTask, PassEnds, FrameDone
  <2>5. QED
    BY <2>1, <2>2, <2>3, <2>4 DEF IInv
<1>2. CASE Spin \/ PerFrameWork
  <2>1. UNCHANGED queueVars /\ Occupied' = Occupied /\ Occupied = {}
    <3>1. UNCHANGED queueVars /\ ring[head] = Free
      BY <1>2 DEF Spin, PerFrameWork, NoTask
    <3>2. Occupied = {}
      BY <3>1, NoTaskNoneQueued DEF NoTask
    <3>3. Occupied' = Occupied
      BY <3>1 DEF queueVars, Occupied, Slot
    <3>4. QED
      BY <3>1, <3>2, <3>3
  <2>2. age' \in [Slot -> Nat] /\ (\A slot \in Slot : age'[slot] = 0)
    BY <1>2, <2>1 DEF Spin, PerFrameWork, PassEnds
  <2>3. TypeOK' /\ FrameDone'
    BY <1>2, <2>1, <2>2
    DEF IInv, TypeOK, Spin, PerFrameWork, PassEnds, queueVars, frameVars, FrameDone, Slot
  <2>4. RingShape' /\ WaitsAtMostTheRing' /\ FreshFree'
    BY <2>1, <2>2 DEF IInv, RingShape, WaitsAtMostTheRing, FreshFree, queueVars, Ahead, Slot
  <2>5. QED
    BY <2>3, <2>4 DEF IInv
<1>3. CASE VblankNmi
  <2>1. FRAME' \in 0 .. FrameValues - 1 /\ FRAME' # FRAME
    BY <1>3 DEF IInv, TypeOK, VblankNmi
  <2>2. FRAME' # FRAME_SEEN' \/ ~spun'
    <3>1. CASE spun
      BY <1>3, <2>1, <3>1 DEF IInv, FrameDone, VblankNmi
    <3>2. CASE ~spun
      BY <1>3, <3>2 DEF VblankNmi, passVars
    <3>3. QED
      BY <3>1, <3>2
  <2>3. QED
    BY <1>3, <2>1, <2>2 DEF IInv, TypeOK, VblankNmi, queueVars, passVars, RingShape,
       WaitsAtMostTheRing, FreshFree, FrameDone, Occupied, Ahead, Slot
<1>4. ASSUME NEW msg \in Message, EnqueueTask(msg) PROVE IInv'
  <2>1. TypeOK'
    <3>1. ring' \in [Slot -> Message \cup {Free}] /\ tail' \in Slot
      BY <1>4, AfterInRing DEF IInv, TypeOK, EnqueueTask, Store
    <3>2. posts' \in 0 .. MaxPosts
      BY <1>4 DEF IInv, TypeOK, EnqueueTask
    <3>3. QED
      BY <1>4, <3>1, <3>2 DEF IInv, TypeOK, EnqueueTask, frameVars, passVars
  <2>2. RingShape' /\ WaitsAtMostTheRing'
    BY <1>4, EnqueueKeepsShape
  <2>3. FreshFree'
    <3>1. Occupied \subseteq Occupied'
      BY <1>4, MessageAssumption DEF IInv, TypeOK, EnqueueTask, Store, TailFree, Occupied, Slot
    <3>2. QED
      BY <1>4, <3>1 DEF IInv, FreshFree, EnqueueTask, passVars, Slot
  <2>4. FrameDone'
    BY <1>4 DEF IInv, FrameDone, EnqueueTask, frameVars, passVars
  <2>5. QED
    BY <2>1, <2>2, <2>3, <2>4 DEF IInv
<1>5. CASE NmiReturns
  BY <1>5 DEF IInv, TypeOK, NmiReturns, queueVars, frameVars, passVars, RingShape,
     WaitsAtMostTheRing, FreshFree, FrameDone, Occupied, Ahead, Slot
<1>6. CASE UNCHANGED vars
  BY <1>6 DEF IInv, TypeOK, vars, queueVars, frameVars, passVars, RingShape,
     WaitsAtMostTheRing, FreshFree, FrameDone, Occupied, Ahead, Slot
<1>7. QED
  BY <1>1, <1>2, <1>3, <1>4, <1>5, <1>6 DEF Next, MainPass, Nmi

\* The ring keeps its shape for ever, and no message waits more than Slots passes.
THEOREM RingInvariant == Spec => []IInv
  BY InitIInv, StepIInv, PTL DEF Spec

\* No message is ever stranded behind a free head slot.
THEOREM NeverStranded == Spec => []NothingStranded
<1>1. IInv => NothingStranded
  BY NoTaskNoneQueued DEF NothingStranded
<1>2. QED
  BY <1>1, RingInvariant, PTL

\* A queued message is dispatched within as many frames as the ring has slots.
THEOREM WaitIsBounded == Spec => []WaitsAtMostTheRing
<1>1. IInv => WaitsAtMostTheRing
  BY DEF IInv
<1>2. QED
  BY <1>1, RingInvariant, PTL

\* Once the queue is empty, the per-frame work misses at most one pass.
THEOREM WaitsOnce == Spec => NeverWaitsTwice
<1>1. IInv /\ [Next]_vars => [Spin => ~spun]_vars
  BY DEF IInv, FrameDone, Spin
<1>2. QED
  BY <1>1, RingInvariant, PTL DEF Spec, NeverWaitsTwice
-----------------------------------------------------------------------------
(* The ring is a queue.  The run of occupied slots is as long as the tail  *)
(* is ahead of the head, and read from the head it is the queue.           *)

\* How many slots the run takes.
Depth == IF Occupied = Slot THEN Slots ELSE Ahead(tail)

Sized == IsFiniteSet(Occupied) /\ Cardinality(Occupied) = Depth

\* The run ends before the tail, and leaves it free unless the ring is full.
LEMMA RunOfSlots ==
  ASSUME IInv
  PROVE  /\ head \in Slot /\ tail \in Slot
         /\ Depth \in 0 .. Slots
         /\ TailFree <=> tail \notin Occupied
         /\ tail \notin Occupied => Depth = Ahead(tail)
         /\ tail \in Occupied => Depth = Slots /\ Occupied = Slot
<1>1. head \in Slot /\ tail \in Slot /\ Slots \in Nat
  BY DEF IInv, TypeOK
<1>2. Ahead(tail) \in 0 .. Slots - 1 /\ (head = tail => Ahead(tail) = 0)
  BY <1>1, AheadBounds
<1>3. TailFree <=> tail \notin Occupied
  BY <1>1 DEF TailFree, Occupied
<1>4. tail \in Occupied => Occupied = Slot
  <2>1. CASE head = tail
    BY <2>1 DEF IInv, RingShape
  <2>2. CASE head # tail
    BY <1>2, <2>2 DEF IInv, RingShape
  <2>3. QED
    BY <2>1, <2>2
<1>5. QED
  BY <1>1, <1>2, <1>3, <1>4 DEF Depth

\* An empty ring takes no slot.
LEMMA InitSized == Init => Sized
<1> SUFFICES ASSUME Init PROVE Sized
  OBVIOUS
<1>1. Occupied = {} /\ Slot # {} /\ head = tail /\ head \in Slot
  BY DEF Init, Occupied, Slot
<1>2. Depth = 0
  BY <1>1 DEF Depth, Ahead, Slot
<1>3. QED
  BY <1>1, <1>2, FS_EmptySet DEF Sized

\* A dispatch takes one slot off the run, and a message that gets in adds one.
LEMMA DispatchShortens ==
  ASSUME IInv, Sized, DispatchTask
  PROVE  Depth > 0 /\ Depth' = Depth - 1 /\ Sized'
<1>1. head \in Slot /\ tail \in Slot /\ head' = After(head) /\ tail' = tail
  BY DEF IInv, TypeOK, DispatchTask, Release
<1>2. Occupied' = Occupied \ {head} /\ head \in Occupied
  BY <1>1, DispatchKeepsShape DEF DispatchTask, NoTask, Occupied
<1>3. Ahead(tail)' = IF tail = head THEN Slots - 1 ELSE Ahead(tail) - 1
  BY <1>1, AheadWhenHeadSteps
<1>4. Depth' = Ahead(tail)'
  BY <1>1, <1>2 DEF Depth, Slot
<1>5. Depth > 0 /\ Depth' = Depth - 1
  <2>1. CASE tail \in Occupied
    <3>1. Depth = Slots /\ Occupied = Slot
      BY <2>1, RunOfSlots
    <3>2. tail = head
      <4>1. tail # head => tail \notin Occupied
        BY AheadBounds, <1>1 DEF IInv, RingShape
      <4>2. QED
        BY <2>1, <4>1
    <3>3. QED
      BY <1>3, <1>4, <3>1, <3>2
  <2>2. CASE tail \notin Occupied
    <3>1. Depth = Ahead(tail) /\ tail # head
      BY <1>2, <2>2, RunOfSlots
    <3>2. Ahead(tail) \in 0 .. Slots - 1 /\ Ahead(tail) # 0
      BY <1>1, <3>1, AheadBounds
    <3>3. QED
      BY <1>3, <1>4, <3>1, <3>2
  <2>3. QED
    BY <2>1, <2>2
<1>6. IsFiniteSet(Occupied') /\ Cardinality(Occupied') = Cardinality(Occupied) - 1
  BY <1>2, FS_RemoveElement DEF Sized
<1>7. QED
  BY <1>5, <1>6 DEF Sized

\* The message that gets in finds fewer than all slots taken.
LEMMA StoreLengthens ==
  ASSUME IInv, Sized, NEW msg \in Message, EnqueueTask(msg), TailFree
  PROVE  Depth < Slots /\ Depth = Ahead(tail) /\ Depth' = Depth + 1 /\ Sized'
<1>1. head \in Slot /\ tail \in Slot /\ head' = head /\ tail' = After(tail) /\ After(tail) \in Slot
  BY AfterInRing DEF IInv, TypeOK, EnqueueTask, Store
<1>2. tail \notin Occupied /\ Occupied' = Occupied \cup {tail}
  BY <1>1 DEF IInv, TypeOK, EnqueueTask, Store, TailFree, Occupied
<1>3. Depth = Ahead(tail) /\ Ahead(tail) \in 0 .. Slots - 1
  BY <1>1, <1>2, RunOfSlots, AheadBounds
<1>4. RingShape' /\ Slot' = Slot
  BY EnqueueKeepsShape DEF Slot
<1>5. Depth' = Depth + 1
  <2>1. CASE After(tail) = head
    <3>1. Occupied' = Slot'
      BY <1>1, <1>2, <1>4, <2>1 DEF RingShape
    <3>2. Ahead(tail) = Slots - 1
      BY <1>1, <2>1, AheadAfter
    <3>3. QED
      BY <1>3, <3>1, <3>2 DEF Depth
  <2>2. CASE After(tail) # head
    <3>1. Ahead(After(tail)) = Ahead(tail) + 1
      BY <1>1, <2>2, AheadAfter
    <3>2. Ahead(tail)' = Ahead(tail) + 1
      BY <1>1, <3>1 DEF Ahead
    <3>3. tail' \notin Occupied' /\ tail' \in Slot'
      BY <1>1, <1>3, <1>4, <2>2, <3>2 DEF RingShape
    <3>4. QED
      BY <1>3, <3>2, <3>3 DEF Depth
  <2>3. QED
    BY <2>1, <2>2
<1>6. IsFiniteSet(Occupied') /\ Cardinality(Occupied') = Cardinality(Occupied) + 1
  BY <1>2, FS_AddElement DEF Sized
<1>7. QED
  BY <1>3, <1>5, <1>6 DEF Sized

\* One turn round the ring and no more.
LEMMA OnceRound ==
  ASSUME NEW n \in Nat, n < 2 * Slots
  PROVE  n % Slots = IF n < Slots THEN n ELSE n - Slots
  BY SMTT(20)

\* The slot of the i-th message, counted from the head.
SlotOf(i) == (head + i - 1) % Slots

\* It is as far ahead as the message is late in the queue, and no other slot is.
LEMMA SlotOfMessage ==
  ASSUME head \in Slot, NEW i \in 1 .. Slots
  PROVE  /\ SlotOf(i) \in Slot /\ Ahead(SlotOf(i)) = i - 1
         /\ \A slot \in Slot : Ahead(slot) = i - 1 => slot = SlotOf(i)
<1> DEFINE n == head + i - 1
<1>1. n \in Nat /\ n < 2 * Slots
  BY DEF Slot
<1>2. SlotOf(i) = IF n < Slots THEN n ELSE n - Slots
  <2>1. SlotOf(i) = n % Slots
    BY DEF SlotOf
  <2> HIDE DEF n
  <2>2. QED
    BY <1>1, <2>1, OnceRound
<1>3. SlotOf(i) \in Slot
  BY <1>2 DEF Slot
<1>4. Ahead(SlotOf(i)) = i - 1
  BY <1>2 DEF Ahead, Slot
<1>5. QED
  BY <1>3, <1>4, AheadBounds

\* When the head steps on, the messages behind it move up.
LEMMA SlotOfWhenHeadSteps ==
  ASSUME head \in Slot, head' = After(head), NEW i \in 1 .. Slots - 1
  PROVE  SlotOf(i)' = SlotOf(i + 1)
<1> DEFINE n == head + i
           m == After(head) + i - 1
<1>1. n \in Nat /\ n < 2 * Slots /\ m \in Nat /\ m < 2 * Slots
  BY DEF Slot, After
<1>2. SlotOf(i + 1) = n % Slots /\ SlotOf(i)' = m % Slots
  <2>1. head + (i + 1) - 1 = n
    BY DEF Slot
  <2>2. QED
    BY <2>1 DEF SlotOf
<1>3. n % Slots = (IF n < Slots THEN n ELSE n - Slots) /\ m % Slots = IF m < Slots THEN m ELSE m - Slots
  <2> HIDE DEF n, m
  <2>1. QED
    BY <1>1, OnceRound
<1>4. QED
  BY <1>2, <1>3 DEF Slot, After

\* Sequences by their elements.
LEMMA Appended ==
  ASSUME NEW S, NEW n \in Nat, NEW q \in [1 .. n -> S], NEW r \in [1 .. n + 1 -> S],
         \A i \in 1 .. n : r[i] = q[i]
  PROVE  r = Append(q, r[n + 1]) /\ Len(q) = n
<1>1. q \in Seq(S) /\ Len(q) = n
  OBVIOUS
<1>2. QED
  BY <1>1

\* ... without the first.
LEMMA Shortened ==
  ASSUME NEW S, NEW n \in Nat, NEW q \in [1 .. n + 1 -> S], NEW r \in [1 .. n -> S],
         \A i \in 1 .. n : r[i] = q[i + 1]
  PROVE  q # <<>> /\ Head(q) = q[1] /\ r = Tail(q)
<1>1. q \in Seq(S) /\ Len(q) = n + 1
  OBVIOUS
<1>2. QED
  BY <1>1

\* The queue the ring stands for, read from the head.
LEMMA QueuedType ==
  ASSUME IInv, Sized
  PROVE  /\ Depth \in 0 .. Slots
         /\ queued = [i \in 1 .. Depth |-> ring[SlotOf(i)]]
         /\ queued \in [1 .. Depth -> Message \cup {Free}] /\ Len(queued) = Depth
<1>1. Depth \in 0 .. Slots /\ head \in Slot
  BY RunOfSlots
<1>2. queued = [i \in 1 .. Depth |-> ring[SlotOf(i)]]
  BY DEF queued, Sized, SlotOf
<1>3. \A i \in 1 .. Depth : SlotOf(i) \in Slot
  BY <1>1, SlotOfMessage
<1>4. queued \in [1 .. Depth -> Message \cup {Free}]
  BY <1>2, <1>3 DEF IInv, TypeOK
<1>5. QED
  BY <1>1, <1>2, <1>4

\* ... now and in the next state.
LEMMA QueuedAlways ==
  IInv /\ Sized => /\ queued = [i \in 1 .. Depth |-> ring[SlotOf(i)]]
                   /\ queued \in [1 .. Depth -> Message \cup {Free}]
BY QueuedType

LEMMA QueuedNext ==
  IInv' /\ Sized' => /\ queued' = [i \in 1 .. Depth' |-> ring'[SlotOf(i)']]
                     /\ queued' \in [1 .. Depth' -> Message \cup {Free}]
<1>1. (IInv /\ Sized => /\ queued = [i \in 1 .. Depth |-> ring[SlotOf(i)]]
                        /\ queued \in [1 .. Depth -> Message \cup {Free}])'
  BY QueuedAlways, PTL
<1>2. QED
  BY <1>1

\* Where no slot and no pointer moves, the queue is the same.
LEMMA StandsStill ==
  ASSUME Sized, UNCHANGED <<ring, head, tail>> PROVE queued' = queued /\ Sized'
<1>1. Occupied' = Occupied
  BY DEF Occupied, Slot
<1>2. Depth' = Depth
  BY <1>1 DEF Depth, Ahead, Slot
<1>3. QED
  BY <1>1, <1>2 DEF Sized, queued

-----------------------------------------------------------------------------
(* Every step of the ring is a step of the queue, or a stutter.            *)

\* The message at the head is the one dispatched, and the rest move up.
LEMMA DispatchIsDispatch ==
  ASSUME IInv, IInv', Sized, DispatchTask
  PROVE  Queue!Dispatch
<1>1. head \in Slot /\ head' = After(head) /\ dispatched' = ring[head] /\ posts' = posts
  BY DEF IInv, TypeOK, DispatchTask, Release
<1>2. Depth > 0 /\ Depth' = Depth - 1 /\ Sized'
  BY DispatchShortens
<1>3. /\ Depth \in 0 .. Slots
      /\ queued = [i \in 1 .. Depth |-> ring[SlotOf(i)]]
      /\ queued \in [1 .. Depth -> Message \cup {Free}]
  BY QueuedType
<1>4. /\ queued' = [i \in 1 .. Depth' |-> ring'[SlotOf(i)']]
      /\ queued' \in [1 .. Depth' -> Message \cup {Free}]
  BY <1>2, QueuedNext
<1>5. ASSUME NEW i \in 1 .. Depth - 1 PROVE queued'[i] = queued[i + 1]
  <2>1. i \in 1 .. Slots - 1 /\ i + 1 \in 1 .. Slots /\ i + 1 \in 1 .. Depth /\ i \in 1 .. Depth'
    BY <1>2, <1>3
  <2>2. SlotOf(i)' = SlotOf(i + 1)
    BY <1>1, <2>1, SlotOfWhenHeadSteps
  <2>3. SlotOf(i + 1) \in Slot /\ SlotOf(i + 1) # head
    <3>1. SlotOf(i + 1) \in Slot /\ Ahead(SlotOf(i + 1)) = (i + 1) - 1
      BY <1>1, <2>1, SlotOfMessage
    <3>2. Ahead(SlotOf(i + 1)) # 0
      BY <3>1
    <3>3. QED
      BY <1>1, <3>1, <3>2, AheadBounds
  <2>4. ring'[SlotOf(i + 1)] = ring[SlotOf(i + 1)]
    BY <1>1, <2>3 DEF IInv, TypeOK, DispatchTask, Release
  <2>5. QED
    BY <1>3, <1>4, <2>1, <2>2, <2>4
<1>6. queued # <<>> /\ Head(queued) = queued[1] /\ queued' = Tail(queued)
  <2> DEFINE n == Depth - 1
  <2>1. n \in Nat /\ Depth = n + 1 /\ Depth' = n
    BY <1>2, <1>3
  <2>2. /\ queued \in [1 .. n + 1 -> Message \cup {Free}]
        /\ queued' \in [1 .. n -> Message \cup {Free}]
        /\ \A i \in 1 .. n : queued'[i] = queued[i + 1]
    BY <1>3, <1>4, <1>5, <2>1
  <2> HIDE DEF n
  <2>3. QED
    BY <2>1, <2>2, Shortened
<1>7. queued[1] = ring[head]
  <2>1. 1 \in 1 .. Depth /\ 1 \in 1 .. Slots
    BY <1>2, <1>3
  <2>2. Ahead(head) = 1 - 1
    BY <1>1, AheadBounds
  <2>3. head = SlotOf(1)
    BY <1>1, <2>1, <2>2, SlotOfMessage
  <2>4. QED
    BY <1>3, <2>1, <2>3
<1>8. QED
  BY <1>1, <1>6, <1>7 DEF Queue!Dispatch

\* A post goes to the end of the queue, or finds it full.
LEMMA EnqueueIsPost ==
  ASSUME IInv, IInv', Sized, NEW msg \in Message, EnqueueTask(msg)
  PROVE  Queue!Post(msg) /\ Sized'
<1>1. head \in Slot /\ head' = head /\ dispatched' = dispatched /\ posts' = posts + 1
  BY DEF IInv, TypeOK, EnqueueTask
<1>2. /\ Depth \in 0 .. Slots
      /\ queued = [i \in 1 .. Depth |-> ring[SlotOf(i)]]
      /\ queued \in [1 .. Depth -> Message \cup {Free}] /\ Len(queued) = Depth
  BY QueuedType
<1>3. CASE TailFree
  <2>1. Depth < Slots /\ Depth = Ahead(tail) /\ Depth' = Depth + 1 /\ Sized'
    BY <1>3, StoreLengthens
  <2>2. /\ queued' = [i \in 1 .. Depth' |-> ring'[SlotOf(i)']]
        /\ queued' \in [1 .. Depth' -> Message \cup {Free}]
    BY <2>1, QueuedNext
  <2>3. \A i : SlotOf(i)' = SlotOf(i)
    BY <1>1 DEF SlotOf
  <2>4. tail \in Slot /\ ring' = [ring EXCEPT ![tail] = msg] /\ ring \in [Slot -> Message \cup {Free}]
    BY <1>3 DEF IInv, TypeOK, EnqueueTask, Store
  <2>5. ASSUME NEW i \in 1 .. Depth PROVE queued'[i] = queued[i]
    <3>1. i \in 1 .. Slots /\ i \in 1 .. Depth'
      BY <1>2, <2>1
    <3>2. SlotOf(i) \in Slot /\ SlotOf(i) # tail
      <4>1. SlotOf(i) \in Slot /\ Ahead(SlotOf(i)) = i - 1
        BY <1>1, <3>1, SlotOfMessage
      <4>2. i - 1 # Depth
        BY <1>2
      <4>3. QED
        BY <2>1, <4>1, <4>2
    <3>3. ring'[SlotOf(i)] = ring[SlotOf(i)]
      BY <2>4, <3>2
    <3>4. QED
      BY <1>2, <2>2, <2>3, <3>1, <3>3
  <2>6. queued'[Depth + 1] = msg
    <3>1. Depth + 1 \in 1 .. Slots /\ Depth + 1 \in 1 .. Depth'
      BY <1>2, <2>1
    <3>2. Ahead(tail) = (Depth + 1) - 1
      BY <1>2, <2>1
    <3>3. tail = SlotOf(Depth + 1)
      BY <1>1, <2>4, <3>1, <3>2, SlotOfMessage
    <3>4. ring'[tail] = msg
      BY <2>4
    <3>5. QED
      BY <2>2, <2>3, <3>1, <3>3, <3>4
  <2>7. queued' = Append(queued, msg)
    <3> DEFINE n == Depth
    <3>1. n \in Nat /\ Depth' = n + 1
      BY <1>2, <2>1
    <3>2. /\ queued \in [1 .. n -> Message \cup {Free}]
          /\ queued' \in [1 .. n + 1 -> Message \cup {Free}]
          /\ \A i \in 1 .. n : queued'[i] = queued[i]
          /\ queued'[n + 1] = msg
      BY <1>2, <2>2, <2>5, <2>6, <3>1
    <3> HIDE DEF n
    <3>3. QED
      BY <3>1, <3>2, Appended
  <2>8. QED
    BY <1>1, <1>2, <2>1, <2>7 DEF Queue!Post
<1>4. CASE ~TailFree
  <2>1. Depth = Slots
    BY <1>4, RunOfSlots
  <2>2. UNCHANGED <<ring, head, tail>>
    BY <1>1, <1>4 DEF EnqueueTask, Store
  <2>3. queued' = queued /\ Sized'
    BY <2>2, StandsStill
  <2>4. QED
    BY <1>1, <1>2, <2>1, <2>3 DEF Queue!Post
<1>5. QED
  BY <1>3, <1>4

\* The ring of every behaviour is a bounded queue: first in, first out, and a message of
\* enqueueTask is dropped only when all slots are taken.
THEOREM RingIsQueue == Spec => IsQueue
<1>1. Init => Sized /\ Queue!Init
  <2> SUFFICES ASSUME Init PROVE Sized /\ Queue!Init
    OBVIOUS
  <2>1. Sized
    BY InitSized
  <2>2. Depth = 0 /\ queued = [i \in 1 .. Depth |-> ring[SlotOf(i)]]
    <3>1. Occupied = {}
      BY DEF Init, Occupied
    <3>2. Cardinality(Occupied) = 0
      BY <3>1, FS_EmptySet
    <3>3. QED
      BY <2>1, <3>2 DEF Sized, queued, SlotOf
  <2>3. queued = <<>>
    BY <2>2
  <2>4. QED
    BY <2>1, <2>3 DEF Init, Queue!Init
<1>2. IInv /\ IInv' /\ Sized /\ [Next]_vars => Sized' /\ [Queue!Next]_(Queue!vars)
  <2> SUFFICES ASSUME IInv, IInv', Sized, [Next]_vars
               PROVE  Sized' /\ [Queue!Next]_(Queue!vars)
    OBVIOUS
  <2>1. CASE DispatchTask
    BY <2>1, DispatchIsDispatch, DispatchShortens DEF Queue!Next
  <2>2. ASSUME NEW msg \in Message, EnqueueTask(msg)
        PROVE  Sized' /\ [Queue!Next]_(Queue!vars)
    BY <2>2, EnqueueIsPost DEF Queue!Next
  <2>3. CASE UNCHANGED <<ring, head, tail, dispatched>> /\ posts' \in {0, posts}
    <3>1. queued' = queued /\ Sized'
      BY <2>3, StandsStill
    <3>2. QED
      BY <2>3, <3>1 DEF Queue!Next, Queue!NewNmi, Queue!vars
  <2>4. CASE Spin \/ PerFrameWork \/ VblankNmi \/ NmiReturns \/ UNCHANGED vars
    BY <2>3, <2>4 DEF Spin, PerFrameWork, VblankNmi, NmiReturns, vars, queueVars
  <2>5. QED
    BY <2>1, <2>2, <2>4 DEF Next, MainPass, Nmi
<1>3. Spec => []IInv
  BY RingInvariant
<1>4. QED
  BY <1>1, <1>2, <1>3, PTL DEF Spec, IsQueue, Queue!Spec
=============================================================================
