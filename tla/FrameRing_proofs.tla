-------------------------- MODULE FrameRing_proofs ---------------------------
(***************************************************************************)
(* The frame ring never shows a torn frame, for every division of a frame  *)
(* into pieces and every counter width, until the counter wraps; and it    *)
(* delivers frames as FrameDelivery promises.                              *)
(***************************************************************************)
EXTENDS FrameRing, TLAPS

\* The zeroed ring satisfies the inductive invariant (player.html creates both buffers).
LEMMA InitIInv == Init => IInv
  BY ChunkAssumption, CounterAssumption
  DEF Init, IInv, TypeOK, CountersOrdered, FillIsClean, RecentSlotsWhole, CopyIsClean,
      NoTornFrame, Whole, NoFrame, Slot, SLOTS

\* Of three consecutive frames, no two have the same slot.
LEMMA SlotsDiffer ==
  ASSUME NEW k \in Nat
  PROVE  /\ k % SLOTS \in Slot
         /\ k % SLOTS # (k - 1) % SLOTS
         /\ k % SLOTS # (k - 2) % SLOTS
  BY DEF SLOTS, Slot

\* The worker starts to fill a slot: nothing it has written yet is claimed.
LEMMA BeginPublishIInv == IInv /\ BeginPublish => IInv'
  BY DEF IInv, BeginPublish, page, TypeOK, CountersOrdered, FillIsClean, RecentSlotsWhole,
         CopyIsClean, undisturbed, NoTornFrame

\* A piece written goes to the slot of frame counter, which is none of the two recent ones.
LEMMA WriteChunkIInv ==
  ASSUME IInv, NEW c \in Chunk, WriteChunk(c)
  PROVE  IInv'
<1> USE DEF IInv, WriteChunk, page
<1>1. counter \in Nat
  BY DEF TypeOK, NoFrame
<1>2. writeSlot(counter) \in Slot
  BY <1>1, SlotsDiffer DEF writeSlot
<1>3. TypeOK'
  <2>1. counter \in NoFrame .. CounterMax
    BY <1>1 DEF TypeOK, NoFrame
  <2>2. buf' \in [Slot -> [Chunk -> NoFrame .. CounterMax]]
    BY <1>2, <2>1 DEF TypeOK
  <2>3. QED
    BY <2>2 DEF TypeOK
<1>4. RecentSlotsWhole'
  <2> SUFFICES ASSUME NEW n \in {counter - 1, counter - 2}, n >= 0
               PROVE  buf'[n % SLOTS] = Whole(n)
    BY DEF RecentSlotsWhole
  <2>1. n % SLOTS # writeSlot(counter)
    BY <1>1, SlotsDiffer DEF writeSlot
  <2>2. n % SLOTS \in Slot
    BY <1>1, SlotsDiffer
  <2>3. buf'[n % SLOTS] = buf[n % SLOTS]
    BY <1>2, <2>1, <2>2 DEF TypeOK
  <2>4. QED
    BY <2>3 DEF RecentSlotsWhole
<1>5. FillIsClean'
  <2> SUFFICES ASSUME NEW d \in Chunk \ wtodo'
               PROVE  buf'[writeSlot(counter)][d] = counter
    BY DEF FillIsClean, writeSlot
  <2>1. CASE d = c
    BY <1>2, <2>1 DEF TypeOK
  <2>2. CASE d # c
    BY <1>2, <2>2 DEF TypeOK, FillIsClean
  <2>3. QED
    BY <2>1, <2>2
<1>6. QED
  BY <1>3, <1>4, <1>5 DEF CountersOrdered, CopyIsClean, undisturbed, NoTornFrame

\* The counter moves on: the filled slot joins the recent ones, and a copy of the frame
\* that leaves them can no longer pass the second check.
LEMMA BumpIInv ==
  ASSUME IInv, Bump, counter' >= 0
  PROVE  IInv'
<1> USE DEF IInv, Bump, page
<1>1. counter \in Nat /\ counter < CounterMax /\ counter' = counter + 1
  BY CounterAssumption DEF TypeOK, Bumped
<1>2. buf[counter % SLOTS] = Whole(counter)
  <2>1. buf[counter % SLOTS] \in [Chunk -> NoFrame .. CounterMax]
    BY <1>1, SlotsDiffer DEF TypeOK
  <2>2. \A c \in Chunk : buf[counter % SLOTS][c] = counter
    BY DEF FillIsClean, writeSlot
  <2>3. QED
    BY <2>1, <2>2 DEF Whole
<1>3. RecentSlotsWhole'
  BY SMTT(30), <1>1, <1>2 DEF RecentSlotsWhole, TypeOK
<1>4. CopyIsClean'
  BY <1>1 DEF CopyIsClean, undisturbed, SLOTS, TypeOK
<1>5. TypeOK' /\ CountersOrdered' /\ FillIsClean' /\ NoTornFrame'
  BY <1>1, CounterAssumption DEF TypeOK, CountersOrdered, FillIsClean, NoTornFrame
<1>6. QED
  BY <1>1, <1>3, <1>4, <1>5

\* A page that starts to copy has copied nothing yet, and its counter value is a new one.
LEMMA BeginPresentIInv == IInv /\ BeginPresent => IInv'
  BY DEF IInv, BeginPresent, worker, TypeOK, CountersOrdered, FillIsClean, RecentSlotsWhole,
         CopyIsClean, undisturbed, NoTornFrame, writeSlot

\* A piece copied while the counter is at most one past the loaded one comes from a
\* recent slot, so from the frame the page means to copy.
LEMMA CopyChunkIInv ==
  ASSUME IInv, NEW c \in Chunk, CopyChunk(c)
  PROVE  IInv'
<1> USE DEF IInv, CopyChunk, worker
<1>1. counter \in Nat /\ loaded \in Nat /\ 1 <= loaded /\ loaded <= counter
  BY DEF TypeOK, CountersOrdered
<1>2. readSlot(loaded) \in Slot
  BY <1>1 DEF readSlot, SLOTS, Slot
<1>3. TypeOK'
  <2>1. buf[readSlot(loaded)][c] \in NoFrame .. CounterMax
    BY <1>2 DEF TypeOK
  <2>2. snap' \in [Chunk -> NoFrame .. CounterMax]
    BY <2>1 DEF TypeOK
  <2>3. QED
    BY <2>2 DEF TypeOK
<1>4. CopyIsClean'
  <2> SUFFICES ASSUME undisturbed(loaded), NEW d \in Chunk \ rtodo'
               PROVE  snap'[d] = loaded - 1
    BY DEF CopyIsClean, undisturbed
  <2>1. CASE d # c
    BY <2>1 DEF CopyIsClean, TypeOK
  <2>2. CASE d = c
    <3>1. loaded - 1 \in {counter - 1, counter - 2}
      BY <1>1 DEF undisturbed, SLOTS
    <3>2. buf[readSlot(loaded)] = Whole(loaded - 1)
      BY <1>1, <3>1 DEF RecentSlotsWhole, readSlot
    <3>3. QED
      BY <2>2, <3>2 DEF Whole, TypeOK
  <2>3. QED
    BY <2>1, <2>2
<1>5. QED
  BY <1>3, <1>4 DEF CountersOrdered, FillIsClean, RecentSlotsWhole, NoTornFrame, writeSlot

\* A snapshot that passes the second check is the whole of frame loaded - 1.
LEMMA SnapshotWhole ==
  ASSUME IInv, rpc = "copy", rtodo = {}, undisturbed(loaded)
  PROVE  snap = Whole(loaded - 1)
  BY DEF IInv, CopyIsClean, TypeOK, Whole

\* What present() shows is whole, whether the second check passes or the old frame stays.
LEMMA EndPresentIInv == IInv /\ EndPresent => IInv'
<1> SUFFICES ASSUME IInv, EndPresent PROVE IInv'
  OBVIOUS
<1> USE DEF IInv, EndPresent, worker
<1>1. CASE undisturbed(loaded)
  <2>1. display' = Whole(lastCounter' - 1)
    BY <1>1, SnapshotWhole
  <2>2. QED
    BY <1>1, <2>1 DEF TypeOK, CountersOrdered, FillIsClean, RecentSlotsWhole, CopyIsClean,
                      NoTornFrame, writeSlot
<1>2. CASE ~undisturbed(loaded)
  BY <1>2 DEF TypeOK, CountersOrdered, FillIsClean, RecentSlotsWhole, CopyIsClean,
              NoTornFrame, writeSlot
<1>3. QED
  BY <1>1, <1>2

\* Every step of either thread keeps the inductive invariant until the counter wraps.
LEMMA StepIInv == IInv /\ [UptimeNext]_vars => IInv'
<1> SUFFICES ASSUME IInv, [UptimeNext]_vars PROVE IInv'
  OBVIOUS
<1>1. ASSUME UNCHANGED vars PROVE IInv'
  BY <1>1 DEF vars, IInv, TypeOK, CountersOrdered, FillIsClean, RecentSlotsWhole, CopyIsClean,
              NoTornFrame, undisturbed, writeSlot
<1>2. ASSUME NEW c \in Chunk, WriteChunk(c) \/ CopyChunk(c) PROVE IInv'
  BY <1>2, WriteChunkIInv, CopyChunkIInv
<1>3. ASSUME Bump, counter' >= 0 PROVE IInv'
  BY <1>3, BumpIInv
<1>4. ASSUME BeginPublish \/ BeginPresent \/ EndPresent PROVE IInv'
  BY <1>4, BeginPublishIInv, BeginPresentIInv, EndPresentIInv
<1>5. QED
  BY <1>1, <1>2, <1>3, <1>4 DEF UptimeNext, Next, WorkerStep, PageStep, PresentNothing

\* Until the counter wraps, the inductive invariant of the ring holds.
THEOREM RingInvariant == UptimeSpec => []IInv
  BY InitIInv, StepIInv, PTL DEF UptimeSpec

\* Until the counter wraps, the canvas shows whole published frames only: present()
\* never transforms a snapshot the worker wrote into.
THEOREM NeverATornFrame == UptimeSpec => []NoTornFrame
<1>1. IInv => NoTornFrame
  BY DEF IInv
<1>2. QED
  BY <1>1, RingInvariant, PTL

\* A step of the ring is a publication, a presentation of one of the two newest frames,
\* newer than the one shown, or nothing the reader of the canvas can see.
LEMMA StepDelivers == IInv /\ [UptimeNext]_vars => [Delivery!Next]_<<counter, display>>
<1> SUFFICES ASSUME IInv, UptimeNext, ~UNCHANGED <<counter, display>>
             PROVE  Delivery!Next
  BY DEF vars
<1>1. CASE Bump
  BY <1>1, CounterAssumption
  DEF Bump, Bumped, UptimeNext, IInv, TypeOK, page, Delivery!Next, Delivery!Publish
<1>2. CASE EndPresent
  <2> DEFINE n == loaded - 1
  <2>1. undisturbed(loaded) /\ rpc = "copy" /\ rtodo = {} /\ display' = snap
        /\ counter' = counter
    BY <1>2 DEF EndPresent
  <2>2. n \in {counter - 1, counter - 2} /\ n >= 0 /\ n \in 0 .. counter
    BY <2>1 DEF IInv, TypeOK, CountersOrdered, undisturbed, SLOTS
  <2>3. display' = Delivery!Whole(n)
    BY <2>1, SnapshotWhole DEF Whole, Delivery!Whole
  <2>4. \E old \in -1 .. n - 1 : display = Delivery!Whole(old)
    <3>1. lastCounter - 1 \in -1 .. n - 1
      BY <2>1 DEF IInv, TypeOK, CountersOrdered
    <3>2. QED
      BY <3>1 DEF IInv, NoTornFrame, Whole, Delivery!Whole
  <2>5. Delivery!Present(n)
    BY <2>1, <2>2, <2>3, <2>4 DEF Delivery!Present, Delivery!NoFrame
  <2>6. QED
    BY <2>2, <2>5 DEF Delivery!Next
<1>3. QED
  BY <1>1, <1>2 DEF UptimeNext, Next, WorkerStep, PageStep, BeginPublish, WriteChunk,
     PresentNothing, BeginPresent, CopyChunk, worker, page, vars

\* Until the counter wraps, the ring implements FrameDelivery.
THEOREM RingDelivers == UptimeSpec => DeliversFrames
<1>1. Init => Delivery!Init
  BY DEF Init, Delivery!Init, Whole, Delivery!Whole, NoFrame, Delivery!NoFrame
<1>2. QED
  BY <1>1, StepDelivers, RingInvariant, PTL
  DEF UptimeSpec, DeliversFrames, Delivery!Spec, Delivery!vars
=============================================================================
