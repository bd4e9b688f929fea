------------------------------ MODULE FrameRing ------------------------------
(***************************************************************************)
(* The frame ring between the engine worker (publishFrame, web/worker.js)  *)
(* and the page (present, web/player.html): three slots of shared memory   *)
(* and the counter ctrl[C_COUNTER].  The worker fills a slot and then      *)
(* stores the counter; the page loads the counter, copies the last         *)
(* completed slot and loads the counter again, discarding the copy when    *)
(* the worker has come too near.  Both copies move a frame in pieces, in   *)
(* any order, so the two threads interleave inside them.                   *)
(*                                                                         *)
(* A frame is identified by the counter it was written under.  The counter *)
(* is an Int32: CounterMax is 2^31 - 1 in the code.                        *)
(***************************************************************************)
EXTENDS Integers

CONSTANTS Chunk,       \* the pieces of a frame; FRAME_BYTES bytes in the code
          CounterMax   \* the largest value of the shared counter

ASSUME ChunkAssumption == Chunk # {}
ASSUME CounterAssumption == CounterMax \in Nat

VARIABLES counter,      \* ctrl[C_COUNTER]
          buf,          \* fb: buf[s][c] is the frame whose piece c slot s holds
          wpc, wtodo,   \* worker: where it is, the pieces it has yet to write
          rpc, rtodo,   \* page: where it is, the pieces it has yet to copy
          loaded,       \* page: the counter value this present() works from
          snap,         \* page: the private snapshot
          lastCounter,  \* page: the counter of the last frame presented
          display       \* page: what the canvas shows

vars == <<counter, buf, wpc, wtodo, rpc, rtodo, loaded, snap, lastCounter, display>>
worker == <<buf, wpc, wtodo>>
page == <<rpc, rtodo, loaded, snap, lastCounter, display>>

SLOTS == 3
Slot == 0 .. SLOTS - 1
NoFrame == -1                      \* the zeroed SharedArrayBuffer
Whole(n) == [c \in Chunk |-> n]

writeSlot(k) == k % SLOTS          \* writeBase; a negative k has no slot, see BeginPublish

\* Mutant: the page reads the slot the worker is about to fill.
MReadNextSlot(k) == k % SLOTS
readSlot(k) == (k - 1) % SLOTS     \* the page folds a negative remainder back into Slot

\* Mutants: a second check that lets the worker come one frame nearer, and one that
\* never finds the copy undisturbed.
MLateCheck(k) == counter - k < SLOTS
MAlwaysDisturbed(k) == counter - k < 0

undisturbed(k) == counter - k < SLOTS - 1

\* counter + 1 stored into an Int32Array.
Bumped(k) == IF k = CounterMax THEN -CounterMax - 1 ELSE k + 1

Init ==
  /\ counter = 0 /\ lastCounter = 0 /\ loaded = 0
  /\ buf = [s \in Slot |-> Whole(NoFrame)]
  /\ snap = Whole(NoFrame) /\ display = Whole(NoFrame)
  /\ wpc = "emulate" /\ wtodo = {}
  /\ rpc = "idle" /\ rtodo = {}

-----------------------------------------------------------------------------
(* The worker.                                                             *)

\* publishFrame loads the counter and starts the copy.  Under a negative counter
\* the destination offset is negative and fb.set throws before it writes.
BeginPublish ==
  /\ wpc = "emulate" /\ counter >= 0
  /\ wpc' = "fill" /\ wtodo' = Chunk
  /\ UNCHANGED <<counter, buf, page>>

WriteChunk(c) ==
  /\ wpc = "fill" /\ c \in wtodo
  /\ buf' = [buf EXCEPT ![writeSlot(counter)][c] = counter]
  /\ wtodo' = wtodo \ {c}
  /\ UNCHANGED <<counter, wpc, page>>

\* The store of counter + 1 publishes the slot just filled.
Bump ==
  /\ wpc = "fill" /\ wtodo = {}
  /\ counter' = Bumped(counter)
  /\ wpc' = "emulate"
  /\ UNCHANGED <<buf, wtodo, page>>

-----------------------------------------------------------------------------
(* The page, once per animation frame.                                     *)

PresentNothing ==
  /\ rpc = "idle" /\ counter = lastCounter
  /\ UNCHANGED vars

BeginPresent ==
  /\ rpc = "idle" /\ counter # lastCounter
  /\ loaded' = counter
  /\ rpc' = "copy" /\ rtodo' = Chunk
  /\ UNCHANGED <<counter, worker, snap, lastCounter, display>>

CopyChunk(c) ==
  /\ rpc = "copy" /\ c \in rtodo
  /\ snap' = [snap EXCEPT ![c] = buf[readSlot(loaded)][c]]
  /\ rtodo' = rtodo \ {c}
  /\ UNCHANGED <<counter, worker, rpc, loaded, lastCounter, display>>

\* The second load of the counter, with the copy complete: show the snapshot or drop it.
EndPresent ==
  /\ rpc = "copy" /\ rtodo = {}
  /\ IF undisturbed(loaded)
       THEN lastCounter' = loaded /\ display' = snap
       ELSE UNCHANGED <<lastCounter, display>>
  /\ rpc' = "idle"
  /\ UNCHANGED <<counter, worker, rtodo, loaded, snap>>

-----------------------------------------------------------------------------
WorkerStep == BeginPublish \/ (\E c \in Chunk : WriteChunk(c)) \/ Bump
PageStep == PresentNothing \/ BeginPresent \/ (\E c \in Chunk : CopyChunk(c)) \/ EndPresent
Next == WorkerStep \/ PageStep

\* The ring until the counter wraps: the first CounterMax publications
\* (2^31 - 1 frames, 414 days of play at 60 frames a second).  Nothing is claimed of a
\* longer session: a page that stalls across the wrap passes the second check.
UptimeNext == Next /\ counter' >= 0
UptimeSpec == Init /\ [][UptimeNext]_vars

\* The page runs for as long as it is visible: requestAnimationFrame calls present()
\* again after each call.  Nothing is assumed of the worker: it may be paused.
PageFairness == WF_vars(PageStep /\ counter' >= 0)
FairSpec == UptimeSpec /\ PageFairness

-----------------------------------------------------------------------------
TypeOK ==
  /\ counter \in -CounterMax - 1 .. CounterMax
  /\ loaded \in -CounterMax - 1 .. CounterMax
  /\ lastCounter \in -CounterMax - 1 .. CounterMax
  /\ buf \in [Slot -> [Chunk -> NoFrame .. CounterMax]]
  /\ snap \in [Chunk -> NoFrame .. CounterMax]
  /\ display \in [Chunk -> NoFrame .. CounterMax]
  /\ wpc \in {"emulate", "fill"} /\ wtodo \in SUBSET Chunk
  /\ rpc \in {"idle", "copy"} /\ rtodo \in SUBSET Chunk

\* The canvas never shows pieces of two frames: what present() transforms is one
\* published frame, whole, and it is the frame lastCounter names.
NoTornFrame == display = Whole(lastCounter - 1)

\* The slots a page that loaded the current or the previous counter reads are complete
\* and out of the worker's way, whatever slot the worker is filling.
RecentSlotsWhole ==
  \A n \in {counter - 1, counter - 2} : n >= 0 => buf[n % SLOTS] = Whole(n)

\* A copy that would still pass the second check holds pieces of its own frame only.
CopyIsClean ==
  rpc = "copy" /\ undisturbed(loaded) =>
    \A c \in Chunk \ rtodo : snap[c] = loaded - 1

\* Counters are met in order: what was presented, what is being copied, what is published.
CountersOrdered ==
  /\ 0 <= lastCounter /\ lastCounter <= counter
  /\ rpc = "copy" => lastCounter < loaded /\ loaded <= counter

\* What the worker has written of the frame it is filling.
FillIsClean ==
  wpc = "fill" => \A c \in Chunk \ wtodo : buf[writeSlot(counter)][c] = counter

\* The inductive invariant behind NoTornFrame.
IInv ==
  /\ TypeOK /\ counter >= 0
  /\ CountersOrdered /\ FillIsClean /\ RecentSlotsWhole /\ CopyIsClean /\ NoTornFrame

\* Every publication is presented or overtaken by a newer one: a game that stops
\* publishing (paused) has its last frame on the canvas.
EveryFrameShownOrOvertaken ==
  \A k \in 1 .. CounterMax : counter = k ~> (lastCounter = k \/ counter # k)

\* The ring delivers frames as FrameDelivery says.
Delivery == INSTANCE FrameDelivery WITH published <- counter
DeliversFrames == Delivery!Spec
=============================================================================
