------------------------------ MODULE TaskRing -------------------------------
(***************************************************************************)
(* Donkey Kong's task scheduler (games/dkong/idiomatic): the ring of       *)
(* two-byte messages that NMI handlers post with enqueueTask and mainLoop  *)
(* dispatches, one message a pass and one pass a frame, and the FRAME      *)
(* counter the NMI moves on and the main loop waits for.                   *)
(*                                                                         *)
(* A slot is an index 0 .. Slots - 1 (the code's byte offset from TASK_RING*)
(* divided by two).  The engine alternates a main pass, up to its yield,   *)
(* with a whole NMI (FrameEngine), so the two never overlap.               *)
(***************************************************************************)
EXTENDS Integers, Sequences, FiniteSets

CONSTANTS Slots,        \* TASK_RING_SLOTS / 2
          Message,      \* the [opcode, argument] pairs posted
          Free,         \* an opcode byte with bit 7 set
          FrameValues,  \* the values of the byte FRAME
          MaxPosts      \* bound on the messages one NMI posts

ASSUME SlotsAssumption == Slots \in Nat \ {0}
ASSUME MessageAssumption == Free \notin Message
ASSUME FrameAssumption == FrameValues \in Nat \ {0, 1} /\ MaxPosts \in Nat

VARIABLES ring,        \* the slots
          head,        \* TASK_HEAD
          tail,        \* TASK_TAIL
          FRAME, FRAME_SEEN,
          turn,        \* whose code runs next
          posts,       \* messages posted so far by the running NMI
          \* History: the message dispatched last, how many main passes each queued message
          \* has waited, and whether the last pass was the vblank wait.
          dispatched, age, spun

queueVars == <<ring, head, tail, dispatched>>
frameVars == <<FRAME, FRAME_SEEN>>
passVars == <<age, spun>>
vars == <<queueVars, frameVars, passVars, turn, posts>>

Slot == 0 .. Slots - 1

\* The step both pointers take: past the last slot they restart at the first.
After(slot) == IF slot = Slots - 1 THEN 0 ELSE slot + 1

\* How far a slot lies ahead of TASK_HEAD.
Ahead(slot) == IF slot >= head THEN slot - head ELSE slot - head + Slots

Occupied == {slot \in Slot : ring[slot] # Free}

\* boot: clearRamAndInitHardware wipes RAM and frees every slot; the main loop is next.
Init ==
  /\ ring = [slot \in Slot |-> Free]
  /\ head = 0 /\ tail = 0
  /\ FRAME = 0 /\ FRAME_SEEN = 0
  /\ turn = "main" /\ posts = 0
  /\ dispatched = Free /\ age = [slot \in Slot |-> 0] /\ spun = FALSE

-----------------------------------------------------------------------------
(* One pass of mainLoop, from a yield to the next.                         *)

\* Mutant: the per-frame work comes before the queue.
MPerFrameFirst == ring[head] = Free \/ FRAME # FRAME_SEEN

\* The byte at TASK_HEAD decides the pass.
NoTask == ring[head] = Free

\* loc_02e3 frees both bytes of the slot and steps TASK_HEAD past them.
Release(slot) == ring' = [ring EXCEPT ![slot] = Free] /\ head' = After(slot)

\* One pass older; ages past Slots are not told apart.
Older(passes) == IF passes < Slots THEN passes + 1 ELSE passes

\* The pass ends at a yield; every message left in the ring has waited it out.
PassEnds(leaving, waited) ==
  /\ turn' = "vblank"
  /\ age' = [slot \in Slot |-> IF slot \in Occupied \ leaving THEN Older(age[slot]) ELSE 0]
  /\ spun' = waited

DispatchTask ==
  /\ turn = "main" /\ ~NoTask
  /\ dispatched' = ring[head]
  /\ Release(head)
  /\ PassEnds({head}, FALSE)
  /\ UNCHANGED <<tail, frameVars, posts>>

\* Nothing queued and no new frame: this pass is the vblank wait.
Spin ==
  /\ turn = "main" /\ NoTask /\ FRAME = FRAME_SEEN
  /\ PassEnds({}, TRUE)
  /\ UNCHANGED <<queueVars, frameVars, posts>>

\* Nothing queued and the NMI has moved FRAME on: ramp the difficulty, step the hazards.
PerFrameWork ==
  /\ turn = "main" /\ NoTask /\ FRAME # FRAME_SEEN
  /\ FRAME_SEEN' = FRAME
  /\ PassEnds({}, FALSE)
  /\ UNCHANGED <<queueVars, FRAME, posts>>

-----------------------------------------------------------------------------
(* The vblank NMI: perFrame steps FRAME down, then handlers post messages. *)

\* Mutant: the NMI leaves FRAME alone on its last value.
MVblankNmi ==
  /\ turn = "vblank"
  /\ FRAME' = IF FRAME = 0 THEN 0 ELSE FRAME - 1
  /\ turn' = "nmi" /\ posts' = 0
  /\ UNCHANGED <<queueVars, FRAME_SEEN, passVars>>

VblankNmi ==
  /\ turn = "vblank"
  /\ FRAME' = IF FRAME = 0 THEN FrameValues - 1 ELSE FRAME - 1
  /\ turn' = "nmi" /\ posts' = 0
  /\ UNCHANGED <<queueVars, FRAME_SEEN, passVars>>

\* Mutant: the ring is taken to be full one message early.
MTailFree == ring[tail] = Free /\ After(tail) # head

\* A message goes in only while bit 7 of the tail slot's opcode is set.
TailFree == ring[tail] = Free

\* A ring that is full at the tail drops the message and keeps its tail.
Store(msg) ==
  IF TailFree
    THEN ring' = [ring EXCEPT ![tail] = msg] /\ tail' = After(tail)
    ELSE UNCHANGED <<ring, tail>>

EnqueueTask(msg) ==
  /\ turn = "nmi" /\ posts < MaxPosts
  /\ Store(msg)
  /\ posts' = posts + 1
  /\ UNCHANGED <<head, dispatched, frameVars, passVars, turn>>

NmiReturns ==
  /\ turn = "nmi"
  /\ turn' = "main"
  /\ UNCHANGED <<queueVars, frameVars, passVars, posts>>

-----------------------------------------------------------------------------
MainPass == DispatchTask \/ Spin \/ PerFrameWork
Nmi == VblankNmi \/ NmiReturns \/ \E msg \in Message : EnqueueTask(msg)
Next == MainPass \/ Nmi

Spec == Init /\ [][Next]_vars

-----------------------------------------------------------------------------
TypeOK ==
  /\ ring \in [Slot -> Message \cup {Free}]
  /\ head \in Slot /\ tail \in Slot
  /\ FRAME \in 0 .. FrameValues - 1 /\ FRAME_SEEN \in 0 .. FrameValues - 1
  /\ turn \in {"main", "vblank", "nmi"} /\ posts \in 0 .. MaxPosts
  /\ dispatched \in Message \cup {Free}
  /\ age \in [Slot -> Nat] /\ spun \in BOOLEAN

\* The queued messages fill exactly the slots from TASK_HEAD up to TASK_TAIL, around the
\* end of the ring; equal pointers mean all of them or none.
RingShape ==
  \/ head = tail /\ (Occupied = {} \/ Occupied = Slot)
  \/ head # tail /\ Occupied = {slot \in Slot : Ahead(slot) < Ahead(tail)}

\* No message is stranded: the main loop looks at one slot only, and when that one is free
\* there is nothing in the ring.
NothingStranded == NoTask => Occupied = {}

\* No message waits more than Slots passes: the passes it has waited and the messages still
\* ahead of it come to less than the ring holds.
WaitsAtMostTheRing == \A slot \in Occupied : age[slot] + Ahead(slot) < Slots

\* With the queue empty the per-frame work misses at most one pass: the main loop never
\* waits for a vblank twice in a row, wherever the byte FRAME wraps.
FrameDone == spun => IF turn = "vblank" THEN FRAME = FRAME_SEEN ELSE FRAME # FRAME_SEEN

\* A message posted now starts waiting now.
FreshFree == \A slot \in Slot \ Occupied : age[slot] = 0

IInv == TypeOK /\ RingShape /\ WaitsAtMostTheRing /\ FreshFree /\ FrameDone

NeverWaitsTwice == [][Spin => ~spun]_vars

\* The ring is a bounded queue: messages leave in the order they were posted, once each,
\* and one is dropped only when all Slots are taken.
queued == [i \in 1 .. Cardinality(Occupied) |-> ring[(head + i - 1) % Slots]]
Queue == INSTANCE TaskQueue WITH queue <- queued, Capacity <- Slots
IsQueue == Queue!Spec
=============================================================================
