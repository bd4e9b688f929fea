------------------------------ MODULE TaskQueue ------------------------------
(***************************************************************************)
(* What Donkey Kong's task ring promises the handlers that post to it and  *)
(* the main loop that dispatches from it: a first-in first-out queue of    *)
(* bounded length that drops a message exactly when it is full.            *)
(***************************************************************************)
EXTENDS Naturals, Sequences

CONSTANTS Message, Capacity

VARIABLES queue,       \* the messages posted and not yet dispatched, oldest first
          dispatched,  \* the message dispatched last
          posts        \* how many messages the current NMI has posted, kept or dropped

vars == <<queue, dispatched, posts>>

Init == queue = <<>> /\ dispatched \notin Message /\ posts = 0

NewNmi == posts' = 0 /\ UNCHANGED <<queue, dispatched>>

Post(msg) ==
  /\ queue' = IF Len(queue) < Capacity THEN Append(queue, msg) ELSE queue
  /\ posts' = posts + 1
  /\ UNCHANGED dispatched

Dispatch ==
  /\ queue # <<>>
  /\ dispatched' = Head(queue) /\ queue' = Tail(queue)
  /\ UNCHANGED posts

Next == NewNmi \/ Dispatch \/ \E msg \in Message : Post(msg)

Spec == Init /\ [][Next]_vars
=============================================================================
