--------------------------- MODULE PriorityMedium ---------------------------
(***************************************************************************)
(* What a CAN medium promises: whoever waits sends the frame at the head   *)
(* of its queue when no other head has a lower rank; one frame at a time   *)
(* is under way, it cannot be taken back, and then it has landed.          *)
(***************************************************************************)
EXTENDS Integers, Sequences

CONSTANTS Senders, Frames, Rank(_)

VARIABLES
  waiting,  \* for each sender the frames it waits to send
  wire,     \* the frame under way, if there is one
  landed    \* the frames that have been transmitted, in that order

vars == <<waiting, wire, landed>>

Init == waiting = [s \in Senders |-> <<>>] /\ wire = <<>> /\ landed = <<>>

Queue(s) ==
  /\ \E f \in Frames : waiting' = [waiting EXCEPT ![s] = Append(@, f)]
  /\ UNCHANGED <<wire, landed>>

Leave(s) == waiting' = [waiting EXCEPT ![s] = <<>>] /\ UNCHANGED <<wire, landed>>

Win(s) ==
  /\ wire = <<>> /\ waiting[s] # <<>>
  /\ \A t \in Senders : waiting[t] # <<>> => Rank(Head(waiting[s])) <= Rank(Head(waiting[t]))
  /\ wire' = <<Head(waiting[s])>>
  /\ waiting' = [waiting EXCEPT ![s] = Tail(@)]
  /\ UNCHANGED landed

Land == wire # <<>> /\ landed' = landed \o wire /\ wire' = <<>> /\ UNCHANGED waiting

Next == Land \/ \E s \in Senders : Queue(s) \/ Leave(s) \/ Win(s)

Spec == Init /\ [][Next]_vars
=============================================================================
