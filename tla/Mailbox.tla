------------------------------- MODULE Mailbox -------------------------------
(***************************************************************************)
(* What the ISO-TP transport promises its two users: messages handed in at *)
(* one end come out at the other whole and unaltered, in order and at most *)
(* once.  Some may be lost; none is ever mixed with another, cut short or  *)
(* made up.                                                                *)
(***************************************************************************)
EXTENDS Naturals, Sequences

CONSTANT Message

VARIABLES
  sent,  \* the messages handed in, oldest first
  got    \* the messages taken out, oldest first

vars == <<sent, got>>

(* The first i messages of sent can be left out or taken, never repeated.  *)
Embeds(part, whole) ==
  \E at \in [1..Len(part) -> 1..Len(whole)] :
    /\ \A i \in 1..Len(part) : part[i] = whole[at[i]]
    /\ \A i, j \in 1..Len(part) : i < j => at[i] < at[j]

Init == sent = <<>> /\ got = <<>>

Send(m) == sent' = Append(sent, m) /\ UNCHANGED got

Take(m) ==
  /\ got' = Append(got, m)
  /\ Embeds(got', sent)
  /\ UNCHANGED sent

Next == \E m \in Message : Send(m) \/ Take(m)

Spec == Init /\ [][Next]_vars
=============================================================================
