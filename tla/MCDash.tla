------------------------------- MODULE MCDash -------------------------------
(***************************************************************************)
(* Two known messages and an unknown one; time in ticks of a millisecond.  *)
(***************************************************************************)
EXTENDS Dash

MCDatabase == [Speed |-> [name |-> "Speed", node |-> "engine", cycle |-> 2],
               Door |-> [name |-> "Door", node |-> "body", cycle |-> 0]]

AFrame(id, values) ==
  [id |-> id, at |-> 0, nr |-> 0, bits |-> 1, error |-> FALSE, decodes |-> values # <<>>,
   values |-> values]
Fast == AFrame("Speed", [kmh |-> 3])
Crawl == AFrame("Speed", [kmh |-> 2])
Slow == AFrame("Speed", [kmh |-> 1])
Open == AFrame("Door", [open |-> 1])
Stray == [AFrame("7FF", <<>>) EXCEPT !.error = TRUE]

MCSimFrames == {<<Fast, Fast>>, <<Crawl>>, <<Stray, Open>>}
MCComposed == [Speed |-> Slow]
MCWords == [typed |-> {"Speed"}, signal |-> {"kmh"}, message |-> {"Speed", "Absent"}]
MCKeys == {"?", "q", "5", " ", "c", "p", "x", "return"}
=============================================================================
