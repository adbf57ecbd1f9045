------------------------------- MODULE MCIsoTp -------------------------------
(***************************************************************************)
(* The parts of ISO-TP each on its own, at model checking size: the sender *)
(* and the receiver against a peer that sends anything, and the encoding   *)
(* of separation times.  A behaviour is about one part; the others rest.   *)
(***************************************************************************)
EXTENDS IsoTpSenderWatch, IsoTpReceiver, StMinWalk

CONSTANT MaxControls   \* bound on the Flow Controls of one behaviour

VARIABLE part        \* the part a behaviour is about

(* A message is the sequence of its byte positions, so that a byte out of  *)
(* place shows; 0 is the padding byte.  Empty, the largest Single Frame,   *)
(* the smallest segmented message, one that ends on a frame boundary, one  *)
(* that wraps the sequence number and needs the 32-bit length.             *)
Numbered(n) == [i \in 1..n |-> i]
Bytes(n) == [i \in 1..n |-> 1]
MCByte == 0..42
MCMessages == {Numbered(n) : n \in {0, 7, 8, 20, 31}}

Cut(f) == [f EXCEPT !.whole = FALSE]

(* For the sender: grants and refusals, one cut short, and other PDUs.     *)
Grants == {FlowControl("ContinueToSend", bs, st) : bs \in {0, 1, 2}, st \in {0, 242}}
Refusals == {FlowControl(s, 0, 0) : s \in {"Wait", "Overflow", "Reserved"}}
MCAnswers == Grants \cup Refusals \cup
  {Cut(FlowControl("ContinueToSend", 1, 0)), SingleFrame(1, <<1>>), Foreign}

(* For the receiver: good and bad Single Frames; First Frames too short to *)
(* be segmented, at the buffer's limit, just beyond it, and (on CAN FD)    *)
(* holding more than the length they announce; Consecutive Frames with     *)
(* every number, full, one byte long and empty; and other PDUs.            *)
Singles == {SingleFrame(3, Bytes(7)), SingleFrame(0, <<>>), SingleFrame(5, Bytes(4)),
            Cut(SingleFrame(0, <<>>))}
Firsts == {FirstFrame(n, Bytes(6)) : n \in {7, 8, 42, 43}}
             \cup {FirstFrame(9, Bytes(12)), Cut(FirstFrame(8, <<>>))}
Consecutives == {ConsecutiveFrame(sn, Bytes(n)) : sn \in 0..(SnModulus - 1), n \in {0, 1, 7}}
MCSegments == Singles \cup Firsts \cup Consecutives \cup
  {FlowControl("ContinueToSend", 0, 0), Foreign,
   [SingleFrame(0, <<>>) EXCEPT !.pci = "Reserved"]}

MCPeerFrames == MCAnswers \cup MCSegments

-----------------------------------------------------------------------------
Init ==
  /\ part \in {"sender", "receiver", "encoding"}
  /\ WatchedInit /\ ReceiverInit
  /\ IF part = "encoding" THEN WalkInit ELSE asked = 0

SenderAlone == part = "sender" /\ WatchedNext /\ UNCHANGED <<part, receiverVars, asked>>
ReceiverAlone ==
  /\ part = "receiver" /\ ReceiverNext /\ Len(controls') <= MaxControls
  /\ UNCHANGED <<part, watchVars, asked>>
EncodingAlone == part = "encoding" /\ Ask /\ UNCHANGED <<part, watchVars, receiverVars>>

Next == SenderAlone \/ ReceiverAlone \/ EncodingAlone
Spec == Init /\ [][Next]_<<part, watchVars, receiverVars, asked>>
=============================================================================
