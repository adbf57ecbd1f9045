-------------------------- MODULE IsoTpSenderWatch --------------------------
(***************************************************************************)
(* The sender under the eye of its peer.  A peer that hears the frames of  *)
(* poll() and remembers the Flow Controls it sent can tell, without        *)
(* looking inside the Sender, whether it was sent more than it granted,    *)
(* faster than it allowed, or given up on too early.  "watch" is that      *)
(* memory; it observes the sender and never steers it.                     *)
(***************************************************************************)
EXTENDS IsoTpSender

CONSTANT WatchCap   \* the watch counts ticks and WAITs up to here

(* The watch can count far enough to judge every wait it is about.         *)
ASSUME WatchAssumption ==
  /\ WatchCap \in Nat /\ WatchCap > N_Bs /\ WatchCap >= N_Cs /\ WatchCap > WftMax
  /\ \A f \in PeerFrames : f.pci = "FC" => StMinTicks(f.st) <= WatchCap

VARIABLE watch
watchVars == <<snd, outbox, watch>>

(* granted: a ContinueToSend was given; used: frames sent since; silence:  *)
(* ticks since either side last said something in this transfer.  The      *)
(* peer stops watching once the transfer is over.                          *)
FreshWatch ==
  [granted |-> FALSE, allowed |-> 0, spacing |-> 0, used |-> 0,
   sinceFrame |-> 0, silence |-> 0, waits |-> 0]
WatchedInit == SenderInit /\ watch = FreshWatch

OneMore(n) == Smaller(n + 1, WatchCap)

SeeFrames ==
  watch' = IF outbox' = outbox THEN watch
           ELSE [watch EXCEPT !.used = @ + 1, !.sinceFrame = 0, !.silence = 0]

SeeAnswer(f) ==
  watch' = IF SenderDone \/ f.pci # "FC" THEN watch
           ELSE IF f.status = "ContinueToSend"
           THEN [watch EXCEPT !.granted = TRUE, !.allowed = f.bs, !.used = 0,
                              !.spacing = StMinTicks(f.st), !.silence = 0, !.waits = 0]
           ELSE [watch EXCEPT !.silence = 0, !.waits = OneMore(@)]

SeeTick ==
  watch' = IF SenderDone THEN watch
           ELSE [watch EXCEPT !.sinceFrame = OneMore(@), !.silence = OneMore(@)]

WatchedNext ==
  \/ \E m \in Messages : Begin(m) /\ watch' = FreshWatch
  \/ AbortSending /\ UNCHANGED watch
  \/ SenderPoll /\ SeeFrames
  \/ \E f \in PeerFrames : SenderOnFrame(f) /\ SeeAnswer(f)
  \/ SenderElapse /\ SeeTick

WatchedSpec == WatchedInit /\ [][WatchedNext]_watchVars

-----------------------------------------------------------------------------
SendsConsecutive == outbox' # outbox /\ outbox'[Len(outbox')].pci = "CF"

(* A Consecutive Frame only ever leaves under a ContinueToSend, and never  *)
(* more of them than the block size it named (0 names no limit).           *)
GrantRespected ==
  [][SendsConsecutive => /\ watch.granted
                         /\ watch.allowed = 0 \/ watch.used < watch.allowed]_watchVars

(* Within a block Consecutive Frames are at least STmin apart, and the     *)
(* first one of a block leaves no sooner than N_Cs after the Flow Control. *)
SpacingRespected ==
  [][SendsConsecutive => IF watch.used > 0 THEN watch.sinceFrame >= watch.spacing
                                           ELSE watch.silence >= N_Cs]_watchVars

(* N_Bs is given in full: after the First Frame, after the last frame of a *)
(* block and after every WAIT the peer has N_Bs of time to answer.         *)
GivesUpOnTime ==
  [][snd.result # "TimeoutBs" /\ snd'.result = "TimeoutBs" => watch.silence >= N_Bs]_watchVars

(* wft_max WAITs in a row are tolerated and one more is not; a             *)
(* ContinueToSend starts the count again; 0 tolerates any number.          *)
WaitsTolerated ==
  [][/\ snd'.result = "WaitOverrun" => WftMax # 0 /\ watch'.waits > WftMax
     /\ WftMax # 0 /\ watch'.waits > WftMax => SenderDone']_watchVars

(* A transfer that has ended stays ended: nothing more is sent and the     *)
(* outcome stands, unless the caller aborts it after the fact.             *)
EndedIsEnded ==
  [][SenderDone /\ snd.state # "Idle" =>
       /\ outbox' = outbox
       /\ snd'.result \in {snd.result, "Aborted"}]_watchVars

(* The Flow Controls of the peer are obeyed: how many frames, and how fast *)
(* (poll(), on_frame(), send_consecutive()).                               *)
FlowControlObeyed == GrantRespected /\ SpacingRespected

(* A transfer ends when it must, not before, and once: N_Bs and the WAITs  *)
(* are given in full, and what has ended is not revived by a late answer   *)
(* (poll(), on_frame()).                                                   *)
EndsOnTime == GivesUpOnTime /\ WaitsTolerated /\ EndedIsEnded
=============================================================================
