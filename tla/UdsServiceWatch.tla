--------------------------- MODULE UdsServiceWatch ---------------------------
(***************************************************************************)
(* A tester that makes requests of the simulated ECU and keeps in watch    *)
(* what it can know from its own requests and the replies: which bytes it  *)
(* has transferred, where they belong, and which block comes next.  The    *)
(* watch never restricts what the ECU does.                                *)
(***************************************************************************)
EXTENDS UdsService
LOCAL INSTANCE Functions

CONSTANT NewDtcs   \* what add_dtc() may add
CONSTANT MaxDtcs   \* bound on the stored codes

ASSUME WatchInputs ==
  NewDtcs \subseteq [code : [1..3 -> Octet], status : Octet] /\ MaxDtcs \in Nat

VARIABLE watch

vars == <<ecu, reply, watch>>

(* open: a download was accepted; clean: none was refused in the middle of *)
(* it; image: the bytes accepted since; repeat: the last request sent the  *)
(* block accepted last once more.                                          *)
FreshWatch == [open |-> FALSE, clean |-> FALSE, start |-> 0, size |-> 0,
               next |-> 1, last |-> 0, image |-> <<>>, repeat |-> FALSE]

Init == ServiceInit /\ watch = FreshWatch

IsRefusal(r) == r # <<>> /\ r[1] = NegativeResponse /\ r[3] # ResponsePending
TesterNextBlock(block) == IF block = BlockModulus - 1 THEN 1 ELSE block + 1

IsErase(q) == q[1] = RoutineControl /\ Len(q) >= 4 /\ Identifier(q, 3) = EraseRoutine
IsBlock(q) == q[1] = TransferData /\ Len(q) >= 2

Observed(q, accepted) ==
  IF q[1] = RequestDownload /\ accepted
  THEN [FreshWatch EXCEPT
          !.open = TRUE, !.clean = TRUE,
          !.start = ReadBe(q, 4, AddressBytes(q)) - FlashBase,
          !.size = ReadBe(q, 4 + AddressBytes(q), SizeBytes(q))]
  ELSE IF q[1] = RequestDownload
  THEN [watch EXCEPT !.clean = @ /\ ~ecu.active, !.repeat = FALSE]
  ELSE IF IsErase(q) /\ accepted
  THEN [watch EXCEPT !.image = [i \in DOMAIN @ |-> 255], !.repeat = FALSE]
  ELSE IF IsBlock(q) /\ accepted /\ q[2] = watch.next
  THEN [watch EXCEPT !.image = @ \o SubSeq(q, 3, Len(q)), !.last = watch.next,
                     !.next = TesterNextBlock(@), !.repeat = FALSE]
  ELSE [watch EXCEPT !.repeat = IsBlock(q) /\ ecu.active /\ watch.last # 0
                                   /\ q[2] = watch.last]

Request(q) == Handle(q) /\ watch' = Observed(q, ~IsRefusal(reply'))

Fault(d) ==
  /\ Len(ecu.dtcs) < MaxDtcs
  /\ AddDtc(d)
  /\ watch' = [watch EXCEPT !.repeat = FALSE]

Next ==
  \/ \E q \in Requests : Request(q)
  \/ \E d \in NewDtcs : Fault(d)

Spec == Init /\ [][Next]_vars

-----------------------------------------------------------------------------
(* "leaving a secured session drops security": by whatever requests the    *)
(* ECU came back to the default session, it is locked there.               *)
UnlockedOutsideDefaultOnly == ecu.unlocked => ecu.session # DefaultSession

(* What the tester has transferred is what flash holds, from the address   *)
(* it named, byte for byte, however often blocks were repeated, refused or *)
(* sent out of order in between, and whatever else was asked but another   *)
(* download: a RequestDownload that is refused while one runs has already  *)
(* moved where the next block goes (request_download()).  And once         *)
(* RequestTransferExit was accepted it is the announced number of bytes.   *)
DownloadIntact ==
  watch.open /\ watch.clean =>
    /\ \A i \in 1..Len(watch.image) :
         /\ watch.start + i <= FlashSize
         /\ ecu.flash[watch.start + i - 1] = watch.image[i]
    /\ ecu.complete => Len(watch.image) = watch.size

(* A block sent twice is not written twice.                                *)
RepeatWritesNothing ==
  [][watch'.repeat => /\ ecu'.flash = ecu.flash
                      /\ ecu'.written = ecu.written /\ ecu'.block = ecu.block]_vars

(* What the ECU packs into the answer to ReadDTCInformation, the client's  *)
(* parse_dtc_list takes apart again: every DTC, in order, none made up.    *)
DtcsReadBack ==
  [][/\ ecu'.dtcs = ecu.dtcs /\ Len(reply') > 2
     /\ reply'[1] = ReadDtcInformation + PositiveOffset /\ reply'[2] = ListSupported
     => DtcList(SubSeq(reply', 2, Len(reply'))) = ecu.dtcs]_vars

(* What is sent twice is stored once, and what is stored is told as it is  *)
(* (transfer_data(), read_dtc_information()).                              *)
StoredOnceAndToldAsStored == RepeatWritesNothing /\ DtcsReadBack

(* "Repeating the previous block is allowed": it is answered positively.   *)
RepeatIsAccepted == watch.repeat => ~IsRefusal(reply)

(* The checksum reported after a download is that of what was downloaded.  *)
VerifyAnswersTheImage ==
  /\ watch.open /\ watch.clean /\ ecu.complete
  /\ Len(reply) = 8 /\ reply[1] = RoutineControl + PositiveOffset
  => SubSeq(reply, 5, 8) =
       BigEndian4(SumFunctionOnSet(watch.image, DOMAIN watch.image) % Word)
=============================================================================
