----------------------------- MODULE UdsService -----------------------------
(***************************************************************************)
(* sim::UdsServer::handle: what the simulated ECU does with one complete   *)
(* request.  Each service is an action; reply is the vector it returns,    *)
(* <<>> when it stays silent.  How requests and replies travel is the      *)
(* business of UdsServer.                                                  *)
(***************************************************************************)
EXTENDS Integers, Uds
LOCAL INSTANCE Functions

CONSTANTS
  Clock,           \* now_ns, as far as a seed depends on it
  SeedAt,          \* 0xC0FFEE ^ (now_ns & 0xFFFFFF)
  KeyOf,           \* toy_key_from_seed with the configured secret
  Word,            \* 2^32: what address and size arithmetic wraps at
  BlockModulus,    \* 256: the block sequence counter is a uint8_t
  FlashBase, FlashSize,
  EraseTicks,      \* UdsServerConfig::erase_duration_ns
  PendingPerBlock, \* UdsServerConfig::pending_responses_per_block
  Identifiers,     \* data_by_identifier as configured
  StoredDtcs       \* UdsServerConfig::dtcs, a sequence of [code, status]

ASSUME ServiceWidths ==
  /\ Word \in Nat \ {0} /\ BlockModulus \in 3..256
  /\ FlashBase \in 0..(Word - 1) /\ FlashSize \in 0..(Word - 1)

ASSUME ServiceInputs ==
  /\ Clock \subseteq 0..(Word - 1) /\ SeedAt \in [0..(Word - 1) -> 0..(Word - 1)]
  /\ KeyOf \in [0..(Word - 1) -> 0..(Word - 1)]
  /\ EraseTicks \in Nat /\ PendingPerBlock \in Nat
  /\ DOMAIN Identifiers \subseteq 0..(256 * 256 - 1)   \* two bytes
  /\ \A did \in DOMAIN Identifiers : Identifiers[did] \in Seq(Octet)
  /\ StoredDtcs \in Seq([code : [1..3 -> Octet], status : Octet])

VARIABLES
  ecu,   \* the members of UdsServer that handle() reads and writes
  reply  \* what handle() returned last

serviceVars == <<ecu, reply>>

Erased == [i \in 0..(FlashSize - 1) |-> 255]

ServiceInit ==
  /\ ecu = [session |-> DefaultSession, unlocked |-> FALSE, level |-> 0, seed |-> 0,
            flash |-> Erased, active |-> FALSE, complete |-> FALSE,
            address |-> 0, size |-> 0, written |-> 0, block |-> 1,
            pending |-> 0, deferred |-> <<>>, due |-> 0,
            dids |-> Identifiers, dtcs |-> StoredDtcs]
  /\ reply = <<>>

-----------------------------------------------------------------------------
(* Only services that have a sub-function have a suppression bit in their  *)
(* second byte; elsewhere that byte is data.  Positive answers are         *)
(* swallowed when asked to be; negative ones never.                        *)
HasSubFunction(service) ==
  service \in {DiagnosticSessionControl, EcuReset, ReadDtcInformation, SecurityAccess,
               CommunicationControl, RoutineControl, TesterPresent}
Suppressed(q) == HasSubFunction(q[1]) /\ Len(q) >= 2 /\ q[2] >= SuppressBit
Positive(q, body) == IF Suppressed(q) THEN <<>> ELSE <<q[1] + PositiveOffset>> \o body
Negative(q, nrc) == <<NegativeResponse, q[1], nrc>>
Answers(q, body) == reply' = Positive(q, body)
Refuses(q, nrc) == reply' = Negative(q, nrc) /\ UNCHANGED ecu

(* read_be shifts through 32 bits: the last four bytes are what is left.   *)
ReadBe(q, at, n) ==
  LET digit(i) == IF i <= n THEN q[at + n - i] ELSE 0
  IN  (digit(1) + 256 * (digit(2) + 256 * (digit(3) + 256 * digit(4)))) % Word
Identifier(q, at) == 256 * q[at] + q[at + 1]

(* 0x78 goes out now, the real answer is kept for poll(); erase and a      *)
(* slowly programmed block do that.  deferred_service_ is the service of   *)
(* the kept answer.                                                        *)
Deferring(e, answer, pending, ticks) ==
  [e EXCEPT !.deferred = answer, !.pending = pending, !.due = ticks]

-----------------------------------------------------------------------------
SessionControl(q) ==
  /\ q[1] = DiagnosticSessionControl
  /\ \/ Len(q) < 2 /\ Refuses(q, IncorrectMessageLength)
     \/ Len(q) >= 2 /\ SubFunction(q) \notin 1..4 /\ Refuses(q, SubFunctionNotSupported)
     \/ /\ Len(q) >= 2 /\ SubFunction(q) \in 1..4
        /\ ecu' = [ecu EXCEPT !.session = SubFunction(q),
                              !.unlocked = @ /\ SubFunction(q) # DefaultSession]
        /\ Answers(q, <<SubFunction(q)>> \o BigEndian2(50) \o BigEndian2(500))

ResetSlip(q) ==   \* without locking
  /\ q[1] = EcuReset
  /\ Len(q) >= 2 /\ SubFunction(q) \in 1..5
  /\ ecu' = [ecu EXCEPT !.session = DefaultSession, !.active = FALSE]
  /\ Answers(q, <<SubFunction(q)>>)

Reset(q) ==
  /\ q[1] = EcuReset
  /\ \/ Len(q) < 2 /\ Refuses(q, IncorrectMessageLength)
     \/ Len(q) >= 2 /\ SubFunction(q) \notin 1..5 /\ Refuses(q, SubFunctionNotSupported)
     \/ /\ Len(q) >= 2 /\ SubFunction(q) \in 1..5
        /\ ecu' = [ecu EXCEPT !.session = DefaultSession, !.unlocked = FALSE,
                              !.active = FALSE]
        /\ Answers(q, <<SubFunction(q)>>)

Present(q) ==
  /\ q[1] = TesterPresent
  /\ \/ /\ Len(q) < 2 \/ SubFunction(q) # 0
        /\ Refuses(q, SubFunctionNotSupported)
     \/ /\ Len(q) >= 2 /\ SubFunction(q) = 0
        /\ Answers(q, <<0>>)
        /\ UNCHANGED ecu

ReadIdentifier(q) ==
  /\ q[1] = ReadDataByIdentifier
  /\ \/ Len(q) < 3 /\ Refuses(q, IncorrectMessageLength)
     \/ /\ Len(q) >= 3 /\ Identifier(q, 2) \notin DOMAIN ecu.dids
        /\ Refuses(q, RequestOutOfRange)
     \/ /\ Len(q) >= 3 /\ Identifier(q, 2) \in DOMAIN ecu.dids
        /\ Answers(q, BigEndian2(Identifier(q, 2)) \o ecu.dids[Identifier(q, 2)])
        /\ UNCHANGED ecu

(* 0xF100 and up is identification data and read-only.                     *)
WriteIdentifier(q) ==
  /\ q[1] = WriteDataByIdentifier
  /\ \/ Len(q) < 4 /\ Refuses(q, IncorrectMessageLength)
     \/ /\ Len(q) >= 4 /\ Identifier(q, 2) \notin DOMAIN ecu.dids
        /\ Refuses(q, RequestOutOfRange)
     \/ /\ Len(q) >= 4 /\ Identifier(q, 2) \in DOMAIN ecu.dids
        /\ Identifier(q, 2) >= 61696
        /\ Refuses(q, SecurityAccessDenied)
     \/ /\ Len(q) >= 4 /\ Identifier(q, 2) \in DOMAIN ecu.dids
        /\ Identifier(q, 2) < 61696
        /\ ecu' = [ecu EXCEPT !.dids[Identifier(q, 2)] = SubSeq(q, 4, Len(q))]
        /\ Answers(q, BigEndian2(Identifier(q, 2)))

(* Odd sub-functions ask for a seed, even ones offer the key.              *)
AskSeed(q) ==
  /\ q[1] = SecurityAccess /\ Len(q) >= 2 /\ ecu.session # DefaultSession
  /\ SubFunction(q) % 2 = 1
  /\ \E clock \in Clock :
       LET seed == IF ecu.unlocked THEN 0 ELSE SeedAt[clock]
       IN  /\ ecu' = [ecu EXCEPT !.level = SubFunction(q), !.seed = seed]
           /\ Answers(q, <<SubFunction(q)>> \o BigEndian4(seed))

OfferKey(q) ==
  /\ q[1] = SecurityAccess /\ Len(q) >= 2 /\ ecu.session # DefaultSession
  /\ SubFunction(q) % 2 = 0
  /\ \/ SubFunction(q) # ecu.level + 1 /\ Refuses(q, RequestSequenceError)
     \/ /\ SubFunction(q) = ecu.level + 1
        /\ Len(q) < 6 /\ Refuses(q, IncorrectMessageLength)
     \/ /\ SubFunction(q) = ecu.level + 1 /\ Len(q) >= 6
        /\ ReadBe(q, 3, 4) # KeyOf[ecu.seed]
        /\ Refuses(q, InvalidKey)
     \/ /\ SubFunction(q) = ecu.level + 1 /\ Len(q) >= 6
        /\ ReadBe(q, 3, 4) = KeyOf[ecu.seed]
        /\ ecu' = [ecu EXCEPT !.unlocked = TRUE]
        /\ Answers(q, <<SubFunction(q)>>)

Security(q) ==
  \/ AskSeed(q)
  \/ OfferKey(q)
  \/ /\ q[1] = SecurityAccess
     /\ \/ Len(q) < 2 /\ Refuses(q, IncorrectMessageLength)
        \/ Len(q) >= 2 /\ ecu.session = DefaultSession /\ Refuses(q, NotInActiveSession)

(* remove_if and the loops over dtcs_: those that are wanted, in the order *)
(* in which they are stored.                                               *)
OnlyThose(dtcs, wanted) ==
  LET kept[n \in 0..Len(dtcs)] ==
        IF n = 0 THEN <<>>
        ELSE IF dtcs[n] \in wanted THEN Append(kept[n - 1], dtcs[n]) ELSE kept[n - 1]
  IN  kept[Len(dtcs)]

(* A group is told by its top byte, and 0xFFFFFF means every group.        *)
AllGroups == <<255, 255, 255>>
Spared(q) ==
  {d \in Range(ecu.dtcs) : SubSeq(q, 2, 4) # AllGroups /\ d.code[1] # q[2]}
ClearDtcs(q) ==
  /\ q[1] = ClearDiagnosticInformation
  /\ \/ Len(q) < 4 /\ Refuses(q, IncorrectMessageLength)
     \/ /\ Len(q) >= 4
        /\ ecu' = [ecu EXCEPT !.dtcs = OnlyThose(@, Spared(q))]
        /\ Answers(q, <<>>)

(* The DTCs with a status bit of the mask.                                 *)
SharesBit(a, b) == \E i \in 0..7 : (a \div (2^i)) % 2 = 1 /\ (b \div (2^i)) % 2 = 1
Matching(mask) ==
  OnlyThose(ecu.dtcs, {d \in Range(ecu.dtcs) : SharesBit(d.status, mask)})
DtcRecordsSlip(dtcs) ==   \* the status goes first
  [i \in 1..(4 * Len(dtcs)) |->
     LET d == dtcs[((i - 1) \div 4) + 1]
     IN  IF i % 4 = 1 THEN d.status ELSE d.code[((i - 2) % 4) + 1]]
DtcRecords(dtcs) ==
  [i \in 1..(4 * Len(dtcs)) |->
     LET d == dtcs[((i - 1) \div 4) + 1]
     IN  IF i % 4 = 0 THEN d.status ELSE d.code[((i - 1) % 4) + 1]]

CountByMask == 1    \* enum class DtcReportType
ListByMask == 2
ListSupported == 10

ReadDtcs(q) ==
  /\ q[1] = ReadDtcInformation
  /\ UNCHANGED ecu
  /\ \/ /\ Len(q) < 2 \/ (SubFunction(q) = CountByMask /\ Len(q) < 3)
        /\ Refuses(q, IncorrectMessageLength)
     \/ /\ Len(q) >= 3 /\ SubFunction(q) = CountByMask
        /\ Answers(q, <<CountByMask, 255, 1>> \o BigEndian2(Len(Matching(q[3]))))
     \/ /\ Len(q) >= 2 /\ SubFunction(q) = ListByMask
        /\ LET mask == IF Len(q) >= 3 THEN q[3] ELSE 255
           IN  Answers(q, <<ListByMask, 255>> \o DtcRecords(Matching(mask)))
     \/ /\ Len(q) >= 2 /\ SubFunction(q) = ListSupported
        /\ Answers(q, <<ListSupported, 255>> \o DtcRecords(ecu.dtcs))
     \/ /\ Len(q) >= 2 /\ SubFunction(q) \notin {CountByMask, ListByMask, ListSupported}
        /\ Refuses(q, SubFunctionNotSupported)

-----------------------------------------------------------------------------
EraseRoutine == 65280
VerifyRoutine == 65281
Echo(q) == <<SubFunction(q)>> \o SubSeq(q, 3, 4)

Erase(q) ==
  /\ q[1] = RoutineControl /\ Len(q) >= 4 /\ Identifier(q, 3) = EraseRoutine
  /\ \/ ~ecu.unlocked /\ Refuses(q, SecurityAccessDenied)
     \/ /\ ecu.unlocked /\ EraseTicks = 0
        /\ ecu' = [ecu EXCEPT !.flash = Erased]
        /\ Answers(q, Echo(q) \o <<0>>)
     \/ /\ ecu.unlocked /\ EraseTicks # 0
        /\ ecu' = Deferring([ecu EXCEPT !.flash = Erased],
                            <<q[1] + PositiveOffset>> \o Echo(q) \o <<0>>, 1, EraseTicks)
        /\ reply' = Negative(q, ResponsePending)

(* The sum of the first download_written_ bytes of flash.  The count can   *)
(* pass the end of flash after a refused download; what is read there is   *)
(* anybody's guess.                                                        *)
Verify(q) ==
  /\ q[1] = RoutineControl /\ Len(q) >= 4 /\ Identifier(q, 3) = VerifyRoutine
  /\ \E beyond \in IF ecu.written <= FlashSize THEN {0} ELSE 0..(Word - 1) :
       LET sum == SumFunctionOnSet(ecu.flash, (0..(ecu.written - 1)) \cap DOMAIN ecu.flash)
       IN  Answers(q, Echo(q) \o BigEndian4((sum + beyond) % Word))
  /\ UNCHANGED ecu

Routine(q) ==
  \/ Erase(q)
  \/ Verify(q)
  \/ /\ q[1] = RoutineControl
     /\ \/ Len(q) < 4 /\ Refuses(q, IncorrectMessageLength)
        \/ /\ Len(q) >= 4 /\ Identifier(q, 3) \notin {EraseRoutine, VerifyRoutine}
           /\ Refuses(q, RequestOutOfRange)

-----------------------------------------------------------------------------
(* The low nibble of the format byte counts the address bytes, the high    *)
(* nibble the size bytes.                                                  *)
AddressBytes(q) == q[3] % 16
SizeBytes(q) == (q[3] \div 16) % 16
WellSized(q) ==
  AddressBytes(q) # 0 /\ SizeBytes(q) # 0 /\ Len(q) >= 3 + AddressBytes(q) + SizeBytes(q)

(* The range check is done in 32 bits.                                     *)
InFlash(address, size) ==
  address >= FlashBase /\ (address - FlashBase + size) % Word <= FlashSize

(* The address and the size are stored before they are checked.            *)
Download(q) ==
  /\ q[1] = RequestDownload
  /\ \/ Len(q) < 4 /\ Refuses(q, IncorrectMessageLength)
     \/ /\ Len(q) >= 4 /\ ecu.session # ProgrammingSession
        /\ Refuses(q, NotInActiveSession)
     \/ /\ Len(q) >= 4 /\ ecu.session = ProgrammingSession /\ ~ecu.unlocked
        /\ Refuses(q, SecurityAccessDenied)
     \/ /\ Len(q) >= 4 /\ ecu.session = ProgrammingSession /\ ecu.unlocked
        /\ ~WellSized(q)
        /\ Refuses(q, IncorrectMessageLength)
     \/ /\ Len(q) >= 4 /\ ecu.session = ProgrammingSession /\ ecu.unlocked
        /\ WellSized(q)
        /\ LET address == ReadBe(q, 4, AddressBytes(q))
               size == ReadBe(q, 4 + AddressBytes(q), SizeBytes(q))
               stored == [ecu EXCEPT !.address = address, !.size = size]
           IN  IF InFlash(address, size)
               THEN /\ ecu' = [stored EXCEPT !.active = TRUE, !.complete = FALSE,
                                             !.written = 0, !.block = 1]
                    /\ Answers(q, <<32>> \o BigEndian2(512))
               ELSE /\ ecu' = stored
                    /\ reply' = Negative(q, RequestOutOfRange)

(* The counter wraps from its largest value to 1, never to 0; a block is   *)
(* recognised as the previous one by the counter's predecessor.            *)
NextBlock(block) == IF (block + 1) % BlockModulus = 0 THEN 1 ELSE block + 1
PreviousBlock(block) == (block + BlockModulus - 1) % BlockModulus

WriteOffsetSlip == (ecu.address - FlashBase) % Word   \* always at the start
WriteOffset == (ecu.address - FlashBase + ecu.written) % Word
Programmed(data) ==
  [ecu EXCEPT !.flash = [i \in DOMAIN @ |->
                           IF i \in WriteOffset..(WriteOffset + Len(data) - 1)
                           THEN data[i - WriteOffset + 1] ELSE @[i]],
              !.written = (@ + Len(data)) % Word,
              !.block = NextBlock(@)]

TransferBlock(q) ==
  LET data == SubSeq(q, 3, Len(q))
  IN  /\ q[1] = TransferData
      /\ \/ ~ecu.active /\ Refuses(q, RequestSequenceError)
         \/ ecu.active /\ Len(q) < 2 /\ Refuses(q, IncorrectMessageLength)
         \/ /\ ecu.active /\ Len(q) >= 2
            /\ q[2] # ecu.block /\ q[2] = PreviousBlock(ecu.block)
            /\ Answers(q, <<q[2]>>)
            /\ UNCHANGED ecu
         \/ /\ ecu.active /\ Len(q) >= 2
            /\ q[2] # ecu.block /\ q[2] # PreviousBlock(ecu.block)
            /\ Refuses(q, WrongBlockCounter)
         \/ /\ ecu.active /\ Len(q) >= 2 /\ q[2] = ecu.block
            /\ WriteOffset + Len(data) > FlashSize
            /\ Refuses(q, RequestOutOfRange)
         \/ /\ ecu.active /\ Len(q) >= 2 /\ q[2] = ecu.block
            /\ WriteOffset + Len(data) <= FlashSize
            /\ IF PendingPerBlock = 0
               THEN ecu' = Programmed(data) /\ Answers(q, <<q[2]>>)
               ELSE /\ ecu' = Deferring(Programmed(data), <<q[1] + PositiveOffset, q[2]>>,
                                        PendingPerBlock, 0)
                    /\ reply' = Negative(q, ResponsePending)

TransferExit(q) ==
  /\ q[1] = RequestTransferExit
  /\ \/ ~ecu.active /\ Refuses(q, RequestSequenceError)
     \/ ecu.active /\ ecu.written # ecu.size /\ Refuses(q, GeneralProgrammingFailure)
     \/ /\ ecu.active /\ ecu.written = ecu.size
        /\ ecu' = [ecu EXCEPT !.active = FALSE, !.complete = TRUE]
        /\ Answers(q, <<>>)

-----------------------------------------------------------------------------
Communication(q) ==
  /\ q[1] = CommunicationControl
  /\ Answers(q, <<SubFunction(q)>>)
  /\ UNCHANGED ecu

Unsupported(q) == q[1] \notin Service /\ Refuses(q, ServiceNotSupported)

Handle(q) ==
  \/ SessionControl(q) \/ Reset(q) \/ Present(q)
  \/ ReadIdentifier(q) \/ WriteIdentifier(q) \/ Security(q)
  \/ ClearDtcs(q) \/ ReadDtcs(q) \/ Routine(q)
  \/ Download(q) \/ TransferBlock(q) \/ TransferExit(q)
  \/ Communication(q) \/ Unsupported(q)

(* add_dtc(): a fault sets one.                                            *)
AddDtc(d) == ecu' = [ecu EXCEPT !.dtcs = Append(@, d)] /\ UNCHANGED reply
=============================================================================
