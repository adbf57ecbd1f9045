-------------------------------- MODULE Uds --------------------------------
(***************************************************************************)
(* The vocabulary of ISO 14229 that the client and the simulated server    *)
(* share: services, negative response codes, and the layout of a request.  *)
(* A message is the sequence of its bytes, the service identifier first.   *)
(***************************************************************************)
EXTENDS Naturals, Sequences

(* enum class Service.                                                     *)
DiagnosticSessionControl   == 16
EcuReset                   == 17
ClearDiagnosticInformation == 20
ReadDtcInformation         == 25
ReadDataByIdentifier       == 34
SecurityAccess             == 39
CommunicationControl       == 40
WriteDataByIdentifier      == 46
RoutineControl             == 49
RequestDownload            == 52
TransferData               == 54
RequestTransferExit        == 55
TesterPresent              == 62

Service == {DiagnosticSessionControl, EcuReset, ClearDiagnosticInformation,
            ReadDtcInformation, ReadDataByIdentifier, SecurityAccess,
            CommunicationControl, WriteDataByIdentifier, RoutineControl,
            RequestDownload, TransferData, RequestTransferExit, TesterPresent}

(* enum class Nrc, the codes the server answers with.                      *)
ServiceNotSupported       == 17
SubFunctionNotSupported   == 18
IncorrectMessageLength    == 19
RequestSequenceError      == 36
RequestOutOfRange         == 49
SecurityAccessDenied      == 51
InvalidKey                == 53
GeneralProgrammingFailure == 114
WrongBlockCounter         == 115
ResponsePending           == 120
NotInActiveSession        == 127

(* enum class SessionType.                                                 *)
DefaultSession     == 1
ProgrammingSession == 2

(* kPositiveResponseOffset, kNegativeResponse, kSuppressPositiveResponse.  *)
PositiveOffset   == 64
NegativeResponse == 127
SuppressBit      == 128

Octet == 0..255

CONSTANT Requests   \* the requests a tester may make

ASSUME RequestsAreMessages == Requests \subseteq Seq(Octet) \ {<<>>}

-----------------------------------------------------------------------------
SubFunction(q) == IF Len(q) >= 2 THEN q[2] % SuppressBit ELSE 0

(* push_be for the two widths in use.                                      *)
BigEndian2(v) == <<(v \div 256) % 256, v % 256>>
BigEndian4(v) == BigEndian2(v \div 65536) \o BigEndian2(v)

-----------------------------------------------------------------------------
(* The requests Client composes, one operator per member function.         *)
SessionRequest(session, quiet) ==
  <<DiagnosticSessionControl, IF quiet THEN session + SuppressBit ELSE session>>
ResetRequest(type) == <<EcuReset, type>>
ClearRequest(group) == <<ClearDiagnosticInformation>> \o group
ReadDtcRequest(type, mask) == <<ReadDtcInformation, type, mask>>
ReadRequest(did) == <<ReadDataByIdentifier>> \o BigEndian2(did)
WriteRequest(did, value) == <<WriteDataByIdentifier>> \o BigEndian2(did) \o value
SeedRequest(level) == <<SecurityAccess, level>>            \* level is odd
KeyRequest(level, key) == <<SecurityAccess, level>> \o key \* level is even
RoutineRequest(type, routine) == <<RoutineControl, type>> \o BigEndian2(routine)
TransferRequest(block, data) == <<TransferData, block>> \o data
ExitRequest == <<RequestTransferExit>>
PresentRequest(quiet) == <<TesterPresent, IF quiet THEN SuppressBit ELSE 0>>

(* request_download with one byte each for the address and the size.       *)
DownloadRequest(address, size) == <<RequestDownload, 0, 17, address, size>>

(* parse_dtc_list: two bytes of echo and mask, then four for each DTC; a   *)
(* record cut short is dropped.                                            *)
DtcList(data) ==
  IF Len(data) < 2 THEN <<>>
  ELSE [i \in 1..((Len(data) - 2) \div 4) |->
          [code   |-> SubSeq(data, 4 * i - 1, 4 * i + 1),
           status |-> data[4 * i + 2]]]
=============================================================================
