------------------------------- MODULE MCUds -------------------------------
(***************************************************************************)
(* The parts of UDS each on its own, at model checking size: the client    *)
(* against a peer that sends anything, and the simulated ECU with testers  *)
(* that ask anything, one about downloads and one about the rest.  A       *)
(* behaviour is about one of the three; what it does not use rests.        *)
(*                                                                         *)
(* The ECU has 6-bit words, a flash of three bytes at address 8 and block  *)
(* counters that wrap after two blocks.  Both the seed mask and the secret *)
(* are all ones, so exclusive-or is a subtraction.                         *)
(***************************************************************************)
EXTENDS UdsServiceWatch, UdsClientPeer

VARIABLE part   \* what a behaviour is about

MCOctet == 0..255
MCWord == 64
MCClock == {20, 63}   \* seeds 43 and 0
MCSeedAt == [c \in 0..63 |-> 63 - c]
MCKeyOf == [s \in 0..63 |-> 63 - (((8 * s) % 64) + (s \div 8))]
MCIdentifiers == [did \in {256, 61840} |-> <<7>>]
MCStoredDtcs == <<[code |-> <<1, 3, 1>>, status |-> 9], [code |-> <<192, 10, 0>>, status |-> 4]>>
MCNewDtcs == {[code |-> <<1, 23, 22>>, status |-> 4]}

-----------------------------------------------------------------------------
(* The client is asked for a session change, one without an answer, and a  *)
(* write that takes two frames.                                            *)
MCClientRequests ==
  {SessionRequest(ProgrammingSession, FALSE), SessionRequest(ProgrammingSession, TRUE),
   WriteRequest(256, <<1, 2, 3, 4, 5, 6>>)}

(* Answers to either request, a refusal, responsePending, a refusal cut    *)
(* short, a segmented answer and its pieces out of order, Flow Controls,   *)
(* a Single Frame that announces nothing, and somebody else's frame.       *)
Single(m) == SingleFrame(Len(m), m)
MCPeerFrames ==
  {Single(<<80, 130>>), Single(<<80>>), Single(<<110, 1, 0>>),
   Single(<<NegativeResponse, 46, 51>>), Single(<<NegativeResponse, 16, ResponsePending>>),
   Single(<<NegativeResponse, 16>>), SingleFrame(0, <<>>), Foreign,
   FirstFrame(9, <<110, 1, 0, 7, 7, 7>>), ConsecutiveFrame(1, <<8, 8, 8, 204, 204, 204, 204>>),
   ConsecutiveFrame(2, <<9, 9, 9>>)}
  \cup {FlowControl(s, 0, 0) : s \in {"ContinueToSend", "Wait"}}

KeyBytes(seed) == BigEndian4(MCKeyOf[seed])

(* Whatever has nothing to do with a download.                             *)
MCPlain ==
  {SessionRequest(1, FALSE), SessionRequest(2, TRUE), SessionRequest(3, FALSE),
   SessionRequest(119, FALSE), <<DiagnosticSessionControl>>,
   ResetRequest(1), ResetRequest(6), <<EcuReset>>,
   PresentRequest(TRUE), <<TesterPresent, 1>>,
   ReadRequest(256), ReadRequest(57005), ReadRequest(61840), <<ReadDataByIdentifier, 1>>,
   WriteRequest(256, <<8, 9>>), WriteRequest(61840, <<0>>), WriteRequest(57005, <<0>>),
   <<WriteDataByIdentifier, 1, 0>>,
   SeedRequest(1), KeyRequest(2, KeyBytes(43)), KeyRequest(2, KeyBytes(0)),
   KeyRequest(4, KeyBytes(43)), <<SecurityAccess, 2>>, <<SecurityAccess>>,
   ClearRequest(<<255, 255, 255>>), ClearRequest(<<1, 0, 0>>),
   <<ClearDiagnosticInformation, 1>>,
   ReadDtcRequest(1, 4), ReadDtcRequest(2, 4), ReadDtcRequest(10, 0), ReadDtcRequest(5, 0),
   <<ReadDtcInformation, 1>>,
   <<CommunicationControl, 3, 1>>, <<153, 0>>}

MCRoutines ==
  {RoutineRequest(1, EraseRoutine), RoutineRequest(129, EraseRoutine),
   RoutineRequest(1, VerifyRoutine), RoutineRequest(1, 512), <<RoutineControl, 1>>}

(* Good ranges, one that is too long, one below the flash, two that wrap   *)
(* the word, one of them beyond the flash, and three not well formed.      *)
MCDownloads ==
  {DownloadRequest(8, 3), DownloadRequest(9, 2), DownloadRequest(9, 9),
   DownloadRequest(7, 2), DownloadRequest(9, 63), DownloadRequest(60, 12),
   <<RequestDownload, 0, 16, 8, 3>>, <<RequestDownload, 0, 33, 8, 0>>,
   <<RequestDownload, 0, 17>>}

MCTransfers ==
  {TransferRequest(b, <<1>>) : b \in 0..2} \cup
  {TransferRequest(2, <<2, 3>>), <<TransferData>>, ExitRequest}

MCUnlock == {SessionRequest(2, FALSE), SessionRequest(1, FALSE), SeedRequest(1),
             KeyRequest(2, KeyBytes(43)), ResetRequest(1)}

MCEverything == MCPlain \cup MCRoutines \cup
  {DownloadRequest(8, 3), TransferRequest(1, <<1>>), ExitRequest}
MCProgramming == MCUnlock \cup MCRoutines \cup MCDownloads \cup MCTransfers
MCRequests == MCClientRequests \cup MCEverything \cup MCProgramming

-----------------------------------------------------------------------------
MCInit ==
  /\ part \in {"client", "downloads", "services"}
  /\ Init /\ PeerInit

ClientAlone(step) == part = "client" /\ step /\ UNCHANGED <<part, vars>>
Asks(requests) == \E q \in requests : Request(q) /\ UNCHANGED <<part, peerVars>>

MCNext ==
  \/ ClientAlone(\E q \in MCClientRequests : TesterAsks(q))
  \/ ClientAlone(Poll) \/ ClientAlone(BusTakes) \/ ClientAlone(Elapse)
  \/ ClientAlone(\E f \in PeerFrames : PeerSends(f))
  \/ part = "downloads" /\ Asks(MCProgramming)
  \/ part = "services" /\ Asks(MCEverything)
  \/ part = "services" /\ UNCHANGED <<part, peerVars>> /\ \E d \in NewDtcs : Fault(d)

MCSpec == MCInit /\ [][MCNext]_<<part, peerVars, vars>>

(* The application polls and sends what it is given, and time passes.      *)
FairMCSpec ==
  /\ MCSpec
  /\ WF_<<part, peerVars, vars>>(ClientAlone(Poll))
  /\ WF_<<part, peerVars, vars>>(ClientAlone(BusTakes))
  /\ WF_<<part, peerVars, vars>>(ClientAlone(Elapse))
=============================================================================
