---------------------------- MODULE MCUdsDialogue ----------------------------
(***************************************************************************)
(* Client and server at model checking size.  One identifier has a value   *)
(* that takes three frames to read; the seed is always 43.                 *)
(***************************************************************************)
EXTENDS UdsDialogue, TLC

MCOctet == 0..255
MCSeedAt == [c \in 0..63 |-> 63 - c]
MCKeyOf == [s \in 0..63 |-> 63 - (((8 * s) % 64) + (s \div 8))]

MCIdentifiers == [did \in {256, 61840} |->
                    IF did = 256 THEN <<0, 0>> ELSE <<1, 2, 3, 4, 5, 6, 7, 8, 9, 10, 11, 12>>]
MCStoredDtcs == <<[code |-> <<1, 3, 1>>, status |-> 9]>>

Programming == SessionRequest(ProgrammingSession, FALSE)
UnlockKey == KeyRequest(2, BigEndian4(MCKeyOf[43]))

(* Sessions, a read of three frames, a write of two, a refusal, silence,   *)
(* and silence asked for in vain.                                          *)
MCEveryday == {Programming, SessionRequest(DefaultSession, FALSE), ReadRequest(61840),
               WriteRequest(256, <<1, 2, 3, 4, 5, 6, 7>>), <<153, 0>>,
               PresentRequest(TRUE), <<EcuReset, 255>>}

(* The way to an erase and to a block of a download.                       *)
MCErase == {Programming, SeedRequest(1), UnlockKey, RoutineRequest(1, EraseRoutine)}
MCFlash == MCErase \cup {DownloadRequest(8, 2), TransferRequest(1, <<1>>)}
MCRead == MCErase \cup {ReadRequest(61840)}
MCLate == MCRead \cup {WriteRequest(256, <<1, 2, 3, 4, 5, 6, 7>>)}

Asking(set, n) == [of |-> set, most |-> n, again |-> TRUE]
MCAsks == ("loop" :> Asking(MCEveryday, 4)) @@ ("lossy loop" :> Asking(MCEveryday, 2))
            @@ ("programming loop" :> Asking(MCFlash, 5)) @@ ("bus" :> Asking(MCRead, 5))
MCRequests == MCEveryday \cup MCFlash \cup MCRead
MCLateAsks == "bus" :> [Asking(MCLate, 6) EXCEPT !.again = FALSE]
=============================================================================
