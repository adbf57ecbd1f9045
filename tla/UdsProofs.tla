----------------------------- MODULE UdsProofs -----------------------------
(***************************************************************************)
(* The simulated ECU for every tester, word width, flash and number of     *)
(* blocks: it is never unlocked in the default session, what was           *)
(* downloaded is what flash holds, a block sent twice is written once, and *)
(* the trouble codes it tells are those it stores.  And the client for     *)
(* every peer, set of requests and configuration: an answer is what the    *)
(* peer sent after the request, and the time to answer is given in full.   *)
(***************************************************************************)
EXTENDS UdsServiceWatch, UdsClientPeer, SequenceTheorems, NaturalsInduction,
        WellFoundedInduction, TLAPS

EcuMembers == {"session", "unlocked", "level", "seed", "flash", "active", "complete",
               "address", "size", "written", "block", "pending", "deferred", "due",
               "dids", "dtcs"}

-----------------------------------------------------------------------------
(* Security.                                                               *)
SecurityInv ==
  /\ DOMAIN ecu = EcuMembers
  /\ ecu.unlocked \in BOOLEAN
  /\ UnlockedOutsideDefaultOnly

LEMMA SecurityStep ==
  ASSUME SecurityInv, NEW q, Handle(q)
  PROVE  SecurityInv'
<1> USE DEF SecurityInv, UnlockedOutsideDefaultOnly, EcuMembers
<1>1. CASE UNCHANGED ecu
  BY <1>1
<1>2. CASE SessionControl(q)
  BY <1>1, <1>2 DEF SessionControl, Refuses
<1>3. CASE Reset(q)
  BY <1>1, <1>3 DEF Reset, Refuses
<1>4. CASE Present(q) \/ ReadIdentifier(q) \/ ReadDtcs(q) \/ Communication(q) \/ Unsupported(q)
  BY <1>1, <1>4 DEF Present, ReadIdentifier, ReadDtcs, Communication, Unsupported, Refuses
<1>5. CASE WriteIdentifier(q)
  BY <1>1, <1>5 DEF WriteIdentifier, Refuses
<1>6. CASE Security(q)
  <2>1. CASE AskSeed(q)
    BY <2>1 DEF AskSeed
  <2>2. CASE OfferKey(q)
    BY <1>1, <2>2 DEF OfferKey, Refuses
  <2> QED BY <1>1, <1>6, <2>1, <2>2 DEF Security, Refuses
<1>7. CASE ClearDtcs(q)
  BY <1>1, <1>7 DEF ClearDtcs, Refuses
<1>8. CASE Routine(q)
  <2>1. CASE Erase(q)
    BY <1>1, <2>1 DEF Erase, Refuses, Deferring
  <2>2. CASE Verify(q)
    BY <1>1, <2>2 DEF Verify
  <2> QED BY <1>1, <1>8, <2>1, <2>2 DEF Routine, Refuses
<1>9. CASE Download(q)
  BY <1>1, <1>9 DEF Download, Refuses
<1>10. CASE TransferBlock(q)
  BY <1>1, <1>10 DEF TransferBlock, Refuses, Deferring, Programmed
<1>11. CASE TransferExit(q)
  BY <1>1, <1>11 DEF TransferExit, Refuses
<1> QED
  BY <1>2, <1>3, <1>4, <1>5, <1>6, <1>7, <1>8, <1>9, <1>10, <1>11 DEF Handle

(* "leaving a secured session drops security", whatever the order of the   *)
(* requests: in the default session the ECU is locked.                     *)
THEOREM LockedInDefaultSession == Spec => []UnlockedOutsideDefaultOnly
<1>1. Init => SecurityInv
  BY DEF Init, ServiceInit, SecurityInv, UnlockedOutsideDefaultOnly, EcuMembers
<1>2. SecurityInv /\ [Next]_vars => SecurityInv'
  <2> SUFFICES ASSUME SecurityInv, [Next]_vars PROVE SecurityInv'
    OBVIOUS
  <2>1. ASSUME NEW q \in Requests, Request(q) PROVE SecurityInv'
    BY <2>1, SecurityStep DEF Request
  <2>2. ASSUME NEW d \in NewDtcs, Fault(d) PROVE SecurityInv'
    BY <2>2 DEF Fault, AddDtc, SecurityInv, UnlockedOutsideDefaultOnly, EcuMembers
  <2>3. CASE UNCHANGED vars
    BY <2>3 DEF vars, SecurityInv, UnlockedOutsideDefaultOnly
  <2> QED BY <2>1, <2>2, <2>3 DEF Next
<1>3. SecurityInv => UnlockedOutsideDefaultOnly
  BY DEF SecurityInv
<1> QED BY <1>1, <1>2, <1>3, PTL DEF Spec

-----------------------------------------------------------------------------
(* Downloads.  As long as the tester's view of a download is a clean one,  *)
(* it and the ECU's agree: on where the image starts, how long it is, how  *)
(* much of it is there and, while the download is active, on the next      *)
(* block.  An image that has begun lies within flash, so that the offset   *)
(* of the next write, computed modulo Word, has not wrapped.               *)
WatchMembers == {"open", "clean", "start", "size", "next", "last", "image", "repeat"}

ImageInFlash ==
  \A i \in 1..Len(watch.image) : ecu.flash[watch.start + i - 1] = watch.image[i]

Tracked ==
  /\ watch.start \in 0..(Word - 1)
  /\ Len(watch.image) = ecu.written
  /\ Len(watch.image) > 0 => watch.start + Len(watch.image) <= FlashSize
  /\ ImageInFlash
  /\ ecu.active => /\ ecu.address - FlashBase = watch.start
                   /\ ecu.size = watch.size
                   /\ ecu.block = watch.next /\ ecu.block \in 1..(BlockModulus - 1)
  /\ ecu.complete => ~ecu.active /\ Len(watch.image) = watch.size

DownloadInv ==
  /\ DOMAIN ecu = EcuMembers /\ DOMAIN watch = WatchMembers
  /\ DOMAIN ecu.flash = 0..(FlashSize - 1)
  /\ watch.image \in Seq(Octet)
  /\ watch.open /\ watch.clean => Tracked

LEMMA Widths ==
  /\ Word \in Nat \ {0} /\ BlockModulus \in 3..256
  /\ FlashBase \in 0..(Word - 1) /\ FlashSize \in 0..(Word - 1)
BY ServiceWidths DEF ServiceWidths

LEMMA SmallMod ==
  ASSUME NEW a \in Nat, NEW n \in Nat, a < n
  PROVE  a % n = a
OBVIOUS

LEMMA ModRange ==
  ASSUME NEW a \in Int, NEW n \in Nat \ {0}
  PROVE  a % n \in 0..(n - 1)
OBVIOUS

LEMMA OctetsAreNumbers == Octet \subseteq Nat /\ 255 \in Octet
BY DEF Octet

(* What is read from a request is a word.                                  *)
LEMMA ReadBeIsAWord ==
  ASSUME NEW q \in Seq(Octet), NEW at \in 1..Len(q), NEW n \in Nat, at + n - 1 <= Len(q)
  PROVE  ReadBe(q, at, n) \in 0..(Word - 1)
<1> DEFINE digit(i) == IF i <= n THEN q[at + n - i] ELSE 0
           all == digit(1) + 256 * (digit(2) + 256 * (digit(3) + 256 * digit(4)))
<1>1. \A i \in 1..4 : digit(i) \in Nat
  <2> SUFFICES ASSUME NEW i \in 1..4, i <= n PROVE q[at + n - i] \in Nat
    OBVIOUS
  <2>1. at + n - i \in 1..Len(q)
    BY LenProperties
  <2>2. q[at + n - i] \in Octet
    BY <2>1, ElementOfSeq
  <2> QED BY <2>2, OctetsAreNumbers
<1> HIDE DEF digit
<1>2. all \in Int
  <2>1. digit(1) \in Int /\ digit(2) \in Int /\ digit(3) \in Int /\ digit(4) \in Int
    BY <1>1
  <2> QED BY <2>1
<1> HIDE DEF all
<1>3. all % Word \in 0..(Word - 1)
  BY <1>2, ModRange, Widths
<1> QED BY <1>3 DEF ReadBe, all, digit

(* A clean, active download writes behind what it has written before.      *)
LEMMA ImageLength ==
  ASSUME watch.image \in Seq(Octet)
  PROVE  Len(watch.image) \in Nat
BY LenProperties

LEMMA WritesBehind ==
  ASSUME watch.image \in Seq(Octet), Tracked, ecu.active
  PROVE  WriteOffset = watch.start + Len(watch.image)
<1>1. Len(watch.image) \in Nat
  BY LenProperties
<1>2. watch.start + Len(watch.image) \in Nat /\ watch.start + Len(watch.image) < Word
  BY <1>1, Widths DEF Tracked
<1>3. ecu.address - FlashBase + ecu.written = watch.start + Len(watch.image)
  BY DEF Tracked
<1> QED BY <1>2, <1>3, SmallMod, Widths DEF WriteOffset

-----------------------------------------------------------------------------
(* Requests that are no part of a download leave it alone; a reset may end *)
(* it.                                                                     *)
Untouched ==
  /\ DOMAIN ecu' = EcuMembers
  /\ ecu'.flash = ecu.flash /\ ecu'.complete = ecu.complete
  /\ ecu'.address = ecu.address /\ ecu'.size = ecu.size
  /\ ecu'.written = ecu.written /\ ecu'.block = ecu.block
  /\ ecu'.active => ecu.active

LEMMA UntouchedIsHarmless ==
  ASSUME DownloadInv, Untouched, NEW r, watch' = [watch EXCEPT !.repeat = r]
  PROVE  DownloadInv'
<1>1. /\ DOMAIN watch' = WatchMembers
      /\ \A m \in WatchMembers \ {"repeat"} : watch'[m] = watch[m]
  BY DEF DownloadInv
<1>2. /\ watch'.open = watch.open /\ watch'.clean = watch.clean
      /\ watch'.start = watch.start /\ watch'.size = watch.size
      /\ watch'.next = watch.next /\ watch'.image = watch.image
  BY <1>1 DEF WatchMembers
<1> QED BY <1>1, <1>2 DEF DownloadInv, Untouched, Tracked, ImageInFlash

NotOfADownload(q) ==
  \/ SessionControl(q) \/ Reset(q) \/ Present(q)
  \/ ReadIdentifier(q) \/ WriteIdentifier(q) \/ Security(q)
  \/ ClearDtcs(q) \/ ReadDtcs(q) \/ (Routine(q) /\ ~Erase(q))
  \/ Communication(q) \/ Unsupported(q)

LEMMA OthersLeaveDownloads ==
  ASSUME DOMAIN ecu = EcuMembers, NEW q, NotOfADownload(q)
  PROVE  Untouched
<1> USE DEF EcuMembers, Untouched
<1>1. CASE UNCHANGED ecu
  BY <1>1
<1>2. CASE SessionControl(q) \/ Reset(q)
  <2>1. CASE SessionControl(q)
    BY <1>1, <2>1 DEF SessionControl, Refuses
  <2>2. CASE Reset(q)
    BY <1>1, <2>2 DEF Reset, Refuses
  <2> QED BY <1>2, <2>1, <2>2
<1>3. CASE Present(q) \/ ReadIdentifier(q) \/ ReadDtcs(q) \/ Communication(q) \/ Unsupported(q)
  BY <1>1, <1>3 DEF Present, ReadIdentifier, ReadDtcs, Communication, Unsupported, Refuses
<1>4. CASE WriteIdentifier(q) \/ ClearDtcs(q)
  BY <1>1, <1>4 DEF WriteIdentifier, ClearDtcs, Refuses
<1>5. CASE Security(q)
  BY <1>1, <1>5 DEF Security, AskSeed, OfferKey, Refuses
<1>6. CASE Routine(q) /\ ~Erase(q)
  BY <1>1, <1>6 DEF Routine, Verify, Refuses
<1> QED
  BY <1>2, <1>3, <1>4, <1>5, <1>6 DEF NotOfADownload

LEMMA OthersAreOther ==
  ASSUME NEW q, NotOfADownload(q)
  PROVE  q[1] \notin {RequestDownload, TransferData} /\ ~IsErase(q)
<1>3. CASE Security(q)
  <2>1. q[1] = SecurityAccess
    BY <1>3 DEF Security, AskSeed, OfferKey
  <2> QED
    BY <2>1 DEF SecurityAccess, RequestDownload, TransferData, RoutineControl, IsErase
<1> USE DEF DiagnosticSessionControl, EcuReset, ClearDiagnosticInformation,
            ReadDtcInformation, ReadDataByIdentifier, SecurityAccess, CommunicationControl,
            WriteDataByIdentifier, RoutineControl, RequestDownload, TransferData,
            RequestTransferExit, TesterPresent, IsErase
<1>1. CASE SessionControl(q) \/ Reset(q) \/ Present(q)
  BY <1>1 DEF SessionControl, Reset, Present
<1>2. CASE ReadIdentifier(q) \/ WriteIdentifier(q) \/ Communication(q)
  BY <1>2 DEF ReadIdentifier, WriteIdentifier, Communication
<1>4. CASE ClearDtcs(q) \/ ReadDtcs(q)
  <2>1. CASE ClearDtcs(q)
    BY <2>1 DEF ClearDtcs
  <2>2. CASE ReadDtcs(q)
    BY <2>2 DEF ReadDtcs
  <2> QED BY <1>4, <2>1, <2>2
<1>6. CASE Unsupported(q)
  BY <1>6 DEF Unsupported, Service
<1>5. CASE Routine(q) /\ ~Erase(q)
  BY <1>5 DEF Routine, Verify, EraseRoutine, VerifyRoutine
<1> QED BY <1>1, <1>2, <1>3, <1>4, <1>5, <1>6 DEF NotOfADownload

-----------------------------------------------------------------------------
(* What the tester makes of the replies.                                   *)
LEMMA UnseenByTheWatch ==
  ASSUME NEW q, watch' = Observed(q, ~IsRefusal(reply')),
         q[1] \notin {RequestDownload, TransferData},
         IsErase(q) => IsRefusal(reply')
  PROVE  \E r : watch' = [watch EXCEPT !.repeat = r]
BY DEF Observed, IsBlock

LEMMA RefusalsAreRefusals ==
  ASSUME NEW q, NEW nrc \in Nat \ {ResponsePending}, reply' = Negative(q, nrc)
  PROVE  IsRefusal(reply')
BY DEF Negative, IsRefusal, NegativeResponse, ResponsePending

LEMMA AnswersAreNot ==
  ASSUME NEW q, NEW body, q[1] \in Service, reply' = Positive(q, body),
         Suppressed(q) \/ body \in Seq(Nat)
  PROVE  ~IsRefusal(reply')
<1>1. CASE Suppressed(q)
  BY <1>1 DEF Positive, IsRefusal
<1>2. CASE ~Suppressed(q)
  <2>1. q[1] + PositiveOffset \in Nat \ {NegativeResponse}
    BY DEF Service, PositiveOffset, NegativeResponse, DiagnosticSessionControl, EcuReset,
           ClearDiagnosticInformation, ReadDtcInformation, ReadDataByIdentifier,
           SecurityAccess, CommunicationControl, WriteDataByIdentifier, RoutineControl,
           RequestDownload, TransferData, RequestTransferExit, TesterPresent
  <2> DEFINE first == q[1] + PositiveOffset
  <2>2. first \in Nat \ {NegativeResponse}
    BY <2>1
  <2>3. reply' = <<first>> \o body
    BY <1>2 DEF Positive
  <2> HIDE DEF first
  <2>4. <<first>> \in Seq(Nat) /\ Len(<<first>>) = 1
    BY <2>2
  <2>5. (<<first>> \o body)[1] = first
    BY <1>2, <2>4, ConcatProperties, LenProperties
  <2> QED BY <2>2, <2>3, <2>5 DEF IsRefusal
<1> QED BY <1>1, <1>2

-----------------------------------------------------------------------------
(* RequestDownload.                                                        *)
LEMMA DownloadKeepsTrack ==
  ASSUME DownloadInv, NEW q \in Seq(Octet), Download(q),
         watch' = Observed(q, ~IsRefusal(reply'))
  PROVE  DownloadInv'
<1> DEFINE address == ReadBe(q, 4, AddressBytes(q))
           size == ReadBe(q, 4 + AddressBytes(q), SizeBytes(q))
           stored == [ecu EXCEPT !.address = address, !.size = size]
           opened == [stored EXCEPT !.active = TRUE, !.complete = FALSE,
                                    !.written = 0, !.block = 1]
           granted == <<32>> \o BigEndian2(512)
<1>1. q[1] = RequestDownload
  BY DEF Download
<1>2. ASSUME IsRefusal(reply'), DOMAIN ecu' = EcuMembers,
             ecu'.flash = ecu.flash, ecu'.complete = ecu.complete,
             ecu'.written = ecu.written, ecu'.active = ecu.active
      PROVE  DownloadInv'
  <2>1. watch' = [watch EXCEPT !.clean = @ /\ ~ecu.active, !.repeat = FALSE]
    BY <1>1, <1>2 DEF Observed
  <2>2. /\ DOMAIN watch' = WatchMembers /\ watch'.open = watch.open
        /\ watch'.clean = (watch.clean /\ ~ecu.active)
        /\ watch'.start = watch.start /\ watch'.size = watch.size
        /\ watch'.image = watch.image
    BY <2>1 DEF DownloadInv, WatchMembers
  <2> QED BY <1>2, <2>2 DEF DownloadInv, Tracked, ImageInFlash
<1>3. ASSUME NEW nrc \in Nat \ {ResponsePending}, Refuses(q, nrc)
      PROVE  DownloadInv'
  BY <1>2, <1>3, RefusalsAreRefusals DEF Refuses, DownloadInv
<1>4. ASSUME ecu' = stored, reply' = Negative(q, RequestOutOfRange)
      PROVE  DownloadInv'
  <2>1. IsRefusal(reply')
    BY <1>4, RefusalsAreRefusals DEF RequestOutOfRange, ResponsePending
  <2>2. /\ DOMAIN ecu' = EcuMembers /\ ecu'.flash = ecu.flash
        /\ ecu'.complete = ecu.complete /\ ecu'.written = ecu.written
        /\ ecu'.active = ecu.active
    BY <1>4 DEF DownloadInv, EcuMembers
  <2> QED BY <1>2, <2>1, <2>2
<1>5. ASSUME Len(q) >= 4, WellSized(q), InFlash(address, size),
             ecu' = opened, Answers(q, granted)
      PROVE  DownloadInv'
  <2>1. ~IsRefusal(reply')
    <3>1. granted \in Seq(Nat)
      BY ConcatProperties DEF BigEndian2
    <3>2. q[1] \in Service
      BY <1>1 DEF Service
    <3> QED BY <1>5, <3>1, <3>2, AnswersAreNot DEF Answers
  <2>2. watch' = [FreshWatch EXCEPT !.open = TRUE, !.clean = TRUE,
                                    !.start = address - FlashBase, !.size = size]
    BY <1>1, <2>1 DEF Observed
  <2>3. /\ DOMAIN watch' = WatchMembers
        /\ watch'.start = address - FlashBase /\ watch'.size = size
        /\ watch'.next = 1 /\ watch'.image = <<>>
    BY <2>2 DEF FreshWatch, WatchMembers
  <2>4. /\ DOMAIN ecu' = EcuMembers /\ ecu'.flash = ecu.flash
        /\ ecu'.address = address /\ ecu'.size = size /\ ecu'.block = 1
        /\ ecu'.written = 0 /\ ecu'.complete = FALSE
    BY <1>5 DEF DownloadInv, EcuMembers
  <2>5. address \in 0..(Word - 1)
    <3>1. /\ AddressBytes(q) \in Nat /\ 4 \in 1..Len(q)
          /\ 4 + AddressBytes(q) - 1 <= Len(q)
      <4>1. Len(q) \in Nat /\ 3 \in 1..Len(q)
        BY <1>5, LenProperties
      <4>2. q[3] \in Nat
        BY <4>1, ElementOfSeq, OctetsAreNumbers
      <4>3. AddressBytes(q) \in Nat /\ SizeBytes(q) \in Nat
        BY <4>2 DEF AddressBytes, SizeBytes
      <4> QED BY <1>5, <4>1, <4>3 DEF WellSized
    <3> HIDE DEF address
    <3> QED BY <3>1, ReadBeIsAWord DEF address
  <2>6. watch'.start \in 0..(Word - 1)
    <3> HIDE DEF address, size
    <3> QED BY <1>5, <2>3, <2>5, Widths DEF InFlash
  <2>7. Len(<<>>) = 0 /\ <<>> \in Seq(Octet)
    BY EmptySeq
  <2> HIDE DEF address, size, stored, opened
  <2>8. ImageInFlash'
    BY <2>3, <2>7 DEF ImageInFlash
  <2>9. Tracked'
    BY <2>3, <2>4, <2>6, <2>7, <2>8, Widths DEF Tracked
  <2> QED BY <2>3, <2>4, <2>7, <2>9 DEF DownloadInv
<1>6. /\ IncorrectMessageLength \in Nat \ {ResponsePending}
      /\ NotInActiveSession \in Nat \ {ResponsePending}
      /\ SecurityAccessDenied \in Nat \ {ResponsePending}
  BY DEF IncorrectMessageLength, NotInActiveSession, SecurityAccessDenied, ResponsePending
<1> QED BY <1>3, <1>4, <1>5, <1>6 DEF Download

-----------------------------------------------------------------------------
(* The erase routine.                                                      *)
LEMMA EraseKeepsTrack ==
  ASSUME DownloadInv, NEW q \in Seq(Octet), Erase(q),
         watch' = Observed(q, ~IsRefusal(reply'))
  PROVE  DownloadInv'
<1> DEFINE blank == [i \in DOMAIN watch.image |-> 255]
<1>1. q[1] = RoutineControl /\ q[1] \notin {RequestDownload, TransferData} /\ IsErase(q)
  BY DEF Erase, IsErase, RoutineControl, RequestDownload, TransferData
<1>2. CASE Refuses(q, SecurityAccessDenied)
  <2>1. IsRefusal(reply')
    BY <1>2, RefusalsAreRefusals DEF Refuses, SecurityAccessDenied, ResponsePending
  <2>2. PICK r : watch' = [watch EXCEPT !.repeat = r]
    BY <1>1, <2>1, UnseenByTheWatch
  <2>3. Untouched
    BY <1>2 DEF Refuses, Untouched, DownloadInv
  <2> QED BY <2>2, <2>3, UntouchedIsHarmless
<1>3. ASSUME ~IsRefusal(reply'), DOMAIN ecu' = EcuMembers, ecu'.flash = Erased,
             ecu'.complete = ecu.complete, ecu'.address = ecu.address,
             ecu'.size = ecu.size, ecu'.written = ecu.written, ecu'.block = ecu.block,
             ecu'.active = ecu.active
      PROVE  DownloadInv'
  <2>1. watch' = [watch EXCEPT !.image = blank, !.repeat = FALSE]
    BY <1>1, <1>3 DEF Observed
  <2>2. /\ DOMAIN watch' = WatchMembers /\ watch'.image = blank
        /\ watch'.open = watch.open /\ watch'.clean = watch.clean
        /\ watch'.start = watch.start /\ watch'.size = watch.size
        /\ watch'.next = watch.next
    BY <2>1 DEF DownloadInv, WatchMembers
  <2>3. /\ blank \in Seq(Octet) /\ Len(blank) = Len(watch.image)
        /\ \A i \in 1..Len(watch.image) : blank[i] = 255
    <3> DEFINE n == Len(watch.image)
    <3>1. n \in Nat /\ DOMAIN watch.image = 1..n
      BY LenProperties DEF DownloadInv
    <3>2. blank = [i \in 1..n |-> 255]
      BY <3>1
    <3> HIDE DEF n
    <3>3. [i \in 1..n |-> 255] \in Seq(Octet) /\ Len([i \in 1..n |-> 255]) = n
      BY <3>1, OctetsAreNumbers
    <3> HIDE DEF blank
    <3>4. \A i \in 1..n : blank[i] = 255
      BY <3>2
    <3> QED BY <3>2, <3>3, <3>4 DEF n
  <2> HIDE DEF blank
  <2>4. ASSUME Tracked PROVE Tracked'
    <3>1. ImageInFlash'
      <4> SUFFICES ASSUME NEW i \in 1..Len(blank)
                   PROVE  Erased[watch.start + i - 1] = blank[i]
        BY <1>3, <2>2 DEF ImageInFlash
      <4>1. Len(watch.image) \in Nat
        BY ImageLength DEF DownloadInv
      <4>2. watch.start + i - 1 \in 0..(FlashSize - 1)
        BY <2>3, <2>4, <4>1, Widths DEF Tracked
      <4> QED BY <2>3, <4>2 DEF Erased
    <3> QED BY <1>3, <2>2, <2>3, <2>4, <3>1 DEF Tracked
  <2>5. DOMAIN Erased = 0..(FlashSize - 1)
    BY DEF Erased
  <2> QED BY <1>3, <2>2, <2>3, <2>4, <2>5 DEF DownloadInv
<1>4. CASE ecu' = [ecu EXCEPT !.flash = Erased] /\ Answers(q, Echo(q) \o <<0>>)
  <2>1. Suppressed(q) \/ Echo(q) \o <<0>> \in Seq(Nat)
    <3>1. Len(q) >= 4 /\ Len(q) \in Nat
      BY LenProperties DEF Erase
    <3>2. \A i \in 1..Len(q) : q[i] \in Nat
      BY ElementOfSeq, OctetsAreNumbers
    <3>3. SubFunction(q) \in Nat
      BY <3>1, <3>2 DEF SubFunction, SuppressBit
    <3>4. SubSeq(q, 3, 4) \in Seq(Nat)
      BY <3>1, <3>2, SubSeqProperties
    <3>5. <<SubFunction(q)>> \in Seq(Nat) /\ <<0>> \in Seq(Nat)
      BY <3>3
    <3>6. Echo(q) \in Seq(Nat)
      BY <3>4, <3>5, ConcatProperties DEF Echo
    <3> QED BY <3>5, <3>6, ConcatProperties
  <2>2. ~IsRefusal(reply')
    <3>1. q[1] \in Service
      BY <1>1 DEF Service
    <3>2. reply' = Positive(q, Echo(q) \o <<0>>)
      BY <1>4 DEF Answers
    <3> QED BY <2>1, <3>1, <3>2, AnswersAreNot
  <2> QED BY <1>3, <1>4, <2>2 DEF DownloadInv, EcuMembers
<1>5. CASE /\ ecu' = Deferring([ecu EXCEPT !.flash = Erased],
                               <<q[1] + PositiveOffset>> \o Echo(q) \o <<0>>, 1, EraseTicks)
           /\ reply' = Negative(q, ResponsePending)
  <2>1. ~IsRefusal(reply')
    BY <1>5 DEF IsRefusal, Negative
  <2> QED BY <1>3, <1>5, <2>1 DEF Deferring, DownloadInv, EcuMembers
<1> QED BY <1>2, <1>4, <1>5 DEF Erase

-----------------------------------------------------------------------------
(* TransferData.                                                           *)
LEMMA TransferKeepsTrack ==
  ASSUME DownloadInv, NEW q \in Seq(Octet), TransferBlock(q),
         watch' = Observed(q, ~IsRefusal(reply'))
  PROVE  DownloadInv'
<1> DEFINE data == SubSeq(q, 3, Len(q))
           appended == [watch EXCEPT !.image = @ \o data, !.last = watch.next,
                                     !.next = TesterNextBlock(@), !.repeat = FALSE]
           taken == IsBlock(q) /\ ~IsRefusal(reply') /\ q[2] = watch.next
           programmed ==
             /\ ecu.active /\ Len(q) >= 2 /\ q[2] = ecu.block
             /\ WriteOffset + Len(data) <= FlashSize
             /\ \/ ecu' = Programmed(data) /\ Answers(q, <<q[2]>>)
                \/ /\ ecu' = Deferring(Programmed(data), <<q[1] + PositiveOffset, q[2]>>,
                                        PendingPerBlock, 0)
                   /\ reply' = Negative(q, ResponsePending)
<1>1. q[1] = TransferData /\ q[1] # RequestDownload /\ ~IsErase(q)
  BY DEF TransferBlock, IsErase, TransferData, RequestDownload, RoutineControl
<1>2. data \in Seq(Octet) /\ Len(data) \in Nat
  <2>1. Len(q) \in Nat /\ \A i \in 3..Len(q) : q[i] \in Octet
    BY LenProperties, ElementOfSeq
  <2> QED BY <2>1, SubSeqProperties, LenProperties
<1>3. CASE ~taken /\ ~programmed
  <2>1. \E r : watch' = [watch EXCEPT !.repeat = r]
    BY <1>1, <1>3 DEF Observed
  <2>2. UNCHANGED ecu
    BY <1>3 DEF TransferBlock, Refuses
  <2>3. Untouched
    BY <2>2 DEF Untouched, DownloadInv
  <2> QED BY <2>1, <2>3, UntouchedIsHarmless
<1>4. ASSUME programmed
      PROVE  /\ DOMAIN ecu' = EcuMembers /\ DOMAIN ecu'.flash = 0..(FlashSize - 1)
             /\ ~IsRefusal(reply')
             /\ \A i \in 0..(FlashSize - 1) :
                  ecu'.flash[i] = IF i \in WriteOffset..(WriteOffset + Len(data) - 1)
                                  THEN data[i - WriteOffset + 1] ELSE ecu.flash[i]
             /\ ecu'.written = (ecu.written + Len(data)) % Word
             /\ ecu'.block = NextBlock(ecu.block)
             /\ ecu'.address = ecu.address /\ ecu'.size = ecu.size
             /\ ecu'.active = ecu.active /\ ecu'.complete = ecu.complete
  <2>1. ~IsRefusal(reply')
    <3>1. CASE Answers(q, <<q[2]>>)
      <4>1. q[2] \in Nat
        <5>1. 2 \in 1..Len(q)
          BY <1>4, LenProperties
        <5> QED BY <5>1, ElementOfSeq, OctetsAreNumbers
      <4>2. <<q[2]>> \in Seq(Nat)
        BY <4>1
      <4>3. q[1] \in Service
        BY <1>1 DEF Service
      <4> QED BY <3>1, <4>2, <4>3, AnswersAreNot DEF Answers
    <3>2. CASE reply' = Negative(q, ResponsePending)
      BY <3>2 DEF IsRefusal, Negative
    <3> QED BY <1>4, <3>1, <3>2
  <2> DEFINE after == Programmed(data)
  <2>2. /\ DOMAIN after = EcuMembers /\ DOMAIN after.flash = 0..(FlashSize - 1)
        /\ \A i \in 0..(FlashSize - 1) :
             after.flash[i] = IF i \in WriteOffset..(WriteOffset + Len(data) - 1)
                              THEN data[i - WriteOffset + 1] ELSE ecu.flash[i]
        /\ after.written = (ecu.written + Len(data)) % Word
        /\ after.block = NextBlock(ecu.block)
        /\ after.address = ecu.address /\ after.size = ecu.size
        /\ after.active = ecu.active /\ after.complete = ecu.complete
    <3> HIDE DEF data
    <3> QED BY DEF Programmed, DownloadInv, EcuMembers
  <2>3. \/ ecu' = after
        \/ \E answer : ecu' = [after EXCEPT !.deferred = answer, !.pending = PendingPerBlock,
                                            !.due = 0]
    BY <1>4 DEF Deferring
  <2>4. /\ DOMAIN ecu' = EcuMembers /\ ecu'.flash = after.flash
        /\ ecu'.written = after.written /\ ecu'.block = after.block
        /\ ecu'.address = after.address /\ ecu'.size = after.size
        /\ ecu'.active = after.active /\ ecu'.complete = after.complete
    <3> HIDE DEF after
    <3> QED BY <2>2, <2>3 DEF EcuMembers
  <2> HIDE DEF after, data
  <2> QED BY <2>1, <2>2, <2>4
<1>5. ASSUME taken
      PROVE  watch' = appended
  BY <1>1, <1>5 DEF Observed
<1>6. ASSUME ~taken
      PROVE  \E r : watch' = [watch EXCEPT !.repeat = r]
  BY <1>1, <1>6 DEF Observed
<1>7. /\ DOMAIN watch' = WatchMembers
      /\ watch'.open = watch.open /\ watch'.clean = watch.clean
      /\ watch'.start = watch.start /\ watch'.size = watch.size
      /\ taken => /\ watch'.image = watch.image \o data
                  /\ watch'.next = TesterNextBlock(watch.next)
      /\ ~taken => watch'.image = watch.image
  <2> HIDE DEF data
  <2> QED BY <1>5, <1>6 DEF DownloadInv, WatchMembers
<1>8. watch'.image \in Seq(Octet)
  BY <1>2, <1>7, ConcatProperties DEF DownloadInv
<1>9. CASE taken /\ ~programmed
  <2>1. UNCHANGED ecu /\ ecu.active /\ q[2] # ecu.block
    <3>1. ASSUME NEW nrc \in Nat \ {ResponsePending}, Refuses(q, nrc) PROVE FALSE
      BY <1>9, <3>1, RefusalsAreRefusals DEF Refuses
    <3>2. /\ RequestSequenceError \in Nat \ {ResponsePending}
          /\ IncorrectMessageLength \in Nat \ {ResponsePending}
          /\ WrongBlockCounter \in Nat \ {ResponsePending}
          /\ RequestOutOfRange \in Nat \ {ResponsePending}
      BY DEF RequestSequenceError, IncorrectMessageLength, WrongBlockCounter,
             RequestOutOfRange, ResponsePending
    <3> QED BY <1>9, <3>1, <3>2 DEF TransferBlock
  <2>2. ~(watch.open /\ watch.clean)
    BY <1>9, <2>1 DEF DownloadInv, Tracked
  <2> QED BY <1>7, <1>8, <2>1, <2>2 DEF DownloadInv
<1>10. CASE programmed /\ ~(watch.open /\ watch.clean)
  BY <1>4, <1>7, <1>8, <1>10 DEF DownloadInv
<1>11. CASE programmed /\ watch.open /\ watch.clean
  <2> DEFINE off == watch.start + Len(watch.image)
  <2>1. Tracked /\ ecu.active
    BY <1>11 DEF DownloadInv
  <2>2. taken
    BY <1>4, <1>11, <1>1, <2>1 DEF IsBlock, Tracked
  <2> HIDE DEF taken, data
  <2>3. WriteOffset = off
    BY <2>1, WritesBehind DEF DownloadInv
  <2>4. Len(watch.image) \in Nat
    <3>1. watch.image \in Seq(Octet)
      BY DEF DownloadInv
    <3> QED BY <3>1, ImageLength
  <2>5. off \in Nat /\ off + Len(data) <= FlashSize
    BY <1>11, <2>1, <2>3, <2>4, Widths DEF Tracked
  <2>6. /\ watch'.image = watch.image \o data
        /\ Len(watch'.image) = Len(watch.image) + Len(data)
        /\ \A i \in 1..(Len(watch.image) + Len(data)) :
             watch'.image[i] = IF i <= Len(watch.image) THEN watch.image[i]
                               ELSE data[i - Len(watch.image)]
    <3>1. watch'.image = watch.image \o data
      BY <1>7, <2>2
    <3>2. watch.image \in Seq(Octet)
      BY DEF DownloadInv
    <3>3. \A s, t \in Seq(Octet) :
            /\ Len(s \o t) = Len(s) + Len(t)
            /\ \A i \in 1..(Len(s) + Len(t)) :
                 (s \o t)[i] = IF i <= Len(s) THEN s[i] ELSE t[i - Len(s)]
      BY ConcatProperties, Zenon
    <3> DEFINE longer == watch.image \o data
    <3>4. /\ Len(longer) = Len(watch.image) + Len(data)
          /\ \A i \in 1..(Len(watch.image) + Len(data)) :
               longer[i] = IF i <= Len(watch.image) THEN watch.image[i]
                           ELSE data[i - Len(watch.image)]
      BY <1>2, <3>2, <3>3, Zenon
    <3>5. watch'.image = longer
      BY <3>1
    <3> HIDE DEF longer
    <3>6. watch'.image = watch.image \o data
      BY <3>1
    <3> QED BY <3>4, <3>5, <3>6
  <2>7. ecu'.written = Len(watch'.image)
    <3>1. ecu'.written = (Len(watch.image) + Len(data)) % Word
      BY <1>4, <1>11, <2>1 DEF Tracked
    <3>2. Len(watch.image) + Len(data) \in Nat /\ Len(watch.image) + Len(data) < Word
      <4>1. watch.start \in Nat
        BY <2>1, Widths DEF Tracked
      <4> QED BY <1>2, <2>4, <2>5, <4>1, Widths
    <3> QED BY <2>6, <3>1, <3>2, SmallMod, Widths
  <2>8. ImageInFlash'
    <3> SUFFICES ASSUME NEW i \in 1..(Len(watch.image) + Len(data))
                 PROVE  ecu'.flash[watch.start + i - 1] = watch'.image[i]
      BY <1>7, <2>6 DEF ImageInFlash
    <3>1. watch.start \in Nat
      BY <2>1, Widths DEF Tracked
    <3>2. watch.start + i - 1 \in 0..(FlashSize - 1)
      <4> DEFINE held == Len(watch.image)
                 start == watch.start
      <4>1. held \in Nat /\ start \in Nat /\ i \in 1..(held + Len(data)) /\ Len(data) \in Nat
            /\ (start + held) + Len(data) <= FlashSize /\ FlashSize \in Nat
        BY <1>2, <2>4, <2>5, <3>1, Widths
      <4> HIDE DEF held, start
      <4>2. start + i - 1 \in 0..(FlashSize - 1)
        BY <4>1
      <4> QED BY <4>2 DEF start
    <3> DEFINE j == watch.start + i - 1
    <3>5. ecu'.flash[j] = IF j \in off..(off + Len(data) - 1)
                          THEN data[j - off + 1] ELSE ecu.flash[j]
      BY <1>4, <1>11, <2>3, <3>2
    <3>3. CASE i <= Len(watch.image)
      <4>1. ecu'.flash[watch.start + i - 1] = ecu.flash[watch.start + i - 1]
        <5>1. j \notin off..(off + Len(data) - 1)
          BY <1>2, <2>4, <3>1, <3>3
        <5> QED BY <3>5, <5>1
      <4>2. i \in 1..Len(watch.image)
        BY <2>4, <3>3
      <4> QED BY <2>1, <2>6, <3>3, <4>1, <4>2 DEF Tracked, ImageInFlash
    <3>4. CASE i > Len(watch.image)
      <4>1. watch.start + i - 1 \in off..(off + Len(data) - 1)
        <5> DEFINE held == Len(watch.image)
                   start == watch.start
        <5>1. held \in Nat /\ start \in Nat /\ i \in 1..(held + Len(data)) /\ i > held
              /\ Len(data) \in Nat
          BY <1>2, <2>4, <3>1, <3>4
        <5> HIDE DEF held, start
        <5>2. start + i - 1 \in (start + held)..((start + held) + Len(data) - 1)
          BY <5>1
        <5> QED BY <5>2 DEF held, start
      <4>2. (watch.start + i - 1) - off + 1 = i - Len(watch.image)
        BY <2>4, <3>1
      <4>3. ecu'.flash[watch.start + i - 1] = data[i - Len(watch.image)]
        BY <3>5, <4>1, <4>2
      <4> QED BY <2>4, <2>6, <3>4, <4>3
    <3> QED BY <2>4, <3>3, <3>4
  <2>9. ecu'.block = watch'.next /\ ecu'.block \in 1..(BlockModulus - 1)
    <3>1. ecu.block = watch.next /\ ecu.block \in 1..(BlockModulus - 1)
      BY <2>1 DEF Tracked
    <3>2. (ecu.block + 1) % BlockModulus = 0 <=> ecu.block = BlockModulus - 1
      <4>1. CASE ecu.block = BlockModulus - 1
        BY <4>1, Widths
      <4>2. CASE ecu.block < BlockModulus - 1
        <5>1. ecu.block + 1 \in Nat \ {0} /\ ecu.block + 1 < BlockModulus
          BY <3>1, <4>2, Widths
        <5>2. (ecu.block + 1) % BlockModulus = ecu.block + 1
          BY <5>1, SmallMod, Widths
        <5> QED BY <4>2, <5>1, <5>2, Widths
      <4> QED BY <3>1, <4>1, <4>2, Widths
    <3>3. ecu'.block = NextBlock(ecu.block) /\ watch'.next = TesterNextBlock(watch.next)
      BY <1>4, <1>7, <1>11, <2>2
    <3>4. NextBlock(ecu.block) = TesterNextBlock(ecu.block)
      BY <3>2 DEF NextBlock, TesterNextBlock
    <3>5. TesterNextBlock(ecu.block) \in 1..(BlockModulus - 1)
      BY <3>1, Widths DEF TesterNextBlock
    <3> QED BY <3>1, <3>3, <3>4, <3>5
  <2>10. ~ecu'.complete
    BY <1>4, <1>11, <2>1 DEF Tracked
  <2>11. Tracked'
    <3>1. Len(watch'.image) > 0 => watch'.start + Len(watch'.image) <= FlashSize
      BY <1>2, <1>7, <2>1, <2>4, <2>5, <2>6 DEF Tracked
    <3> QED BY <1>4, <1>7, <1>11, <2>1, <2>7, <2>8, <2>9, <2>10, <3>1 DEF Tracked
  <2> QED BY <1>4, <1>7, <1>8, <1>11, <2>11 DEF DownloadInv
<1> QED BY <1>3, <1>9, <1>10, <1>11

-----------------------------------------------------------------------------
(* RequestTransferExit: the image is complete when all of it was written.  *)
LEMMA ExitKeepsTrack ==
  ASSUME DownloadInv, NEW q \in Seq(Octet), TransferExit(q),
         watch' = Observed(q, ~IsRefusal(reply'))
  PROVE  DownloadInv'
<1>1. \E r : watch' = [watch EXCEPT !.repeat = r]
  <2>1. q[1] \notin {RequestDownload, TransferData} /\ ~IsErase(q)
    BY DEF TransferExit, IsErase, RequestTransferExit, RequestDownload, TransferData,
           RoutineControl
  <2> QED BY <2>1, UnseenByTheWatch
<1>2. CASE UNCHANGED ecu
  <2>1. Untouched
    BY <1>2 DEF Untouched, DownloadInv
  <2> QED BY <1>1, <2>1, UntouchedIsHarmless
<1>3. CASE /\ ecu.active /\ ecu.written = ecu.size
           /\ ecu' = [ecu EXCEPT !.active = FALSE, !.complete = TRUE]
  <2>1. /\ DOMAIN watch' = WatchMembers
        /\ watch'.open = watch.open /\ watch'.clean = watch.clean
        /\ watch'.start = watch.start /\ watch'.size = watch.size
        /\ watch'.next = watch.next /\ watch'.image = watch.image
    BY <1>1 DEF DownloadInv, WatchMembers
  <2>2. /\ DOMAIN ecu' = EcuMembers /\ ecu'.active = FALSE
        /\ ecu'.flash = ecu.flash /\ ecu'.written = ecu.written
    BY <1>3 DEF DownloadInv, EcuMembers
  <2> QED BY <1>3, <2>1, <2>2 DEF DownloadInv, Tracked, ImageInFlash
<1> QED BY <1>2, <1>3 DEF TransferExit, Refuses

LEMMA DownloadStep ==
  ASSUME DownloadInv, NEW q \in Requests, Request(q)
  PROVE  DownloadInv'
<1>1. q \in Seq(Octet)
  BY RequestsAreMessages DEF RequestsAreMessages
<1>2. Handle(q) /\ watch' = Observed(q, ~IsRefusal(reply'))
  BY DEF Request
<1>3. CASE Download(q)
  BY <1>1, <1>2, <1>3, DownloadKeepsTrack
<1>4. CASE Erase(q)
  BY <1>1, <1>2, <1>4, EraseKeepsTrack
<1>5. CASE TransferBlock(q)
  BY <1>1, <1>2, <1>5, TransferKeepsTrack
<1>6. CASE TransferExit(q)
  BY <1>1, <1>2, <1>6, ExitKeepsTrack
<1>7. CASE NotOfADownload(q)
  <2>1. Untouched
    BY <1>7, OthersLeaveDownloads DEF DownloadInv
  <2>2. \E r : watch' = [watch EXCEPT !.repeat = r]
    BY <1>2, <1>7, OthersAreOther, UnseenByTheWatch
  <2> QED BY <2>1, <2>2, UntouchedIsHarmless
<1> QED BY <1>2, <1>3, <1>4, <1>5, <1>6, <1>7 DEF Handle, NotOfADownload

(* What the tester has transferred is what flash holds, however often      *)
(* blocks were repeated, refused or sent out of order, as long as no other *)
(* download was refused meanwhile; and once the exit was accepted all of   *)
(* it is there (request_download(), transfer_data(), transfer_exit()).     *)
THEOREM DownloadStaysIntact == Spec => []DownloadIntact
<1>1. Init => DownloadInv
  <2> SUFFICES ASSUME Init PROVE DownloadInv
    OBVIOUS
  <2>1. DOMAIN ecu = EcuMembers /\ DOMAIN ecu.flash = 0..(FlashSize - 1)
    BY DEF Init, ServiceInit, Erased, EcuMembers
  <2>2. DOMAIN watch = WatchMembers /\ watch.image = <<>> /\ watch.open = FALSE
    BY DEF Init, FreshWatch, WatchMembers
  <2>3. watch.image \in Seq(Octet)
    BY <2>2, EmptySeq
  <2> QED BY <2>1, <2>2, <2>3 DEF DownloadInv
<1>2. DownloadInv /\ [Next]_vars => DownloadInv'
  <2> SUFFICES ASSUME DownloadInv, [Next]_vars PROVE DownloadInv'
    OBVIOUS
  <2>1. ASSUME NEW q \in Requests, Request(q) PROVE DownloadInv'
    BY <2>1, DownloadStep
  <2>2. ASSUME NEW d \in NewDtcs, Fault(d) PROVE DownloadInv'
    <3>1. Untouched
      BY <2>2 DEF Fault, AddDtc, Untouched, DownloadInv, EcuMembers
    <3>2. watch' = [watch EXCEPT !.repeat = FALSE]
      BY <2>2 DEF Fault
    <3> QED BY <3>1, <3>2, UntouchedIsHarmless
  <2>3. CASE UNCHANGED vars
    BY <2>3 DEF vars, DownloadInv, Tracked, ImageInFlash
  <2> QED BY <2>1, <2>2, <2>3 DEF Next
<1>3. DownloadInv => DownloadIntact
  <2> SUFFICES ASSUME DownloadInv, watch.open, watch.clean
               PROVE  /\ \A i \in 1..Len(watch.image) :
                           /\ watch.start + i <= FlashSize
                           /\ ecu.flash[watch.start + i - 1] = watch.image[i]
                      /\ ecu.complete => Len(watch.image) = watch.size
    BY DEF DownloadIntact
  <2>1. Tracked /\ Len(watch.image) \in Nat
    BY LenProperties DEF DownloadInv
  <2> QED BY <2>1, Widths DEF Tracked, ImageInFlash
<1> QED BY <1>1, <1>2, <1>3, PTL DEF Spec

-----------------------------------------------------------------------------
(* A repeated block.  While a download is active the ECU expects the block *)
(* the tester counts as the next one, and that is never the last one: this *)
(* holds of every download, also one whose address was overwritten by a    *)
(* refused request.                                                        *)
BlockInv ==
  /\ DOMAIN ecu = EcuMembers /\ DOMAIN watch = WatchMembers
  /\ watch.next \in 1..(BlockModulus - 1) /\ watch.last # watch.next
  /\ ecu.active => ecu.block = watch.next

LEMMA BlocksCount ==
  ASSUME NEW block \in 1..(BlockModulus - 1)
  PROVE  /\ NextBlock(block) = TesterNextBlock(block)
         /\ TesterNextBlock(block) \in 1..(BlockModulus - 1)
         /\ TesterNextBlock(block) # block
<1>1. (block + 1) % BlockModulus = 0 <=> block = BlockModulus - 1
  <2>1. CASE block = BlockModulus - 1
    BY <2>1, Widths
  <2>2. CASE block < BlockModulus - 1
    BY <2>2, SmallMod, Widths
  <2> QED BY <2>1, <2>2, Widths
<1> QED BY <1>1, Widths DEF NextBlock, TesterNextBlock

LEMMA RepeatLeavesBlocks ==
  ASSUME BlockInv, DOMAIN ecu' = EcuMembers, ecu'.block = ecu.block,
         ecu'.active => ecu.active, NEW r, watch' = [watch EXCEPT !.repeat = r]
  PROVE  BlockInv'
BY DEF BlockInv, WatchMembers

(* TransferData: the ECU programs the block exactly when the tester takes  *)
(* it for accepted and new.                                                *)
LEMMA TransferBlocks ==
  ASSUME BlockInv, NEW q \in Seq(Octet), TransferBlock(q),
         watch' = Observed(q, ~IsRefusal(reply'))
  PROVE  /\ BlockInv'
         /\ watch'.repeat => ecu' = ecu
<1>1. q[1] = TransferData /\ q[1] # RequestDownload /\ ~IsErase(q)
  BY DEF TransferBlock, IsErase, TransferData, RequestDownload, RoutineControl
<1>2. CASE UNCHANGED ecu /\ IsRefusal(reply')
  <2>1. \E r : watch' = [watch EXCEPT !.repeat = r]
    BY <1>1, <1>2 DEF Observed
  <2>2. DOMAIN ecu' = EcuMembers
    BY <1>2 DEF BlockInv
  <2> QED BY <1>2, <2>1, <2>2, RepeatLeavesBlocks
<1>3. CASE UNCHANGED ecu /\ ecu.active /\ q[2] # ecu.block
  <2>1. \E r : watch' = [watch EXCEPT !.repeat = r]
    BY <1>1, <1>3 DEF Observed, BlockInv
  <2>2. DOMAIN ecu' = EcuMembers
    BY <1>3 DEF BlockInv
  <2> QED BY <1>3, <2>1, <2>2, RepeatLeavesBlocks
<1>4. ASSUME ecu.active, Len(q) >= 2, q[2] = ecu.block, ~IsRefusal(reply'),
             DOMAIN ecu' = EcuMembers, ecu'.block = NextBlock(ecu.block)
      PROVE  BlockInv' /\ ~watch'.repeat
  <2>1. q[2] = watch.next /\ IsBlock(q) /\ ecu.block = watch.next
    BY <1>1, <1>4 DEF BlockInv, IsBlock
  <2>2. \E image : watch' = [watch EXCEPT !.image = image, !.last = watch.next,
                               !.next = TesterNextBlock(watch.next), !.repeat = FALSE]
    BY <1>1, <1>4, <2>1 DEF Observed
  <2>3. /\ DOMAIN watch' = WatchMembers /\ watch'.last = watch.next
        /\ watch'.next = TesterNextBlock(watch.next) /\ watch'.repeat = FALSE
    BY <2>2 DEF BlockInv, WatchMembers
  <2>4. watch.next \in 1..(BlockModulus - 1)
    BY DEF BlockInv
  <2> QED BY <1>4, <2>1, <2>3, <2>4, BlocksCount DEF BlockInv
<1>5. ASSUME NEW nrc \in Nat \ {ResponsePending}, Refuses(q, nrc)
      PROVE  UNCHANGED ecu /\ IsRefusal(reply')
  BY <1>5, RefusalsAreRefusals DEF Refuses
<1>6. /\ RequestSequenceError \in Nat \ {ResponsePending}
      /\ IncorrectMessageLength \in Nat \ {ResponsePending}
      /\ WrongBlockCounter \in Nat \ {ResponsePending}
      /\ RequestOutOfRange \in Nat \ {ResponsePending}
  BY DEF RequestSequenceError, IncorrectMessageLength, WrongBlockCounter,
         RequestOutOfRange, ResponsePending
<1> DEFINE data == SubSeq(q, 3, Len(q))
           after == Programmed(data)
<1>7. DOMAIN after = EcuMembers /\ after.block = NextBlock(ecu.block)
  BY DEF Programmed, BlockInv, EcuMembers
<1>8. CASE ecu.active /\ Len(q) >= 2 /\ q[2] = ecu.block /\ ecu' = after /\ Answers(q, <<q[2]>>)
  <2>1. 2 \in 1..Len(q)
    BY <1>8, LenProperties
  <2>2. q[2] \in Nat
    BY <2>1, ElementOfSeq, OctetsAreNumbers
  <2>3. <<q[2]>> \in Seq(Nat)
    BY <2>2
  <2>4. q[1] \in Service
    BY <1>1 DEF Service
  <2>5. ~IsRefusal(reply')
    BY <1>8, <2>3, <2>4, AnswersAreNot DEF Answers
  <2> HIDE DEF after
  <2> QED BY <1>4, <1>7, <1>8, <2>5
<1>9. CASE /\ ecu.active /\ Len(q) >= 2 /\ q[2] = ecu.block
           /\ ecu' = Deferring(after, <<q[1] + PositiveOffset, q[2]>>, PendingPerBlock, 0)
           /\ reply' = Negative(q, ResponsePending)
  <2>1. ~IsRefusal(reply')
    BY <1>9 DEF IsRefusal, Negative
  <2> HIDE DEF after
  <2>2. DOMAIN ecu' = EcuMembers /\ ecu'.block = NextBlock(ecu.block)
    BY <1>7, <1>9 DEF Deferring, EcuMembers
  <2> QED BY <1>4, <1>9, <2>1, <2>2
<1> HIDE DEF after
<1> QED BY <1>2, <1>3, <1>5, <1>6, <1>8, <1>9 DEF TransferBlock, after

LEMMA BlockStep ==
  ASSUME BlockInv, NEW q \in Requests, Request(q)
  PROVE  /\ BlockInv'
         /\ watch'.repeat => /\ ecu'.flash = ecu.flash
                             /\ ecu'.written = ecu.written /\ ecu'.block = ecu.block
<1>1. q \in Seq(Octet)
  BY RequestsAreMessages DEF RequestsAreMessages
<1>2. Handle(q) /\ watch' = Observed(q, ~IsRefusal(reply'))
  BY DEF Request
<1>3. CASE TransferBlock(q)
  BY <1>1, <1>2, <1>3, TransferBlocks
<1>4. ASSUME q[1] # TransferData
      PROVE  watch'.repeat = FALSE
  <2>1. ~IsBlock(q)
    BY <1>4 DEF IsBlock
  <2>2. \/ watch'= [watch EXCEPT !.repeat = FALSE]
        \/ \E clean : watch' = [watch EXCEPT !.clean = clean, !.repeat = FALSE]
        \/ \E image : watch' = [watch EXCEPT !.image = image, !.repeat = FALSE]
        \/ \E start, size : watch' = [FreshWatch EXCEPT !.open = TRUE, !.clean = TRUE,
                                        !.start = start, !.size = size]
    BY <1>2, <2>1 DEF Observed
  <2> QED BY <2>2 DEF BlockInv, WatchMembers, FreshWatch
<1>5. CASE Download(q)
  <2>1. q[1] = RequestDownload /\ q[1] # TransferData
    BY <1>5 DEF Download, RequestDownload, TransferData
  <2>2. ASSUME ~IsRefusal(reply') => ecu'.active /\ ecu'.block = 1,
               DOMAIN ecu' = EcuMembers,
               IsRefusal(reply') => ecu'.active = ecu.active /\ ecu'.block = ecu.block
        PROVE  BlockInv'
    <3>1. CASE IsRefusal(reply')
      <4>1. watch' = [watch EXCEPT !.clean = @ /\ ~ecu.active, !.repeat = FALSE]
        BY <1>2, <2>1, <3>1 DEF Observed
      <4> QED BY <2>2, <3>1, <4>1 DEF BlockInv, WatchMembers
    <3>2. CASE ~IsRefusal(reply')
      <4>1. \E start, size : watch' = [FreshWatch EXCEPT !.open = TRUE, !.clean = TRUE,
                                          !.start = start, !.size = size]
        BY <1>2, <2>1, <3>2 DEF Observed
      <4>2. DOMAIN watch' = WatchMembers /\ watch'.next = 1 /\ watch'.last = 0
        BY <4>1 DEF FreshWatch, WatchMembers
      <4> QED BY <2>2, <3>2, <4>2, Widths DEF BlockInv
    <3> QED BY <3>1, <3>2
  <2>3. ASSUME NEW nrc \in Nat \ {ResponsePending}, Refuses(q, nrc)
        PROVE  BlockInv'
    BY <2>2, <2>3, RefusalsAreRefusals DEF Refuses, BlockInv
  <2>4. ASSUME NEW address, NEW size,
               ecu' = [ecu EXCEPT !.address = address, !.size = size],
               reply' = Negative(q, RequestOutOfRange)
        PROVE  BlockInv'
    <3>1. IsRefusal(reply')
      BY <2>4, RefusalsAreRefusals DEF RequestOutOfRange, ResponsePending
    <3>2. DOMAIN ecu' = EcuMembers /\ ecu'.active = ecu.active /\ ecu'.block = ecu.block
      BY <2>4 DEF BlockInv, EcuMembers
    <3> QED BY <2>2, <3>1, <3>2
  <2>5. ASSUME NEW address, NEW size,
               ecu' = [ecu EXCEPT !.address = address, !.size = size, !.active = TRUE,
                                  !.complete = FALSE, !.written = 0, !.block = 1],
               Answers(q, << 32 >> \o BigEndian2(512))
        PROVE  BlockInv'
    <3>1. << 32 >> \o BigEndian2(512) \in Seq(Nat)
      BY ConcatProperties DEF BigEndian2
    <3>2. ~IsRefusal(reply')
      <4>1. q[1] \in Service
        BY <2>1 DEF Service
      <4> QED BY <2>5, <3>1, <4>1, AnswersAreNot DEF Answers
    <3>3. DOMAIN ecu' = EcuMembers /\ ecu'.active /\ ecu'.block = 1
      BY <2>5 DEF BlockInv, EcuMembers
    <3> QED BY <2>2, <3>2, <3>3
  <2>6. /\ IncorrectMessageLength \in Nat \ {ResponsePending}
        /\ NotInActiveSession \in Nat \ {ResponsePending}
        /\ SecurityAccessDenied \in Nat \ {ResponsePending}
    BY DEF IncorrectMessageLength, NotInActiveSession, SecurityAccessDenied, ResponsePending
  <2>7. BlockInv'
    <3>1. \/ \E nrc \in {IncorrectMessageLength, NotInActiveSession, SecurityAccessDenied} :
               Refuses(q, nrc)
          \/ \E address, size :
               /\ ecu' = [ecu EXCEPT !.address = address, !.size = size]
               /\ reply' = Negative(q, RequestOutOfRange)
          \/ \E address, size :
               /\ ecu' = [ecu EXCEPT !.address = address, !.size = size, !.active = TRUE,
                                     !.complete = FALSE, !.written = 0, !.block = 1]
               /\ Answers(q, <<32>> \o BigEndian2(512))
      BY <1>5, Zenon DEF Download
    <3> QED BY <2>3, <2>4, <2>5, <2>6, <3>1
  <2> QED BY <1>4, <2>1, <2>7
<1>6. CASE Erase(q)
  <2>1. q[1] = RoutineControl /\ q[1] \notin {TransferData, RequestDownload} /\ IsErase(q)
    BY <1>6 DEF Erase, IsErase, RoutineControl, TransferData, RequestDownload
  <2>2. /\ DOMAIN ecu' = EcuMembers /\ ecu'.active = ecu.active /\ ecu'.block = ecu.block
    BY <1>6 DEF Erase, Refuses, Deferring, BlockInv, EcuMembers
  <2>3. \/ \E r : watch' = [watch EXCEPT !.repeat = r]
        \/ \E image : watch' = [watch EXCEPT !.image = image, !.repeat = FALSE]
    BY <1>2, <2>1 DEF Observed
  <2>4. /\ DOMAIN watch' = WatchMembers /\ watch'.next = watch.next
        /\ watch'.last = watch.last
    BY <2>3 DEF BlockInv, WatchMembers
  <2>5. BlockInv'
    BY <2>2, <2>4 DEF BlockInv
  <2> QED BY <1>4, <2>1, <2>5
<1>7. CASE TransferExit(q)
  <2>1. q[1] \notin {RequestDownload, TransferData} /\ ~IsErase(q)
    BY <1>7 DEF TransferExit, IsErase, RequestTransferExit, RequestDownload, TransferData,
           RoutineControl
  <2>2. \E r : watch' = [watch EXCEPT !.repeat = r]
    BY <1>2, <2>1, UnseenByTheWatch
  <2>3. /\ DOMAIN ecu' = EcuMembers /\ ecu'.block = ecu.block
        /\ ecu'.active => ecu.active
    BY <1>7 DEF TransferExit, Refuses, BlockInv, EcuMembers
  <2> QED BY <1>4, <2>1, <2>2, <2>3, RepeatLeavesBlocks
<1>8. CASE NotOfADownload(q)
  <2>1. Untouched
    BY <1>8, OthersLeaveDownloads DEF BlockInv
  <2>2. \E r : watch' = [watch EXCEPT !.repeat = r]
    BY <1>2, <1>8, OthersAreOther, UnseenByTheWatch
  <2> QED BY <2>1, <2>2, RepeatLeavesBlocks DEF Untouched
<1> QED BY <1>2, <1>3, <1>5, <1>6, <1>7, <1>8 DEF Handle, NotOfADownload

(* A block sent twice is not written twice: when the tester repeats the    *)
(* block that was accepted last, transfer_data() changes neither flash nor *)
(* the count of bytes written nor the block it expects.                    *)
LEMMA RepeatedBlockWritesNothing == Spec => RepeatWritesNothing
<1>1. Init => BlockInv
  <2> SUFFICES ASSUME Init PROVE BlockInv
    OBVIOUS
  <2>1. DOMAIN ecu = EcuMembers /\ ecu.active = FALSE
    BY DEF Init, ServiceInit, EcuMembers
  <2>2. DOMAIN watch = WatchMembers /\ watch.next = 1 /\ watch.last = 0
    BY DEF Init, FreshWatch, WatchMembers
  <2> QED BY <2>1, <2>2, Widths DEF BlockInv
<1>2. ASSUME BlockInv, Next
      PROVE  /\ BlockInv'
             /\ watch'.repeat => /\ ecu'.flash = ecu.flash
                                 /\ ecu'.written = ecu.written /\ ecu'.block = ecu.block
  <2>1. ASSUME NEW d \in NewDtcs, Fault(d)
        PROVE  BlockInv' /\ ~watch'.repeat
    <3>1. DOMAIN ecu' = EcuMembers /\ ecu'.active = ecu.active /\ ecu'.block = ecu.block
      BY <1>2, <2>1 DEF Fault, AddDtc, BlockInv, EcuMembers
    <3>2. watch' = [watch EXCEPT !.repeat = FALSE]
      BY <2>1 DEF Fault
    <3>3. watch'.repeat = FALSE
      BY <1>2, <3>2 DEF BlockInv, WatchMembers
    <3> QED BY <1>2, <3>1, <3>2, <3>3, RepeatLeavesBlocks
  <2> QED BY <1>2, <2>1, BlockStep DEF Next
<1>3. BlockInv /\ [Next]_vars => BlockInv'
  <2>1. CASE UNCHANGED vars
    BY <2>1 DEF vars, BlockInv
  <2> QED BY <1>2, <2>1
<1>4. BlockInv /\ [Next]_vars
        => [watch'.repeat => /\ ecu'.flash = ecu.flash
                             /\ ecu'.written = ecu.written /\ ecu'.block = ecu.block]_vars
  BY <1>2
<1> QED BY <1>1, <1>3, <1>4, PTL DEF Spec, RepeatWritesNothing

-----------------------------------------------------------------------------
(* Stored trouble codes.  First what OnlyThose computes: a recursive       *)
(* function exists and has the values its definition says, by induction on *)
(* the part of the list that was looked at.                                *)
LEMMA NumbersFromZero ==
  ASSUME NEW Set \in SUBSET Nat, 0 \in Set, \A n \in Set : n + 1 \in Set
  PROVE  Set = Nat
<1> DEFINE Less == {ss \in Nat \X Nat : ss[1] < ss[2]}
           T == Nat \ Set
<1>1. IsWellFoundedOn(Less, Nat)
  BY NatLessThanWellFounded DEF OpToRel
<1> HIDE DEF Less
<1> SUFFICES ASSUME T # {} PROVE FALSE
  OBVIOUS
<1>2. PICK x \in T : \A y \in T : <<y, x>> \notin Less
  BY <1>1, WFMin
<1>3. x \in Nat /\ x # 0 /\ x - 1 \in Nat /\ x - 1 < x
  OBVIOUS
<1>4. <<x - 1, x>> \in Less
  BY <1>3 DEF Less
<1>5. x - 1 \in Set
  BY <1>2, <1>3, <1>4
<1>6. (x - 1) + 1 \in Set
  BY <1>5
<1> QED BY <1>3, <1>6

KeepsThrough(f, k, dtcs, wanted) ==
  f = [n \in 0..k |->
         IF n = 0 THEN <<>>
         ELSE IF dtcs[n] \in wanted THEN Append(f[n - 1], dtcs[n]) ELSE f[n - 1]]

LEMMA KeepsExists ==
  ASSUME NEW dtcs, NEW wanted
  PROVE  \A k \in Nat : \E f : KeepsThrough(f, k, dtcs, wanted)
<1> DEFINE Set == {k \in Nat : \E f : KeepsThrough(f, k, dtcs, wanted)}
<1>1. 0 \in Set
  <2> DEFINE f == [n \in 0..0 |-> <<>>]
  <2>1. KeepsThrough(f, 0, dtcs, wanted)
    BY DEF KeepsThrough
  <2> QED BY <2>1
<1>2. ASSUME NEW k \in Set PROVE k + 1 \in Set
  <2>1. PICK f : KeepsThrough(f, k, dtcs, wanted)
    OBVIOUS
  <2> DEFINE g == [n \in 0..(k + 1) |->
                     IF n <= k THEN f[n]
                     ELSE IF dtcs[n] \in wanted THEN Append(f[n - 1], dtcs[n]) ELSE f[n - 1]]
  <2>2. KeepsThrough(g, k + 1, dtcs, wanted)
    <3>1. ASSUME NEW n \in 0..(k + 1)
          PROVE  g[n] = IF n = 0 THEN <<>>
                        ELSE IF dtcs[n] \in wanted THEN Append(g[n - 1], dtcs[n]) ELSE g[n - 1]
      <4>1. CASE n = 0
        BY <2>1, <4>1 DEF KeepsThrough
      <4>2. CASE n # 0
        <5>1. n - 1 \in 0..k /\ g[n - 1] = f[n - 1]
          BY <4>2
        <5>2. n \in 0..k => f[n] = IF dtcs[n] \in wanted THEN Append(f[n - 1], dtcs[n])
                                   ELSE f[n - 1]
          BY <2>1, <4>2 DEF KeepsThrough
        <5> QED BY <4>2, <5>1, <5>2
      <4> QED BY <4>1, <4>2
    <3> QED BY <3>1 DEF KeepsThrough
  <2> QED BY <2>2
<1> HIDE DEF Set
<1>3. Set = Nat
  <2>1. Set \in SUBSET Nat
    BY DEF Set
  <2> QED BY <1>1, <1>2, <2>1, NumbersFromZero
<1> QED BY <1>3 DEF Set

(* Whatever is kept of a list of trouble codes is such a list.             *)
LEMMA OnlyThoseType ==
  ASSUME NEW D, NEW dtcs \in Seq(D), NEW wanted
  PROVE  OnlyThose(dtcs, wanted) \in Seq(D)
<1> DEFINE size == Len(dtcs)
           f == CHOOSE f : KeepsThrough(f, size, dtcs, wanted)
           Set == {n \in Nat : n <= size => f[n] \in Seq(D)}
<1>1. size \in Nat /\ \A n \in 1..size : dtcs[n] \in D
  BY LenProperties, ElementOfSeq
<1>2. KeepsThrough(f, size, dtcs, wanted)
  BY <1>1, KeepsExists
<1>3. OnlyThose(dtcs, wanted) = f[size]
  BY DEF OnlyThose, KeepsThrough
<1> HIDE DEF f, size
<1>4. \A n \in 0..size : f[n] = IF n = 0 THEN <<>>
                                ELSE IF dtcs[n] \in wanted THEN Append(f[n - 1], dtcs[n])
                                ELSE f[n - 1]
  BY <1>2 DEF KeepsThrough
<1>5. 0 \in Set
  <2>1. 0 \in 0..size
    BY <1>1
  <2>2. f[0] = <<>>
    BY <1>4, <2>1
  <2> QED BY <2>2, EmptySeq
<1>6. ASSUME NEW n \in Set PROVE n + 1 \in Set
  <2> SUFFICES ASSUME n + 1 <= size PROVE f[n + 1] \in Seq(D)
    OBVIOUS
  <2>1. n \in Nat /\ f[n] \in Seq(D) /\ n + 1 \in 0..size /\ n + 1 # 0 /\ (n + 1) - 1 = n
    BY <1>1
  <2>2. dtcs[n + 1] \in D
    BY <1>1, <2>1
  <2>3. f[n + 1] = IF dtcs[n + 1] \in wanted THEN Append(f[n], dtcs[n + 1]) ELSE f[n]
    BY <1>4, <2>1
  <2> QED BY <2>1, <2>2, <2>3, AppendProperties
<1> HIDE DEF Set
<1>7. Set = Nat
  <2>1. Set \in SUBSET Nat
    BY DEF Set
  <2> QED BY <1>5, <1>6, <2>1, NumbersFromZero
<1> QED BY <1>1, <1>3, <1>7 DEF Set

Dtc == [code : [1..3 -> Octet], status : Octet]

(* What read_dtc_information() packs, parse_dtc_list() takes apart again,  *)
(* for every list of trouble codes.                                        *)
LEMMA PackedCodes ==
  ASSUME NEW dtcs \in Seq(Dtc)
  PROVE  /\ DtcRecords(dtcs) \in Seq(Octet)
         /\ Len(DtcRecords(dtcs)) = 4 * Len(dtcs)
         /\ \A i \in 1..Len(dtcs) :
              /\ DtcRecords(dtcs)[4 * i] = dtcs[i].status
              /\ \A k \in 1..3 : DtcRecords(dtcs)[4 * i - 4 + k] = dtcs[i].code[k]
<1> DEFINE size == Len(dtcs)
           packed(i) == LET d == dtcs[((i - 1) \div 4) + 1]
                        IN  IF i % 4 = 0 THEN d.status ELSE d.code[((i - 1) % 4) + 1]
<1>1. size \in Nat /\ \A n \in 1..size : dtcs[n] \in Dtc
  BY LenProperties, ElementOfSeq
<1>2. DtcRecords(dtcs) = [i \in 1..(4 * size) |-> packed(i)]
  BY DEF DtcRecords
<1> HIDE DEF size
<1>3. ASSUME NEW i \in 1..(4 * size)
      PROVE  packed(i) \in Octet
  <2>1. /\ ((i - 1) \div 4) + 1 \in 1..size
        /\ i % 4 # 0 => ((i - 1) % 4) + 1 \in 1..3
    BY <1>1
  <2>2. dtcs[((i - 1) \div 4) + 1] \in Dtc
    BY <1>1, <2>1
  <2> QED BY <2>1, <2>2 DEF Dtc
<1>4. ASSUME NEW i \in 1..size
      PROVE  /\ packed(4 * i) = dtcs[i].status /\ 4 * i \in 1..(4 * size)
             /\ \A k \in 1..3 : /\ packed(4 * i - 4 + k) = dtcs[i].code[k]
                                /\ 4 * i - 4 + k \in 1..(4 * size)
  <2>1. /\ ((4 * i - 1) \div 4) + 1 = i /\ (4 * i) % 4 = 0 /\ 4 * i \in 1..(4 * size)
    BY <1>1
  <2>2. ASSUME NEW k \in 1..3
        PROVE  /\ ((4 * i - 4 + k - 1) \div 4) + 1 = i /\ (4 * i - 4 + k) % 4 # 0
               /\ ((4 * i - 4 + k - 1) % 4) + 1 = k /\ 4 * i - 4 + k \in 1..(4 * size)
    BY <1>1
  <2>3. packed(4 * i) = dtcs[i].status
    BY <2>1
  <2>4. ASSUME NEW k \in 1..3
        PROVE  packed(4 * i - 4 + k) = dtcs[i].code[k]
    BY <2>2
  <2> QED BY <2>1, <2>2, <2>3, <2>4
<1> HIDE DEF packed
<1>5. 4 * size \in Nat
  BY <1>1
<1>6. /\ [i \in 1..(4 * size) |-> packed(i)] \in Seq(Octet)
      /\ Len([i \in 1..(4 * size) |-> packed(i)]) = 4 * size
  <2> DEFINE n == 4 * size
  <2> HIDE DEF n
  <2>1. n \in Nat /\ \A i \in 1..n : packed(i) \in Octet
    BY <1>3, <1>5 DEF n
  <2>2. [i \in 1..n |-> packed(i)] \in Seq(Octet)
    BY <2>1, IsASeq
  <2>3. Len([i \in 1..n |-> packed(i)]) = n
    BY <2>1, <2>2, LenProperties
  <2> QED BY <2>2, <2>3 DEF n
<1> QED BY <1>2, <1>4, <1>6 DEF size

LEMMA CodesReadBack ==
  ASSUME NEW dtcs \in Seq(Dtc), NEW a \in Octet, NEW b \in Octet
  PROVE  DtcList(<<a, b>> \o DtcRecords(dtcs)) = dtcs
<1> DEFINE size == Len(dtcs)
           r == DtcRecords(dtcs)
           data == <<a, b>> \o r
           parsed(i) == [code   |-> SubSeq(data, 4 * i - 1, 4 * i + 1),
                         status |-> data[4 * i + 2]]
<1>1. size \in Nat /\ (\A i \in 1..size : dtcs[i] \in Dtc) /\ dtcs = [i \in 1..size |-> dtcs[i]]
  BY LenProperties, ElementOfSeq
<1>2. r \in Seq(Octet) /\ Len(r) = 4 * size
  BY PackedCodes
<1>3. ASSUME NEW i \in 1..size
      PROVE  /\ r[4 * i] = dtcs[i].status
             /\ \A k \in 1..3 : r[4 * i - 4 + k] = dtcs[i].code[k]
  BY PackedCodes
<1> HIDE DEF size, r
<1>4. /\ data \in Seq(Octet) /\ Len(data) = 4 * size + 2
      /\ \A j \in 1..(4 * size) : data[j + 2] = r[j]
  <2>1. <<a, b>> \in Seq(Octet) /\ Len(<<a, b>>) = 2
    OBVIOUS
  <2>2. /\ data \in Seq(Octet) /\ Len(data) = 2 + Len(r)
        /\ \A j \in 1..(2 + Len(r)) : data[j] = IF j <= 2 THEN <<a, b>>[j] ELSE r[j - 2]
    BY <1>2, <2>1, ConcatProperties
  <2> HIDE DEF data
  <2>3. ASSUME NEW j \in 1..(4 * size)
        PROVE  data[j + 2] = r[j]
    <3>1. j + 2 \in 1..(2 + Len(r)) /\ ~(j + 2 <= 2) /\ (j + 2) - 2 = j
      BY <1>1, <1>2
    <3> QED BY <2>2, <3>1
  <2> QED BY <1>1, <1>2, <2>2, <2>3
<1>5. ASSUME NEW i \in 1..size
      PROVE  parsed(i) = dtcs[i]
  <2> HIDE DEF data
  <2>1. 4 * i \in 1..(4 * size)
    BY <1>1
  <2>2. data[4 * i + 2] = dtcs[i].status
    BY <1>3, <1>4, <2>1
  <2> DEFINE code == SubSeq(data, 4 * i - 1, 4 * i + 1)
  <2>3. ASSUME NEW k \in 1..3
        PROVE  data[(4 * i - 1) + k - 1] = dtcs[i].code[k]
    <3>1. /\ 4 * i - 4 + k \in 1..(4 * size)
          /\ (4 * i - 1) + k - 1 = (4 * i - 4 + k) + 2
      BY <1>1
    <3>2. data[(4 * i - 4 + k) + 2] = r[4 * i - 4 + k]
      BY <1>4, <3>1
    <3> QED BY <1>3, <3>1, <3>2
  <2>4. code = [k \in 1..3 |-> data[(4 * i - 1) + k - 1]]
    <3> DEFINE m == 4 * i - 1
               n == 4 * i + 1
    <3>1. m \in 1..Len(data) /\ n \in 1..Len(data) /\ n - m + 1 = 3
      BY <1>1, <1>4
    <3> HIDE DEF m, n
    <3>2. SubSeq(data, m, n) = [k \in 1..(n - m + 1) |-> data[m + k - 1]]
      BY <1>4, <3>1
    <3>3. SubSeq(data, m, n) = [k \in 1..3 |-> data[m + k - 1]]
      BY <3>1, <3>2
    <3> QED BY <3>3 DEF m, n
  <2>5. dtcs[i] \in Dtc
    BY <1>1
  <2>6. dtcs[i].code = [k \in 1..3 |-> dtcs[i].code[k]]
    BY <2>5 DEF Dtc
  <2>7. code = dtcs[i].code
    BY <2>3, <2>4, <2>6
  <2> HIDE DEF code
  <2>8. dtcs[i] = [code |-> dtcs[i].code, status |-> dtcs[i].status]
    BY <2>5 DEF Dtc
  <2>9. parsed(i) = [code |-> code, status |-> data[4 * i + 2]]
    BY DEF code
  <2> QED BY <2>2, <2>7, <2>8, <2>9
<1>6. (Len(data) - 2) \div 4 = size /\ ~(Len(data) < 2)
  <2> HIDE DEF data
  <2> QED BY <1>1, <1>4
<1>7. DtcList(data) = [i \in 1..size |-> parsed(i)]
  <2> HIDE DEF data
  <2> QED BY <1>6 DEF DtcList
<1> HIDE DEF data, parsed
<1>8. [i \in 1..size |-> parsed(i)] = [i \in 1..size |-> dtcs[i]]
  BY <1>5
<1> QED BY <1>1, <1>7, <1>8 DEF data, r

-----------------------------------------------------------------------------
(* Only read_dtc_information() answers under its own identifier, and only  *)
(* when it lists what is stored does the list sub-function come back.      *)
IsSeq(s) == \E Set : s \in Seq(Set)

LEMMA SeqsOfAnything ==
  /\ IsSeq(<<>>)
  /\ \A a : IsSeq(<<a>>)
  /\ \A a, b : IsSeq(<<a, b>>)
  /\ \A s, t : IsSeq(s) /\ IsSeq(t) => IsSeq(s \o t)
  /\ \A a, t : IsSeq(t) => (<<a>> \o t)[1] = a
<1>1. <<>> \in Seq({}) /\ \A a : <<a>> \in Seq({a})
  BY EmptySeq
<1>2. \A a, b : <<a, b>> \in Seq({a, b})
  OBVIOUS
<1>3. ASSUME NEW s, NEW t, IsSeq(s), IsSeq(t)
      PROVE  IsSeq(s \o t)
  <2>1. PICK Set, T : s \in Seq(Set) /\ t \in Seq(T)
    BY <1>3 DEF IsSeq
  <2>2. s \in Seq(Set \cup T) /\ t \in Seq(Set \cup T)
    <3>1. ASSUME NEW U, NEW V, NEW u \in Seq(U), U \subseteq V PROVE u \in Seq(V)
      <4>1. Len(u) \in Nat /\ u = [i \in 1..Len(u) |-> u[i]] /\ \A i \in 1..Len(u) : u[i] \in V
        BY <3>1, LenProperties, ElementOfSeq
      <4> QED BY <4>1, IsASeq
    <3> QED BY <2>1, <3>1
  <2>3. s \o t \in Seq(Set \cup T)
    BY <2>2, ConcatProperties
  <2> QED BY <2>3 DEF IsSeq
<1>4. ASSUME NEW a, NEW t, IsSeq(t)
      PROVE  (<<a>> \o t)[1] = a
  <2>1. PICK T : t \in Seq(T)
    BY <1>4 DEF IsSeq
  <2>2. /\ <<a>> \in Seq(T \cup {a}) /\ Len(<<a>>) = 1
    OBVIOUS
  <2>3. t \in Seq(T \cup {a}) /\ Len(t) \in Nat
    <3>1. Len(t) \in Nat /\ t = [i \in 1..Len(t) |-> t[i]]
            /\ \A i \in 1..Len(t) : t[i] \in T \cup {a}
      BY <2>1, LenProperties, ElementOfSeq
    <3> QED BY <3>1, IsASeq
  <2> QED BY <2>2, <2>3, ConcatProperties
<1> QED BY <1>1, <1>2, <1>3, <1>4 DEF IsSeq

LEMMA BigEndianSeqs == \A v : IsSeq(BigEndian2(v)) /\ IsSeq(BigEndian4(v))
BY SeqsOfAnything DEF BigEndian2, BigEndian4

(* Not the list of what is stored.                                         *)
OtherReply ==
  ~(Len(reply') > 2 /\ reply'[1] = ReadDtcInformation + PositiveOffset
                    /\ reply'[2] = ListSupported)

LEMMA RefusesOther ==
  ASSUME NEW q, NEW nrc, reply' = Negative(q, nrc)
  PROVE  OtherReply
BY DEF OtherReply, Negative, NegativeResponse, ReadDtcInformation, PositiveOffset

LEMMA AnswersOther ==
  ASSUME NEW q, NEW body, q[1] \in Nat \ {ReadDtcInformation}, IsSeq(body), Answers(q, body)
  PROVE  OtherReply
<1>1. CASE Suppressed(q)
  BY <1>1 DEF Answers, Positive, OtherReply
<1>2. CASE ~Suppressed(q)
  <2> DEFINE first == q[1] + PositiveOffset
  <2>1. first # ReadDtcInformation + PositiveOffset
    BY DEF PositiveOffset, ReadDtcInformation
  <2> HIDE DEF first
  <2>2. (<<first>> \o body)[1] = first
    BY SeqsOfAnything
  <2>3. reply' = <<first>> \o body
    BY <1>2 DEF Answers, Positive, first
  <2> QED BY <2>1, <2>2, <2>3 DEF OtherReply
<1> QED BY <1>1, <1>2

(* The stored codes and identifiers keep their types.                      *)
StoreInv ==
  /\ DOMAIN ecu = EcuMembers
  /\ ecu.dtcs \in Seq(Dtc)
  /\ \A did \in DOMAIN ecu.dids : ecu.dids[did] \in Seq(Octet)

SameStore == DOMAIN ecu' = EcuMembers /\ ecu'.dtcs = ecu.dtcs /\ ecu'.dids = ecu.dids

LEMMA StoreStep ==
  ASSUME StoreInv, NEW q \in Seq(Octet), Handle(q)
  PROVE  StoreInv'
<1>0. ASSUME SameStore PROVE StoreInv'
  BY <1>0 DEF SameStore, StoreInv
<1> DEFINE known == DOMAIN ecu = EcuMembers
<1>e. known
  BY DEF StoreInv
<1>1. CASE UNCHANGED ecu
  BY <1>1 DEF StoreInv
<1>2. CASE SessionControl(q) \/ Reset(q)
  BY <1>e, <1>0, <1>1, <1>2 DEF SessionControl, Reset, Refuses, SameStore, EcuMembers
<1>3. CASE Present(q) \/ ReadIdentifier(q) \/ ReadDtcs(q) \/ Communication(q) \/ Unsupported(q)
  BY <1>1, <1>3 DEF Present, ReadIdentifier, ReadDtcs, Communication, Unsupported, Refuses
<1>4. CASE WriteIdentifier(q)
  <2> SUFFICES ASSUME NEW did \in DOMAIN ecu.dids, Len(q) >= 4,
                      ecu' = [ecu EXCEPT !.dids[did] = SubSeq(q, 4, Len(q))]
               PROVE  StoreInv'
    BY <1>1, <1>4 DEF WriteIdentifier, Refuses
  <2> DEFINE value == SubSeq(q, 4, Len(q))
  <2>1. value \in Seq(Octet)
    <3>1. Len(q) \in Nat /\ \A i \in 4..Len(q) : q[i] \in Octet
      BY LenProperties, ElementOfSeq
    <3> QED BY <3>1, SubSeqProperties
  <2> HIDE DEF value
  <2>2. /\ DOMAIN ecu' = EcuMembers /\ ecu'.dtcs = ecu.dtcs
        /\ ecu'.dids = [ecu.dids EXCEPT ![did] = value]
    BY <1>e DEF EcuMembers, value
  <2> QED BY <2>1, <2>2 DEF StoreInv
<1>5. CASE Security(q)
  BY <1>e, <1>0, <1>1, <1>5 DEF Security, AskSeed, OfferKey, Refuses, SameStore, EcuMembers
<1>6. CASE ClearDtcs(q)
  <2> SUFFICES ASSUME ecu' = [ecu EXCEPT !.dtcs = OnlyThose(ecu.dtcs, Spared(q))]
               PROVE  StoreInv'
    BY <1>1, <1>6 DEF ClearDtcs, Refuses
  <2> DEFINE kept == OnlyThose(ecu.dtcs, Spared(q))
  <2>1. kept \in Seq(Dtc)
    BY OnlyThoseType DEF StoreInv
  <2> HIDE DEF kept
  <2>2. DOMAIN ecu' = EcuMembers /\ ecu'.dtcs = kept /\ ecu'.dids = ecu.dids
    BY <1>e DEF EcuMembers, kept
  <2> QED BY <2>1, <2>2 DEF StoreInv
<1>7. CASE Routine(q)
  <2>1. CASE Erase(q)
    BY <1>e, <1>0, <1>1, <2>1 DEF Erase, Refuses, Deferring, SameStore, EcuMembers
  <2> QED BY <1>1, <1>7, <2>1 DEF Routine, Verify, Refuses
<1>8. CASE Download(q)
  BY <1>e, <1>0, <1>1, <1>8 DEF Download, Refuses, SameStore, EcuMembers
<1>9. CASE TransferBlock(q)
  BY <1>e, <1>0, <1>1, <1>9 DEF TransferBlock, Refuses, Deferring, Programmed, SameStore, EcuMembers
<1>10. CASE TransferExit(q)
  BY <1>e, <1>0, <1>1, <1>10 DEF TransferExit, Refuses, SameStore, EcuMembers
<1> QED BY <1>2, <1>3, <1>4, <1>5, <1>6, <1>7, <1>8, <1>9, <1>10 DEF Handle

LEMMA OthersTellOther ==
  ASSUME StoreInv, NEW q \in Seq(Octet), q # <<>>, Handle(q), ~ReadDtcs(q)
  PROVE  OtherReply
<1>0. q[1] \in Nat
  <2>1. 1 \in 1..Len(q)
    BY EmptySeq, LenProperties
  <2> QED BY <2>1, ElementOfSeq, OctetsAreNumbers
<1>1. ASSUME NEW nrc, Refuses(q, nrc) PROVE OtherReply
  BY <1>1, RefusesOther DEF Refuses
<1>2. ASSUME NEW body, IsSeq(body), q[1] # ReadDtcInformation, Answers(q, body)
      PROVE  OtherReply
  BY <1>0, <1>2, AnswersOther
<1>s. /\ DiagnosticSessionControl # ReadDtcInformation /\ EcuReset # ReadDtcInformation
      /\ ClearDiagnosticInformation # ReadDtcInformation
      /\ ReadDataByIdentifier # ReadDtcInformation /\ SecurityAccess # ReadDtcInformation
      /\ CommunicationControl # ReadDtcInformation
      /\ WriteDataByIdentifier # ReadDtcInformation /\ RoutineControl # ReadDtcInformation
      /\ RequestDownload # ReadDtcInformation /\ TransferData # ReadDtcInformation
      /\ RequestTransferExit # ReadDtcInformation /\ TesterPresent # ReadDtcInformation
  BY DEF DiagnosticSessionControl, EcuReset, ClearDiagnosticInformation, ReadDtcInformation,
         ReadDataByIdentifier, SecurityAccess, CommunicationControl, WriteDataByIdentifier,
         RoutineControl, RequestDownload, TransferData, RequestTransferExit, TesterPresent
<1>3. CASE SessionControl(q)
  <2>1. IsSeq(<<SubFunction(q)>> \o BigEndian2(50) \o BigEndian2(500))
    BY SeqsOfAnything, BigEndianSeqs
  <2> QED BY <1>1, <1>2, <1>3, <1>s, <2>1 DEF SessionControl
<1>4. CASE Reset(q) \/ Present(q) \/ Communication(q) \/ Unsupported(q)
  <2>1. IsSeq(<<SubFunction(q)>>) /\ IsSeq(<<0>>)
    BY SeqsOfAnything
  <2> QED BY <1>1, <1>2, <1>4, <1>s, <2>1 DEF Reset, Present, Communication, Unsupported
<1>5. CASE ReadIdentifier(q) \/ WriteIdentifier(q)
  <2>1. \A did \in DOMAIN ecu.dids : IsSeq(BigEndian2(did) \o ecu.dids[did])
    <3>1. \A did \in DOMAIN ecu.dids : IsSeq(ecu.dids[did])
      BY DEF StoreInv, IsSeq
    <3> QED BY <3>1, SeqsOfAnything, BigEndianSeqs
  <2> QED BY <1>1, <1>2, <1>5, <1>s, <2>1, BigEndianSeqs DEF ReadIdentifier, WriteIdentifier
<1>6. CASE Security(q)
  <2>1. \A seed : IsSeq(<<SubFunction(q)>> \o BigEndian4(seed))
    BY SeqsOfAnything, BigEndianSeqs
  <2>2. IsSeq(<<SubFunction(q)>>)
    BY SeqsOfAnything
  <2>3. CASE AskSeed(q)
    BY <1>2, <1>s, <2>1, <2>3 DEF AskSeed
  <2>4. CASE OfferKey(q)
    BY <1>1, <1>2, <1>s, <2>2, <2>4 DEF OfferKey
  <2> QED BY <1>1, <1>6, <2>3, <2>4 DEF Security
<1>7. CASE ClearDtcs(q) \/ TransferExit(q)
  <2>1. IsSeq(<<>>)
    BY SeqsOfAnything
  <2>2. CASE ClearDtcs(q)
    BY <1>1, <1>2, <1>s, <2>1, <2>2 DEF ClearDtcs
  <2>3. CASE TransferExit(q)
    BY <1>1, <1>2, <1>s, <2>1, <2>3 DEF TransferExit
  <2> QED BY <1>7, <2>2, <2>3
<1>8. CASE Routine(q)
  <2>1. CASE Erase(q) \/ Verify(q)
    <3>1. q[1] = RoutineControl /\ Len(q) >= 4
      BY <2>1 DEF Erase, Verify
    <3>2. IsSeq(SubSeq(q, 3, 4))
      <4>1. Len(q) \in Nat /\ \A i \in 3..4 : q[i] \in Octet
        BY <3>1, LenProperties, ElementOfSeq
      <4>2. SubSeq(q, 3, 4) \in Seq(Octet)
        BY <3>1, <4>1, SubSeqProperties
      <4> QED BY <4>2 DEF IsSeq
    <3>3. IsSeq(Echo(q))
      BY <3>2, SeqsOfAnything DEF Echo
    <3>4. IsSeq(Echo(q) \o <<0>>) /\ \A v : IsSeq(Echo(q) \o BigEndian4(v))
      BY <3>3, SeqsOfAnything, BigEndianSeqs
    <3>5. CASE Erase(q)
      BY <1>1, <1>2, <1>s, <3>1, <3>4, <3>5, RefusesOther DEF Erase
    <3>6. CASE Verify(q)
      BY <1>2, <1>s, <3>1, <3>4, <3>6 DEF Verify
    <3> QED BY <2>1, <3>5, <3>6
  <2> QED BY <1>1, <1>8, <2>1 DEF Routine
<1>9. CASE Download(q)
  <2>1. IsSeq(<<32>> \o BigEndian2(512))
    BY SeqsOfAnything, BigEndianSeqs
  <2>2. \/ \E nrc : Refuses(q, nrc) \/ reply' = Negative(q, nrc)
        \/ q[1] = RequestDownload /\ Answers(q, <<32>> \o BigEndian2(512))
    BY <1>9, Zenon DEF Download
  <2> QED BY <1>1, <1>2, <1>s, <2>1, <2>2, RefusesOther
<1>10. CASE TransferBlock(q)
  <2>1. IsSeq(<<q[2]>>)
    BY SeqsOfAnything
  <2>2. \/ \E nrc : Refuses(q, nrc) \/ reply' = Negative(q, nrc)
        \/ q[1] = TransferData /\ Answers(q, <<q[2]>>)
    BY <1>10, Zenon DEF TransferBlock
  <2> QED BY <1>1, <1>2, <1>s, <2>1, <2>2, RefusesOther
<1> QED BY <1>3, <1>4, <1>5, <1>6, <1>7, <1>8, <1>9, <1>10 DEF Handle

LEMMA ReadDtcsTells ==
  ASSUME StoreInv, NEW q \in Seq(Octet), ReadDtcs(q)
  PROVE  OtherReply \/ DtcList(SubSeq(reply', 2, Len(reply'))) = ecu.dtcs
<1> DEFINE first == ReadDtcInformation + PositiveOffset
<1>0. q[1] = ReadDtcInformation
  BY DEF ReadDtcs
<1>1. ASSUME NEW nrc, Refuses(q, nrc) PROVE OtherReply
  BY <1>1, RefusesOther DEF Refuses
<1>2. CASE Suppressed(q)
  <2>1. ASSUME NEW body, Answers(q, body) PROVE OtherReply
    BY <1>2, <2>1 DEF Answers, Positive, OtherReply
  <2> QED BY <1>1, <2>1 DEF ReadDtcs
<1>3. ASSUME NEW a \in Octet, NEW b \in Octet, NEW rest \in Seq(Octet), ~Suppressed(q),
             Answers(q, <<a, b>> \o rest)
      PROVE  /\ SubSeq(reply', 2, Len(reply')) = <<a, b>> \o rest
             /\ reply'[2] = a
  <2> DEFINE body == <<a, b>> \o rest
             n == Len(body)
  <2>1. /\ body \in Seq(Octet) /\ body[1] = a /\ n = 2 + Len(rest)
    <3>1. <<a, b>> \in Seq(Octet) /\ Len(<<a, b>>) = 2 /\ <<a, b>>[1] = a
      OBVIOUS
    <3>2. Len(rest) \in Nat
      BY LenProperties
    <3> QED BY <3>1, <3>2, ConcatProperties
  <2>2. n \in Nat /\ n >= 2
    BY <2>1, LenProperties
  <2>3. reply' = <<first>> \o body
    BY <1>0, <1>3 DEF Answers, Positive
  <2>4. first \in Octet
    BY DEF ReadDtcInformation, PositiveOffset, Octet
  <2> HIDE DEF first, body, n
  <2>5. /\ reply' \in Seq(Octet) /\ Len(reply') = 1 + n
        /\ \A i \in 1..(1 + n) : reply'[i] = IF i <= 1 THEN <<first>>[i] ELSE body[i - 1]
    <3>1. <<first>> \in Seq(Octet) /\ Len(<<first>>) = 1
      BY <2>4
    <3> QED BY <2>1, <2>3, <3>1, ConcatProperties DEF n
  <2>6. reply'[2] = a
    <3>1. 2 \in 1..(1 + n) /\ ~(2 <= 1) /\ 2 - 1 = 1
      BY <2>2
    <3> QED BY <2>1, <2>5, <3>1
  <2> DEFINE tail == SubSeq(reply', 2, 1 + n)
  <2>7. /\ tail \in Seq(Octet) /\ Len(tail) = n
        /\ \A i \in 1..n : tail[i] = reply'[2 + i - 1]
    <3>1. \A i \in 2..(1 + n) : reply'[i] \in Octet
      BY <2>2, <2>5, ElementOfSeq
    <3> DEFINE last == 1 + n
    <3>2. 2 \in Int /\ last \in Int /\ last - 2 + 1 = n /\ 2 <= last
      BY <2>2
    <3>3. \A i \in 2..last : reply'[i] \in Octet
      BY <3>1
    <3> HIDE DEF last
    <3>4. /\ SubSeq(reply', 2, last) \in Seq(Octet)
          /\ Len(SubSeq(reply', 2, last)) = IF 2 <= last THEN last - 2 + 1 ELSE 0
          /\ \A i \in 1..(last - 2 + 1) : SubSeq(reply', 2, last)[i] = reply'[2 + i - 1]
      BY <3>2, <3>3, SubSeqProperties
    <3> QED BY <3>2, <3>4 DEF last
  <2> HIDE DEF tail
  <2>8. ASSUME NEW i \in 1..n PROVE tail[i] = body[i]
    <3>1. 2 + i - 1 \in 1..(1 + n) /\ ~(2 + i - 1 <= 1) /\ (2 + i - 1) - 1 = i
      BY <2>2
    <3> QED BY <2>5, <2>7, <3>1
  <2>9. tail = body
    BY <2>1, <2>7, <2>8, SeqEqual DEF n
  <2> QED BY <2>5, <2>6, <2>9 DEF tail, body
<1> HIDE DEF first
<1>4. CASE ~Suppressed(q)
  <2>1. \A mask : Matching(mask) \in Seq(Dtc)
    BY OnlyThoseType DEF StoreInv, Matching
  <2>2. /\ DtcRecords(ecu.dtcs) \in Seq(Octet)
        /\ \A mask : DtcRecords(Matching(mask)) \in Seq(Octet)
    BY <2>1, PackedCodes DEF StoreInv
  <2>3. ListSupported \in Octet /\ 255 \in Octet /\ ListByMask \in Octet
    BY DEF ListSupported, ListByMask, Octet
  <2>4. ASSUME Answers(q, <<ListSupported, 255>> \o DtcRecords(ecu.dtcs))
        PROVE  DtcList(SubSeq(reply', 2, Len(reply'))) = ecu.dtcs
    <3>1. SubSeq(reply', 2, Len(reply')) = <<ListSupported, 255>> \o DtcRecords(ecu.dtcs)
      BY <1>3, <1>4, <2>2, <2>3, <2>4
    <3>2. DtcList(<<ListSupported, 255>> \o DtcRecords(ecu.dtcs)) = ecu.dtcs
      BY <2>3, CodesReadBack DEF StoreInv
    <3> QED BY <3>1, <3>2
  <2>5. ASSUME NEW mask, Answers(q, <<ListByMask, 255>> \o DtcRecords(Matching(mask)))
        PROVE  OtherReply
    <3>1. reply'[2] = ListByMask
      BY <1>3, <1>4, <2>2, <2>3, <2>5
    <3> QED BY <3>1 DEF OtherReply, ListByMask, ListSupported
  <2>6. ASSUME NEW v, Answers(q, <<CountByMask, 255, 1>> \o BigEndian2(v))
        PROVE  OtherReply
    <3> DEFINE head == <<CountByMask, 255, 1>>
               count == BigEndian2(v)
               lead == q[1] + PositiveOffset
    <3>1. PICK Set : head \in Seq(Set) /\ count \in Seq(Set) /\ <<lead>> \in Seq(Set)
      <4> DEFINE x == (v \div 256) % 256
                 y == v % 256
                 Set == {CountByMask, 255, 1, x, y, lead}
      <4>1. count = <<x, y>>
        BY DEF BigEndian2
      <4> HIDE DEF x, y, lead, count
      <4>2. head \in Seq(Set) /\ <<x, y>> \in Seq(Set) /\ <<lead>> \in Seq(Set)
        OBVIOUS
      <4> QED BY <4>1, <4>2
    <3>2. reply' = <<lead>> \o (head \o count)
      BY <1>4, <2>6 DEF Answers, Positive
    <3> HIDE DEF lead, count
    <3>3. reply'[2] = CountByMask
      <4>1. Len(head) = 3 /\ head[1] = CountByMask /\ Len(<<lead>>) = 1 /\ Len(count) \in Nat
        BY <3>1, LenProperties
      <4> HIDE DEF head
      <4>2. /\ head \o count \in Seq(Set) /\ (head \o count)[1] = CountByMask
            /\ Len(head \o count) \in Nat /\ Len(head \o count) >= 3
        <5>1. /\ head \o count \in Seq(Set) /\ Len(head \o count) = Len(head) + Len(count)
              /\ \A i \in 1..(Len(head) + Len(count)) :
                   (head \o count)[i] = IF i <= Len(head) THEN head[i]
                                        ELSE count[i - Len(head)]
          BY <3>1, ConcatProperties, Zenon
        <5>2. 1 \in 1..(Len(head) + Len(count)) /\ 1 <= Len(head) /\ 3 + Len(count) >= 3
          BY <4>1
        <5> QED BY <4>1, <5>1, <5>2
      <4> DEFINE body == head \o count
      <4> HIDE DEF body
      <4>3. body \in Seq(Set) /\ body[1] = CountByMask /\ Len(body) \in Nat /\ Len(body) >= 3
        BY <4>2 DEF body
      <4>4. (<<lead>> \o body)[2] = body[2 - 1]
        BY <3>1, <4>1, <4>3, ConcatProperties
      <4> QED BY <3>2, <4>3, <4>4 DEF body
    <3> QED BY <3>3 DEF OtherReply, CountByMask, ListSupported
  <2> QED BY <1>1, <2>4, <2>5, <2>6, ZenonT(40) DEF ReadDtcs
<1> QED BY <1>2, <1>4

(* What is sent twice is stored once, and what is stored is told as it is, *)
(* by every ECU to every tester: transfer_data() ignores a repeat, and     *)
(* parse_dtc_list() recovers from read_dtc_information() every stored      *)
(* code, in order.                                                         *)
THEOREM StoredOnceToldAsStored == Spec => StoredOnceAndToldAsStored
<1>1. Init => StoreInv
  <2> SUFFICES ASSUME Init PROVE StoreInv
    OBVIOUS
  <2>1. DOMAIN ecu = EcuMembers /\ ecu.dids = Identifiers /\ ecu.dtcs = StoredDtcs
    BY DEF Init, ServiceInit, EcuMembers
  <2>2. \A did \in DOMAIN Identifiers : Identifiers[did] \in Seq(Octet)
    BY ServiceInputs DEF ServiceInputs
  <2>3. StoredDtcs \in Seq(Dtc)
    BY ServiceInputs DEF ServiceInputs, Dtc
  <2> QED BY <2>1, <2>2, <2>3 DEF StoreInv
<1>2. ASSUME StoreInv, NEW d \in NewDtcs, Fault(d)
      PROVE  StoreInv' /\ ecu'.dtcs # ecu.dtcs
  <2>1. /\ DOMAIN ecu' = EcuMembers /\ ecu'.dids = ecu.dids
        /\ ecu'.dtcs = Append(ecu.dtcs, d)
    BY <1>2 DEF Fault, AddDtc, StoreInv, EcuMembers
  <2>2. d \in Dtc
    BY WatchInputs DEF WatchInputs, Dtc
  <2>3. /\ ecu.dtcs \in Seq(Dtc) /\ Append(ecu.dtcs, d) \in Seq(Dtc)
        /\ Len(ecu.dtcs) \in Nat /\ Len(Append(ecu.dtcs, d)) = Len(ecu.dtcs) + 1
    BY <1>2, <2>2, AppendProperties, LenProperties DEF StoreInv
  <2>4. Append(ecu.dtcs, d) # ecu.dtcs
    BY <2>3
  <2> QED BY <1>2, <2>1, <2>3, <2>4 DEF StoreInv
<1>3. ASSUME StoreInv, NEW q \in Requests, Request(q)
      PROVE  /\ StoreInv'
             /\ OtherReply \/ DtcList(SubSeq(reply', 2, Len(reply'))) = ecu.dtcs
  <2>1. q \in Seq(Octet) /\ q # <<>> /\ Handle(q)
    BY <1>3, RequestsAreMessages DEF RequestsAreMessages, Request
  <2> QED BY <1>3, <2>1, StoreStep, OthersTellOther, ReadDtcsTells
<1>4. StoreInv /\ [Next]_vars => StoreInv'
  <2>1. CASE UNCHANGED vars
    BY <2>1 DEF vars, StoreInv
  <2> QED BY <1>2, <1>3, <2>1 DEF Next
<1>5. StoreInv /\ [Next]_vars
        => [/\ ecu'.dtcs = ecu.dtcs /\ Len(reply') > 2
            /\ reply'[1] = ReadDtcInformation + PositiveOffset /\ reply'[2] = ListSupported
            => DtcList(SubSeq(reply', 2, Len(reply'))) = ecu.dtcs]_vars
  BY <1>2, <1>3 DEF Next, OtherReply
<1>6. Spec => DtcsReadBack
  BY <1>1, <1>4, <1>5, PTL DEF Spec, DtcsReadBack
<1> QED BY <1>6, RepeatedBlockWritesNothing DEF StoredOnceAndToldAsStored

-----------------------------------------------------------------------------
(***************************************************************************)
(* The client.                                                             *)
(***************************************************************************)

(* What the receiver has buffered is what the peer was heard to send.      *)
Members == {"state", "result", "payload", "expected", "sequence", "frames_in_block",
            "deadline", "fc_due", "pending"}

Front(s, n) == SubSeq(s, 1, Smaller(n, Len(s)))

HeardNothing == rcv.state = "Idle" /\ rcv.result = "InProgress"
                /\ seen.announced = 0 /\ seen.heard = <<>>
HearsNoMore == rcv.state = "Finished" /\ rcv.result \notin {"Ok", "InProgress"}
TurnsDown == rcv.state = "SendFlowControl" /\ rcv.pending = "Overflow"
             /\ rcv.result = "InProgress"
HearsOn ==
  /\ rcv.state \in {"SendFlowControl", "Receiving"} /\ rcv.result = "InProgress"
  /\ rcv.expected = seen.announced /\ seen.announced # 0
  /\ rcv.payload = Front(seen.heard, seen.announced)
HeardAll ==
  /\ rcv.state = "Finished" /\ rcv.result = "Ok" /\ seen.announced # 0
  /\ rcv.payload = HeardMessage /\ Len(rcv.payload) = seen.announced
  /\ rcv.payload \in Seq(Byte)

HearsInv ==
  /\ seen.announced \in Nat /\ seen.heard \in Seq(Byte)
  /\ HeardNothing \/ HearsNoMore \/ TurnsDown \/ HearsOn \/ HeardAll

(* The time that was waited and the time that is left make the patience.   *)
ClientMembers == {"state", "request", "expect", "response", "failure", "deadline",
                  "pending", "session", "idle"}
ClientState == {"Idle", "Sending", "AwaitingResponse", "Complete", "Failed"}

PatienceInv ==
  /\ cli.pending \in Nat /\ cli.deadline \in Nat /\ seen.waited \in Nat
  /\ Awaits => seen.waited + cli.deadline = Patience

ClientInv ==
  /\ DOMAIN cli = ClientMembers /\ DOMAIN rcv = Members
  /\ DOMAIN seen = {"waited", "announced", "heard"}
  /\ PatienceInv
  /\ cli.state = "Sending" => HeardNothing /\ cli.pending = 0
  /\ Awaits => HearsInv

-----------------------------------------------------------------------------
(* Fronts of what was heard.                                               *)
LEMMA FrontOf ==
  ASSUME NEW s \in Seq(Byte), NEW n \in Nat, n <= Len(s)
  PROVE  /\ SubSeq(s, 1, n) \in Seq(Byte) /\ Len(SubSeq(s, 1, n)) = n
         /\ \A i \in 1..n : SubSeq(s, 1, n)[i] = s[i]
<1>1. \A i \in 1..n : s[i] \in Byte
  BY LenProperties, ElementOfSeq
<1> QED BY <1>1, SubSeqProperties

(* One more frame lengthens the front by what it is taken for.             *)
Grown(front, d, n) == front \o SubSeq(d, 1, Smaller(n - Len(front), Len(d)))

LEMMA FrontGrows ==
  ASSUME NEW s \in Seq(Byte), NEW d \in Seq(Byte), NEW a \in Nat
  PROVE  /\ Grown(Front(s, a), d, a) = Front(s \o d, a)
         /\ Len(Front(s \o d, a)) \in Nat /\ Front(s \o d, a) \in Seq(Byte)
         /\ Len(Front(s \o d, a)) >= a
              => Len(Front(s \o d, a)) = a /\ Front(s \o d, a) = SubSeq(s \o d, 1, a)
<1> DEFINE front == Front(s, a)
           more == Grown(front, d, a)
<1>14. front = SubSeq(s, 1, Smaller(a, Len(s)))
  BY DEF Front
<1>15. more = front \o SubSeq(d, 1, Smaller(a - Len(front), Len(d)))
  BY DEF Grown
<1> HIDE DEF front, more
<1> DEFINE ls == Len(s)
           ld == Len(d)
           lf == Len(front)
           take == Smaller(a - lf, ld)
           piece == SubSeq(d, 1, take)
           both == s \o d
           upto == Smaller(a, Len(both))
           whole == SubSeq(both, 1, upto)
<1>13. more = front \o piece
  BY <1>15
<1>1. ls \in Nat /\ ld \in Nat
  BY LenProperties
<1>2. /\ front \in Seq(Byte) /\ lf = Smaller(a, ls) /\ lf \in Nat /\ lf <= a /\ lf <= ls
      /\ \A i \in 1..lf : front[i] = s[i]
  <2>1. Smaller(a, ls) \in Nat /\ Smaller(a, ls) <= ls /\ Smaller(a, ls) <= a
    BY <1>1 DEF Smaller
  <2> QED BY <1>1, <1>14, <2>1, FrontOf
<1>3. /\ both \in Seq(Byte) /\ Len(both) = ls + ld
      /\ \A i \in 1..(ls + ld) : both[i] = IF i <= ls THEN s[i] ELSE d[i - ls]
  BY ConcatProperties
<1> HIDE DEF ls, ld, lf, both
<1>4. take \in Nat /\ take <= ld /\ ((lf = a /\ take = 0) \/ lf = ls)
  BY <1>1, <1>2 DEF Smaller
<1>5. upto \in Nat /\ upto <= ls + ld /\ upto = lf + take /\ upto <= a
  BY <1>1, <1>2, <1>3 DEF Smaller
<1> HIDE DEF take, upto
<1>6. piece \in Seq(Byte) /\ Len(piece) = take /\ \A i \in 1..take : piece[i] = d[i]
  BY <1>4, FrontOf DEF ld
<1>7. /\ whole \in Seq(Byte) /\ Len(whole) = upto
      /\ \A i \in 1..upto : whole[i] = both[i]
  BY <1>3, <1>5, FrontOf
<1> HIDE DEF piece, whole
<1>8. /\ more \in Seq(Byte) /\ Len(more) = Len(front) + Len(piece)
      /\ \A i \in 1..(Len(front) + Len(piece)) :
           more[i] = IF i <= Len(front) THEN front[i] ELSE piece[i - Len(front)]
  <2>1. front \in Seq(Byte) /\ piece \in Seq(Byte)
    BY <1>2, <1>6
  <2>2. /\ front \o piece \in Seq(Byte)
        /\ Len(front \o piece) = Len(front) + Len(piece)
        /\ \A i \in 1..(Len(front) + Len(piece)) :
             (front \o piece)[i] = IF i <= Len(front) THEN front[i] ELSE piece[i - Len(front)]
    BY <2>1, ConcatProperties
  <2> QED BY <2>2, <1>13, Zenon
<1>9. ASSUME NEW i \in 1..upto PROVE more[i] = whole[i]
  <2>1. more[i] = IF i <= lf THEN front[i] ELSE piece[i - lf]
    BY <1>5, <1>6, <1>8 DEF lf
  <2>2. whole[i] = IF i <= ls THEN s[i] ELSE d[i - ls]
    BY <1>1, <1>3, <1>5, <1>7
  <2>3. CASE i <= lf
    <3>1. i <= ls /\ i \in 1..lf
      BY <2>3, <1>1, <1>2, <1>5
    <3> QED BY <2>1, <2>2, <2>3, <3>1, <1>2
  <2>4. CASE ~(i <= lf)
    <3>1. take # 0 /\ lf = ls /\ i - lf \in 1..take
      BY <2>4, <1>2, <1>4, <1>5
    <3>2. more[i] = piece[i - lf]
      BY <2>1, <2>4
    <3>3. whole[i] = d[i - lf]
      BY <2>2, <2>4, <3>1
    <3> QED BY <3>1, <3>2, <3>3, <1>6
  <2> QED BY <2>3, <2>4
<1>10. Len(more) = upto
  BY <1>5, <1>6, <1>8 DEF lf
<1>11. more = whole
  BY <1>7, <1>8, <1>9, <1>10, SeqEqual
<1>12. ASSUME Len(more) >= a PROVE Len(more) = a /\ more = SubSeq(both, 1, a)
  <2>1. upto >= a
    BY <1>10, <1>12
  <2>3. upto = a
    BY <1>5, <2>1
  <2> QED BY <2>3, <1>10, <1>11 DEF whole
<1>16. whole = Front(s \o d, a)
  BY DEF whole, upto, both, Front
<1>17. Grown(Front(s, a), d, a) = more
  BY DEF more, front
<1>18. Len(more) \in Nat
  BY <1>5, <1>10
<1> QED BY <1>7, <1>11, <1>12, <1>16, <1>17, <1>18 DEF both

LEMMA PeerFrameType ==
  ASSUME NEW f \in PeerFrames, f.pci \notin {"FC", "Foreign"}
  PROVE  f.num \in Nat /\ f.data \in Seq(Byte)
<1>1. f \in DataPdu
  BY PortInputs DEF Pdu, FlowPdu, ForeignPdu
<1> QED BY <1>1 DEF DataPdu

(* What on_frame() does with a frame it is listening for.                  *)
SeenFrame(f) ==
  IF R!ReceiverHears(f) /\ f.pci # "FC"
  THEN [seen EXCEPT !.announced = IF @ = 0 THEN f.num ELSE @, !.heard = @ \o f.data]
  ELSE seen

LEMMA FrameIsHeard ==
  ASSUME DOMAIN rcv = Members, DOMAIN seen = {"waited", "announced", "heard"}, HearsInv,
         NEW f \in PeerFrames, R!ReceiverOnFrame(f), seen' = SeenFrame(f)
  PROVE  DOMAIN rcv' = Members /\ HearsInv'
<1>1. seen.announced \in Nat /\ seen.heard \in Seq(Byte)
  BY DEF HearsInv
<1>2. seen'.announced \in Nat /\ seen'.heard \in Seq(Byte)
  <2>1. CASE R!ReceiverHears(f) /\ f.pci # "FC"
    <3>1. f.num \in Nat /\ f.data \in Seq(Byte)
      BY <2>1, PeerFrameType DEF R!ReceiverHears
    <3>2. seen.heard \o f.data \in Seq(Byte)
      BY <1>1, <3>1, ConcatProperties
    <3>3. /\ seen'.heard = seen.heard \o f.data
          /\ seen'.announced = IF seen.announced = 0 THEN f.num ELSE seen.announced
      BY <2>1 DEF SeenFrame
    <3> QED BY <1>1, <3>1, <3>2, <3>3
  <2>2. CASE ~(R!ReceiverHears(f) /\ f.pci # "FC")
    BY <1>1, <2>2 DEF SeenFrame
  <2> QED BY <2>1, <2>2
<1>3. ASSUME NEW res, res \notin {"Ok", "InProgress"}, R!ReceiverFails(res)
      PROVE  DOMAIN rcv' = Members /\ HearsInv'
  <2>1. DOMAIN rcv' = Members /\ rcv'.state = "Finished" /\ rcv'.result = res
    BY <1>3 DEF R!ReceiverFails, Members
  <2> QED BY <1>2, <1>3, <2>1 DEF HearsInv, HearsNoMore
<1>4. CASE R!IgnorePdu(f)
  <2>1. rcv' = rcv /\ seen' = seen
    BY <1>4 DEF R!IgnorePdu, R!receiverVars, SeenFrame
  <2> QED BY <2>1 DEF HearsInv, HeardNothing, HearsNoMore, TurnsDown, HearsOn, HeardAll,
                      HeardMessage
<1>5. CASE R!UnexpectedPdu(f)
  BY <1>3, <1>5 DEF R!UnexpectedPdu
<1>6. CASE R!InvalidPdu(f)
  BY <1>3, <1>6 DEF R!InvalidPdu
<1>7. CASE R!WrongSequence(f)
  BY <1>3, <1>7 DEF R!WrongSequence
<1>8. ASSUME R!Starts(f)
      PROVE  /\ f.num \in Nat /\ f.data \in Seq(Byte) /\ rcv.result = "InProgress"
             /\ seen'.heard = f.data /\ seen'.announced = f.num
  <2>1. /\ R!ReceiverHears(f) /\ f.pci # "FC" /\ rcv.state = "Idle"
    BY <1>8 DEF R!Starts
  <2>2. HeardNothing
    BY <2>1 DEF HearsInv, HearsNoMore, TurnsDown, HearsOn, HeardAll
  <2>3. f.num \in Nat /\ f.data \in Seq(Byte)
    BY <2>1, PeerFrameType DEF R!ReceiverHears
  <2>4. seen'.heard = <<>> \o f.data /\ seen'.announced = f.num
    BY <2>1, <2>2 DEF SeenFrame, HeardNothing
  <2>5. <<>> \o f.data = f.data
    BY <2>3, ConcatEmptySeq
  <2> QED BY <2>2, <2>3, <2>4, <2>5 DEF HeardNothing
<1>9. CASE R!AcceptSingle(f)
  <2>1. R!Starts(f) /\ f.num # 0 /\ ~(f.num > Len(f.data))
    BY <1>9 DEF R!AcceptSingle, R!AcceptsSingle, R!BadSingle
  <2>2. f.num \in Nat /\ f.data \in Seq(Byte) /\ seen'.heard = f.data /\ seen'.announced = f.num
    BY <1>8, <2>1
  <2>3. rcv' = [rcv EXCEPT !.payload = SubSeq(f.data, 1, f.num), !.expected = f.num,
                           !.result = "Ok", !.state = "Finished"]
    BY <1>9 DEF R!AcceptSingle
  <2>4. /\ DOMAIN rcv' = Members /\ rcv'.state = "Finished" /\ rcv'.result = "Ok"
        /\ rcv'.payload = SubSeq(f.data, 1, f.num)
    BY <2>3 DEF Members
  <2>5. Len(SubSeq(f.data, 1, f.num)) = f.num /\ SubSeq(f.data, 1, f.num) \in Seq(Byte)
    <3>1. f.num <= Len(f.data)
      BY <2>1, <2>2, LenProperties
    <3> QED BY <2>2, <3>1, FrontOf
  <2>6. HeardAll'
    BY <2>1, <2>2, <2>4, <2>5 DEF HeardAll, HeardMessage
  <2> QED BY <1>2, <2>4, <2>6 DEF HearsInv
<1>10. CASE R!RefuseFirst(f)
  <2>1. rcv.result = "InProgress"
    BY <1>8, <1>10 DEF R!RefuseFirst
  <2>2. DOMAIN rcv' = Members /\ TurnsDown'
    BY <1>10, <2>1 DEF R!RefuseFirst, Members, TurnsDown
  <2> QED BY <1>2, <2>2 DEF HearsInv
<1>11. CASE R!AcceptFirst(f)
  <2>1. R!Starts(f) /\ ~(f.num <= R!SingleMax)
    BY <1>11 DEF R!AcceptFirst, R!BadFirst
  <2>2. /\ f.num \in Nat /\ f.data \in Seq(Byte) /\ rcv.result = "InProgress"
        /\ seen'.heard = f.data /\ seen'.announced = f.num
    BY <1>8, <2>1
  <2>3. f.num # 0
    BY <2>1, ProtocolAssumption DEF ProtocolAssumption, R!SingleMax
  <2>4. R!Smaller(Len(f.data), f.num) = Smaller(f.num, Len(f.data))
    BY <2>2, LenProperties DEF R!Smaller, Smaller
  <2>5. rcv' = [rcv EXCEPT !.expected = f.num,
                           !.payload = SubSeq(f.data, 1, Smaller(f.num, Len(f.data))),
                           !.sequence = 1, !.pending = "ContinueToSend",
                           !.state = "SendFlowControl", !.fc_due = N_Br]
    BY <1>11, <2>4 DEF R!AcceptFirst
  <2>6. /\ DOMAIN rcv' = Members /\ rcv'.state = "SendFlowControl"
        /\ rcv'.result = "InProgress" /\ rcv'.expected = f.num
        /\ rcv'.payload = SubSeq(f.data, 1, Smaller(f.num, Len(f.data)))
    BY <2>2, <2>5 DEF Members
  <2>7. HearsOn'
    BY <2>2, <2>3, <2>6 DEF HearsOn, Front
  <2> QED BY <1>2, <2>6, <2>7 DEF HearsInv
<1>12. CASE R!AcceptConsecutive(f)
  <2>1. R!ReceiverHears(f) /\ f.pci = "CF" /\ rcv.state = "Receiving"
    BY <1>12 DEF R!AcceptConsecutive, R!AcceptsConsecutive
  <2>2. HearsOn
    BY <2>1 DEF HearsInv, HeardNothing, HearsNoMore, TurnsDown, HeardAll
  <2>3. f.data \in Seq(Byte)
    BY <2>1, PeerFrameType
  <2>4. seen'.heard = seen.heard \o f.data /\ seen'.announced = seen.announced
    BY <2>1, <2>2 DEF SeenFrame, HearsOn
  <2> DEFINE front == rcv.payload
             a == seen.announced
             more == Grown(front, f.data, a)
             taken == R!Taken(f)
  <2>5. /\ DOMAIN taken = Members /\ taken.payload = more /\ taken.expected = a
        /\ taken.state = "Receiving" /\ taken.result = "InProgress"
    BY <2>1, <2>2 DEF R!Taken, R!BytesTaken, R!Smaller, Smaller, HearsOn, Members, Grown
  <2>6. /\ more = Front(seen'.heard, a)
        /\ Len(more) \in Nat /\ more \in Seq(Byte)
        /\ Len(more) >= a => Len(more) = a /\ more = SubSeq(seen'.heard, 1, a)
    <3>1. front = Front(seen.heard, a) /\ a \in Nat
      BY <1>1, <2>2 DEF HearsOn
    <3> DEFINE s == seen.heard
               d == f.data
    <3>2. more = Grown(Front(s, a), d, a) /\ seen'.heard = s \o d
      BY <2>4, <3>1
    <3>3. s \in Seq(Byte) /\ d \in Seq(Byte) /\ a \in Nat
      BY <1>1, <2>3, <3>1
    <3> HIDE DEF a, s, d
    <3>4. /\ Grown(Front(s, a), d, a) = Front(s \o d, a)
          /\ Len(Front(s \o d, a)) \in Nat /\ Front(s \o d, a) \in Seq(Byte)
          /\ Len(Front(s \o d, a)) >= a
               => Len(Front(s \o d, a)) = a /\ Front(s \o d, a) = SubSeq(s \o d, 1, a)
      BY <3>3, FrontGrows
    <3> HIDE DEF more
    <3> QED BY <3>2, <3>4
  <2>7. a # 0
    BY <2>2 DEF HearsOn
  <2> HIDE DEF more, taken, a
  <2>8. CASE R!AllReceived(taken)
    <3>1. rcv' = [taken EXCEPT !.result = "Ok", !.state = "Finished"]
      BY <1>12, <2>8 DEF R!AcceptConsecutive, taken
    <3>2. /\ DOMAIN rcv' = Members /\ rcv'.payload = more
          /\ rcv'.state = "Finished" /\ rcv'.result = "Ok"
      BY <2>5, <3>1 DEF Members
    <3>3. Len(more) >= a
      BY <2>5, <2>8 DEF R!AllReceived
    <3>4. HeardAll'
      BY <2>4, <2>6, <2>7, <3>2, <3>3 DEF HeardAll, HeardMessage, a
    <3> QED BY <1>2, <3>2, <3>4 DEF HearsInv
  <2>9. CASE ~R!AllReceived(taken)
    <3>1. \/ rcv' = [taken EXCEPT !.deadline = N_Cr, !.pending = "ContinueToSend",
                                  !.state = "SendFlowControl", !.fc_due = N_Br]
          \/ rcv' = [taken EXCEPT !.deadline = N_Cr]
      BY <1>12, <2>9 DEF R!AcceptConsecutive, taken
    <3>2. /\ DOMAIN rcv' = Members /\ rcv'.payload = more /\ rcv'.expected = a
          /\ rcv'.state \in {"SendFlowControl", "Receiving"} /\ rcv'.result = "InProgress"
      BY <2>5, <3>1 DEF Members
    <3>3. HearsOn'
      BY <2>4, <2>6, <2>7, <3>2 DEF HearsOn, a
    <3> QED BY <1>2, <3>2, <3>3 DEF HearsInv
  <2> QED BY <2>8, <2>9
<1> QED BY <1>4, <1>5, <1>6, <1>7, <1>9, <1>10, <1>11, <1>12 DEF R!ReceiverOnFrame

(* poll() of the receiver and time add nothing to it.                      *)
LEMMA ReceiverPolls ==
  ASSUME DOMAIN rcv = Members, HearsInv, R!ReceiverPoll, seen' = seen
  PROVE  DOMAIN rcv' = Members /\ HearsInv'
<1>1. seen'.announced \in Nat /\ seen'.heard \in Seq(Byte)
  BY DEF HearsInv
<1>2. ASSUME NEW res, res \notin {"Ok", "InProgress"}, R!ReceiverFails(res)
      PROVE  DOMAIN rcv' = Members /\ HearsInv'
  <2>1. DOMAIN rcv' = Members /\ rcv'.state = "Finished" /\ rcv'.result = res
    BY <1>2 DEF R!ReceiverFails, Members
  <2> QED BY <1>1, <1>2, <2>1 DEF HearsInv, HearsNoMore
<1>3. CASE R!ConsecutiveTimeout
  BY <1>2, <1>3 DEF R!ConsecutiveTimeout
<1>4. CASE R!SendFlowControl /\ rcv.pending = "Overflow"
  BY <1>2, <1>4 DEF R!SendFlowControl
<1>5. CASE R!SendFlowControl /\ rcv.pending # "Overflow"
  <2>1. rcv.state = "SendFlowControl" /\ HearsOn
    BY <1>5 DEF R!SendFlowControl, HearsInv, HeardNothing, HearsNoMore, TurnsDown, HeardAll
  <2>2. /\ DOMAIN rcv' = Members /\ rcv'.state = "Receiving" /\ rcv'.result = rcv.result
        /\ rcv'.payload = rcv.payload /\ rcv'.expected = rcv.expected
    BY <1>5 DEF R!SendFlowControl, Members
  <2>3. HearsOn'
    BY <2>1, <2>2 DEF HearsOn
  <2> QED BY <1>1, <2>2, <2>3 DEF HearsInv
<1> QED BY <1>3, <1>4, <1>5 DEF R!ReceiverPoll

LEMMA ReceiverKeepsMembers ==
  ASSUME DOMAIN rcv = Members, R!ReceiverPoll \/ rcv' = rcv
  PROVE  DOMAIN rcv' = Members
BY DEF R!ReceiverPoll, R!SendFlowControl, R!ConsecutiveTimeout, R!ReceiverFails, Members

LEMMA ReceiverWaits ==
  ASSUME DOMAIN rcv = Members, rcv' = R!ReceiverAged(rcv),
         seen'.announced = seen.announced, seen'.heard = seen.heard
  PROVE  /\ DOMAIN rcv' = Members
         /\ HearsInv => HearsInv'
         /\ HeardNothing => HeardNothing'
<1>1. /\ DOMAIN rcv' = Members
      /\ rcv'.state = rcv.state /\ rcv'.result = rcv.result /\ rcv'.payload = rcv.payload
      /\ rcv'.expected = rcv.expected /\ rcv'.pending = rcv.pending
  BY DEF R!ReceiverAged, Members
<1> QED BY <1>1 DEF HearsInv, HeardNothing, HearsNoMore, TurnsDown, HearsOn, HeardAll,
                    HeardMessage

LEMMA ReceiverIsReset ==
  ASSUME R!Reset
  PROVE  /\ DOMAIN rcv' = Members
         /\ rcv'.state = "Idle" /\ rcv'.result = "InProgress"
BY DEF R!Reset, R!FreshReceiver, Members

-----------------------------------------------------------------------------
(* handle_message(): the exchange ends, or goes on with P2*.               *)
LEMMA MessageUnderstood ==
  ASSUME NEW c, DOMAIN c = ClientMembers, c.pending \in Nat, c.deadline \in Nat,
         c.state = "AwaitingResponse", NEW m, NEW u, u = Understood(c, m)
  PROVE  /\ DOMAIN u = ClientMembers /\ u.pending \in Nat /\ u.deadline \in Nat
         /\ \/ u.state = "Complete"
            \/ u.state = "Failed"
               /\ (u.failure = "Timeout" => u.pending > MaxResponsePending)
            \/ /\ u.state = "AwaitingResponse"
               /\ u.pending = c.pending + 1 /\ u.deadline = P2Star
<1> USE DEF ClientMembers
<1>1. P2Star \in Nat /\ MaxResponsePending \in Nat
  BY ClientInputs DEF ClientInputs
<1>2. CASE u = Failing(c, "Semantic")
  BY <1>2 DEF Failing
<1>3. CASE u = OneMorePending(c)
  <2> DEFINE waited == [c EXCEPT !.pending = @ + 1]
  <2>1. /\ DOMAIN waited = ClientMembers /\ waited.pending = c.pending + 1
        /\ waited.pending \in Nat
        /\ waited.deadline = c.deadline /\ waited.state = "AwaitingResponse"
    OBVIOUS
  <2>2. \/ u = Failing(waited, "Timeout") /\ waited.pending > MaxResponsePending
        \/ u = [waited EXCEPT !.deadline = P2Star]
    BY <1>3 DEF OneMorePending
  <2> HIDE DEF waited
  <2> QED BY <1>1, <2>1, <2>2 DEF Failing
<1>4. ASSUME NEW d, DOMAIN d = ClientMembers, d.pending = c.pending, d.deadline = c.deadline,
             NEW r, u = Finishing(d, r)
      PROVE  /\ DOMAIN u = ClientMembers /\ u.pending \in Nat /\ u.deadline \in Nat
             /\ u.state = "Complete"
  BY <1>4 DEF Finishing
<1>5. CASE \E r : u = Finishing(c, r)
  BY <1>4, <1>5
<1>6. CASE \E s, r : u = Finishing([c EXCEPT !.session = s], r)
  <2>1. PICK s, r : u = Finishing([c EXCEPT !.session = s], r)
    BY <1>6
  <2> DEFINE d == [c EXCEPT !.session = s]
  <2>2. DOMAIN d = ClientMembers /\ d.pending = c.pending /\ d.deadline = c.deadline
    OBVIOUS
  <2>3. u = Finishing(d, r)
    BY <2>1
  <2> HIDE DEF d
  <2> QED BY <1>4, <2>2, <2>3
<1>7. \/ u = Failing(c, "Semantic") \/ u = OneMorePending(c)
      \/ \E r : u = Finishing(c, r)
      \/ \E s, r : u = Finishing([c EXCEPT !.session = s], r)
  BY DEF Understood
<1> QED BY <1>2, <1>3, <1>5, <1>6, <1>7

(* A new beginning: nothing was heard, and all of P2 or P2* is left.       *)
LEMMA FreshlyAwaited ==
  ASSUME rcv'.state = "Idle", rcv'.result = "InProgress", seen' = NothingSeen
  PROVE  HeardNothing' /\ HearsInv' /\ seen'.waited = 0
         /\ DOMAIN seen' = {"waited", "announced", "heard"}
<1>1. seen'.waited = 0 /\ seen'.announced = 0 /\ seen'.heard = <<>>
      /\ DOMAIN seen' = {"waited", "announced", "heard"}
  BY DEF NothingSeen
<1>2. <<>> \in Seq(Byte)
  BY EmptySeq
<1> QED BY <1>1, <1>2 DEF HearsInv, HeardNothing

LEMMA ClientStarts == PeerInit => ClientInv
<1> SUFFICES ASSUME PeerInit PROVE ClientInv
  OBVIOUS
<1>1. /\ DOMAIN cli = ClientMembers /\ cli.state = "Idle"
      /\ cli.pending = 0 /\ cli.deadline = 0
  BY DEF PeerInit, ClientInit, ClientMembers
<1>2. DOMAIN rcv = Members
  BY DEF PeerInit, ClientInit, R!FreshReceiver, Members
<1>3. DOMAIN seen = {"waited", "announced", "heard"} /\ seen.waited = 0
  BY DEF PeerInit, NothingSeen
<1> QED BY <1>1, <1>2, <1>3 DEF ClientInv, PatienceInv, Awaits

-----------------------------------------------------------------------------
(* What every step keeps of the client, apart from where it awaits.        *)
LEMMA AskedIsKept ==
  ASSUME ClientInv, NEW q, TesterAsks(q)
  PROVE  ClientInv'
<1>1. P2 \in Nat
  BY ClientInputs DEF ClientInputs
<1>2. /\ DOMAIN cli' = ClientMembers /\ cli'.state = "Sending"
      /\ cli'.pending = 0 /\ cli'.deadline = P2
  BY DEF TesterAsks, Ask, ClientInv, ClientMembers
<1>3. DOMAIN rcv' = Members /\ rcv'.state = "Idle" /\ rcv'.result = "InProgress"
  BY ReceiverIsReset DEF TesterAsks, Ask
<1>4. /\ HeardNothing' /\ seen'.waited = 0
      /\ DOMAIN seen' = {"waited", "announced", "heard"}
  BY <1>3, FreshlyAwaited DEF TesterAsks
<1> QED BY <1>1, <1>2, <1>3, <1>4 DEF ClientInv, PatienceInv, Awaits

(* Where the client ends neither sending nor awaiting, its domains do.     *)
LEMMA RestIsKept ==
  ASSUME DOMAIN cli' = ClientMembers, DOMAIN rcv' = Members,
         DOMAIN seen' = {"waited", "announced", "heard"},
         cli'.pending \in Nat, cli'.deadline \in Nat, seen'.waited \in Nat,
         cli'.state \in {"Idle", "Complete", "Failed"}
  PROVE  ClientInv'
BY DEF ClientInv, PatienceInv, Awaits

LEMMA SentIsKept ==
  ASSUME ClientInv, PollSending, seen' = NothingSeen
  PROVE  ClientInv'
<1>1. /\ cli.state = "Sending" /\ rcv' = rcv
      /\ HeardNothing /\ DOMAIN rcv = Members
      /\ DOMAIN cli = ClientMembers /\ cli.pending = 0 /\ cli.deadline \in Nat
  BY DEF PollSending, ClientInv, PatienceInv
<1>2. P2 \in Nat
  BY ClientInputs DEF ClientInputs
<1>3. /\ HeardNothing' /\ HearsInv' /\ seen'.waited = 0
      /\ DOMAIN seen' = {"waited", "announced", "heard"} /\ DOMAIN rcv' = Members
  BY <1>1, FreshlyAwaited DEF HeardNothing
<1>4. CASE cli' = cli
  BY <1>1, <1>3, <1>4 DEF ClientInv, PatienceInv, Awaits
<1>5. CASE cli' = Failing(cli, "Transport")
  <2>1. /\ DOMAIN cli' = ClientMembers /\ cli'.state = "Failed"
        /\ cli'.pending = cli.pending /\ cli'.deadline = cli.deadline
    BY <1>1, <1>5 DEF Failing, ClientMembers
  <2> QED BY <1>1, <1>3, <2>1, RestIsKept
<1>6. CASE \E r : cli' = Finishing(cli, r)
  <2>1. /\ DOMAIN cli' = ClientMembers /\ cli'.state = "Complete"
        /\ cli'.pending = cli.pending /\ cli'.deadline = cli.deadline
    BY <1>1, <1>6 DEF Finishing, ClientMembers
  <2> QED BY <1>1, <1>3, <2>1, RestIsKept
<1>7. CASE cli' = [cli EXCEPT !.state = "AwaitingResponse", !.deadline = P2]
  <2>1. /\ DOMAIN cli' = ClientMembers /\ cli'.state = "AwaitingResponse"
        /\ cli'.pending = 0 /\ cli'.deadline = P2
    BY <1>1, <1>7 DEF ClientMembers
  <2> QED BY <1>2, <1>3, <2>1 DEF ClientInv, PatienceInv, Awaits, Patience
<1> QED BY <1>4, <1>5, <1>6, <1>7 DEF PollSending

LEMMA TakingChanges ==
  ASSUME ClientInv, TakeAnswer
  PROVE  /\ cli' # cli
         /\ DOMAIN cli' = ClientMembers /\ cli'.pending \in Nat /\ cli'.deadline \in Nat
         /\ \/ cli'.state = "Complete"
            \/ cli'.state = "Failed"
               /\ (cli'.failure = "Timeout" => cli'.pending > MaxResponsePending)
            \/ /\ cli'.state = "AwaitingResponse"
               /\ cli'.pending = cli.pending + 1 /\ cli'.deadline = P2Star
<1> DEFINE c == [cli EXCEPT !.idle = 0]
           m == rcv.payload
           u == cli'
<1>1. /\ cli.state = "AwaitingResponse" /\ cli.pending \in Nat /\ cli.deadline \in Nat
      /\ DOMAIN cli = ClientMembers
  BY DEF TakeAnswer, ClientInv, PatienceInv
<1>2. /\ DOMAIN c = ClientMembers /\ c.pending = cli.pending /\ c.deadline = cli.deadline
      /\ c.state = "AwaitingResponse"
  BY <1>1 DEF ClientMembers
<1>3. u = Understood(c, m)
  BY DEF TakeAnswer
<1> HIDE DEF c, m, u
<1>4. /\ DOMAIN u = ClientMembers /\ u.pending \in Nat /\ u.deadline \in Nat
      /\ \/ u.state = "Complete"
         \/ u.state = "Failed"
            /\ (u.failure = "Timeout" => u.pending > MaxResponsePending)
         \/ /\ u.state = "AwaitingResponse"
            /\ u.pending = c.pending + 1 /\ u.deadline = P2Star
  BY <1>1, <1>2, <1>3, MessageUnderstood
<1>5. u # cli
  BY <1>1, <1>2, <1>4
<1> QED BY <1>2, <1>4, <1>5 DEF u

LEMMA TakenIsKept ==
  ASSUME ClientInv, TakeAnswer, seen' = NothingSeen
  PROVE  ClientInv'
<1>1. P2Star \in Nat /\ cli.pending \in Nat
  BY ClientInputs DEF ClientInputs, ClientInv, PatienceInv
<1>2. DOMAIN rcv' = Members /\ rcv'.state = "Idle" /\ rcv'.result = "InProgress"
  BY ReceiverIsReset DEF TakeAnswer
<1>3. /\ HearsInv' /\ seen'.waited = 0
      /\ DOMAIN seen' = {"waited", "announced", "heard"}
  BY <1>2, FreshlyAwaited
<1> QED BY <1>1, <1>2, <1>3, TakingChanges
        DEF ClientInv, PatienceInv, Awaits, Patience

LEMMA AwaitedIsKept ==
  ASSUME ClientInv, PollAwaiting,
         seen' = IF Awaits /\ cli' = cli THEN seen ELSE NothingSeen
  PROVE  ClientInv'
<1>1. /\ Awaits /\ HearsInv /\ DOMAIN rcv = Members /\ DOMAIN cli = ClientMembers
      /\ cli.pending \in Nat /\ cli.deadline \in Nat
      /\ DOMAIN seen = {"waited", "announced", "heard"}
  BY DEF PollAwaiting, ClientInv, PatienceInv, Awaits
<1>2. CASE cli' = cli
  <2>1. seen' = seen
    BY <1>1, <1>2
  <2>2. DOMAIN rcv' = Members /\ HearsInv'
    <3>1. CASE R!ReceiverPoll
      BY <1>1, <2>1, <3>1, ReceiverPolls
    <3>2. CASE rcv' = rcv
      BY <1>1, <2>1, <3>2 DEF HearsInv, HeardNothing, HearsNoMore, TurnsDown, HearsOn,
                              HeardAll, HeardMessage
    <3> QED BY <3>1, <3>2 DEF PollAwaiting
  <2> QED BY <1>1, <1>2, <2>1, <2>2 DEF ClientInv, PatienceInv, Awaits, Patience
<1>3. CASE cli' # cli
  <2>1. DOMAIN seen' = {"waited", "announced", "heard"} /\ seen'.waited = 0
    BY <1>3 DEF NothingSeen
  <2>2. DOMAIN rcv' = Members
    BY <1>1, ReceiverKeepsMembers DEF PollAwaiting
  <2>3. \E e : cli' = Failing(cli, e)
    BY <1>3 DEF PollAwaiting
  <2>4. /\ DOMAIN cli' = ClientMembers /\ cli'.state = "Failed"
        /\ cli'.pending = cli.pending /\ cli'.deadline = cli.deadline
    BY <1>1, <2>3 DEF Failing, ClientMembers
  <2> QED BY <1>1, <2>1, <2>2, <2>4, RestIsKept
<1> QED BY <1>2, <1>3

LEMMA PollIsKept ==
  ASSUME ClientInv, Poll
  PROVE  ClientInv'
<1>1. seen' = IF Awaits /\ cli' = cli THEN seen ELSE NothingSeen
  BY DEF Poll
<1>2. CASE PollSending
  BY <1>1, <1>2, SentIsKept DEF PollSending, Awaits
<1>3. CASE TakeAnswer
  BY <1>1, <1>3, TakingChanges, TakenIsKept
<1>4. CASE PollAwaiting
  BY <1>1, <1>4, AwaitedIsKept
<1>5. CASE PollKeepalive \/ PollNothing
  <2>1. /\ ~Busy /\ rcv' = rcv /\ cli' \in {cli, [cli EXCEPT !.idle = 0]}
    BY <1>5 DEF PollKeepalive, PollNothing, KeepaliveDue, Busy, clientVars
  <2>2. /\ DOMAIN cli = ClientMembers /\ cli.pending \in Nat /\ cli.deadline \in Nat
        /\ DOMAIN rcv = Members
    BY DEF ClientInv, PatienceInv
  <2>3. /\ DOMAIN cli' = ClientMembers /\ cli'.pending = cli.pending
        /\ cli'.deadline = cli.deadline /\ cli'.state = cli.state
    BY <2>1, <2>2 DEF ClientMembers
  <2>4. DOMAIN seen' = {"waited", "announced", "heard"} /\ seen'.waited = 0
    BY <1>1, <2>1 DEF NothingSeen, Awaits, Busy
  <2> QED BY <2>1, <2>2, <2>3, <2>4 DEF ClientInv, PatienceInv, Awaits, Busy
<1> QED BY <1>2, <1>3, <1>4, <1>5 DEF Poll, ClientPoll

LEMMA FrameIsKept ==
  ASSUME ClientInv, NEW f \in PeerFrames, PeerSends(f)
  PROVE  ClientInv'
<1>1. cli' = cli
  BY DEF PeerSends, ClientOnFrame, clientVars
<1>2. CASE Awaits
  <2>1. R!ReceiverOnFrame(f) /\ seen' = SeenFrame(f)
    BY <1>2 DEF PeerSends, ClientOnFrame, SeenFrame, Awaits, Busy
  <2>2. DOMAIN rcv' = Members /\ HearsInv'
    BY <1>2, <2>1, FrameIsHeard DEF ClientInv
  <2>3. /\ seen'.waited = seen.waited
        /\ DOMAIN seen' = {"waited", "announced", "heard"}
    BY <2>1 DEF SeenFrame, ClientInv
  <2> QED BY <1>1, <1>2, <2>2, <2>3 DEF ClientInv, PatienceInv, Awaits, Patience
<1>3. CASE ~Awaits
  <2>1. rcv' = rcv /\ seen' = seen
    BY <1>3 DEF PeerSends, ClientOnFrame, Awaits, clientVars
  <2> QED BY <1>1, <1>3, <2>1 DEF ClientInv, PatienceInv, Awaits, HeardNothing
<1> QED BY <1>2, <1>3

LEMMA TimeIsKept ==
  ASSUME ClientInv, Elapse
  PROVE  /\ ClientInv'
         /\ Awaits => seen'.waited <= Patience
<1>1. /\ DOMAIN cli = ClientMembers /\ DOMAIN rcv = Members
      /\ DOMAIN seen = {"waited", "announced", "heard"}
      /\ cli.pending \in Nat /\ cli.deadline \in Nat /\ seen.waited \in Nat
  BY DEF ClientInv, PatienceInv
<1>2. /\ DOMAIN cli' = ClientMembers /\ cli'.state = cli.state /\ cli'.pending = cli.pending
      /\ cli'.deadline = OneTickLess(cli.deadline)
  BY <1>1 DEF Elapse, ClientElapse, ClientAged, ClientMembers
<1>3. rcv' = R!ReceiverAged(rcv)
  BY DEF Elapse, ClientElapse
<1>4. /\ DOMAIN seen' = {"waited", "announced", "heard"}
      /\ seen'.announced = seen.announced /\ seen'.heard = seen.heard
      /\ seen'.waited = IF Awaits THEN seen.waited + 1 ELSE seen.waited
  BY <1>1 DEF Elapse
<1>5. /\ DOMAIN rcv' = Members
      /\ HearsInv => HearsInv'
      /\ HeardNothing => HeardNothing'
  BY <1>1, <1>3, <1>4, ReceiverWaits
<1>6. Awaits => cli.deadline # 0
  BY DEF Elapse, ClientPollDue, Awaits
<1>7. cli'.deadline \in Nat /\ seen'.waited \in Nat
  BY <1>1, <1>2, <1>4 DEF OneTickLess
<1>8. Awaits => seen'.waited + cli'.deadline = Patience
  BY <1>1, <1>2, <1>4, <1>6 DEF OneTickLess, ClientInv, PatienceInv
<1>9. Awaits' = Awaits /\ Patience' = Patience
  BY <1>2 DEF Awaits, Patience
<1>10. ClientInv'
  BY <1>1, <1>2, <1>4, <1>5, <1>7, <1>8, <1>9 DEF ClientInv, PatienceInv, Awaits
<1>11. Awaits => seen'.waited <= Patience
  BY <1>7, <1>8
<1> QED BY <1>10, <1>11

LEMMA ClientRests ==
  ASSUME ClientInv, UNCHANGED <<cli, rcv, seen>>
  PROVE  ClientInv'
BY DEF ClientInv, PatienceInv, Awaits, Patience, HearsInv, HeardNothing, HearsNoMore,
       TurnsDown, HearsOn, HeardAll, HeardMessage

LEMMA ClientStep == ClientInv /\ [PeerNext]_peerVars => ClientInv'
<1> SUFFICES ASSUME ClientInv, [PeerNext]_peerVars PROVE ClientInv'
  OBVIOUS
<1>1. CASE \E q \in Requests : TesterAsks(q)
  BY <1>1, AskedIsKept
<1>2. CASE Poll
  BY <1>2, PollIsKept
<1>3. CASE BusTakes \/ UNCHANGED peerVars
  BY <1>3, ClientRests DEF BusTakes, peerVars, clientVars
<1>4. CASE Elapse
  BY <1>4, TimeIsKept
<1>5. CASE \E f \in PeerFrames : PeerSends(f)
  BY <1>5, FrameIsKept
<1> QED BY <1>1, <1>2, <1>3, <1>4, <1>5 DEF PeerNext

-----------------------------------------------------------------------------
(* A step that is not Elapse leaves the wait as it is or begins anew.      *)
LEMMA PatienceHasItsSteps ==
  ASSUME ClientInv, Awaits, [PeerNext]_peerVars
  PROVE  /\ seen'.waited <= Patience
         /\ cli'.state = "Failed" /\ cli'.failure = "Timeout" =>
              seen.waited = Patience \/ cli'.pending > MaxResponsePending
<1>1. /\ cli.state = "AwaitingResponse" /\ DOMAIN cli = ClientMembers
      /\ DOMAIN seen = {"waited", "announced", "heard"}
      /\ cli.deadline \in Nat /\ seen.waited \in Nat
      /\ seen.waited + cli.deadline = Patience
  BY DEF Awaits, ClientInv, PatienceInv
<1>2. Patience \in Nat /\ seen.waited <= Patience
  BY <1>1
<1>3. cli' = cli => ~(cli'.state = "Failed")
  BY <1>1
<1>4. ASSUME seen' = seen \/ seen' = NothingSeen
      PROVE  seen'.waited <= Patience
  <2>1. NothingSeen.waited = 0
    BY DEF NothingSeen
  <2> QED BY <1>2, <1>4, <2>1
<1>5. CASE \E q \in Requests : TesterAsks(q)
  BY <1>1, <1>5 DEF TesterAsks, Ask, Busy
<1>6. CASE Poll
  <2>1. seen'.waited <= Patience
    BY <1>4, <1>6 DEF Poll
  <2>2. CASE TakeAnswer
    <3>1. \/ cli'.state = "Complete"
          \/ cli'.state = "Failed"
             /\ (cli'.failure = "Timeout" => cli'.pending > MaxResponsePending)
          \/ cli'.state = "AwaitingResponse"
      BY <2>2, TakingChanges
    <3> QED BY <2>1, <3>1
  <2>3. CASE PollAwaiting
    <3>1. CASE cli' = Failing(cli, "Reassembly")
      <4>1. cli'.failure = "Reassembly"
        BY <1>1, <3>1 DEF Failing, ClientMembers
      <4> QED BY <2>1, <4>1
    <3>2. CASE cli.deadline = 0
      BY <1>1, <2>1, <3>2
    <3>3. CASE cli' = cli
      BY <1>3, <2>1, <3>3
    <3> QED BY <2>3, <3>1, <3>2, <3>3 DEF PollAwaiting
  <2>4. ~PollSending /\ ~PollKeepalive /\ ~PollNothing
    BY <1>1 DEF PollSending, PollKeepalive, PollNothing, KeepaliveDue, Busy
  <2> QED BY <1>6, <2>2, <2>3, <2>4 DEF Poll, ClientPoll
<1>7. CASE BusTakes \/ UNCHANGED peerVars
  BY <1>3, <1>4, <1>7 DEF BusTakes, peerVars, clientVars
<1>8. CASE Elapse
  <2>1. cli'.state = cli.state
    BY <1>1, <1>8 DEF Elapse, ClientElapse, ClientAged, ClientMembers
  <2> QED BY <1>1, <1>8, <2>1, TimeIsKept
<1>9. CASE \E f \in PeerFrames : PeerSends(f)
  <2>1. PICK f \in PeerFrames : PeerSends(f)
    BY <1>9
  <2>2. cli' = cli
    BY <2>1 DEF PeerSends, ClientOnFrame, clientVars
  <2>3. seen'.waited = seen.waited
    BY <1>1, <2>1 DEF PeerSends
  <2> QED BY <1>2, <1>3, <2>2, <2>3
<1> QED BY <1>5, <1>6, <1>7, <1>8, <1>9 DEF PeerNext

(* PatienceKept: P2 is given in full and P2* after each responsePending,   *)
(* and a Timeout means that it was, or one responsePending too many        *)
(* (Client::poll(), handle_message()).                                     *)
THEOREM PatienceIsKept == PeerSpec => PatienceKept
<1>1. PeerInit => ClientInv
  BY ClientStarts
<1>2. ClientInv /\ [PeerNext]_peerVars => ClientInv'
  BY ClientStep
<1>3. ClientInv /\ [PeerNext]_peerVars =>
        [/\ Awaits => seen'.waited <= Patience
         /\ Awaits /\ cli'.state = "Failed" /\ cli'.failure = "Timeout" =>
              seen.waited = Patience \/ cli'.pending > MaxResponsePending]_peerVars
  BY PatienceHasItsSteps
<1> QED BY <1>1, <1>2, <1>3, PTL DEF PeerSpec, PatienceKept

-----------------------------------------------------------------------------
(* A message is its first bytes and the rest.                              *)
LEMMA FirstAndRest ==
  ASSUME NEW s \in Seq(Byte), s # <<>>
  PROVE  s = <<s[1]>> \o SubSeq(s, 2, Len(s))
<1>1. Len(s) \in Nat \ {0}
  BY EmptySeq
<1>2. s[1] \in Byte /\ \A i \in 2..Len(s) : s[i] \in Byte
  BY <1>1, ElementOfSeq
<1> DEFINE n == Len(s)
           rest == SubSeq(s, 2, n)
           whole == <<s[1]>> \o rest
<1>3. n \in Nat /\ n >= 1
  BY <1>1
<1> HIDE DEF n
<1>4. /\ rest \in Seq(Byte)
      /\ Len(rest) = n - 1
      /\ \A i \in 1..(n - 1) : rest[i] = s[i + 1]
  <2>1. \A i \in 2..n : s[i] \in Byte
    BY <1>2 DEF n
  <2>2. /\ rest \in Seq(Byte)
        /\ Len(rest) = IF 2 <= n THEN n - 2 + 1 ELSE 0
        /\ \A i \in 1..(n - 2 + 1) : rest[i] = s[2 + i - 1]
    BY <1>3, <2>1, SubSeqProperties
  <2>3. \A i \in 1..(n - 1) : 2 + i - 1 = i + 1 /\ i \in 1..(n - 2 + 1)
    BY <1>3
  <2>4. Len(rest) = n - 1
    BY <1>3, <2>2
  <2> HIDE DEF rest
  <2> QED BY <2>2, <2>3, <2>4
<1>5. <<s[1]>> \in Seq(Byte) /\ Len(<<s[1]>>) = 1 /\ <<s[1]>>[1] = s[1]
  BY <1>2
<1> HIDE DEF rest
<1>6. /\ whole \in Seq(Byte) /\ Len(whole) = 1 + Len(rest)
      /\ \A i \in 1..(1 + Len(rest)) :
           whole[i] = IF i <= 1 THEN <<s[1]>>[i] ELSE rest[i - 1]
  <2> DEFINE one == <<s[1]>>
  <2>1. one \in Seq(Byte) /\ rest \in Seq(Byte) /\ Len(one) = 1
    BY <1>4, <1>5
  <2> HIDE DEF one
  <2>2. /\ one \o rest \in Seq(Byte) /\ Len(one \o rest) = Len(one) + Len(rest)
        /\ \A i \in 1..(Len(one) + Len(rest)) :
             (one \o rest)[i] = IF i <= Len(one) THEN one[i] ELSE rest[i - Len(one)]
    BY <2>1, ConcatProperties
  <2>3. whole = one \o rest
    BY DEF one
  <2> HIDE DEF whole
  <2>4. /\ whole \in Seq(Byte) /\ Len(whole) = 1 + Len(rest)
        /\ \A i \in 1..(1 + Len(rest)) :
             whole[i] = IF i <= 1 THEN one[i] ELSE rest[i - 1]
    BY <2>1, <2>2, <2>3
  <2> QED BY <2>4 DEF one
<1> HIDE DEF whole
<1>7. ASSUME NEW i \in 1..n PROVE s[i] = whole[i]
  <2>1. CASE i = 1
    <3>1. whole[1] = <<s[1]>>[1]
      BY <1>3, <1>4, <1>6
    <3> QED BY <1>5, <2>1, <3>1
  <2>2. CASE i # 1
    <3>1. i - 1 \in 1..(n - 1) /\ (i - 1) + 1 = i /\ ~(i <= 1) /\ i \in 1..(1 + Len(rest))
      BY <1>3, <1>4, <2>2
    <3>2. whole[i] = rest[i - 1]
      BY <1>6, <3>1
    <3>3. rest[i - 1] = s[(i - 1) + 1]
      BY <1>4, <3>1
    <3> QED BY <3>1, <3>2, <3>3
  <2> QED BY <2>1, <2>2
<1>8. Len(s) = Len(whole)
  BY <1>3, <1>4, <1>6 DEF n
<1>9. s = whole
  BY <1>6, <1>7, <1>8, SeqEqual DEF n
<1> QED BY <1>9 DEF whole, rest, n

LEMMA FirstThree ==
  ASSUME NEW s \in Seq(Byte), Len(s) >= 3
  PROVE  SubSeq(s, 1, 3) = <<s[1], s[2], s[3]>>
<1>1. s[1] \in Byte /\ s[2] \in Byte /\ s[3] \in Byte
  BY LenProperties, ElementOfSeq
<1>2. \A i \in 1..3 : s[i] \in Byte
  BY <1>1
<1> DEFINE front == SubSeq(s, 1, 3)
           three == <<s[1], s[2], s[3]>>
<1>3. /\ front \in Seq(Byte) /\ Len(front) = 3
      /\ front[1] = s[1] /\ front[2] = s[2] /\ front[3] = s[3]
  BY <1>2, SubSeqProperties
<1>4. /\ three \in Seq(Byte) /\ Len(three) = 3
      /\ three[1] = s[1] /\ three[2] = s[2] /\ three[3] = s[3]
  BY <1>1
<1> HIDE DEF front, three
<1>5. \A i \in 1..Len(front) : front[i] = three[i]
  BY <1>3, <1>4
<1>6. front = three
  BY <1>3, <1>4, <1>5, SeqEqual
<1> QED BY <1>6 DEF front, three

(* What a message is made into, when it ends the exchange well.            *)
LEMMA AnswerOfMessage ==
  ASSUME NEW c, DOMAIN c = ClientMembers, NEW m \in Seq(Byte), NEW u, u = Understood(c, m),
         u.state = "Complete", c.state = "AwaitingResponse"
  PROVE  IF u.response.positive THEN m = <<u.response.service>> \o u.response.data
         ELSE SubSeq(m, 1, 3) = <<NegativeResponse, u.response.service, u.response.nrc>>
<1> USE DEF ClientMembers
<1>6. ASSUME NEW d, DOMAIN d = ClientMembers, NEW r,
             DOMAIN r = {"positive", "service", "nrc", "data", "pending_count"},
             u = Finishing(d, r)
      PROVE  /\ u.response.positive = r.positive /\ u.response.service = r.service
             /\ u.response.nrc = r.nrc /\ u.response.data = r.data
  <2>1. u.response = [r EXCEPT !.pending_count = d.pending]
    BY <1>6 DEF Finishing
  <2> QED BY <1>6, <2>1
<1>1. u # Failing(c, "Semantic")
  BY DEF Failing
<1>2. u # OneMorePending(c)
  BY DEF OneMorePending, Failing
<1>3. m # <<>>
  BY <1>1 DEF Understood
<1>4. CASE m[1] = NegativeResponse
  <2>1. Len(m) >= 3
    BY <1>1, <1>3, <1>4, LenProperties DEF Understood
  <2> DEFINE r == [NoResponse EXCEPT !.service = m[2], !.nrc = m[3]]
  <2>2. u = Finishing(c, r)
    BY <1>1, <1>2, <1>3, <1>4 DEF Understood
  <2>4. /\ DOMAIN r = {"positive", "service", "nrc", "data", "pending_count"}
        /\ r.positive = FALSE /\ r.service = m[2] /\ r.nrc = m[3]
    BY DEF NoResponse
  <2> HIDE DEF r
  <2>3. /\ u.response.positive = FALSE /\ u.response.service = m[2]
        /\ u.response.nrc = m[3]
    BY <1>6, <2>2, <2>4
  <2> QED BY <1>4, <2>1, <2>3, FirstThree
<1>5. CASE m[1] # NegativeResponse
  <2> DEFINE rest == SubSeq(m, 2, Len(m))
             d == [c EXCEPT !.session = SessionTold(c, rest)]
             r == [NoResponse EXCEPT !.positive = TRUE, !.service = m[1], !.data = rest]
  <2>1. u = Finishing(d, r)
    BY <1>1, <1>3, <1>5 DEF Understood
  <2>2. DOMAIN d = ClientMembers
    OBVIOUS
  <2>5. /\ DOMAIN r = {"positive", "service", "nrc", "data", "pending_count"}
        /\ r.positive = TRUE /\ r.service = m[1] /\ r.data = rest
    BY DEF NoResponse
  <2> HIDE DEF d, r, rest
  <2>3. /\ u.response.positive = TRUE /\ u.response.service = m[1]
        /\ u.response.data = rest
    BY <1>6, <2>1, <2>2, <2>5
  <2>4. m = <<m[1]>> \o rest
    BY <1>3, FirstAndRest DEF rest
  <2> QED BY <2>3, <2>4
<1> QED BY <1>4, <1>5

(* An exchange that is awaited ends well with a whole message only, and    *)
(* the receiver's whole message is what was heard.                         *)
LEMMA AnswerHasItsStep ==
  ASSUME ClientInv, Awaits, PeerNext, cli'.state = "Complete"
  PROVE  LET r == cli'.response
         IN  IF r.positive THEN HeardMessage = <<r.service>> \o r.data
             ELSE SubSeq(HeardMessage, 1, 3) = <<NegativeResponse, r.service, r.nrc>>
<1>1. cli.state = "AwaitingResponse" /\ DOMAIN cli = ClientMembers /\ HearsInv
  BY DEF Awaits, ClientInv
<1>2. cli' # cli
  BY <1>1
<1>3. TakeAnswer
  <2>1. ~(\E q \in Requests : TesterAsks(q))
    BY <1>1 DEF TesterAsks, Ask, Busy
  <2>2. ~BusTakes /\ ~(\E f \in PeerFrames : PeerSends(f))
    BY <1>2 DEF BusTakes, PeerSends, ClientOnFrame, clientVars
  <2>3. ~Elapse
    BY <1>1 DEF Elapse, ClientElapse, ClientAged, ClientMembers
  <2>4. ~PollSending /\ ~PollKeepalive /\ ~PollNothing
    BY <1>1 DEF PollSending, PollKeepalive, PollNothing, KeepaliveDue, Busy
  <2>5. ~PollAwaiting
    <3>1. ASSUME NEW e PROVE cli' # Failing(cli, e)
      BY <1>1 DEF Failing, ClientMembers
    <3> QED BY <1>2, <3>1 DEF PollAwaiting
  <2> QED BY <2>1, <2>2, <2>3, <2>4, <2>5 DEF PeerNext, Poll, ClientPoll
<1>4. rcv.payload = HeardMessage /\ rcv.payload \in Seq(Byte)
  <2>1. HeardAll
    BY <1>1, <1>3 DEF TakeAnswer, HearsInv, HeardNothing, HearsNoMore, TurnsDown, HearsOn
  <2> QED BY <2>1 DEF HeardAll
<1> DEFINE c == [cli EXCEPT !.idle = 0]
           m == rcv.payload
           u == cli'
<1>5. DOMAIN c = ClientMembers /\ c.state = "AwaitingResponse"
  BY <1>1 DEF ClientMembers
<1>6. u = Understood(c, m) /\ u.state = "Complete" /\ m \in Seq(Byte)
  BY <1>3, <1>4 DEF TakeAnswer
<1> HIDE DEF c, m, u
<1>7. IF u.response.positive THEN m = <<u.response.service>> \o u.response.data
      ELSE SubSeq(m, 1, 3) = <<NegativeResponse, u.response.service, u.response.nrc>>
  BY <1>5, <1>6, AnswerOfMessage
<1> QED BY <1>4, <1>7 DEF u, m

(* AnswerWasHeard: an answer is made of what the peer sent after the       *)
(* request had gone out and of nothing older (Client::poll(),              *)
(* handle_message(), with request() and poll() resetting the receiver).    *)
THEOREM AnswerIsHeard == PeerSpec => AnswerWasHeard
<1>1. PeerInit => ClientInv
  BY ClientStarts
<1>2. ClientInv /\ [PeerNext]_peerVars => ClientInv'
  BY ClientStep
<1>3. ClientInv /\ [PeerNext]_peerVars =>
        [Awaits /\ cli'.state = "Complete" =>
           LET r == cli'.response
           IN  IF r.positive THEN HeardMessage = <<r.service>> \o r.data
               ELSE SubSeq(HeardMessage, 1, 3) = <<NegativeResponse, r.service, r.nrc>>]_peerVars
  BY AnswerHasItsStep
<1> QED BY <1>1, <1>2, <1>3, PTL DEF PeerSpec, AnswerWasHeard
=============================================================================
