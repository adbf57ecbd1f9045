-------------------------------- MODULE Dash --------------------------------
(***************************************************************************)
(* canforge dash: a thread that steps the simulation and feeds the view    *)
(* model, and the thread of the user, whose keys change the view model and *)
(* who composes frames to transmit.  They share the view model and, under  *)
(* tx_mutex, the list of the messages to transmit periodically.            *)
(***************************************************************************)
EXTENDS ViewModel

CONSTANTS
  SimFrames,   \* what a step of the simulation may produce, sequences of frames
  Composed,    \* by name the frames that the transmit panel can compose
  Words,       \* by field what the user types into it
  Pass         \* the time between two passes of the thread, at least 1 ms

(* The frames are those of the simulation and of the transmit panel.       *)
Traffic == (UNION {Range(frames) : frames \in SimFrames}) \cup Range(Composed)
IsFrame(f) ==
  /\ f \in [id : STRING, at : Nat, nr : Nat, bits : Nat, error : BOOLEAN, decodes : BOOLEAN,
            values : {f.values}]
  /\ \A s \in DOMAIN f.values : f.values[s] \in Int

ASSUME DashInputs ==
  /\ TimeWord \in Nat /\ RateWindow \in Nat /\ Pass \subseteq Nat
  /\ TraceCapacity \in Nat \ {0} /\ HistoryCapacity \in Nat \ {0}
  /\ SimFrames \subseteq Seq(Traffic) /\ \A f \in Traffic : IsFrame(f)

VARIABLES
  view,      \* the view model
  producer,  \* the thread of the simulation
  user,      \* the thread of the user and the members of Dashboard::Impl
  periodic   \* the messages to transmit again and again

dashVars == <<view, producer, user, periodic>>

FreshUser == [at |-> "loop", page |-> 0, help |-> FALSE, focused |-> FALSE, typed |-> None,
              signal |-> None, message |-> None, status |-> None, running |-> TRUE]

DashInit ==
  /\ view = FreshView /\ periodic = <<>> /\ user = FreshUser
  /\ producer = [at |-> "step", now |-> 0, queue |-> <<>>, index |-> 1]

Stamp(frame, at, nr) == [frame EXCEPT !.at = at, !.nr = nr]

-----------------------------------------------------------------------------
(* The thread of the simulation.                                           *)
ProducerStepsSlip ==   \* waits for the last periodic message to be stopped
  /\ producer.at = "step"
  /\ IF user.running
     THEN \E frames \in SimFrames : producer' = [producer EXCEPT !.at = "feed", !.queue = frames]
     ELSE periodic = <<>> /\ producer' = [producer EXCEPT !.at = "done"]
  /\ UNCHANGED <<view, user, periodic>>

ProducerSteps ==
  /\ producer.at = "step"
  /\ IF user.running
     THEN \E frames \in SimFrames : producer' = [producer EXCEPT !.at = "feed", !.queue = frames]
     ELSE producer' = [producer EXCEPT !.at = "done"]
  /\ UNCHANGED <<view, user, periodic>>

ProducerFeeds(nr) ==
  /\ producer.at = "feed"
  /\ IF producer.queue = <<>>
     THEN producer' = [producer EXCEPT !.at = "periodic", !.index = 1] /\ UNCHANGED view
     ELSE /\ view' = Ingest(view, Stamp(Head(producer.queue), producer.now, nr))
          /\ producer' = [producer EXCEPT !.queue = Tail(@)]
  /\ UNCHANGED <<user, periodic>>

(* It holds tx_mutex from the first to the last of these steps.            *)
HoldsTxMutex == producer.at = "periodic" /\ producer.index > 1

ProducerRepeats(nr) ==
  /\ producer.at = "periodic"
  /\ IF producer.index > Len(periodic)
     THEN producer' = [producer EXCEPT !.at = "sleep", !.index = 1] /\ UNCHANGED view
     ELSE /\ view' = Ingest(view, Stamp(Composed[periodic[producer.index]], producer.now, nr))
          /\ producer' = [producer EXCEPT !.index = @ + 1]
  /\ UNCHANGED <<user, periodic>>

ProducerSleeps ==
  /\ producer.at = "sleep"
  /\ \E pass \in Pass : producer' = [producer EXCEPT !.at = "step", !.now = @ + pass]
  /\ UNCHANGED <<view, user, periodic>>

-----------------------------------------------------------------------------
(* The thread of the user.  A frame that is composed carries no time; with *)
(* no message named, transmit() stops the periodic ones.                   *)
Reports(text, next) == [user EXCEPT !.status = text, !.at = next]

StopsPeriodic(text) ==
  ~HoldsTxMutex /\ periodic' = <<>> /\ user' = Reports(text, "loop") /\ UNCHANGED view

Transmits(repeat, nr) ==
  IF user.message = None THEN StopsPeriodic("sent")
  ELSE /\ UNCHANGED periodic
       /\ IF user.message \in DOMAIN Composed
          THEN /\ view' = Ingest(view, Stamp(Composed[user.message], 0, nr))
               /\ user' = Reports("sent", IF repeat THEN "repeat" ELSE "loop")
          ELSE user' = Reports("error", "loop") /\ UNCHANGED view

AddsPeriodic ==
  /\ user.at = "repeat" /\ ~HoldsTxMutex
  /\ periodic' = Append(periodic, user.message)
  /\ user' = [user EXCEPT !.at = "loop"]
  /\ UNCHANGED <<view, producer>>

PageOf == [k \in {"1", "2", "3", "4", "5"} |->
             CASE k = "1" -> 0 [] k = "2" -> 1 [] k = "3" -> 2 [] k = "4" -> 3 [] k = "5" -> 4]
TransmitPage == 4

(* set_filter() and select_signal(), one after the other.                  *)
Applied == LET filtered == [view EXCEPT !.filter = user.typed]
           IN  IF user.signal = None THEN filtered ELSE Selected(filtered, user.signal)

(* A key: what it changes in the dashboard and in the view model.          *)
Turns(newUser, newView) == user' = newUser /\ view' = newView /\ UNCHANGED periodic

PressesKey(k, nr) ==
  /\ user.at = "loop" /\ UNCHANGED producer
  /\ \/ k = "?" /\ Turns([user EXCEPT !.help = ~@], view)
     \/ k # "?" /\ user.help /\ Turns([user EXCEPT !.help = FALSE], view)
     \/ /\ ~user.help
        /\ \/ /\ k = "q" \/ (k = "escape" /\ ~user.focused)
              /\ Turns([user EXCEPT !.running = FALSE, !.at = "join"], view)
           \/ /\ k \in DOMAIN PageOf /\ ~user.focused
              /\ Turns([user EXCEPT !.page = PageOf[k]], view)
           \/ k = " " /\ ~user.focused /\ Turns(user, [view EXCEPT !.paused = ~@])
           \/ k = "c" /\ ~user.focused /\ Turns(user, Cleared(view))
           \/ /\ k = "return"
              /\ Turns([user EXCEPT !.at = IF user.page = TransmitPage THEN "send" ELSE "loop"], Applied)
           \/ k = "p" /\ user.page = TransmitPage /\ Transmits(TRUE, nr)
           \/ k = "x" /\ user.page = TransmitPage /\ StopsPeriodic("stopped")

(* On the transmit page the return key goes on to send.                    *)
SendsOnce(nr) == user.at = "send" /\ Transmits(FALSE, nr) /\ UNCHANGED producer

(* What the terminal library does with a key that is not handled.          *)
MovesFocus == user.at = "loop" /\ user' = [user EXCEPT !.focused = ~@]
              /\ UNCHANGED <<view, producer, periodic>>
Types ==
  /\ user.at = "loop" /\ user.focused
  /\ \E field \in {"typed", "signal", "message"} : \E w \in Words[field] \cup {None} :
       user' = [user EXCEPT ![field] = w]
  /\ UNCHANGED <<view, producer, periodic>>

Joins ==
  /\ user.at = "join" /\ producer.at = "done"
  /\ user' = [user EXCEPT !.at = "done"]
  /\ UNCHANGED <<view, producer, periodic>>

-----------------------------------------------------------------------------
(* The dashboard with a user at its keys.  watch keeps what has arrived    *)
(* since the user cleared the statistics, in the order of arrival: every   *)
(* frame, the numbers of those to be shown, and the values to be plotted.  *)
CONSTANTS Keys,                          \* the keys the user presses
          MaxPasses, MaxKeys, MaxTyped   \* bounds: passes of the thread, keys, edits

(* Within the bounds the clock does not reach the end of its 64 bits.      *)
ASSUME WatchBounds ==
  /\ MaxPasses \in Nat /\ MaxKeys \in Nat /\ MaxTyped \in Nat
  /\ \E longest \in Pass :
       (\A pass \in Pass : pass <= longest) /\ longest * MaxPasses < TimeWord

VARIABLE watch

vars == <<view, producer, user, periodic, watch>>

Init ==
  /\ DashInit
  /\ watch = [nr |-> 0, passes |-> 0, keys |-> 0, typed |-> 0, shots |-> FALSE,
              arrived |-> <<>>, shown |-> <<>>, plotted |-> <<>>]

Nr == watch.nr + 1

(* A frame is what arrives whenever the total goes up.                     *)
Observe(f, w) ==
  LET e == EntryOf(Stamp(f, 0, Nr))
  IN  [w EXCEPT !.nr = Nr,
                !.arrived = Append(@, [id |-> f.id, node |-> NodeOf(e), at |-> view'.now]),
                !.shown = IF ~view.paused /\ PassesFilter(view, e) THEN Append(@, Nr) ELSE @,
                !.plotted = IF view.selected \in DOMAIN e.signals
                            THEN Append(@, e.signals[view.selected]) ELSE @]

Feeds == ProducerFeeds(Nr) /\ watch' = IF producer.queue = <<>> THEN watch
                                       ELSE Observe(Head(producer.queue), watch)
Repeats == ProducerRepeats(Nr) /\ watch' = IF producer.index > Len(periodic) THEN watch
                                           ELSE Observe(Composed[periodic[producer.index]], watch)
Passes ==
  /\ user.running => watch.passes < MaxPasses
  /\ ProducerSteps
  /\ watch' = [watch EXCEPT !.passes = @ + 1]
Producer == Feeds \/ Repeats \/ Passes \/ (ProducerSleeps /\ UNCHANGED watch)

Shot == IF view'.total # view.total + 1 THEN watch
        ELSE [Observe(Composed[user.message], watch) EXCEPT !.shots = TRUE]

Key(k) ==
  /\ watch.keys < MaxKeys \/ k = "q"
  /\ PressesKey(k, Nr)
  /\ LET w == [Shot EXCEPT !.keys = @ + 1]
         plotted == IF view'.selected = view.selected THEN w.plotted ELSE <<>>
     IN  watch' = IF k = "c" /\ view' = Cleared(view)
                  THEN [w EXCEPT !.arrived = <<>>, !.shown = <<>>, !.plotted = <<>>, !.shots = FALSE]
                  ELSE [w EXCEPT !.plotted = plotted]

Edits ==
  /\ watch.typed < MaxTyped /\ (MovesFocus \/ Types)
  /\ watch' = [watch EXCEPT !.typed = @ + 1]

User ==
  \/ \E k \in Keys : Key(k)
  \/ Edits
  \/ SendsOnce(Nr) /\ watch' = Shot
  \/ AddsPeriodic /\ UNCHANGED watch
  \/ Joins /\ UNCHANGED watch

Next == Producer \/ User

(* The operating system runs both threads; the user need not do anything.  *)
Spec == Init /\ [][Next]_vars /\ WF_vars(Producer) /\ WF_vars(Joins /\ UNCHANGED watch)

-----------------------------------------------------------------------------
Latest(s, n) == SubSeq(s, 1 + Max({0, Len(s) - n}), Len(s))
ArrivalsOf(id) == {i \in DOMAIN watch.arrived : watch.arrived[i].id = id}
ArrivalsFrom(node) == {i \in DOMAIN watch.arrived : watch.arrived[i].node = node}
RecentArrivals ==
  {i \in DOMAIN watch.arrived : Elapsed(watch.arrived[i].at, view.now) <= RateWindow}

(* Type invariant.                                                         *)
ViewTypeOK ==
  /\ Len(view.trace) <= TraceCapacity /\ Len(view.history.samples) <= HistoryCapacity
  /\ \A i \in DOMAIN view.recent : view.recent[i] \in 0..(TimeWord - 1)
  /\ view.paused \in BOOLEAN /\ user.page \in 0..4
  /\ user.at \in {"loop", "send", "repeat", "join", "done"}
  /\ producer.at \in {"step", "feed", "periodic", "sleep", "done"}
  /\ Range(periodic) \subseteq DOMAIN Composed

(* The numbers of a snapshot belong together, whichever thread delivered   *)
(* the frames and whenever the user cleared, paused or filtered: total,    *)
(* bus, messages and nodes count the frames that arrived, each under its   *)
(* own identifier and its own sender (ingest(), clear()).                  *)
StatisticsAddUp ==
  /\ view.total = Len(watch.arrived) /\ view.bus.frames = view.total
  /\ DOMAIN view.messages = {watch.arrived[i].id : i \in DOMAIN watch.arrived}
  /\ \A id \in DOMAIN view.messages :
       view.messages[id].count = Cardinality(ArrivalsOf(id))
  /\ DOMAIN view.nodes = {watch.arrived[i].node : i \in DOMAIN watch.arrived}
  /\ \A node \in DOMAIN view.nodes :
       view.nodes[node] = Cardinality(ArrivalsFrom(node))

(* The trace shows the latest of the frames that were neither paused nor   *)
(* filtered away, in the order of arrival, and filtered counts the others  *)
(* that arrived while the trace was live (ingest(), set_paused()).         *)
TraceShowsTheLatest ==
  /\ [i \in DOMAIN view.trace |-> view.trace[i].nr] = Latest(watch.shown, TraceCapacity)
  /\ view.filtered + Len(watch.shown) <= view.total

(* The plot is of the selected signal since it was selected, and its       *)
(* minimum and maximum are those of the samples that are still shown       *)
(* (SignalHistory::push(), select_signal()).                               *)
PlotIsOfTheSelection ==
  /\ view.history.samples = Latest(watch.plotted, HistoryCapacity)
  /\ view.history.samples # <<>> =>
       /\ view.history.min = Min(Range(view.history.samples))
       /\ view.history.max = Max(Range(view.history.samples))
  /\ \A l \in Range(Levels(view.history, 8)) : l \in 0..7

(* As long as only the simulation's clock has stamped frames, the rate     *)
(* counts those of the last second and a message's mean period is its time *)
(* over its periods (ingest()).                                            *)
RatesAreMeasured ==
  ~watch.shots =>
    /\ FramesPerSecond(view) = Cardinality(RecentArrivals)
    /\ \A id \in DOMAIN view.messages :
         LET m == view.messages[id] IN m.sum = m.last - m.first

(* A snapshot counts and measures what has arrived (ingest(), snapshot()). *)
StatisticsAreTrue == ViewTypeOK /\ StatisticsAddUp /\ RatesAreMeasured

(* The panes show the latest of what they are about (snapshot()).          *)
PanesShowTheLatest == TraceShowsTheLatest /\ PlotIsOfTheSelection

(* q ends the program: the thread of the simulation notices and is joined  *)
(* (command_dash(), running, producer.join()).                             *)
QuitEnds == user.at = "join" ~> user.at = "done"
=============================================================================
