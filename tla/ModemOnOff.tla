----------------------------- MODULE ModemOnOff -----------------------------
(***************************************************************************)
(* Starting and stopping the modem (main.cpp, and the life of a TxRxThread *)
(* in pipeline/TxRxThread.h).                                              *)
(*                                                                         *)
(* The Start/Stop button is disabled and a detached thread turns the modem *)
(* on or off.  On starts the modem interface, opens the sound devices and  *)
(* makes the TX and RX threads, which wait for each other; Off takes it    *)
(* all down.  Whatever touches the window is handed to the UI thread, and  *)
(* the caller waits without a time limit (executeOnUiThreadAndWait_()): so *)
(* do the two threads here and the file players in their pipelines.        *)
(*                                                                         *)
(* A step of On or Off that is executed by the UI thread is one step here, *)
(* taken when the UI thread gets to it.  A device that has started does    *)
(* not stop by itself (in no backend).  Rig control, PTT and the reporters *)
(* are started by On and stopped by Off as well; other modules model them. *)
(***************************************************************************)
EXTENDS Naturals

CONSTANT Cards  \* the numbers of sound cards that may be configured

ASSUME CardsAssumption == Cards \subseteq {1, 2} /\ Cards # {}

VARIABLES
    running,     \* m_RxRunning
    enabled,     \* m_togBtnOnOff is enabled
    op,          \* what the On/Off thread does next, "idle" if there is none
    starting,    \* it turns the modem on
    cards,       \* g_nSoundCards: 1 receives only
    dev,         \* the sound devices: "none", "made" or "on"
    thr,         \* m_txThread and m_rxThread, and how far their threads are
    run,         \* m_run of each
    go,          \* startSem_ of each
    player,      \* the file player in each pipeline
    buffers,     \* g_rxUserdata and its FIFOs
    engine,      \* the audio engine
    modem,       \* freedvInterface is started
    frame,       \* the window: "open", "destroyed" or, by a null pointer, "crashed"
    dialog,      \* m_reporterDialog is there
    terminating, \* terminating_
    lost         \* history: a device that had been found did not start

session == <<running, enabled, op, starting, cards>>
stream  == <<dev, buffers, engine>>
threads == <<thr, run, go, player>>
window  == <<frame, dialog, terminating>>
vars    == <<session, stream, threads, modem, window, lost>>

Sides     == {"tx", "rx"}
DevicesOf == [tx |-> {"txIn", "txOut"}, rx |-> {"rxIn", "rxOut"}]
Devices   == DevicesOf["tx"] \cup DevicesOf["rx"]

Alive   == {"started", "ready", "working", "ending"}
Present == {t \in Sides : thr[t] # "none"}
NoDevices == [d \in Devices |-> "none"]

Init ==
    /\ running = FALSE /\ enabled = TRUE /\ op = "idle" /\ starting = FALSE
    /\ cards \in Cards
    /\ dev = NoDevices /\ buffers = FALSE /\ engine = FALSE /\ modem = FALSE
    /\ thr = [t \in Sides |-> "none"] /\ player = thr
    /\ run = [t \in Sides |-> FALSE] /\ go = run
    /\ frame = "open" /\ dialog = TRUE /\ terminating = FALSE /\ lost = FALSE

-----------------------------------------------------------------------------
(* The button, and leaving the program.                                     *)

(* Seeded bug: the button can be pressed again at once.                      *)
ToggleTwice ==
    /\ enabled' = TRUE
    /\ starting' = ~running
    /\ op' = IF running THEN "quiet" ELSE "prepare"
    /\ UNCHANGED <<running, cards>>

\* OnTogBtnOnOff()
Toggle ==
    /\ enabled' = FALSE
    /\ starting' = ~running
    /\ op' = IF running THEN "quiet" ELSE "prepare"
    /\ UNCHANGED <<running, cards>>

Click == enabled /\ Toggle /\ UNCHANGED <<stream, threads, modem, window, lost>>

\* While an On or Off is under way, the button turns the request down.
Leave ==
    /\ IF running THEN /\ terminating' = TRUE /\ frame' = frame
                       /\ IF enabled THEN Toggle ELSE UNCHANGED session
       ELSE frame' = "destroyed" /\ UNCHANGED <<terminating, session>>
    /\ UNCHANGED <<stream, threads, modem, lost>>

\* topFrame_OnClose(): the reporter window goes first.
OnClose ==
    \/ dialog /\ dialog' = FALSE /\ Leave
    \/ /\ ~dialog
       /\ frame' = "crashed"
       /\ UNCHANGED <<session, stream, threads, modem, dialog, terminating, lost>>

OnExit == Leave /\ UNCHANGED dialog

-----------------------------------------------------------------------------
(* performFreeDVOn_() and startRxStream().                                  *)

At(step, next) == op = step /\ op' = next /\ UNCHANGED <<enabled, starting>>
Others         == UNCHANGED <<modem, window>>

\* The plots are cleared and the modem interface started.
Prepare ==
    /\ At("prepare", "validate")
    /\ modem' = TRUE
    /\ UNCHANGED <<running, cards, stream, threads, window, lost>>

\* The microphone is permitted and the devices that are configured exist.
Validate ==
    /\ \/ /\ At("validate", "quiet")
          /\ UNCHANGED <<running, cards, buffers, engine>>
       \/ \E n \in Cards :
             /\ At("validate", IF n = 2 THEN "openTx" ELSE "openRx")
             /\ cards' = n
             /\ running' = TRUE /\ buffers' = TRUE /\ engine' = TRUE
    /\ UNCHANGED <<dev, threads, lost>> /\ Others

\* The TX devices are started as soon as they are found.
OpenTx ==
    /\ At("openTx", "openRx")
    /\ \E txIn, txOut \in {"none", "made", "on"} :
          /\ txIn = "none" => txOut # "on"
          /\ dev' = [dev EXCEPT !["txIn"] = txIn, !["txOut"] = txOut]
    /\ UNCHANGED <<running, cards, buffers, engine, threads, lost>> /\ Others

InUse == IF cards = 2 THEN Devices ELSE DevicesOf["rx"]

OpenRx ==
    /\ \E rxIn, rxOut \in {"none", "made"} :
          dev' = [dev EXCEPT !["rxIn"] = rxIn, !["rxOut"] = rxOut]
    /\ At("openRx", IF \E d \in InUse : dev'[d] = "none" THEN "dropDevices"
                    ELSE IF cards = 2 THEN "retireTx" ELSE "makeRx")
    /\ UNCHANGED <<running, cards, buffers, engine, threads, lost>> /\ Others

(* Seeded bug: the TX devices, started early, are not stopped.               *)
DropRxDevices ==
    /\ At("dropDevices", "dropBuffers")
    /\ dev' = [dev EXCEPT !["rxIn"] = "none", !["rxOut"] = "none"]
    /\ running' = FALSE
    /\ UNCHANGED <<cards, buffers, engine, threads, lost>> /\ Others

\* A device was not found.
DropDevices ==
    /\ At("dropDevices", "dropBuffers")
    /\ dev' = NoDevices
    /\ running' = FALSE
    /\ UNCHANGED <<cards, buffers, engine, threads, lost>> /\ Others

DropBuffers ==
    /\ At("dropBuffers", "quiet")
    /\ buffers' = FALSE /\ engine' = FALSE
    /\ UNCHANGED <<running, cards, dev, threads, lost>> /\ Others

\* A device that had been found is not running: all devices are given up, and
\* what was made besides stays.
GiveUp ==
    /\ dev' = NoDevices
    /\ running' = FALSE /\ lost' = TRUE

Made(t, how) ==
    /\ thr' = [thr EXCEPT ![t] = how]
    /\ run' = [run EXCEPT ![t] = TRUE]
    /\ go' = [go EXCEPT ![t] = FALSE]

\* The new TxRxThread replaces one that was left behind, whose destructor stops
\* it and waits for its end.
RetireTx ==
    /\ At("retireTx", "makeTx")
    /\ run' = [run EXCEPT !["tx"] = FALSE]
    /\ UNCHANGED <<running, cards, stream, thr, go, player, lost>> /\ Others

MakeTx ==
    /\ thr["tx"] \notin Alive
    /\ \/ /\ \A d \in DevicesOf["tx"] : dev[d] = "on"
          /\ At("makeTx", "makeRx")
          /\ Made("tx", "started")
          /\ UNCHANGED <<running, dev, lost>>
       \/ /\ \E d \in DevicesOf["tx"] : dev[d] # "on"
          /\ At("makeTx", "quiet")
          /\ Made("tx", "made")
          /\ GiveUp
    /\ UNCHANGED <<cards, buffers, engine, player>> /\ Others

MakeRx ==
    /\ thr["rx"] \notin Alive
    /\ \/ /\ At("makeRx", "signal")
          /\ dev' = [d \in Devices |-> IF d \in DevicesOf["rx"] THEN "on" ELSE dev[d]]
          /\ Made("rx", "started")
          /\ UNCHANGED <<running, lost>>
       \/ /\ At("makeRx", "quiet")
          /\ Made("rx", "made")
          /\ GiveUp
    /\ UNCHANGED <<cards, buffers, engine, player>> /\ Others

AllRun == /\ \A d \in DevicesOf["tx"] : dev[d] # "made"
          /\ \A d \in DevicesOf["rx"] : dev[d] = "on"

\* Both threads are waited for before either is let go; then the devices are
\* looked at once more, and the rest of On follows.
Signal ==
    /\ \A t \in Present : thr[t] \notin {"made", "started"}
    /\ go' = [t \in Sides |-> thr[t] # "none"]
    /\ running' = AllRun
    /\ At("signal", IF AllRun THEN "reenable" ELSE "quiet")
    /\ UNCHANGED <<cards, stream, thr, run, player, lost>> /\ Others

On == \/ Prepare \/ Validate \/ OpenTx \/ OpenRx \/ DropDevices \/ DropBuffers
      \/ RetireTx \/ MakeTx \/ MakeRx \/ Signal

-----------------------------------------------------------------------------
(* performFreeDVOff_() and stopRxStream(); a failed On runs them too.       *)

\* Timers and plots are stopped, and so is a transmission.
Quiet ==
    /\ At("quiet", "stop")
    /\ UNCHANGED <<running, cards, stream, threads, lost>> /\ Others

(* Seeded bug: the FIFOs are freed while the threads are told to end.        *)
StopStreamFreesFirst ==
    /\ At("stop", IF running THEN "stopTx" ELSE "clean")
    /\ running' = FALSE
    /\ run' = [run EXCEPT !["tx"] = @ /\ ~running]
    /\ buffers' = (buffers /\ ~running)
    /\ UNCHANGED <<cards, dev, engine, thr, go, player, lost>> /\ Others

StopStream ==
    /\ At("stop", IF running THEN "stopTx" ELSE "clean")
    /\ running' = FALSE
    /\ run' = [run EXCEPT !["tx"] = @ /\ ~running]
    /\ UNCHANGED <<cards, stream, thr, go, player, lost>> /\ Others

\* A thread has been told to end; when it has, its devices are stopped.
Stopped(t) ==
    /\ thr[t] \notin Alive
    /\ thr' = [thr EXCEPT ![t] = "none"]
    /\ dev' = IF thr[t] = "none" THEN dev
              ELSE [d \in Devices |-> IF d \in DevicesOf[t] THEN "none" ELSE dev[d]]

StopTx ==
    /\ At("stopTx", "stopRx")
    /\ Stopped("tx")
    /\ run' = [run EXCEPT !["rx"] = FALSE]
    /\ UNCHANGED <<running, cards, buffers, engine, go, player, lost>> /\ Others

StopRx ==
    /\ At("stopRx", "free")
    /\ Stopped("rx")
    /\ UNCHANGED <<running, cards, buffers, engine, run, go, player, lost>> /\ Others

Free ==
    /\ At("free", "clean")
    /\ buffers' = FALSE /\ engine' = FALSE
    /\ UNCHANGED <<running, cards, dev, threads, lost>> /\ Others

Clean ==
    /\ At("clean", "reenable")
    /\ modem' = FALSE
    /\ UNCHANGED <<running, cards, stream, threads, window, lost>>

Off == Quiet \/ StopStream \/ StopTx \/ StopRx \/ Free \/ Clean

(* Seeded bug: the last step looks at the button's label only.               *)
ReenableOnly ==
    /\ op = "reenable"
    /\ op' = "idle" /\ enabled' = TRUE
    /\ UNCHANGED <<running, starting, cards, stream, threads, modem, window, lost>>

\* The last step of both.  Off closes the window if that was asked for.
Reenable ==
    /\ op = "reenable"
    /\ op' = "idle" /\ enabled' = TRUE
    /\ frame' = IF terminating /\ ~starting THEN "destroyed" ELSE frame
    /\ UNCHANGED <<running, starting, cards, stream, threads, modem, dialog,
                   terminating, lost>>

-----------------------------------------------------------------------------
(* A TxRxThread: Entry().  Its pipeline holds a PlaybackStep with a thread  *)
(* of its own, which has the UI thread close the file when it is played.    *)

Moves(t, from, to) == thr[t] = from /\ thr' = [thr EXCEPT ![t] = to]

Ready(t) ==
    /\ Moves(t, "started", "ready")
    /\ player' = [player EXCEPT ![t] = "reading"]
    /\ UNCHANGED <<run, go>>

Begin(t)  == go[t] /\ Moves(t, "ready", "working") /\ UNCHANGED <<run, go, player>>
Finish(t) == ~run[t] /\ Moves(t, "working", "ending") /\ UNCHANGED <<run, go, player>>

\* The pipeline is deleted, and its destructor waits for the player.
End(t) ==
    /\ player[t] # "asking"
    /\ Moves(t, "ending", "done")
    /\ player' = [player EXCEPT ![t] = "none"]
    /\ UNCHANGED <<run, go>>

FilePlayed(t) ==
    /\ player[t] = "reading"
    /\ player' = [player EXCEPT ![t] = "asking"]
    /\ UNCHANGED <<thr, run, go>>

\* The UI thread closes the file the player has read to its end.  The player
\* looks for the end of the pipeline before it reads another one.
CloseFile(t) ==
    /\ player[t] = "asking"
    /\ player' = [player EXCEPT ![t] = IF thr[t] = "ending" THEN "none" ELSE "reading"]
    /\ UNCHANGED <<thr, run, go>>

Works(t) == Ready(t) \/ Begin(t) \/ Finish(t) \/ End(t)
Elsewhere == UNCHANGED <<session, stream, modem, window, lost>>

-----------------------------------------------------------------------------
\* The code has no say any more once the window is gone.
Next ==
    /\ frame = "open"
    /\ \/ Click \/ OnClose \/ OnExit
       \/ On \/ Off \/ Reenable
       \/ \E t \in Sides : (Works(t) \/ FilePlayed(t) \/ CloseFile(t)) /\ Elsewhere

\* The On/Off thread, the TX and RX threads and the UI thread run.
Fairness ==
    /\ WF_vars(frame = "open" /\ (On \/ Off \/ Reenable))
    /\ \A t \in Sides : /\ WF_vars(frame = "open" /\ Works(t) /\ Elsewhere)
                        /\ WF_vars(frame = "open" /\ CloseFile(t) /\ Elsewhere)

Spec == Init /\ [][Next]_vars /\ Fairness

-----------------------------------------------------------------------------
Steps == {"idle", "prepare", "validate", "openTx", "openRx", "dropDevices",
          "dropBuffers", "retireTx", "makeTx", "makeRx", "signal", "quiet",
          "stop", "stopTx", "stopRx", "free", "clean", "reenable"}

\* Every variable is in its range, and the button is disabled exactly while an
\* On or Off is under way.
TypeOK ==
    /\ running \in BOOLEAN /\ enabled \in BOOLEAN /\ starting \in BOOLEAN
    /\ buffers \in BOOLEAN /\ engine \in BOOLEAN /\ modem \in BOOLEAN
    /\ dialog \in BOOLEAN /\ terminating \in BOOLEAN /\ lost \in BOOLEAN
    /\ cards \in Cards /\ op \in Steps /\ enabled = (op = "idle")
    /\ dev \in [Devices -> {"none", "made", "on"}]
    /\ thr \in [Sides -> Alive \cup {"none", "made", "done"}]
    /\ run \in [Sides -> BOOLEAN] /\ go \in [Sides -> BOOLEAN]
    /\ player \in [Sides -> {"none", "reading", "asking"}]
    /\ frame \in {"open", "destroyed", "crashed"}

\* Unless a device that was found did not start: the FIFOs are there for every
\* device that runs and every thread, the modem is there for every thread, and
\* neither thread works before both are ready ("full duplex starts without
\* dropouts").
WorkersAreServed ==
    ~lost => /\ (\E d \in Devices : dev[d] = "on") => buffers
             /\ \A t \in Sides :
                   /\ thr[t] \in Alive => buffers /\ modem
                   /\ thr[t] = "working" =>
                         \A u \in Present : thr[u] \notin {"made", "started"}

\* Nothing of a session is left once it is off, whether it was stopped or did
\* not get to start, unless a device that was found did not start.
OffLeavesNothing ==
    op = "idle" /\ ~running /\ ~lost =>
        /\ dev = NoDevices /\ Present = {} /\ ~buffers /\ ~engine /\ ~modem
        /\ \A t \in Sides : player[t] = "none"

\* An On or Off comes to its end: neither a thread that waits for the UI thread
\* nor one that waits for another thread to end is left waiting.
OnOffCompletes == ~enabled ~> enabled \/ lost \/ frame # "open"

\* A window that is closed while the modem runs or is being turned off goes
\* away.
CloseCompletes == terminating /\ ~enabled /\ ~starting ~> lost \/ frame # "open"

\* Every On, Off and close completes.
Completes == OnOffCompletes /\ CloseCompletes

\* The button does not stay disabled, even if a device could not be started.
ButtonsComeBack == ~enabled ~> enabled \/ frame # "open"
=============================================================================
