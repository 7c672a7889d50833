----------------------------- MODULE PttControl -----------------------------
(***************************************************************************)
(* Transmit control on the UI thread (ongui.cpp, voicekeyer.cpp,           *)
(* playrec.cpp, util.cpp, main.cpp).                                       *)
(*                                                                         *)
(* togglePTT() waits in loops that call wxApp::Yield(true), so while one   *)
(* call of it is still running the UI thread dispatches clicks, key        *)
(* presses, timer ticks and the functions queued with CallAfter(), and any *)
(* of these may call togglePTT() again.  The model keeps the calls that    *)
(* have not returned on `stack'; what runs between two waits is one step.  *)
(* A call made from inside Yield() finds that the application is already   *)
(* yielding: its own Yield(true) dispatches nothing, so two calls are the  *)
(* most that are ever open.                                                *)
(*                                                                         *)
(* The state of the UI thread is the record `ui'; handlers are operators   *)
(* from record to record, composed in the order of the code.  The modem    *)
(* runs in RADE mode, the rig's PTT controller is connected, and pages,    *)
(* labels, colours and recording are left out.                             *)
(***************************************************************************)
EXTENDS Naturals, Sequences, SequencesExt

CONSTANTS
    FullDuplex,  \* BOOLEAN: ~g_half_duplex, the TX pipeline always runs
    Monitor,     \* BOOLEAN: monitorVoiceKeyerAudio
    Repeats,     \* voiceKeyerRepeats
    Inputs       \* what the user may do, a subset of UserInputs

UserInputs == {"ptt", "space", "keyer", "tune", "close"}

ASSUME ParametersAssumption ==
    /\ {FullDuplex, Monitor} \subseteq BOOLEAN
    /\ Repeats \in Nat
    /\ Inputs \subseteq UserInputs

VARIABLES
    ui,     \* what the UI thread writes
    stack,  \* calls of togglePTT() inside a wait, innermost last
    calls,  \* functions queued with CallAfter()
    line,   \* level of the PTT input line
    seen,   \* currentPttInputState_ of the polling task
    config  \* the settings, which do not change between On and Off

pttVars == <<ui, stack, calls, line, seen, config>>

TxDelay  == config.txDelay   \* txRxDelayMilliseconds > 0
PttInput == config.pttInput  \* there is an m_pttInSerialPort

-----------------------------------------------------------------------------
(* togglePTT().  An operator takes and returns [ui, stack, calls].          *)

\* What the caller does once togglePTT() has returned.
Resume(w, cont) ==
    CASE cont = "return"  -> w
      [] cont = "vkStart" ->
           [w EXCEPT !.ui.vk = "tx", !.ui.monitoring = Monitor \/ @]
      [] cont = "vkStop"  ->
           [w EXCEPT !.ui.vk = "idle", !.calls = Append(@, "stopPlay")]
      [] cont = "close"   -> [w EXCEPT !.ui.stopping = TRUE]

Wait(w, at, cont) == [w EXCEPT !.stack = Append(@, [at |-> at, cont |-> cont])]

(* Seeded bug: the button keeps whatever an event has made of it.           *)
FinishUnforced(w, newTx, cont) == Resume([w EXCEPT !.ui.tuneOk = ~newTx], cont)

\* The button is forced to the state this call has read.
Finish(w, newTx, cont) ==
    Resume([w EXCEPT !.ui.button = newTx, !.ui.tuneOk = ~newTx], cont)

GoOnAir(w, cont) ==
    Finish([w EXCEPT !.ui.gTx = TRUE, !.ui.suspended = FALSE], TRUE, cont)

(* Seeded bug: the reporters are told of the start of a transmission only.   *)
SwitchReportsStart(w, cont) ==
    LET newTx == w.ui.button
        told  == [w EXCEPT !.ui.rig = newTx, !.ui.reported = newTx \/ @]
        armed == [told EXCEPT !.ui.endingTx = FALSE]
    IN  IF ~newTx THEN Finish(told, FALSE, cont)
        ELSE IF TxDelay THEN Wait(armed, "starting", cont)
        ELSE GoOnAir(armed, cont)

\* The part both directions share: key or unkey the rig as the button says.
Switch(w, cont) ==
    LET newTx == w.ui.button
        told  == [w EXCEPT !.ui.rig = newTx, !.ui.reported = newTx]
        armed == [told EXCEPT !.ui.endingTx = FALSE]
    IN  IF ~newTx THEN Finish(told, FALSE, cont)
        ELSE IF TxDelay THEN Wait(armed, "starting", cont)
        ELSE GoOnAir(armed, cont)

TogglePTT(w, cont) ==
    IF w.ui.gTx
    THEN Wait([w EXCEPT !.ui.suspended = PttInput], "draining", cont)
    ELSE Switch([w EXCEPT !.ui.suspended = PttInput, !.ui.onOff = FALSE], cont)

\* The end of the last wait of the tx -> rx direction.
EndTx(w, cont) ==
    Switch([w EXCEPT !.ui.gTx = FALSE, !.ui.endingTx = FALSE,
                     !.ui.suspended = FALSE,
                     !.ui.onOff = TRUE, !.ui.vkOk = TRUE], cont)

-----------------------------------------------------------------------------
(* VoiceKeyerProcessEvent().  vk_state is assigned when the event has been  *)
(* processed, after any togglePTT() of it.                                  *)

\* VoiceKeyerStartTx(); the file may fail to open or have a wrong format.
VoiceKeyerStartTx(w, opens) ==
    LET p == [w EXCEPT !.ui.playing = TRUE]
    IN  IF ~opens THEN [w EXCEPT !.ui.vk = "idle"]
        ELSE IF w.ui.button THEN Resume(p, "vkStart")
        ELSE TogglePTT([p EXCEPT !.ui.button = TRUE], "vkStart")

\* Every state but VK_TX switches the monitoring of the keyer off.
Unmonitored(w) == [w EXCEPT !.ui.monitoring = @ /\ w.ui.vk = "tx"]

VkStart(w, opens) ==
    VoiceKeyerStartTx([Unmonitored(w) EXCEPT !.ui.repeat = 0], opens)

VkSpaceBar(w) ==
    IF w.ui.vk = "tx"
    THEN TogglePTT([w EXCEPT !.ui.button = FALSE, !.ui.endingTx = TRUE], "vkStop")
    ELSE [Unmonitored(w) EXCEPT !.ui.vk = "idle"]

(* Seeded bug: one repeat too many.                                         *)
VkPlayFinishedOnceMore(w) ==
    IF w.ui.vk = "tx"
    THEN [w EXCEPT !.ui.button = FALSE, !.ui.endingTx = TRUE,
                   !.ui.repeat = @ + 1,
                   !.ui.vk = IF w.ui.repeat <= Repeats THEN "rx" ELSE "idle",
                   !.calls = Append(@, "toggle")]
    ELSE Unmonitored(w)

(* Seeded bug: the button is released and nothing ends the transmission.     *)
VkPlayFinishedNoToggle(w) ==
    IF w.ui.vk = "tx"
    THEN [w EXCEPT !.ui.button = FALSE, !.ui.endingTx = TRUE,
                   !.ui.repeat = @ + 1,
                   !.ui.vk = IF w.ui.repeat < Repeats THEN "rx" ELSE "idle"]
    ELSE Unmonitored(w)

VkPlayFinished(w) ==
    IF w.ui.vk = "tx"
    THEN [w EXCEPT !.ui.button = FALSE, !.ui.endingTx = TRUE,
                   !.ui.repeat = @ + 1,
                   !.ui.vk = IF w.ui.repeat < Repeats THEN "rx" ELSE "idle",
                   !.calls = Append(@, "toggle")]
    ELSE Unmonitored(w)

\* StopPlayFileToMicIn()
StopPlayFileToMicIn(w) ==
    IF w.ui.playing THEN VkPlayFinished([w EXCEPT !.ui.playing = FALSE]) ELSE w

\* The VK_DT event: what the demodulator and the timers say is an outcome.
VkTick(w, outcome, opens) ==
    LET u == Unmonitored(w)
    IN  CASE w.ui.vk = "rx" /\ outcome = "sync"    -> [u EXCEPT !.ui.vk = "sync"]
          [] w.ui.vk = "rx" /\ outcome = "timeUp"  -> VoiceKeyerStartTx(u, opens)
          [] w.ui.vk = "sync" /\ outcome = "noSync" -> [u EXCEPT !.ui.vk = "rx"]
          [] w.ui.vk = "sync" /\ outcome = "timeUp" -> [u EXCEPT !.ui.vk = "idle"]
          [] OTHER -> u

-----------------------------------------------------------------------------
(* Events.                                                                  *)

PttInit ==
    /\ ui = [button |-> FALSE, gTx |-> FALSE, endingTx |-> FALSE, rig |-> FALSE,
             reported |-> FALSE, suspended |-> FALSE, onOff |-> TRUE,
             tuneOk |-> TRUE, pttOk |-> TRUE, vkOk |-> TRUE, tuning |-> FALSE,
             vk |-> "idle", repeat |-> 0, playing |-> FALSE,
             monitoring |-> FALSE, stopping |-> FALSE]
    /\ stack = <<>>
    /\ calls = <<>>
    /\ line = FALSE
    /\ seen = FALSE
    /\ config \in [txDelay : BOOLEAN, pttInput : BOOLEAN]

Here == [ui |-> ui, stack |-> stack, calls |-> calls]

Becomes(w) == ui' = w.ui /\ stack' = w.stack /\ calls' = w.calls

\* The UI thread dispatches events in its main loop and in the waits of an
\* outermost togglePTT().
Dispatching == Len(stack) <= 1 /\ ~ui.stopping

\* The event loop empties the queue between two events of the user, so a call
\* that the UI thread has queued runs before the next of them; one that another
\* thread has queued may come after it.
OwnCallsDone == ~Contains(calls, "toggle") /\ ~Contains(calls, "stopPlay")

UserEvent(input) ==
    /\ Dispatching
    /\ OwnCallsDone
    /\ input \in Inputs
    /\ UNCHANGED <<line, seen, config>>

\* OnTogBtnPTT(); the click has already flipped the button.
OnTogBtnPTT ==
    /\ UserEvent("ptt")
    /\ ui.pttOk
    /\ LET w == [Here EXCEPT !.ui.button = ~@]
       IN  Becomes(IF ui.vk = "tx" THEN VkSpaceBar(w) ELSE TogglePTT(w, "return"))

\* FilterEvent(): the space bar, whatever buttons are enabled.
FilterEvent ==
    /\ UserEvent("space")
    /\ Becomes(IF ui.vk = "idle"
               THEN TogglePTT([Here EXCEPT !.ui.button = ~@], "return")
               ELSE VkSpaceBar(Here))

OnTogBtnVoiceKeyerClick ==
    /\ UserEvent("keyer")
    /\ ui.vkOk
    /\ \E opens \in BOOLEAN :
          Becomes(IF ui.vk = "idle" THEN VkStart(Here, opens) ELSE VkSpaceBar(Here))

OnTogBtnTune ==
    /\ UserEvent("tune")
    /\ ui.tuneOk
    /\ LET newTx == ~ui.tuning
       IN  Becomes([Here EXCEPT !.ui.tuning = newTx, !.ui.rig = newTx,
                                !.ui.onOff = ~newTx, !.ui.vkOk = ~newTx,
                                !.ui.pttOk = ~newTx])

\* topFrame_OnClose() and OnExit(), as far as the call of OnTogBtnOnOff().
OnClose ==
    /\ UserEvent("close")
    /\ Becomes(IF ui.button THEN TogglePTT(Here, "close")
                            ELSE Resume(Here, "close"))

\* The VK_DT event of the plot timer.
OnTimer ==
    /\ Dispatching
    /\ OwnCallsDone
    /\ \E outcome \in {"none", "sync", "noSync", "timeUp"}, opens \in BOOLEAN :
          Becomes(VkTick(Here, outcome, opens))
    /\ UNCHANGED <<line, seen, config>>

\* The function at the head of the queue.
RunCall ==
    /\ Dispatching
    /\ calls # <<>>
    /\ LET w == [Here EXCEPT !.calls = Tail(@)]
           pressed(b) == IF b = ui.button THEN w
                         ELSE TogglePTT([w EXCEPT !.ui.button = b], "return")
       IN  Becomes(CASE Head(calls) = "toggle"   -> TogglePTT(w, "return")
                     [] Head(calls) = "pressed"  -> pressed(TRUE)
                     [] Head(calls) = "released" -> pressed(FALSE)
                     [] OTHER                    -> StopPlayFileToMicIn(w))
    /\ UNCHANGED <<line, seen, config>>

\* A wait of the innermost call ends.  Yield() leaves nothing in the queue but
\* what other threads have put there since.
WaitEnds(at) ==
    /\ stack # <<>>
    /\ Last(stack).at = at
    /\ Len(stack) = 1 => OwnCallsDone
    /\ UNCHANGED <<line, seen, config>>

Popped == [Here EXCEPT !.stack = Front(@)]

\* The samples under way have gone through: ask for the end-of-over frame.
AskForEoo ==
    /\ WaitEnds("draining")
    /\ Becomes(Wait([Popped EXCEPT !.ui.endingTx = TRUE], "flushing", Last(stack).cont))

\* The frame is out, or the time limits have passed.
LeaveTx ==
    /\ WaitEnds("flushing")
    /\ Becomes(EndTx(Popped, Last(stack).cont))

EnterTx ==
    /\ WaitEnds("starting")
    /\ Becomes(GoOnAir(Popped, Last(stack).cont))

-----------------------------------------------------------------------------
(* Other threads.                                                           *)

\* The TX pipeline has played the file to its end.  Its thread waits in
\* executeOnUiThreadAndWait_() until the call has run.
PlayFinished ==
    /\ ui.playing
    /\ FullDuplex \/ ui.gTx \/ ui.monitoring
    /\ ~Contains(calls, "fileDone")
    /\ calls' = Append(calls, "fileDone")
    /\ UNCHANGED <<ui, stack, line, seen, config>>

\* A key or foot switch on the PTT input.  The queue is bounded by letting the
\* line change only when its last change has been handled.
LineChanges ==
    /\ PttInput
    /\ line = seen
    /\ ~Contains(calls, "pressed") /\ ~Contains(calls, "released")
    /\ line' = ~line
    /\ UNCHANGED <<ui, stack, calls, seen, config>>

\* pollSerialPort_() and the handler of onPttChange.
PollSerialPort ==
    /\ line # seen
    /\ ~ui.suspended
    /\ seen' = line
    /\ calls' = Append(calls, IF line THEN "pressed" ELSE "released")
    /\ UNCHANGED <<ui, stack, line, config>>

-----------------------------------------------------------------------------
UiStep ==
    \/ OnTogBtnPTT \/ FilterEvent \/ OnTogBtnVoiceKeyerClick \/ OnTogBtnTune
    \/ OnClose \/ OnTimer

Waiting == AskForEoo \/ LeaveTx \/ EnterTx

PttNext == UiStep \/ RunCall \/ Waiting \/ PlayFinished \/ LineChanges \/ PollSerialPort

\* The waits have time limits, Yield() runs what is queued, and the thread that
\* plays the file goes on while the TX pipeline runs.
PttSpec == PttInit /\ [][PttNext]_pttVars
           /\ WF_pttVars(Waiting) /\ WF_pttVars(RunCall) /\ WF_pttVars(PlayFinished)

-----------------------------------------------------------------------------
Frames == [at : {"draining", "flushing", "starting"},
           cont : {"return", "vkStart", "vkStop", "close"}]

\* The values of the variables; no more than two calls of togglePTT() are open
\* and each of the other threads has at most one function queued.
PttTypeOK ==
    /\ \A f \in DOMAIN ui \ {"vk", "repeat"} : ui[f] \in BOOLEAN
    /\ ui.vk \in {"idle", "tx", "rx", "sync"}
    /\ ui.repeat \in 0 .. Repeats + 1
    /\ stack \in BoundedSeq(Frames, 2)
    /\ calls \in Seq({"toggle", "stopPlay", "fileDone", "pressed", "released"})
    /\ line \in BOOLEAN /\ seen \in BOOLEAN

\* No handler is under way and none is queued.
Settled == stack = <<>> /\ calls = <<>> /\ ~ui.stopping

\* Once everything has been handled the button shows whether the modem
\* transmits, whatever was pressed during the waits of togglePTT().
ButtonShowsTx == Settled => ui.button = ui.gTx

\* Without a TX delay the rig and the reporters agree with the modem as well,
\* and a transmission is not marked as ending.
TxAgrees ==
    Settled /\ ~TxDelay =>
        /\ ui.reported = ui.gTx
        /\ ui.tuning \/ ui.rig = ui.gTx
        /\ ~(ui.gTx /\ ui.endingTx)

\* "g_tx governs when audio actually goes out during TX" (ongui.cpp): audio goes
\* out only while the rig is keyed.
AudioOnlyWhenKeyed == ui.gTx => ui.rig

\* Without a TX delay it does, during the waits at the end of a transmission too.
KeyedWithoutDelay == TxDelay \/ AudioOnlyWhenKeyed

\* On/Off, which togglePTT() disables, is usable again once a transmission has
\* ended, unless a PTT input has ended it behind the voice keyer's back.
ReceivingIsUnlocked ==
    Settled /\ ~ui.gTx /\ ~ui.tuning /\ ~PttInput => ui.onOff

\* "In this state we are transmitting and playing a wave file to Mic In"
\* (voicekeyer.cpp, of VK_TX), as long as nothing but the UI's own events can
\* end a transmission and no event can come between keying and transmitting.
KeyerTransmits ==
    Settled /\ ui.vk = "tx" /\ ~TxDelay /\ ~PttInput => ui.gTx /\ ui.playing

\* What the operator sees agrees with what the modem does: the button, On/Off
\* and the voice keyer.
ControlsAgree == ButtonShowsTx /\ ReceivingIsUnlocked /\ KeyerTransmits

\* The rig and the reporters follow the modem, and no audio goes out unkeyed.
RigFollowsTx == TxAgrees /\ KeyedWithoutDelay

\* A transmission whose button is released ends, unless the button is pressed
\* again: no event between the release and the end makes it last.
ReleaseEndsTx == (ui.gTx /\ ~ui.button) ~> (~ui.gTx \/ ui.button)

\* The voice keyer does not transmit for ever.  (With a TX delay longer than
\* the file it does: the file ends before vk_state says VK_TX, and the event
\* that ends the transmission is not raised again.)
KeyerTxEnds == (ui.vk = "tx" /\ ~TxDelay) ~> (ui.vk # "tx" \/ ui.stopping)

\* No transmission lasts that the operator or the file has ended.
TxEnds == ReleaseEndsTx /\ KeyerTxEnds
=============================================================================
