------------------------------ MODULE EndOfOver ------------------------------
(***************************************************************************)
(* The end of a RADE transmission (TxRxThread.cpp, RADETransmitStep.cpp,   *)
(* main.cpp, ongui.cpp).                                                   *)
(*                                                                         *)
(* Four threads take part and share atomics and two FIFOs, no lock: the    *)
(* UI thread in the tx -> rx half of togglePTT(), the TX thread, and the   *)
(* callbacks of the microphone and of the radio's output device.  The UI   *)
(* sets endingTx, the microphone stops, the TX thread encodes what is left *)
(* of infifo2 and then queues the end-of-over frame (EOO); the UI waits    *)
(* for that and for outfifo1 to run empty before it leaves transmit.       *)
(*                                                                         *)
(* A callback is two steps, its test and its effect, and a round of the TX *)
(* thread is the read of infifo2 and the rest.  infifo2 counts blocks of   *)
(* FRAME_DURATION_MS and outfifo1 units of the modem's signal; `ahead' is  *)
(* how much of outfifo1 goes out up to the end of this over's first EOO.   *)
(* The counter g_outfifo1_empty matters only in that it changes:           *)
(* `ranEmpty' is TRUE when it has since the UI sampled it.                 *)
(***************************************************************************)
EXTENDS Naturals

CONSTANTS
    InCapacity,      \* blocks infifo2 holds
    OutCapacity,     \* units outfifo1 holds
    BlocksPerFrame,  \* blocks of speech in a modem frame
    FrameUnits,      \* rade_n_tx_out()
    EooUnits,        \* rade_n_tx_eoo_out() with the silence after it
    CardUnits        \* what the output device asks for at a time

(* Seeded bug: the room of a frame of speech is taken for that of any frame. *)
ModemFrameOfSpeech == FrameUnits

\* freedvInterface.getTxNNomModemSamples()
ModemFrame == IF FrameUnits > EooUnits THEN FrameUnits ELSE EooUnits

ASSUME SizesAssumption ==
    /\ {InCapacity, OutCapacity, BlocksPerFrame,
        FrameUnits, EooUnits, CardUnits} \subseteq Nat \ {0}
    /\ OutCapacity >= FrameUnits
    /\ OutCapacity >= EooUnits

VARIABLES
    halfDuplex,   \* g_half_duplex, a setting
    togglePtt,    \* where togglePTT() is: "rx" and "tx" between calls
    expired,      \* history: a time limit of this over's end ran out
    gTx, endingTx, eooEnqueued,        \* the atomics
    tx,           \* where txProcessing_() is
    deferReset, hasEooBeenSent,        \* the TX thread's own
    stepIn,       \* blocks RADETransmitStep holds of an unfinished frame
    infifo2, outfifo1,
    mic,          \* the microphone callback has passed its test
    out,          \* toRead of the output callback, or NoCall
    ranEmpty,
    eoo, ahead,   \* history: what has become of this over's EOO
    blockDone,    \* history: a block was processed in this over, before
                  \* the wait for its EOO ended
    overlap       \* history: the output callback ran as the UI sampled

uiVars  == <<togglePtt, expired, gTx, endingTx>>
txVars  == <<tx, deferReset, hasEooBeenSent, stepIn, eooEnqueued>>
fifos   == <<infifo2, outfifo1>>
devices == <<mic, out, ranEmpty>>
hist    == <<eoo, ahead, blockDone, overlap>>
vars    == <<halfDuplex, uiVars, txVars, fifos, devices, hist>>

NoCall == CardUnits + 1

Free == OutCapacity - outfifo1

\* GenericFIFO::write(): all or nothing.
Written(n) == IF n <= Free THEN outfifo1 + n ELSE outfifo1

\* What the RADE step gives for a block when it has held `blocks' before it.
Encoded(blocks) == IF blocks + 1 = BlocksPerFrame THEN FrameUnits ELSE 0

Init ==
    /\ halfDuplex \in BOOLEAN
    /\ togglePtt = "rx" /\ tx = "idle" /\ out = NoCall /\ deferReset = FALSE
    /\ gTx = FALSE /\ endingTx = FALSE /\ mic = FALSE /\ ranEmpty = FALSE
    /\ eooEnqueued = FALSE /\ hasEooBeenSent = FALSE
    /\ eoo = "none" /\ expired = FALSE /\ blockDone = FALSE /\ overlap = FALSE
    /\ stepIn = 0 /\ infifo2 = 0 /\ outfifo1 = 0 /\ ahead = 0

-----------------------------------------------------------------------------
(* The UI thread: togglePTT().                                              *)

StartTx ==
    /\ togglePtt = "rx"
    /\ togglePtt' = "tx" /\ gTx' = TRUE
    /\ expired' = FALSE /\ blockDone' = FALSE
    /\ eoo' = "none" /\ ahead' = 0
    /\ UNCHANGED <<halfDuplex, endingTx, txVars, fifos, devices, overlap>>

\* The button is released and the first pause is over.
EndOver ==
    /\ togglePtt = "tx"
    /\ togglePtt' = "eooWait" /\ endingTx' = TRUE
    /\ UNCHANGED <<halfDuplex, expired, gTx, txVars, fifos, devices, hist>>

(* Seeded bug: g_outfifo1_empty is sampled before the wait for the EOO.      *)
SampleEmptyEarly ==
    /\ togglePtt = "eooWait"
    /\ togglePtt' = "emptyWait"
    /\ overlap' = (out # NoCall)
    /\ UNCHANGED <<halfDuplex, gTx, endingTx, txVars, fifos, devices, eoo,
                   ahead, blockDone>>

\* g_outfifo1_empty is sampled when the wait for the EOO ends.
SampleEmpty ==
    /\ togglePtt = "eooWait"
    /\ togglePtt' = "emptyWait"
    /\ ranEmpty' = FALSE
    /\ overlap' = (out # NoCall)
    /\ UNCHANGED <<halfDuplex, gTx, endingTx, txVars, fifos, mic, out, eoo,
                   ahead, blockDone>>

EooSeen == SampleEmpty /\ eooEnqueued /\ UNCHANGED expired

EmptySeen ==
    /\ togglePtt = "emptyWait" /\ ranEmpty
    /\ togglePtt' = "pause"
    /\ UNCHANGED <<halfDuplex, expired, gTx, endingTx, txVars, fifos, devices,
                   hist>>

\* Two seconds without the EOO, or one without running empty.
EooWaitExpires == SampleEmpty /\ ~eooEnqueued /\ expired' = TRUE

EmptyWaitExpires ==
    /\ togglePtt = "emptyWait"
    /\ togglePtt' = "pause" /\ expired' = TRUE
    /\ UNCHANGED <<halfDuplex, gTx, endingTx, txVars, fifos, devices, hist>>

\* The pauses for latency and for txRxDelayMilliseconds are over.
ClearTx ==
    /\ togglePtt = "pause"
    /\ togglePtt' = "leaving" /\ gTx' = FALSE
    /\ UNCHANGED <<halfDuplex, expired, endingTx, txVars, fifos, devices, hist>>

ClearEnding ==
    /\ togglePtt = "leaving"
    /\ togglePtt' = "rx" /\ endingTx' = FALSE
    /\ UNCHANGED <<halfDuplex, expired, gTx, txVars, fifos, devices, hist>>

-----------------------------------------------------------------------------
(* The TX thread: txProcessing_().                                          *)

Transmitting == halfDuplex => gTx

TxRests ==
    /\ tx = "idle" /\ ~Transmitting
    /\ deferReset' = TRUE
    /\ UNCHANGED <<halfDuplex, uiVars, tx, hasEooBeenSent, stepIn, eooEnqueued,
                   fifos, devices, hist>>

TxEnters ==
    /\ tx = "idle" /\ Transmitting
    /\ tx' = "room"
    /\ IF deferReset
       THEN deferReset' = FALSE /\ stepIn' = 0 /\ infifo2' = 0 /\ outfifo1' = 0
       ELSE UNCHANGED <<deferReset, stepIn, fifos>>
    /\ UNCHANGED <<halfDuplex, uiVars, hasEooBeenSent, eooEnqueued, devices,
                   hist>>

TxFull ==
    /\ tx = "room" /\ Free < ModemFrame
    /\ tx' = "idle"
    /\ UNCHANGED <<halfDuplex, uiVars, deferReset, hasEooBeenSent, stepIn,
                   eooEnqueued, fifos, devices, hist>>

TxReads ==
    /\ tx = "room" /\ Free >= ModemFrame
    /\ IF infifo2 > 0 THEN tx' = "got" /\ infifo2' = infifo2 - 1
                      ELSE tx' = "missed" /\ UNCHANGED infifo2
    /\ UNCHANGED <<halfDuplex, uiVars, deferReset, hasEooBeenSent, stepIn,
                   eooEnqueued, outfifo1, devices, hist>>

(* Seeded bug: what is left of infifo2 is not encoded once the over ends.    *)
OverIsReadOutAtOnce == tx \in {"got", "missed"} /\ endingTx

\* Nothing is left to encode and the over is to end.
OverIsReadOut == tx = "missed" /\ endingTx

\* A block, or silence for want of one, goes through the pipeline; macOS may
\* then ask the thread to stop (mustStopWork()).
TxBlock ==
    /\ tx \in {"got", "missed"} /\ ~OverIsReadOut
    /\ eooEnqueued' = FALSE /\ hasEooBeenSent' = FALSE
    /\ blockDone' = (blockDone \/ togglePtt \in {"tx", "eooWait"})
    /\ stepIn' = (stepIn + 1) % BlocksPerFrame
    /\ outfifo1' = Written(Encoded(stepIn))
    /\ tx' \in {"room", "idle"}
    /\ UNCHANGED <<halfDuplex, uiVars, deferReset, infifo2, devices, eoo, ahead,
                   overlap>>

\* restartTxVocoder(), and what it queued comes out of the pipeline at once.
TxSendsEoo ==
    /\ OverIsReadOut /\ ~hasEooBeenSent
    /\ hasEooBeenSent' = TRUE
    /\ outfifo1' = Written(EooUnits)
    /\ IF eoo = "played" THEN UNCHANGED <<eoo, ahead>>
       ELSE IF EooUnits <= Free
       THEN eoo' = "queued" /\ ahead' = (IF eoo = "queued" THEN ahead ELSE outfifo1')
       ELSE eoo' = "lost" /\ UNCHANGED ahead
    /\ tx' = "idle"
    /\ UNCHANGED <<halfDuplex, uiVars, deferReset, stepIn, eooEnqueued, infifo2,
                   devices, blockDone, overlap>>

(* Seeded bug: the mark is cleared here, so that the EOO is sent again.      *)
TxHasSentEooClears ==
    /\ OverIsReadOut /\ hasEooBeenSent
    /\ eooEnqueued' = TRUE /\ hasEooBeenSent' = FALSE
    /\ tx' = "idle"
    /\ UNCHANGED <<halfDuplex, uiVars, deferReset, stepIn, fifos, devices,
                   hist>>

\* The pipeline has nothing more.
TxHasSentEoo ==
    /\ OverIsReadOut /\ hasEooBeenSent
    /\ eooEnqueued' = TRUE
    /\ tx' = "idle"
    /\ UNCHANGED <<halfDuplex, uiVars, deferReset, hasEooBeenSent, stepIn,
                   fifos, devices, hist>>

-----------------------------------------------------------------------------
(* The devices: OnTxInAudioData_() and OnTxOutAudioData_().                 *)

MicHeard ==
    /\ ~mic /\ ~endingTx
    /\ mic' = TRUE
    /\ UNCHANGED <<halfDuplex, uiVars, txVars, fifos, out, ranEmpty, hist>>

(* Seeded bug: the result of the write, a full FIFO, is not looked at.       *)
MicWritesAlways ==
    /\ mic
    /\ mic' = FALSE
    /\ infifo2' = infifo2 + 1
    /\ UNCHANGED <<halfDuplex, uiVars, txVars, outfifo1, out, ranEmpty, hist>>

MicWrites ==
    /\ mic
    /\ mic' = FALSE
    /\ infifo2' = IF infifo2 < InCapacity THEN infifo2 + 1 ELSE infifo2
    /\ UNCHANGED <<halfDuplex, uiVars, txVars, outfifo1, out, ranEmpty, hist>>

OutAsks ==
    /\ out = NoCall
    /\ out' = IF outfifo1 < CardUnits THEN outfifo1 ELSE CardUnits
    /\ UNCHANGED <<halfDuplex, uiVars, txVars, fifos, mic, ranEmpty, hist>>

\* A read of more than there is (the FIFO was reset meanwhile) takes nothing.
OutPlays ==
    /\ out # NoCall
    /\ out' = NoCall
    /\ ranEmpty' = (ranEmpty \/ out < CardUnits)
    /\ IF out <= outfifo1
       THEN /\ outfifo1' = outfifo1 - out
            /\ ahead' = IF out < ahead THEN ahead - out ELSE 0
            /\ eoo' = IF eoo = "queued" /\ ahead' = 0 THEN "played" ELSE eoo
       ELSE UNCHANGED <<outfifo1, ahead, eoo>>
    /\ UNCHANGED <<halfDuplex, uiVars, txVars, infifo2, mic, blockDone,
                   overlap>>

-----------------------------------------------------------------------------
Ui      == StartTx \/ EndOver \/ EooSeen \/ EmptySeen \/ ClearTx \/ ClearEnding
Expires == EooWaitExpires \/ EmptyWaitExpires
Tx      == \/ TxRests \/ TxEnters \/ TxFull \/ TxReads
           \/ TxBlock \/ TxSendsEoo \/ TxHasSentEoo
Mic     == MicHeard \/ MicWrites
Out     == OutAsks \/ OutPlays

Next == Ui \/ Expires \/ Tx \/ Mic \/ Out

\* Every thread runs: the UI thread in its loop, the TX thread and the devices
\* on their clocks.  No fairness is assumed of the time limits.
Fairness ==
    /\ WF_vars(EooSeen) /\ WF_vars(EmptySeen) /\ WF_vars(ClearTx) /\ WF_vars(ClearEnding)
    /\ WF_vars(Tx) /\ WF_vars(MicWrites) /\ WF_vars(Out)

Spec == Init /\ [][Next]_vars /\ Fairness

-----------------------------------------------------------------------------
\* The variables stay in their ranges and the FIFOs within their capacities.
TypeOK ==
    /\ halfDuplex \in BOOLEAN /\ deferReset \in BOOLEAN /\ hasEooBeenSent \in BOOLEAN
    /\ gTx \in BOOLEAN /\ endingTx \in BOOLEAN /\ eooEnqueued \in BOOLEAN
    /\ mic \in BOOLEAN /\ ranEmpty \in BOOLEAN
    /\ expired \in BOOLEAN /\ blockDone \in BOOLEAN /\ overlap \in BOOLEAN
    /\ togglePtt \in {"rx", "tx", "eooWait", "emptyWait", "pause", "leaving"}
    /\ tx \in {"idle", "room", "got", "missed"}
    /\ stepIn \in 0..BlocksPerFrame - 1
    /\ infifo2 \in 0..InCapacity
    /\ outfifo1 \in 0..OutCapacity /\ ahead \in 0..OutCapacity
    /\ out \in 0..NoCall
    /\ eoo \in {"none", "queued", "lost", "played"}

\* An over the TX thread took part in, and whose end ran out of no time limit.
EndedInTime == ~expired /\ blockDone

\* The EOO always finds room in outfifo1, and no over the TX thread took part
\* in gets past the wait for it without one: the mark and the flag left by the
\* over before do not stand for this one's.
EooQueued ==
    /\ eoo # "lost"
    /\ togglePtt \in {"emptyWait", "pause", "leaving"} /\ EndedInTime
           => eoo \in {"queued", "played"}

\* When the UI thread has seen outfifo1 run empty, the EOO has been handed to
\* the output device before g_tx is cleared.  The callback that was running
\* when the counter was sampled is the exception: it may count an empty FIFO
\* it saw before the EOO came.
EooPlayed ==
    togglePtt \in {"pause", "leaving"} /\ EndedInTime /\ ~overlap => eoo = "played"

\* Blocks recorded and not yet taken by the TX thread.
InFlight == infifo2 + (IF mic THEN 1 ELSE 0)

\* What the microphone recorded is encoded before the over ends, but for the
\* block of a callback that tested endingTx before it was set.
RecordedIsEncoded ==
    togglePtt \in {"emptyWait", "pause"} /\ EndedInTime => InFlight <= 1

\* The end of an over is reached, whether or not the time limits ever expire.
OverEnds == togglePtt = "eooWait" ~> togglePtt = "rx"

=============================================================================
