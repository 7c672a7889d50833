------------------------- MODULE Transmission_proofs -------------------------
(***************************************************************************)
(* Proofs about the two sides of a transmission.                           *)
(*                                                                         *)
(* EndOfOver.  The strengthening IInv says, beside the types, how the      *)
(* marks of the last over are kept from standing for this one's            *)
(* (MarksAreOfThisOver), that the room the TX thread has found is still    *)
(* there when it uses it (RoomIsKept), and where the EOO and the recorded  *)
(* blocks are while the UI thread waits (EooIsAhead, ReadOutFirst).        *)
(*                                                                         *)
(* PttControl.  The strengthening is a predicate of the record the         *)
(* handlers take and return (Sound), so that what a handler keeps is a     *)
(* lemma about an operator; the lemmas follow the calls of the code, from  *)
(* the end of togglePTT() outwards.                                        *)
(***************************************************************************)
EXTENDS EndOfOver, PttControl, SequenceTheorems, TLAPS

Booleans ==
    /\ halfDuplex \in BOOLEAN /\ deferReset \in BOOLEAN /\ hasEooBeenSent \in BOOLEAN
    /\ gTx \in BOOLEAN /\ endingTx \in BOOLEAN /\ eooEnqueued \in BOOLEAN
    /\ mic \in BOOLEAN /\ ranEmpty \in BOOLEAN
    /\ expired \in BOOLEAN /\ blockDone \in BOOLEAN /\ overlap \in BOOLEAN

Ranges ==
    /\ togglePtt \in {"rx", "tx", "eooWait", "emptyWait", "pause", "leaving"}
    /\ tx \in {"idle", "room", "got", "missed"}
    /\ stepIn \in 0..BlocksPerFrame - 1
    /\ infifo2 \in 0..InCapacity
    /\ outfifo1 \in 0..OutCapacity /\ ahead \in 0..OutCapacity
    /\ out \in 0..NoCall
    /\ eoo \in {"none", "queued", "lost", "played"}

Ending == togglePtt \in {"eooWait", "emptyWait", "pause"}
Sampled == togglePtt \in {"emptyWait", "pause"}

\* g_tx and endingTx follow the UI thread; the reset is due only outside TX.
Flags ==
    /\ gTx <=> togglePtt \in {"tx", "eooWait", "emptyWait", "pause"}
    /\ endingTx <=> togglePtt \in {"eooWait", "emptyWait", "pause", "leaving"}
    /\ tx # "idle" => ~deferReset
    /\ gTx /\ (blockDone \/ eoo = "queued") => ~deferReset

RoomIsKept == tx \in {"got", "missed"} => Free >= ModemFrame

MarksAreOfThisOver ==
    /\ eoo # "lost"
    /\ blockDone /\ (hasEooBeenSent \/ eooEnqueued) => eoo \in {"queued", "played"}
    /\ togglePtt = "tx" /\ blockDone => ~hasEooBeenSent /\ ~eooEnqueued
    /\ togglePtt \in {"emptyWait", "pause", "leaving"} /\ EndedInTime
           => eoo \in {"queued", "played"}

EooIsAhead ==
    /\ eoo = "queued" /\ gTx => ahead >= 1 /\ ahead <= outfifo1
    /\ Sampled /\ EndedInTime /\ ~overlap /\ eoo = "queued"
           => /\ togglePtt = "emptyWait" /\ ~ranEmpty
              /\ out # NoCall => out <= outfifo1 /\ (out = CardUnits \/ out >= ahead)
    /\ togglePtt = "leaving" /\ EndedInTime /\ ~overlap => eoo = "played"

ReadOutFirst ==
    /\ Ending /\ blockDone /\ hasEooBeenSent /\ tx = "missed" => InFlight <= 1
    /\ Ending /\ blockDone /\ eooEnqueued => InFlight <= 1
    /\ Sampled /\ EndedInTime => InFlight <= 1

IInv == TypeOK /\ Flags /\ RoomIsKept /\ MarksAreOfThisOver /\ EooIsAhead /\ ReadOutFirst

-----------------------------------------------------------------------------
(* What the proofs use of the constants.                                    *)
LEMMA Sizes ==
    /\ InCapacity \in Nat /\ OutCapacity \in Nat /\ InCapacity >= 1
    /\ BlocksPerFrame \in Nat /\ BlocksPerFrame >= 1
    /\ FrameUnits \in Nat /\ EooUnits \in Nat /\ FrameUnits >= 1 /\ EooUnits >= 1
    /\ CardUnits \in Nat /\ CardUnits >= 1
    /\ ModemFrame \in Nat /\ ModemFrame >= FrameUnits /\ ModemFrame >= EooUnits
BY SizesAssumption DEF ModemFrame

LEMMA InitInv == Init => IInv
<1> SUFFICES ASSUME Init PROVE IInv
  OBVIOUS
<1>1. Booleans
  BY Zenon DEF Init, Booleans
<1>2. Ranges
  BY Sizes DEF Init, Ranges, NoCall
<1>3. Flags /\ RoomIsKept /\ MarksAreOfThisOver /\ EooIsAhead /\ ReadOutFirst
  BY Sizes DEF Init, Flags, RoomIsKept, MarksAreOfThisOver, EooIsAhead,
    ReadOutFirst, Ending, Sampled, EndedInTime, InFlight, NoCall, Free
<1> QED
  BY <1>1, <1>2, <1>3 DEF IInv, TypeOK, Booleans, Ranges

(* Every step keeps the Booleans Boolean. *)
LEMMA BooleansStep == IInv /\ [Next]_vars => Booleans'
<1> SUFFICES ASSUME IInv, [Next]_vars PROVE Booleans'
  OBVIOUS
<1> USE DEF IInv, TypeOK, fifos, devices, uiVars, txVars, hist
<1>1. CASE StartTx
  BY <1>1 DEF StartTx, Booleans
<1>2. CASE EndOver
  BY <1>2 DEF EndOver, Booleans
<1>3. CASE EooSeen
  BY <1>3 DEF EooSeen, SampleEmpty, Booleans
<1>4. CASE EmptySeen
  BY <1>4 DEF EmptySeen, Booleans
<1>5. CASE ClearTx
  BY <1>5 DEF ClearTx, Booleans
<1>6. CASE ClearEnding
  BY <1>6 DEF ClearEnding, Booleans
<1>7. CASE EooWaitExpires
  BY <1>7 DEF EooWaitExpires, SampleEmpty, Booleans
<1>8. CASE EmptyWaitExpires
  BY <1>8 DEF EmptyWaitExpires, Booleans
<1>9. CASE TxRests
  BY <1>9 DEF TxRests, Transmitting, Booleans
<1>10. CASE TxEnters
  BY <1>10 DEF TxEnters, Transmitting, Booleans
<1>11. CASE TxFull
  BY <1>11 DEF TxFull, Booleans
<1>12. CASE TxReads
  BY <1>12 DEF TxReads, Booleans
<1>13. CASE TxBlock
  BY <1>13 DEF TxBlock, Written, Encoded, OverIsReadOut, Booleans
<1>14. CASE TxSendsEoo
  BY <1>14 DEF TxSendsEoo, Written, OverIsReadOut, Booleans
<1>15. CASE TxHasSentEoo
  BY <1>15 DEF TxHasSentEoo, OverIsReadOut, Booleans
<1>16. CASE MicHeard
  BY <1>16 DEF MicHeard, Booleans
<1>17. CASE MicWrites
  BY <1>17 DEF MicWrites, Booleans
<1>18. CASE OutAsks
  BY <1>18 DEF OutAsks, Booleans
<1>19. CASE OutPlays
  BY <1>19 DEF OutPlays, Booleans
<1>20. CASE UNCHANGED vars
  BY <1>20 DEF vars, Booleans
<1> QED
  BY <1>1, <1>2, <1>3, <1>4, <1>5, <1>6, <1>7, <1>8, <1>9, <1>10, <1>11, <1>12, <1>13, <1>14, <1>15, <1>16, <1>17, <1>18, <1>19, <1>20 DEF Next, Ui, Expires, Tx, Mic, Out

(* Every step keeps the other variables in their ranges. *)
LEMMA RangesStep == IInv /\ [Next]_vars => Ranges'
<1> SUFFICES ASSUME IInv, [Next]_vars PROVE Ranges'
  OBVIOUS
<1> USE Sizes DEF IInv, TypeOK, Free, NoCall, fifos, devices, uiVars, txVars, hist
<1>1. CASE StartTx
  BY <1>1 DEF StartTx, Ranges
<1>2. CASE EndOver
  BY <1>2 DEF EndOver, Ranges
<1>3. CASE EooSeen
  BY <1>3 DEF EooSeen, SampleEmpty, Ranges
<1>4. CASE EmptySeen
  BY <1>4 DEF EmptySeen, Ranges
<1>5. CASE ClearTx
  BY <1>5 DEF ClearTx, Ranges
<1>6. CASE ClearEnding
  BY <1>6 DEF ClearEnding, Ranges
<1>7. CASE EooWaitExpires
  BY <1>7 DEF EooWaitExpires, SampleEmpty, Ranges
<1>8. CASE EmptyWaitExpires
  BY <1>8 DEF EmptyWaitExpires, Ranges
<1>9. CASE TxRests
  BY <1>9 DEF TxRests, Transmitting, Ranges
<1>10. CASE TxEnters
  BY <1>10 DEF TxEnters, Transmitting, Ranges
<1>11. CASE TxFull
  BY <1>11 DEF TxFull, Ranges
<1>12. CASE TxReads
  BY <1>12 DEF TxReads, Ranges
<1>13. CASE TxBlock
  BY <1>13 DEF TxBlock, Written, Encoded, OverIsReadOut, Ranges
<1>14. CASE TxSendsEoo
  BY <1>14 DEF TxSendsEoo, Written, OverIsReadOut, Ranges
<1>15. CASE TxHasSentEoo
  BY <1>15 DEF TxHasSentEoo, OverIsReadOut, Ranges
<1>16. CASE MicHeard
  BY <1>16 DEF MicHeard, Ranges
<1>17. CASE MicWrites
  BY <1>17 DEF MicWrites, Ranges
<1>18. CASE OutAsks
  BY <1>18 DEF OutAsks, Ranges
<1>19. CASE OutPlays
  BY <1>19 DEF OutPlays, Ranges
<1>20. CASE UNCHANGED vars
  BY <1>20 DEF vars, Ranges
<1> QED
  BY <1>1, <1>2, <1>3, <1>4, <1>5, <1>6, <1>7, <1>8, <1>9, <1>10, <1>11, <1>12, <1>13, <1>14, <1>15, <1>16, <1>17, <1>18, <1>19, <1>20 DEF Next, Ui, Expires, Tx, Mic, Out

(* Every step keeps the flags in agreement with where the UI thread is. *)
LEMMA FlagsStep == IInv /\ [Next]_vars => Flags'
<1> SUFFICES ASSUME IInv, [Next]_vars PROVE Flags'
  OBVIOUS
<1> USE Sizes DEF IInv, TypeOK, Free, NoCall, fifos, devices, uiVars, txVars, hist
<1>1. CASE StartTx
  BY <1>1 DEF StartTx, Flags
<1>2. CASE EndOver
  BY <1>2 DEF EndOver, Flags
<1>3. CASE EooSeen
  BY <1>3 DEF EooSeen, SampleEmpty, Flags
<1>4. CASE EmptySeen
  BY <1>4 DEF EmptySeen, Flags
<1>5. CASE ClearTx
  BY <1>5 DEF ClearTx, Flags
<1>6. CASE ClearEnding
  BY <1>6 DEF ClearEnding, Flags
<1>7. CASE EooWaitExpires
  BY <1>7 DEF EooWaitExpires, SampleEmpty, Flags
<1>8. CASE EmptyWaitExpires
  BY <1>8 DEF EmptyWaitExpires, Flags
<1>9. CASE TxRests
  BY <1>9 DEF TxRests, Transmitting, Flags
<1>10. CASE TxEnters
  BY <1>10 DEF TxEnters, Transmitting, Flags
<1>11. CASE TxFull
  BY <1>11 DEF TxFull, Flags
<1>12. CASE TxReads
  BY <1>12 DEF TxReads, Flags
<1>13. CASE TxBlock
  BY <1>13 DEF TxBlock, Written, Encoded, OverIsReadOut, Flags
<1>14. CASE TxSendsEoo
  BY <1>14 DEF TxSendsEoo, Written, OverIsReadOut, Flags
<1>15. CASE TxHasSentEoo
  BY <1>15 DEF TxHasSentEoo, OverIsReadOut, Flags
<1>16. CASE MicHeard
  BY <1>16 DEF MicHeard, Flags
<1>17. CASE MicWrites
  BY <1>17 DEF MicWrites, Flags
<1>18. CASE OutAsks
  BY <1>18 DEF OutAsks, Flags
<1>19. CASE OutPlays
  BY <1>19 DEF OutPlays, Flags
<1>20. CASE UNCHANGED vars
  BY <1>20 DEF vars, Flags
<1> QED
  BY <1>1, <1>2, <1>3, <1>4, <1>5, <1>6, <1>7, <1>8, <1>9, <1>10, <1>11, <1>12, <1>13, <1>14, <1>15, <1>16, <1>17, <1>18, <1>19, <1>20 DEF Next, Ui, Expires, Tx, Mic, Out

(* Only the TX thread fills outfifo1. *)
LEMMA RoomIsKeptStep == IInv /\ [Next]_vars => RoomIsKept'
<1> SUFFICES ASSUME IInv, [Next]_vars PROVE RoomIsKept'
  OBVIOUS
<1> USE Sizes DEF IInv, TypeOK, Free, NoCall, fifos, devices, uiVars, txVars, hist
<1>1. CASE StartTx
  BY <1>1 DEF StartTx, RoomIsKept
<1>2. CASE EndOver
  BY <1>2 DEF EndOver, RoomIsKept
<1>3. CASE EooSeen
  BY <1>3 DEF EooSeen, SampleEmpty, RoomIsKept
<1>4. CASE EmptySeen
  BY <1>4 DEF EmptySeen, RoomIsKept
<1>5. CASE ClearTx
  BY <1>5 DEF ClearTx, RoomIsKept
<1>6. CASE ClearEnding
  BY <1>6 DEF ClearEnding, RoomIsKept
<1>7. CASE EooWaitExpires
  BY <1>7 DEF EooWaitExpires, SampleEmpty, RoomIsKept
<1>8. CASE EmptyWaitExpires
  BY <1>8 DEF EmptyWaitExpires, RoomIsKept
<1>9. CASE TxRests
  BY <1>9 DEF TxRests, Transmitting, RoomIsKept
<1>10. CASE TxEnters
  BY <1>10 DEF TxEnters, Transmitting, RoomIsKept
<1>11. CASE TxFull
  BY <1>11 DEF TxFull, RoomIsKept
<1>12. CASE TxReads
  BY <1>12 DEF TxReads, RoomIsKept
<1>13. CASE TxBlock
  BY <1>13 DEF TxBlock, Written, Encoded, OverIsReadOut, RoomIsKept
<1>14. CASE TxSendsEoo
  BY <1>14 DEF TxSendsEoo, Written, OverIsReadOut, RoomIsKept
<1>15. CASE TxHasSentEoo
  BY <1>15 DEF TxHasSentEoo, OverIsReadOut, RoomIsKept
<1>16. CASE MicHeard
  BY <1>16 DEF MicHeard, RoomIsKept
<1>17. CASE MicWrites
  BY <1>17 DEF MicWrites, RoomIsKept
<1>18. CASE OutAsks
  BY <1>18 DEF OutAsks, RoomIsKept
<1>19. CASE OutPlays
  BY <1>19 DEF OutPlays, RoomIsKept
<1>20. CASE UNCHANGED vars
  BY <1>20 DEF vars, RoomIsKept
<1> QED
  BY <1>1, <1>2, <1>3, <1>4, <1>5, <1>6, <1>7, <1>8, <1>9, <1>10, <1>11, <1>12, <1>13, <1>14, <1>15, <1>16, <1>17, <1>18, <1>19, <1>20 DEF Next, Ui, Expires, Tx, Mic, Out

(* The marks are cleared by the first block of an over. *)
LEMMA MarksAreOfThisOverStep == IInv /\ [Next]_vars => MarksAreOfThisOver'
<1> SUFFICES ASSUME IInv, [Next]_vars PROVE MarksAreOfThisOver'
  OBVIOUS
<1> USE Sizes DEF IInv, TypeOK, Free, NoCall, fifos, devices, uiVars, txVars, hist
<1>1. CASE StartTx
  BY <1>1 DEF StartTx, MarksAreOfThisOver, EndedInTime, RoomIsKept, Flags
<1>2. CASE EndOver
  BY <1>2 DEF EndOver, MarksAreOfThisOver, EndedInTime, RoomIsKept, Flags
<1>3. CASE EooSeen
  BY <1>3 DEF EooSeen, SampleEmpty, MarksAreOfThisOver, EndedInTime, RoomIsKept, Flags
<1>4. CASE EmptySeen
  BY <1>4 DEF EmptySeen, MarksAreOfThisOver, EndedInTime, RoomIsKept, Flags
<1>5. CASE ClearTx
  BY <1>5 DEF ClearTx, MarksAreOfThisOver, EndedInTime, RoomIsKept, Flags
<1>6. CASE ClearEnding
  BY <1>6 DEF ClearEnding, MarksAreOfThisOver, EndedInTime, RoomIsKept, Flags
<1>7. CASE EooWaitExpires
  BY <1>7 DEF EooWaitExpires, SampleEmpty, MarksAreOfThisOver, EndedInTime, RoomIsKept, Flags
<1>8. CASE EmptyWaitExpires
  BY <1>8 DEF EmptyWaitExpires, MarksAreOfThisOver, EndedInTime, RoomIsKept, Flags
<1>9. CASE TxRests
  BY <1>9 DEF TxRests, Transmitting, MarksAreOfThisOver, EndedInTime, RoomIsKept, Flags
<1>10. CASE TxEnters
  BY <1>10 DEF TxEnters, Transmitting, MarksAreOfThisOver, EndedInTime, RoomIsKept, Flags
<1>11. CASE TxFull
  BY <1>11 DEF TxFull, MarksAreOfThisOver, EndedInTime, RoomIsKept, Flags
<1>12. CASE TxReads
  BY <1>12 DEF TxReads, MarksAreOfThisOver, EndedInTime, RoomIsKept, Flags
<1>13. CASE TxBlock
  BY <1>13 DEF TxBlock, Written, Encoded, OverIsReadOut, MarksAreOfThisOver, EndedInTime, RoomIsKept, Flags
<1>14. CASE TxSendsEoo
  BY <1>14 DEF TxSendsEoo, Written, OverIsReadOut, MarksAreOfThisOver, EndedInTime, RoomIsKept, Flags
<1>15. CASE TxHasSentEoo
  BY <1>15 DEF TxHasSentEoo, OverIsReadOut, MarksAreOfThisOver, EndedInTime, RoomIsKept, Flags
<1>16. CASE MicHeard
  BY <1>16 DEF MicHeard, MarksAreOfThisOver, EndedInTime, RoomIsKept, Flags
<1>17. CASE MicWrites
  BY <1>17 DEF MicWrites, MarksAreOfThisOver, EndedInTime, RoomIsKept, Flags
<1>18. CASE OutAsks
  BY <1>18 DEF OutAsks, MarksAreOfThisOver, EndedInTime, RoomIsKept, Flags
<1>19. CASE OutPlays
  BY <1>19 DEF OutPlays, MarksAreOfThisOver, EndedInTime, RoomIsKept, Flags
<1>20. CASE UNCHANGED vars
  BY <1>20 DEF vars, MarksAreOfThisOver, EndedInTime, RoomIsKept, Flags
<1> QED
  BY <1>1, <1>2, <1>3, <1>4, <1>5, <1>6, <1>7, <1>8, <1>9, <1>10, <1>11, <1>12, <1>13, <1>14, <1>15, <1>16, <1>17, <1>18, <1>19, <1>20 DEF Next, Ui, Expires, Tx, Mic, Out

(* A callback that begins after the sample counts an empty FIFO only behind the EOO. *)
LEMMA EooIsAheadStep == IInv /\ [Next]_vars => EooIsAhead'
<1> SUFFICES ASSUME IInv, [Next]_vars PROVE EooIsAhead'
  OBVIOUS
<1> USE Sizes DEF IInv, TypeOK, Free, NoCall, fifos, devices, uiVars, txVars, hist
<1>1. CASE StartTx
  BY <1>1 DEF StartTx, EooIsAhead, MarksAreOfThisOver, EndedInTime, RoomIsKept, Flags, Sampled
<1>2. CASE EndOver
  BY <1>2 DEF EndOver, EooIsAhead, MarksAreOfThisOver, EndedInTime, RoomIsKept, Flags, Sampled
<1>3. CASE EooSeen
  BY <1>3 DEF EooSeen, SampleEmpty, EooIsAhead, MarksAreOfThisOver, EndedInTime, RoomIsKept, Flags, Sampled
<1>4. CASE EmptySeen
  BY <1>4 DEF EmptySeen, EooIsAhead, MarksAreOfThisOver, EndedInTime, RoomIsKept, Flags, Sampled
<1>5. CASE ClearTx
  BY <1>5 DEF ClearTx, EooIsAhead, MarksAreOfThisOver, EndedInTime, RoomIsKept, Flags, Sampled
<1>6. CASE ClearEnding
  BY <1>6 DEF ClearEnding, EooIsAhead, MarksAreOfThisOver, EndedInTime, RoomIsKept, Flags, Sampled
<1>7. CASE EooWaitExpires
  BY <1>7 DEF EooWaitExpires, SampleEmpty, EooIsAhead, MarksAreOfThisOver, EndedInTime, RoomIsKept, Flags, Sampled
<1>8. CASE EmptyWaitExpires
  BY <1>8 DEF EmptyWaitExpires, EooIsAhead, MarksAreOfThisOver, EndedInTime, RoomIsKept, Flags, Sampled
<1>9. CASE TxRests
  BY <1>9 DEF TxRests, Transmitting, EooIsAhead, MarksAreOfThisOver, EndedInTime, RoomIsKept, Flags, Sampled
<1>10. CASE TxEnters
  BY <1>10 DEF TxEnters, Transmitting, EooIsAhead, MarksAreOfThisOver, EndedInTime, RoomIsKept, Flags, Sampled
<1>11. CASE TxFull
  BY <1>11 DEF TxFull, EooIsAhead, MarksAreOfThisOver, EndedInTime, RoomIsKept, Flags, Sampled
<1>12. CASE TxReads
  BY <1>12 DEF TxReads, EooIsAhead, MarksAreOfThisOver, EndedInTime, RoomIsKept, Flags, Sampled
<1>13. CASE TxBlock
  BY <1>13 DEF TxBlock, Written, Encoded, OverIsReadOut, EooIsAhead, MarksAreOfThisOver, EndedInTime, RoomIsKept, Flags, Sampled
<1>14. CASE TxSendsEoo
  BY <1>14 DEF TxSendsEoo, Written, OverIsReadOut, EooIsAhead, MarksAreOfThisOver, EndedInTime, RoomIsKept, Flags, Sampled
<1>15. CASE TxHasSentEoo
  BY <1>15 DEF TxHasSentEoo, OverIsReadOut, EooIsAhead, MarksAreOfThisOver, EndedInTime, RoomIsKept, Flags, Sampled
<1>16. CASE MicHeard
  BY <1>16 DEF MicHeard, EooIsAhead, MarksAreOfThisOver, EndedInTime, RoomIsKept, Flags, Sampled
<1>17. CASE MicWrites
  BY <1>17 DEF MicWrites, EooIsAhead, MarksAreOfThisOver, EndedInTime, RoomIsKept, Flags, Sampled
<1>18. CASE OutAsks
  BY <1>18 DEF OutAsks, EooIsAhead, MarksAreOfThisOver, EndedInTime, RoomIsKept, Flags, Sampled
<1>19. CASE OutPlays
  BY <1>19 DEF OutPlays, EooIsAhead, MarksAreOfThisOver, EndedInTime, RoomIsKept, Flags, Sampled
<1>20. CASE UNCHANGED vars
  BY <1>20 DEF vars, EooIsAhead, MarksAreOfThisOver, EndedInTime, RoomIsKept, Flags, Sampled
<1> QED
  BY <1>1, <1>2, <1>3, <1>4, <1>5, <1>6, <1>7, <1>8, <1>9, <1>10, <1>11, <1>12, <1>13, <1>14, <1>15, <1>16, <1>17, <1>18, <1>19, <1>20 DEF Next, Ui, Expires, Tx, Mic, Out

(* The EOO is sent when a read has found infifo2 empty after endingTx was set. *)
LEMMA ReadOutFirstStep == IInv /\ [Next]_vars => ReadOutFirst'
<1> SUFFICES ASSUME IInv, [Next]_vars PROVE ReadOutFirst'
  OBVIOUS
<1> USE Sizes DEF IInv, TypeOK, Free, NoCall, fifos, devices, uiVars, txVars, hist
<1>1. CASE StartTx
  BY <1>1 DEF StartTx, ReadOutFirst, MarksAreOfThisOver, EndedInTime, Flags, Sampled, Ending, InFlight
<1>2. CASE EndOver
  BY <1>2 DEF EndOver, ReadOutFirst, MarksAreOfThisOver, EndedInTime, Flags, Sampled, Ending, InFlight
<1>3. CASE EooSeen
  BY <1>3 DEF EooSeen, SampleEmpty, ReadOutFirst, MarksAreOfThisOver, EndedInTime, Flags, Sampled, Ending, InFlight
<1>4. CASE EmptySeen
  BY <1>4 DEF EmptySeen, ReadOutFirst, MarksAreOfThisOver, EndedInTime, Flags, Sampled, Ending, InFlight
<1>5. CASE ClearTx
  BY <1>5 DEF ClearTx, ReadOutFirst, MarksAreOfThisOver, EndedInTime, Flags, Sampled, Ending, InFlight
<1>6. CASE ClearEnding
  BY <1>6 DEF ClearEnding, ReadOutFirst, MarksAreOfThisOver, EndedInTime, Flags, Sampled, Ending, InFlight
<1>7. CASE EooWaitExpires
  BY <1>7 DEF EooWaitExpires, SampleEmpty, ReadOutFirst, MarksAreOfThisOver, EndedInTime, Flags, Sampled, Ending, InFlight
<1>8. CASE EmptyWaitExpires
  BY <1>8 DEF EmptyWaitExpires, ReadOutFirst, MarksAreOfThisOver, EndedInTime, Flags, Sampled, Ending, InFlight
<1>9. CASE TxRests
  BY <1>9 DEF TxRests, Transmitting, ReadOutFirst, MarksAreOfThisOver, EndedInTime, Flags, Sampled, Ending, InFlight
<1>10. CASE TxEnters
  BY <1>10 DEF TxEnters, Transmitting, ReadOutFirst, MarksAreOfThisOver, EndedInTime, Flags, Sampled, Ending, InFlight
<1>11. CASE TxFull
  BY <1>11 DEF TxFull, ReadOutFirst, MarksAreOfThisOver, EndedInTime, Flags, Sampled, Ending, InFlight
<1>12. CASE TxReads
  BY <1>12 DEF TxReads, ReadOutFirst, MarksAreOfThisOver, EndedInTime, Flags, Sampled, Ending, InFlight
<1>13. CASE TxBlock
  BY <1>13 DEF TxBlock, Written, Encoded, OverIsReadOut, ReadOutFirst, MarksAreOfThisOver, EndedInTime, Flags, Sampled, Ending, InFlight
<1>14. CASE TxSendsEoo
  BY <1>14 DEF TxSendsEoo, Written, OverIsReadOut, ReadOutFirst, MarksAreOfThisOver, EndedInTime, Flags, Sampled, Ending, InFlight
<1>15. CASE TxHasSentEoo
  BY <1>15 DEF TxHasSentEoo, OverIsReadOut, ReadOutFirst, MarksAreOfThisOver, EndedInTime, Flags, Sampled, Ending, InFlight
<1>16. CASE MicHeard
  BY <1>16 DEF MicHeard, ReadOutFirst, MarksAreOfThisOver, EndedInTime, Flags, Sampled, Ending, InFlight
<1>17. CASE MicWrites
  BY <1>17 DEF MicWrites, ReadOutFirst, MarksAreOfThisOver, EndedInTime, Flags, Sampled, Ending, InFlight
<1>18. CASE OutAsks
  BY <1>18 DEF OutAsks, ReadOutFirst, MarksAreOfThisOver, EndedInTime, Flags, Sampled, Ending, InFlight
<1>19. CASE OutPlays
  BY <1>19 DEF OutPlays, ReadOutFirst, MarksAreOfThisOver, EndedInTime, Flags, Sampled, Ending, InFlight
<1>20. CASE UNCHANGED vars
  BY <1>20 DEF vars, ReadOutFirst, MarksAreOfThisOver, EndedInTime, Flags, Sampled, Ending, InFlight
<1> QED
  BY <1>1, <1>2, <1>3, <1>4, <1>5, <1>6, <1>7, <1>8, <1>9, <1>10, <1>11, <1>12, <1>13, <1>14, <1>15, <1>16, <1>17, <1>18, <1>19, <1>20 DEF Next, Ui, Expires, Tx, Mic, Out

-----------------------------------------------------------------------------
(* The strengthening is an invariant.                                       *)
THEOREM Invariant == Spec => []IInv
<1>1. IInv /\ [Next]_vars => IInv'
  BY BooleansStep, RangesStep, FlagsStep, RoomIsKeptStep, MarksAreOfThisOverStep, EooIsAheadStep,
     ReadOutFirstStep DEF IInv, TypeOK, Booleans, Ranges
<1> QED
  BY InitInv, <1>1, PTL DEF Spec

(* The variables of the end of an over keep their types, whatever the sizes. *)
THEOREM TypeCorrect == Spec => []TypeOK
<1>1. IInv => TypeOK
  BY DEF IInv
<1> QED
  BY Invariant, <1>1, PTL

(* The EOO always finds room, and no over the TX thread took part in gets    *)
(* past the wait for the EOO without one of its own (txProcessing_()).       *)
THEOREM EooIsQueued == Spec => []EooQueued
<1>1. IInv => EooQueued
  BY DEF IInv, MarksAreOfThisOver, EooQueued
<1> QED
  BY Invariant, <1>1, PTL

(* The EOO has been handed to the device when the UI thread has seen the     *)
(* FIFO run empty (togglePTT(), OnTxOutAudioData_()).                        *)
THEOREM EooIsPlayed == Spec => []EooPlayed
<1>1. IInv => EooPlayed
  BY DEF IInv, MarksAreOfThisOver, EooIsAhead, Sampled, EooPlayed
<1> QED
  BY Invariant, <1>1, PTL

(* At most the block of a callback under way is left of what was recorded.   *)
THEOREM RecordedIsReadOut == Spec => []RecordedIsEncoded
<1>1. IInv => RecordedIsEncoded
  BY DEF IInv, ReadOutFirst, Sampled, RecordedIsEncoded
<1> QED
  BY Invariant, <1>1, PTL

-----------------------------------------------------------------------------
(* PttControl: what the UI thread keeps from handler to handler.           *)

\* The values of the fields of ui, of the calls queued and of what togglePTT()
\* continues with.
UiType == [button : BOOLEAN, gTx : BOOLEAN, endingTx : BOOLEAN, rig : BOOLEAN,
           reported : BOOLEAN, suspended : BOOLEAN, onOff : BOOLEAN,
           tuneOk : BOOLEAN, pttOk : BOOLEAN, vkOk : BOOLEAN, tuning : BOOLEAN,
           vk : {"idle", "tx", "rx", "sync"}, repeat : 0 .. Repeats + 1,
           playing : BOOLEAN, monitoring : BOOLEAN, stopping : BOOLEAN]
CallNames == {"toggle", "stopPlay", "fileDone", "pressed", "released"}
Conts == {"return", "vkStart", "vkStop", "close"}
UiThread == [ui : UiType, stack : Seq(Frames), calls : Seq(CallNames)]

\* A toggle is queued that no handler has served yet.
Queued(w) == \E i \in 1..Len(w.calls) : w.calls[i] = "toggle"

\* Nothing of the PTT input is queued.
NoInput(w) == \A i \in 1..Len(w.calls) : w.calls[i] \notin {"pressed", "released"}

\* Nothing is under way: no togglePTT() waits and none is queued.
Rest(w) == w.stack = <<>> /\ ~Queued(w)

\* A call of togglePTT() that goes on as cont says is waiting.
Opened(w, cont) == \E i \in 1..Len(w.stack) : w.stack[i].cont = cont

\* No call waits for the TX delay.
NoStarting(w) == \A i \in 1..Len(w.stack) : w.stack[i].at # "starting"

\* The button shows whether the modem transmits whenever nothing is under way.
Agrees(w) == Rest(w) => w.ui.button = w.ui.gTx

\* While the file plays or the keyer listens, no more repeats have been counted than
\* it is to make.
Repeated(w) == w.ui.playing \/ w.ui.vk \in {"rx", "sync"} => w.ui.repeat <= Repeats

\* The voice keyer only starts a transmission that ends another inside a wait of
\* an outer togglePTT(), and then holds the button.
Starting(w) ==
    \A i \in 1..Len(w.stack) :
        w.stack[i].cont = "vkStart" /\ w.stack[i].at # "starting"
            => i = 2 /\ w.ui.button

\* Without a TX delay: rig, reporters and Tune follow the modem in every state, and
\* the file of a keyer that transmits, or is about to, is playing.
Keyed(w) ==
    /\ NoStarting(w)
    /\ w.ui.gTx => ~w.ui.tuneOk /\ w.ui.rig
    /\ w.ui.reported = w.ui.gTx
    /\ w.ui.tuning \/ w.ui.rig = w.ui.gTx
    /\ w.ui.vk = "tx" \/ Opened(w, "vkStart") => w.ui.playing

\* What holds without a TX delay.
Prompt(w) == ~TxDelay => Keyed(w) /\ (w.ui.gTx /\ w.ui.endingTx => ~Rest(w))

\* At most one toggle is queued.
OneToggle(w) ==
    \A i, j \in 1..Len(w.calls) :
        w.calls[i] = "toggle" /\ w.calls[j] = "toggle" => i = j

\* Without a PTT input: a keyer that transmits has the button or is being stopped,
\* a queued toggle has a transmission to end, and On/Off is usable in receive.
Own(w) ==
    /\ NoInput(w)
    /\ w.ui.vk = "tx" => w.ui.button \/ Opened(w, "vkStop")
    /\ Queued(w) => Len(w.stack) # 2 /\ w.ui.vk # "tx" /\ (w.stack = <<>> => w.ui.gTx)
    /\ OneToggle(w)
    /\ Rest(w) /\ ~w.ui.gTx /\ ~w.ui.tuning => w.ui.onOff

\* What holds when nothing but the own events of the UI can end a transmission.
OwnOnly(w) == ~PttInput => Own(w)

\* The inductive invariant of the UI thread, of a record [ui, stack, calls]: every
\* handler takes such a record to such a record.
Sound(w) ==
    /\ w \in UiThread /\ Len(w.stack) <= 2
    /\ Agrees(w) /\ Repeated(w) /\ Starting(w) /\ Prompt(w) /\ OwnOnly(w)

\* Fields that several of the operators leave as they are.
SameRadio(f, w) ==
    /\ f.ui.gTx = w.ui.gTx /\ f.ui.endingTx = w.ui.endingTx
    /\ f.ui.rig = w.ui.rig /\ f.ui.reported = w.ui.reported
    /\ f.ui.onOff = w.ui.onOff /\ f.ui.tuning = w.ui.tuning
    /\ f.ui.repeat = w.ui.repeat /\ f.ui.playing = w.ui.playing

\* What Finish, Switch and TogglePTT need of the record they are given.  It is
\* weaker than Sound: each puts right what its caller has just changed.
FinishPre(w, newTx, cont) ==
    /\ w \in UiThread /\ Len(w.stack) <= 1 /\ w.ui.gTx = newTx
    /\ Repeated(w) /\ Starting(w)
    /\ ~TxDelay =>
         /\ NoStarting(w)
         /\ newTx => w.ui.rig /\ ~w.ui.endingTx
         /\ w.ui.reported = newTx
         /\ w.ui.tuning \/ w.ui.rig = newTx
         /\ w.ui.vk = "tx" \/ Opened(w, "vkStart") \/ cont = "vkStart" => w.ui.playing
    /\ ~PttInput =>
         /\ NoInput(w) /\ ~Queued(w)
         /\ cont = "vkStart" => newTx
         /\ w.ui.vk = "tx" => newTx \/ Opened(w, "vkStop") \/ cont = "vkStop"
         /\ w.stack = <<>> /\ ~newTx /\ ~w.ui.tuning => w.ui.onOff

SwitchPre(w, cont) ==
    /\ w \in UiThread /\ Len(w.stack) <= 1 /\ ~w.ui.gTx
    /\ Repeated(w) /\ Starting(w)
    /\ ~TxDelay =>
         /\ NoStarting(w)
         /\ w.ui.vk = "tx" \/ Opened(w, "vkStart") \/ cont = "vkStart" => w.ui.playing
    /\ ~PttInput =>
         /\ NoInput(w) /\ ~Queued(w)
         /\ cont = "vkStart" => w.ui.button
         /\ w.ui.vk = "tx" => w.ui.button \/ Opened(w, "vkStop") \/ cont = "vkStop"
         /\ w.stack = <<>> /\ ~w.ui.button /\ ~w.ui.tuning => w.ui.onOff

TogglePre(w, cont) ==
    /\ w \in UiThread /\ Len(w.stack) <= 1
    /\ Repeated(w) /\ Starting(w)
    /\ cont = "vkStart" => w.ui.button /\ (w.ui.gTx => Len(w.stack) = 1)
    /\ ~TxDelay =>
         /\ Keyed(w)
         /\ cont = "vkStart" => w.ui.playing
    /\ ~PttInput =>
         /\ NoInput(w) /\ ~Queued(w)
         /\ w.ui.vk = "tx" => w.ui.button \/ Opened(w, "vkStop") \/ cont = "vkStop"
         /\ w.stack = <<>> => w.ui.gTx \/ w.ui.button

\* The settings.
ConfigType == config \in [txDelay : BOOLEAN, pttInput : BOOLEAN]

\* The types of the parts of a record.
LEMMA UiFields ==
    ASSUME NEW w \in UiThread
    PROVE  /\ w.stack \in Seq(Frames) /\ w.calls \in Seq(CallNames)
           /\ Len(w.stack) \in Nat /\ Len(w.calls) \in Nat
           /\ w.ui.repeat \in Nat
           /\ {w.ui.button, w.ui.gTx, w.ui.endingTx, w.ui.rig, w.ui.reported,
               w.ui.onOff, w.ui.tuneOk, w.ui.tuning, w.ui.playing} \subseteq BOOLEAN
  BY ParametersAssumption DEF UiThread, UiType

\* What depends on the stack alone.
LEMMA SameStack ==
    ASSUME NEW f, NEW w, f.stack = w.stack
    PROVE  /\ \A c : Opened(f, c) <=> Opened(w, c)
           /\ NoStarting(f) <=> NoStarting(w)
           /\ Len(w.stack) \in Nat /\ Len(w.stack) <= 1 /\ Starting(w) => Starting(f)
  BY DEF Opened, NoStarting, Starting

\* What depends on the queue alone.
LEMMA SameCalls ==
    ASSUME NEW f, NEW w, f.calls = w.calls
    PROVE  /\ Queued(f) <=> Queued(w)
           /\ NoInput(f) <=> NoInput(w)
  BY DEF Queued, NoInput

\* A call is queued.
LEMMA MoreCalls ==
    ASSUME NEW f, NEW w \in UiThread, NEW c \in CallNames, f.calls = Append(w.calls, c)
    PROVE  /\ Queued(f) <=> Queued(w) \/ c = "toggle"
           /\ NoInput(w) /\ c \notin {"pressed", "released"} => NoInput(f)
           /\ f.calls \in Seq(CallNames)
<1>1. w.calls \in Seq(CallNames)
  BY UiFields
<1>2. /\ f.calls \in Seq(CallNames)
      /\ Len(f.calls) = Len(w.calls) + 1
      /\ \A i \in 1 .. Len(w.calls) : f.calls[i] = w.calls[i]
      /\ f.calls[Len(w.calls) + 1] = c
  BY <1>1, AppendProperties
<1>3. Len(w.calls) \in Nat
  BY <1>1, LenProperties
<1>4. \A i \in 1 .. Len(f.calls) : i \in 1 .. Len(w.calls) \/ i = Len(w.calls) + 1
  BY <1>2, <1>3
<1>5. \A i \in 1 .. Len(w.calls) : i \in 1 .. Len(f.calls)
  BY <1>2, <1>3
<1>6. Len(w.calls) + 1 \in 1 .. Len(f.calls)
  BY <1>2, <1>3
<1>7. Queued(f) <=> Queued(w) \/ c = "toggle"
  BY <1>2, <1>4, <1>5, <1>6 DEF Queued
<1>8. NoInput(w) /\ c \notin {"pressed", "released"} => NoInput(f)
  BY <1>2, <1>4 DEF NoInput
<1> QED
  BY <1>2, <1>7, <1>8

\* togglePTT() waits.
LEMMA WaitFields ==
    ASSUME NEW w \in UiThread, NEW cont \in Conts,
           NEW at \in {"draining", "flushing", "starting"}
    PROVE  LET f == Wait(w, at, cont) IN
           /\ f \in UiThread /\ f.ui = w.ui /\ f.calls = w.calls
           /\ f.stack # <<>> /\ Len(f.stack) = Len(w.stack) + 1
           /\ \A c : Opened(f, c) <=> (Opened(w, c) \/ c = cont)
           /\ at # "starting" => (NoStarting(f) <=> NoStarting(w))
           /\ /\ Starting(w)
              /\ \/ at = "starting" \/ cont # "vkStart"
                 \/ Len(w.stack) = 1 /\ w.ui.button
              => Starting(f)
<1> DEFINE fr == [at |-> at, cont |-> cont]
           f == Wait(w, at, cont)
<1>1. w.stack \in Seq(Frames) /\ fr \in Frames
  BY UiFields DEF Frames, Conts
<1>2. f = [w EXCEPT !.stack = Append(@, fr)]
  BY DEF Wait
<1>3. /\ Append(w.stack, fr) \in Seq(Frames)
      /\ Len(Append(w.stack, fr)) = Len(w.stack) + 1
      /\ \A i \in 1 .. Len(w.stack) : Append(w.stack, fr)[i] = w.stack[i]
      /\ Append(w.stack, fr)[Len(w.stack) + 1] = fr
      /\ Append(w.stack, fr) # <<>>
  BY <1>1, AppendProperties, EmptySeq
<1>4. Len(w.stack) \in Nat
  BY <1>1, LenProperties
<1>5. f \in UiThread /\ f.ui = w.ui /\ f.calls = w.calls /\ f.stack = Append(w.stack, fr)
  BY <1>2, <1>3 DEF UiThread
<1> HIDE DEF f
<1>6. \A i \in 1 .. Len(f.stack) : i \in 1 .. Len(w.stack) \/ i = Len(w.stack) + 1
  BY <1>3, <1>4, <1>5
<1>7. \A i \in 1 .. Len(w.stack) : i \in 1 .. Len(f.stack) /\ f.stack[i] = w.stack[i]
  BY <1>3, <1>4, <1>5
<1>8. /\ Len(w.stack) + 1 \in 1 .. Len(f.stack)
      /\ f.stack[Len(w.stack) + 1].at = at /\ f.stack[Len(w.stack) + 1].cont = cont
  BY <1>3, <1>4, <1>5
<1>9. \A c : Opened(f, c) <=> (Opened(w, c) \/ c = cont)
  BY <1>6, <1>7, <1>8 DEF Opened
<1>10. at # "starting" => (NoStarting(f) <=> NoStarting(w))
  BY <1>6, <1>7, <1>8 DEF NoStarting
<1>11. ASSUME Starting(w),
              \/ at = "starting" \/ cont # "vkStart"
              \/ Len(w.stack) = 1 /\ w.ui.button
       PROVE  Starting(f)
  <2>1. \A i \in 1 .. Len(w.stack) :
           f.stack[i].cont = "vkStart" /\ f.stack[i].at # "starting"
               => i = 2 /\ f.ui.button
    BY <1>5, <1>7, <1>11 DEF Starting
  <2>2. f.stack[Len(w.stack) + 1].cont = "vkStart" /\ f.stack[Len(w.stack) + 1].at # "starting"
               => Len(w.stack) + 1 = 2 /\ f.ui.button
    <3>1. ASSUME cont = "vkStart", at # "starting"
          PROVE  Len(w.stack) + 1 = 2 /\ f.ui.button
      <4>1. Len(w.stack) = 1 /\ w.ui.button
        BY <1>11, <3>1
      <4>2. Len(w.stack) + 1 = 2
        BY <4>1
      <4>3. f.ui.button
        BY <1>5, <4>1
      <4> QED
        BY <4>2, <4>3
    <3> QED
      BY <1>8, <3>1
  <2> QED
    BY <1>6, <2>1, <2>2 DEF Starting
<1>12. Len(f.stack) = Len(w.stack) + 1 /\ f.stack # <<>>
  BY <1>3, <1>5
<1> QED
  BY <1>5, <1>9, <1>10, <1>11, <1>12 DEF f

\* The cases of Resume: the caller does nothing more.
LEMMA ResumeReturn == \A w : Resume(w, "return") = w
  BY Zenon DEF Resume

\* The voice keyer transmits.
LEMMA ResumeStart ==
    \A w : Resume(w, "vkStart") = [w EXCEPT !.ui.vk = "tx", !.ui.monitoring = Monitor \/ @]
  BY Zenon DEF Resume

\* The voice keyer is idle and the file will be stopped.
LEMMA ResumeStop ==
    \A w : Resume(w, "vkStop") =
             [w EXCEPT !.ui.vk = "idle", !.calls = Append(@, "stopPlay")]
  BY Zenon DEF Resume

\* The application stops.
LEMMA ResumeClose == \A w : Resume(w, "close") = [w EXCEPT !.ui.stopping = TRUE]
  BY Zenon DEF Resume

\* What Finish leaves of the record.
LEMMA FinishFields ==
    ASSUME NEW w \in UiThread, NEW newTx \in BOOLEAN, NEW cont \in Conts
    PROVE  LET f == Finish(w, newTx, cont) IN
           /\ f.stack = w.stack
           /\ f.calls = IF cont = "vkStop" THEN Append(w.calls, "stopPlay") ELSE w.calls
           /\ f.ui.button = newTx /\ f.ui.tuneOk = ~newTx
           /\ f.ui.vk = IF cont = "vkStart" THEN "tx"
                        ELSE IF cont = "vkStop" THEN "idle" ELSE w.ui.vk
           /\ SameRadio(f, w) /\ f \in UiThread
<1> DEFINE v == [w EXCEPT !.ui.button = newTx, !.ui.tuneOk = ~newTx]
<1>0. v \in UiThread
  BY DEF UiThread, UiType
<1>a. /\ v.stack = w.stack /\ v.calls = w.calls
      /\ v.ui.button = newTx /\ v.ui.tuneOk = ~newTx
      /\ v.ui.vk = w.ui.vk /\ SameRadio(v, w)
  BY DEF UiThread, UiType, SameRadio
<1>b. Finish(w, newTx, cont) = Resume(v, cont)
  BY DEF Finish
<1> HIDE DEF v
<1>1. CASE cont = "return"
  BY <1>1, <1>0, <1>a, <1>b, ResumeReturn DEF SameRadio
<1>2. CASE cont = "vkStart"
  <2> DEFINE f == [v EXCEPT !.ui.vk = "tx", !.ui.monitoring = Monitor \/ @]
  <2>1. f \in UiThread
    BY <1>0, ParametersAssumption DEF UiThread, UiType
  <2>2. /\ f.stack = v.stack /\ f.calls = v.calls
        /\ f.ui.button = v.ui.button /\ f.ui.tuneOk = v.ui.tuneOk
        /\ f.ui.vk = "tx" /\ SameRadio(f, v)
    BY <1>0 DEF UiThread, UiType, SameRadio
  <2> QED
    BY <1>2, <1>a, <1>b, <2>1, <2>2, ResumeStart DEF SameRadio
<1>3. CASE cont = "vkStop"
  <2> DEFINE f == [v EXCEPT !.ui.vk = "idle", !.calls = Append(@, "stopPlay")]
  <2>0. Append(v.calls, "stopPlay") \in Seq(CallNames)
    BY <1>0, UiFields, AppendProperties DEF CallNames
  <2>1. f \in UiThread
    BY <1>0, <2>0 DEF UiThread, UiType
  <2>2. /\ f.stack = v.stack /\ f.calls = Append(v.calls, "stopPlay")
        /\ f.ui.button = v.ui.button /\ f.ui.tuneOk = v.ui.tuneOk
        /\ f.ui.vk = "idle" /\ SameRadio(f, v)
    BY <1>0 DEF UiThread, UiType, SameRadio
  <2> QED
    BY <1>3, <1>a, <1>b, <2>1, <2>2, ResumeStop DEF SameRadio
<1>4. CASE cont = "close"
  <2> DEFINE f == [v EXCEPT !.ui.stopping = TRUE]
  <2>1. f \in UiThread
    BY <1>0 DEF UiThread, UiType
  <2>2. /\ f.stack = v.stack /\ f.calls = v.calls
        /\ f.ui.button = v.ui.button /\ f.ui.tuneOk = v.ui.tuneOk
        /\ f.ui.vk = v.ui.vk /\ SameRadio(f, v)
    BY <1>0 DEF UiThread, UiType, SameRadio
  <2> QED
    BY <1>4, <1>a, <1>b, <2>1, <2>2, ResumeClose DEF SameRadio
<1> QED
  BY <1>1, <1>2, <1>3, <1>4 DEF Conts

\* The end of togglePTT() restores the invariant.
LEMMA FinishSound ==
    ASSUME NEW w, NEW newTx \in BOOLEAN, NEW cont \in Conts, FinishPre(w, newTx, cont)
    PROVE  Sound(Finish(w, newTx, cont))
<1> DEFINE f == Finish(w, newTx, cont)
<1>1. w \in UiThread
  BY DEF FinishPre
<1>2. /\ f.stack = w.stack /\ f \in UiThread
      /\ f.calls = IF cont = "vkStop" THEN Append(w.calls, "stopPlay") ELSE w.calls
      /\ f.ui.button = newTx /\ f.ui.tuneOk = ~newTx
      /\ f.ui.vk = IF cont = "vkStart" THEN "tx"
                   ELSE IF cont = "vkStop" THEN "idle" ELSE w.ui.vk
      /\ SameRadio(f, w)
  BY <1>1, FinishFields
<1> HIDE DEF f
<1>3. /\ Queued(f) <=> Queued(w)
      /\ NoInput(w) => NoInput(f)
  BY <1>1, <1>2, SameCalls, MoreCalls DEF CallNames
<1>4. /\ \A c : Opened(f, c) <=> Opened(w, c)
      /\ NoStarting(f) <=> NoStarting(w)
      /\ Starting(f) /\ Len(f.stack) <= 2
  BY <1>1, <1>2, SameStack, UiFields DEF FinishPre
<1>5. Agrees(f) /\ Repeated(f)
  BY <1>2 DEF FinishPre, Agrees, Repeated, SameRadio
<1>6. Prompt(f)
  BY <1>2, <1>4 DEF FinishPre, Prompt, Keyed, SameRadio
<1>7. OwnOnly(f)
  <2> SUFFICES ASSUME ~PttInput PROVE Own(f)
    BY DEF OwnOnly
  <2>1. ~Queued(f) /\ NoInput(f)
    BY <1>3 DEF FinishPre
  <2>2. OneToggle(f)
    BY <2>1 DEF Queued, OneToggle
  <2> QED
    BY <1>2, <1>4, <2>1, <2>2 DEF FinishPre, Own, SameRadio, Rest
<1> QED
  BY <1>2, <1>4, <1>5, <1>6, <1>7 DEF Sound, f

\* So does keying or unkeying, with or without the TX delay.
LEMMA SwitchSound ==
    ASSUME NEW w, NEW cont \in Conts, SwitchPre(w, cont)
    PROVE  Sound(Switch(w, cont))
<1> DEFINE newTx == w.ui.button
           told == [w EXCEPT !.ui.rig = newTx, !.ui.reported = newTx]
           armed == [told EXCEPT !.ui.endingTx = FALSE]
           onAir == [armed EXCEPT !.ui.gTx = TRUE, !.ui.suspended = FALSE]
<1>1. w \in UiThread /\ newTx \in BOOLEAN
  BY UiFields DEF SwitchPre
<1>2. Switch(w, cont) = IF ~newTx THEN Finish(told, FALSE, cont)
                        ELSE IF TxDelay THEN Wait(armed, "starting", cont)
                        ELSE Finish(onAir, TRUE, cont)
  BY DEF Switch, GoOnAir
<1>3. /\ told \in UiThread /\ told.stack = w.stack /\ told.calls = w.calls
      /\ told.ui.button = newTx /\ told.ui.rig = newTx /\ told.ui.reported = newTx
      /\ told.ui.gTx = w.ui.gTx /\ told.ui.endingTx = w.ui.endingTx
      /\ told.ui.onOff = w.ui.onOff /\ told.ui.tuning = w.ui.tuning
      /\ told.ui.repeat = w.ui.repeat /\ told.ui.playing = w.ui.playing
      /\ told.ui.vk = w.ui.vk
  BY <1>1 DEF UiThread, UiType
<1> HIDE DEF told
<1>4. /\ armed \in UiThread /\ armed.stack = w.stack /\ armed.calls = w.calls
      /\ armed.ui.button = newTx /\ armed.ui.rig = newTx /\ armed.ui.reported = newTx
      /\ armed.ui.gTx = w.ui.gTx /\ armed.ui.endingTx = FALSE
      /\ armed.ui.onOff = w.ui.onOff /\ armed.ui.tuning = w.ui.tuning
      /\ armed.ui.repeat = w.ui.repeat /\ armed.ui.playing = w.ui.playing
      /\ armed.ui.vk = w.ui.vk
  BY <1>3 DEF UiThread, UiType
<1> HIDE DEF armed
<1>5. /\ onAir \in UiThread /\ onAir.stack = w.stack /\ onAir.calls = w.calls
      /\ onAir.ui.button = newTx /\ onAir.ui.rig = newTx /\ onAir.ui.reported = newTx
      /\ onAir.ui.gTx = TRUE /\ onAir.ui.endingTx = FALSE
      /\ onAir.ui.onOff = w.ui.onOff /\ onAir.ui.tuning = w.ui.tuning
      /\ onAir.ui.repeat = w.ui.repeat /\ onAir.ui.playing = w.ui.playing
      /\ onAir.ui.vk = w.ui.vk
  BY <1>4 DEF UiThread, UiType
<1> HIDE DEF onAir
<1>6. CASE ~newTx
  <2>1. FinishPre(told, FALSE, cont)
    <3>1. /\ \A c : Opened(told, c) <=> Opened(w, c)
          /\ NoStarting(told) <=> NoStarting(w)
          /\ Starting(told)
          /\ Queued(told) <=> Queued(w)
          /\ NoInput(told) <=> NoInput(w)
      BY <1>1, <1>3, SameStack, SameCalls, UiFields DEF SwitchPre
    <3>2. Repeated(told)
      BY <1>3 DEF SwitchPre, Repeated
    <3>3. told.ui.gTx = FALSE
      BY <1>1, <1>3, UiFields DEF SwitchPre
    <3>4. newTx = FALSE
      BY <1>6, <1>1
    <3> QED
      BY <1>3, <1>6, <3>1, <3>2, <3>3, <3>4 DEF SwitchPre, FinishPre
  <2> QED
    BY <1>2, <1>6, <2>1, FinishSound
<1>7. CASE newTx /\ TxDelay
  <2> DEFINE f == Wait(armed, "starting", cont)
  <2>1. /\ \A c : Opened(armed, c) <=> Opened(w, c)
        /\ Starting(armed)
        /\ Queued(armed) <=> Queued(w)
        /\ NoInput(armed) <=> NoInput(w)
    BY <1>1, <1>4, SameStack, SameCalls, UiFields DEF SwitchPre
  <2>2. /\ f \in UiThread /\ f.ui = armed.ui /\ f.calls = armed.calls
        /\ f.stack # <<>> /\ Len(f.stack) = Len(armed.stack) + 1
        /\ \A c : Opened(f, c) <=> (Opened(armed, c) \/ c = cont)
        /\ Starting(f)
    BY <1>4, <2>1, WaitFields
  <2> HIDE DEF f
  <2>3. Queued(f) <=> Queued(w)
    BY <2>1, <2>2, SameCalls
  <2>4. NoInput(f) <=> NoInput(w)
    BY <2>1, <2>2, SameCalls
  <2>5. Agrees(f) /\ Repeated(f) /\ Prompt(f)
    BY <1>4, <1>7, <2>2 DEF SwitchPre, Agrees, Repeated, Prompt, Rest
  <2>6. OwnOnly(f)
    BY <1>4, <1>7, <2>1, <2>2, <2>3, <2>4 DEF SwitchPre, OwnOnly, Own, OneToggle, Rest, Queued
  <2>7. Len(f.stack) <= 2
    BY <1>1, <1>4, <2>2, UiFields DEF SwitchPre
  <2> QED
    BY <1>2, <1>7, <2>2, <2>5, <2>6, <2>7 DEF Sound, f
<1>8. CASE newTx /\ ~TxDelay
  <2>1. FinishPre(onAir, TRUE, cont)
    <3>1. /\ \A c : Opened(onAir, c) <=> Opened(w, c)
          /\ NoStarting(onAir) <=> NoStarting(w)
          /\ Starting(onAir)
          /\ Queued(onAir) <=> Queued(w)
          /\ NoInput(onAir) <=> NoInput(w)
      BY <1>1, <1>5, SameStack, SameCalls, UiFields DEF SwitchPre
    <3>2. Repeated(onAir)
      BY <1>5 DEF SwitchPre, Repeated
    <3>4. newTx = TRUE
      BY <1>8, <1>1
    <3> QED
      BY <1>5, <1>8, <3>1, <3>2, <3>4 DEF SwitchPre, FinishPre
  <2> QED
    BY <1>2, <1>8, <2>1, FinishSound
<1> QED
  BY <1>6, <1>7, <1>8

\* An empty queue holds no two toggles.
LEMMA NoneQueued == ASSUME NEW w, ~Queued(w) PROVE OneToggle(w)
  BY DEF OneToggle, Queued

\* So does a whole call of togglePTT(), as far as its first wait.
LEMMA ToggleSound ==
    ASSUME NEW w, NEW cont \in Conts, TogglePre(w, cont), ConfigType
    PROVE  Sound(TogglePTT(w, cont))
<1> DEFINE p == [w EXCEPT !.ui.suspended = PttInput]
           q == [w EXCEPT !.ui.suspended = PttInput, !.ui.onOff = FALSE]
<1>1. w \in UiThread /\ PttInput \in BOOLEAN
  BY DEF TogglePre, PttInput, ConfigType
<1>2. TogglePTT(w, cont) = IF w.ui.gTx THEN Wait(p, "draining", cont) ELSE Switch(q, cont)
  BY DEF TogglePTT
<1>3. /\ p \in UiThread /\ p.stack = w.stack /\ p.calls = w.calls
      /\ p.ui.button = w.ui.button /\ p.ui.tuneOk = w.ui.tuneOk
      /\ p.ui.vk = w.ui.vk /\ SameRadio(p, w)
  BY <1>1 DEF UiThread, UiType, SameRadio
<1> HIDE DEF p
<1>4. /\ q \in UiThread /\ q.stack = w.stack /\ q.calls = w.calls
      /\ q.ui.button = w.ui.button /\ q.ui.gTx = w.ui.gTx
      /\ q.ui.vk = w.ui.vk /\ q.ui.playing = w.ui.playing
      /\ q.ui.repeat = w.ui.repeat
  BY <1>1 DEF UiThread, UiType
<1> HIDE DEF q
<1>5. CASE w.ui.gTx
  <2> DEFINE f == Wait(p, "draining", cont)
  <2>1. /\ \A c : Opened(p, c) <=> Opened(w, c)
        /\ NoStarting(p) <=> NoStarting(w)
        /\ Starting(p)
        /\ Queued(p) <=> Queued(w)
        /\ NoInput(p) <=> NoInput(w)
    BY <1>1, <1>3, SameStack, SameCalls, UiFields DEF TogglePre
  <2>2. /\ f \in UiThread /\ f.ui = p.ui /\ f.calls = p.calls
        /\ f.stack # <<>> /\ Len(f.stack) = Len(p.stack) + 1
        /\ \A c : Opened(f, c) <=> (Opened(p, c) \/ c = cont)
        /\ NoStarting(f) <=> NoStarting(p)
        /\ \/ cont # "vkStart"
           \/ Len(p.stack) = 1 /\ p.ui.button
           => Starting(f)
    BY <1>3, <2>1, WaitFields
  <2> HIDE DEF f
  <2>3. Starting(f)
    BY <1>3, <1>5, <2>2 DEF TogglePre
  <2>4. Queued(f) <=> Queued(w)
    BY <2>1, <2>2, SameCalls
  <2>5. NoInput(f) <=> NoInput(w)
    BY <2>1, <2>2, SameCalls
  <2>6. Agrees(f) /\ Repeated(f)
    BY <1>3, <2>2 DEF TogglePre, Agrees, Repeated, Rest, SameRadio
  <2>7. Prompt(f)
    BY <1>3, <2>1, <2>2 DEF TogglePre, Prompt, Keyed, Rest, SameRadio
  <2>8. OwnOnly(f)
    BY <1>3, <2>1, <2>2, <2>4, <2>5, NoneQueued DEF TogglePre, OwnOnly, Own, Rest
  <2>9. Len(f.stack) <= 2
    BY <1>1, <1>3, <2>2, UiFields DEF TogglePre
  <2> QED
    BY <1>2, <1>5, <2>2, <2>3, <2>6, <2>7, <2>8, <2>9 DEF Sound, f
<1>6. CASE ~w.ui.gTx
  <2>1. /\ \A c : Opened(q, c) <=> Opened(w, c)
        /\ NoStarting(q) <=> NoStarting(w)
        /\ Starting(q)
        /\ Queued(q) <=> Queued(w)
        /\ NoInput(q) <=> NoInput(w)
    BY <1>1, <1>4, SameStack, SameCalls, UiFields DEF TogglePre
  <2>2. Repeated(q)
    BY <1>4 DEF TogglePre, Repeated
  <2>3. SwitchPre(q, cont)
    BY <1>4, <1>6, <2>1, <2>2 DEF TogglePre, SwitchPre, Keyed
  <2> QED
    BY <1>2, <1>6, <2>3, SwitchSound
<1> QED
  BY <1>5, <1>6

\* The innermost wait is taken off the stack.
Pops(w, p) == p = [w EXCEPT !.stack = Front(@)]

\* What is left once it is.
LEMMA PopFields ==
    ASSUME NEW w \in UiThread, NEW p, w.stack # <<>>,
           Pops(w, p)
    PROVE  /\ p \in UiThread /\ p.ui = w.ui /\ p.calls = w.calls
           /\ Last(w.stack) \in Frames
           /\ Len(w.stack) \in Nat \ {0}
           /\ Len(p.stack) = Len(w.stack) - 1
           /\ \A c : Opened(w, c) <=> (Opened(p, c) \/ c = Last(w.stack).cont)
           /\ NoStarting(w) => NoStarting(p) /\ Last(w.stack).at # "starting"
           /\ Starting(w) =>
                /\ Starting(p)
                /\ Last(w.stack).cont = "vkStart" /\ Last(w.stack).at # "starting" =>
                      Len(w.stack) = 2 /\ w.ui.button
<1> DEFINE n == Len(w.stack)
<1>1. w.stack \in Seq(Frames)
  BY UiFields
<1>2. n \in Nat \ {0}
  BY <1>1, EmptySeq
<1>3. \A i \in 1 .. n - 1 : w.stack[i] \in Frames
  BY <1>1, <1>2, ElementOfSeq
<1>4. /\ Front(w.stack) \in Seq(Frames)
      /\ Len(Front(w.stack)) = n - 1
      /\ \A i \in 1 .. n - 1 : Front(w.stack)[i] = w.stack[i]
  <2>1. /\ SubSeq(w.stack, 1, n - 1) \in Seq(Frames)
        /\ Len(SubSeq(w.stack, 1, n - 1)) = IF 1 <= n - 1 THEN (n - 1) - 1 + 1 ELSE 0
        /\ \A i \in 1 .. (n - 1) - 1 + 1 : SubSeq(w.stack, 1, n - 1)[i] = w.stack[1 + i - 1]
    BY <1>2, <1>3, SubSeqProperties
  <2> QED
    BY <1>2, <2>1 DEF Front
<1>5. p \in UiThread /\ p.ui = w.ui /\ p.calls = w.calls /\ p.stack = Front(w.stack)
  BY <1>4 DEF UiThread, Pops
<1>6. Last(w.stack) = w.stack[n] /\ n \in 1 .. n /\ w.stack[n] \in Frames
  BY <1>1, <1>2, ElementOfSeq DEF Last
<1>7. \A i \in 1 .. n : i \in 1 .. n - 1 \/ i = n
  BY <1>2
<1>8. \A i \in 1 .. n - 1 : i \in 1 .. n /\ p.stack[i] = w.stack[i]
  BY <1>2, <1>4, <1>5
<1>9. Len(p.stack) = n - 1
  BY <1>4, <1>5
<1>10. \A c : Opened(w, c) <=> (Opened(p, c) \/ c = Last(w.stack).cont)
  BY <1>6, <1>7, <1>8, <1>9 DEF Opened
<1>11. NoStarting(w) => NoStarting(p) /\ Last(w.stack).at # "starting"
  BY <1>6, <1>7, <1>8, <1>9 DEF NoStarting
<1>12. ASSUME Starting(w)
       PROVE  /\ Starting(p)
              /\ Last(w.stack).cont = "vkStart" /\ Last(w.stack).at # "starting" =>
                      n = 2 /\ w.ui.button
  BY <1>5, <1>6, <1>8, <1>9, <1>12 DEF Starting
<1> QED
  BY <1>2, <1>5, <1>6, <1>9, <1>10, <1>11, <1>12

\* What is left of the queue once its head is taken.
LEMMA TailCalls ==
    ASSUME NEW w \in UiThread, NEW f, w.calls # <<>>, f.calls = Tail(w.calls)
    PROVE  /\ f.calls \in Seq(CallNames)
           /\ Head(w.calls) \in CallNames
           /\ Queued(w) <=> Queued(f) \/ Head(w.calls) = "toggle"
           /\ NoInput(w) => NoInput(f) /\ Head(w.calls) \notin {"pressed", "released"}
           /\ OneToggle(w) => OneToggle(f) /\ (Head(w.calls) = "toggle" => ~Queued(f))
<1> DEFINE n == Len(w.calls)
<1>1. w.calls \in Seq(CallNames)
  BY UiFields
<1>2. n \in Nat \ {0}
  BY <1>1, EmptySeq
<1>3. /\ Head(w.calls) \in CallNames
      /\ f.calls \in Seq(CallNames)
      /\ Len(f.calls) = n - 1
      /\ \A i \in 1 .. n - 1 : f.calls[i] = w.calls[i + 1]
  BY <1>1, HeadTailProperties
<1>4. Head(w.calls) = w.calls[1]
  BY <1>1
<1>5. /\ \A i \in 1 .. n - 1 : i + 1 \in 1 .. n /\ i + 1 # 1
      /\ \A i \in 1 .. n : i = 1 \/ (i - 1 \in 1 .. n - 1 /\ i = (i - 1) + 1)
      /\ 1 \in 1 .. n
  BY <1>2
<1>6. ASSUME Queued(w) PROVE Queued(f) \/ Head(w.calls) = "toggle"
  <2>1. PICK i \in 1 .. n : w.calls[i] = "toggle"
    BY <1>6 DEF Queued
  <2>2. CASE i = 1
    BY <1>4, <2>1, <2>2
  <2>3. CASE i # 1
    <3>1. i - 1 \in 1 .. n - 1 /\ i = (i - 1) + 1
      BY <1>5, <2>3
    <3>2. f.calls[i - 1] = w.calls[(i - 1) + 1]
      BY <1>3, <3>1
    <3> QED
      BY <1>3, <2>1, <3>1, <3>2 DEF Queued
  <2> QED
    BY <2>2, <2>3
<1>7. ASSUME Queued(f) PROVE Queued(w)
  BY <1>3, <1>5, <1>7 DEF Queued
<1>8. Head(w.calls) = "toggle" => Queued(w)
  BY <1>4, <1>5 DEF Queued
<1>9. NoInput(w) => NoInput(f) /\ Head(w.calls) \notin {"pressed", "released"}
  BY <1>3, <1>4, <1>5 DEF NoInput
<1>10. ASSUME OneToggle(w) PROVE OneToggle(f)
  <2> SUFFICES ASSUME NEW i \in 1 .. n - 1, NEW j \in 1 .. n - 1,
                      f.calls[i] = "toggle", f.calls[j] = "toggle"
               PROVE  i = j
    BY <1>3 DEF OneToggle
  <2>1. w.calls[i + 1] = "toggle" /\ w.calls[j + 1] = "toggle"
    BY <1>3
  <2>2. i + 1 = j + 1
    BY <1>5, <1>10, <2>1 DEF OneToggle
  <2> QED
    BY <1>2, <2>2
<1>11. ASSUME OneToggle(w), Head(w.calls) = "toggle", Queued(f) PROVE FALSE
  <2>1. PICK i \in 1 .. n - 1 : f.calls[i] = "toggle"
    BY <1>3, <1>11 DEF Queued
  <2>2. w.calls[i + 1] = "toggle" /\ w.calls[1] = "toggle"
    BY <1>3, <1>4, <1>11, <2>1
  <2>3. i + 1 = 1
    BY <1>5, <1>11, <2>2 DEF OneToggle
  <2> QED
    BY <1>5, <2>3
<1> QED
  BY <1>3, <1>6, <1>7, <1>8, <1>9, <1>10, <1>11

\* Fields a change of the state of the voice keyer leaves as they are.
SameKeys(f, w) ==
    /\ f.stack = w.stack /\ f.calls = w.calls
    /\ f.ui.button = w.ui.button /\ f.ui.tuneOk = w.ui.tuneOk
    /\ f.ui.gTx = w.ui.gTx /\ f.ui.endingTx = w.ui.endingTx
    /\ f.ui.rig = w.ui.rig /\ f.ui.reported = w.ui.reported
    /\ f.ui.onOff = w.ui.onOff /\ f.ui.tuning = w.ui.tuning

\* The keyer may become idle, or go from listening to hearing and back.
LEMMA VkMoves ==
    ASSUME NEW v, Sound(v), NEW f \in UiThread, SameKeys(f, v),
           f.ui.playing = v.ui.playing,
           f.ui.repeat = v.ui.repeat \/ f.ui.repeat = 0,
           \/ f.ui.vk = v.ui.vk \/ f.ui.vk = "idle"
           \/ v.ui.vk \in {"rx", "sync"} /\ f.ui.vk \in {"rx", "sync"}
    PROVE  Sound(f)
<1>1. /\ \A c : Opened(f, c) <=> Opened(v, c)
      /\ NoStarting(f) <=> NoStarting(v)
      /\ Queued(f) <=> Queued(v)
      /\ NoInput(f) <=> NoInput(v)
  BY SameStack, SameCalls DEF SameKeys
<1>2. OneToggle(v) => OneToggle(f)
  BY DEF OneToggle, SameKeys
<1>3. Starting(f) /\ Len(f.stack) <= 2
  BY DEF Sound, Starting, SameKeys
<1>4. Agrees(f)
  BY <1>1 DEF Sound, Agrees, Rest, SameKeys
<1>5. Repeated(f)
  BY ParametersAssumption DEF Sound, Repeated
<1>6. Prompt(f)
  BY <1>1 DEF Sound, Prompt, Keyed, Rest, SameKeys
<1>7. OwnOnly(f)
  BY <1>1, <1>2 DEF Sound, OwnOnly, Own, Rest, SameKeys
<1> QED
  BY <1>3, <1>4, <1>5, <1>6, <1>7 DEF Sound

\* Unmonitored changes the monitoring alone.
LEMMA UnmonitoredFields ==
    ASSUME NEW w \in UiThread
    PROVE  LET f == Unmonitored(w) IN
           /\ f \in UiThread /\ SameKeys(f, w)
           /\ f.ui.playing = w.ui.playing /\ f.ui.repeat = w.ui.repeat
           /\ f.ui.vk = w.ui.vk
  BY DEF Unmonitored, UiThread, UiType, SameKeys

\* It keeps the invariant.
LEMMA UnmonitoredSound == ASSUME NEW w, Sound(w) PROVE Sound(Unmonitored(w))
  BY UnmonitoredFields, VkMoves DEF Sound

\* So does an idle keyer.
LEMMA IdleSound ==
    ASSUME NEW w, Sound(w) PROVE Sound([w EXCEPT !.ui.vk = "idle"])
<1> DEFINE f == [w EXCEPT !.ui.vk = "idle"]
<1>1. w \in UiThread
  BY DEF Sound
<1>2. /\ f \in UiThread /\ SameKeys(f, w)
      /\ f.ui.playing = w.ui.playing /\ f.ui.repeat = w.ui.repeat
      /\ f.ui.vk = "idle"
  BY <1>1 DEF UiThread, UiType, SameKeys
<1> QED
  BY <1>2, VkMoves

\* A record on which the UI thread handles an event of the user or of a timer.
Served(v) == Sound(v) /\ Len(v.stack) <= 1 /\ ~Queued(v)

\* The voice keyer starts a transmission, whoever has the button.
LEMMA StartTxSound ==
    ASSUME NEW v, NEW opens, Served(v), v.ui.repeat <= Repeats, ConfigType
    PROVE  Sound(VoiceKeyerStartTx(v, opens))
<1> DEFINE p == [v EXCEPT !.ui.playing = TRUE]
           q == [p EXCEPT !.ui.button = TRUE]
           f == [p EXCEPT !.ui.vk = "tx", !.ui.monitoring = Monitor \/ @]
<1>1. v \in UiThread /\ Sound(v)
  BY DEF Served, Sound
<1>2. /\ VoiceKeyerStartTx(v, opens) =
           IF ~opens THEN [v EXCEPT !.ui.vk = "idle"]
           ELSE IF v.ui.button THEN Resume(p, "vkStart") ELSE TogglePTT(q, "vkStart")
      /\ Resume(p, "vkStart") = f
  <2>1. Resume(p, "vkStart") = f
    BY ResumeStart
  <2> QED
    BY <2>1 DEF VoiceKeyerStartTx
<1>3. /\ p \in UiThread /\ SameKeys(p, v)
      /\ p.ui.playing = TRUE /\ p.ui.repeat = v.ui.repeat /\ p.ui.vk = v.ui.vk
  BY <1>1 DEF UiThread, UiType, SameKeys
<1> HIDE DEF p
<1>4. /\ \A c : Opened(p, c) <=> Opened(v, c)
      /\ NoStarting(p) <=> NoStarting(v)
      /\ Starting(p)
      /\ Queued(p) <=> Queued(v)
      /\ NoInput(p) <=> NoInput(v)
  BY <1>1, <1>3, SameStack, SameCalls, UiFields DEF SameKeys, Served, Sound
<1>5. CASE ~opens
  BY <1>1, <1>2, <1>5, IdleSound
<1>6. CASE opens /\ v.ui.button
  <2>1. /\ f \in UiThread /\ SameKeys(f, p)
        /\ f.ui.playing = TRUE /\ f.ui.repeat = p.ui.repeat /\ f.ui.vk = "tx"
    BY <1>3, ParametersAssumption DEF UiThread, UiType, SameKeys
  <2> HIDE DEF f
  <2>2. /\ \A c : Opened(f, c) <=> Opened(v, c)
        /\ NoStarting(f) <=> NoStarting(v)
        /\ Starting(f) /\ Len(f.stack) <= 2
        /\ ~Queued(f)
        /\ NoInput(f) <=> NoInput(v)
    BY <1>1, <1>3, <2>1, SameStack, SameCalls, UiFields DEF SameKeys, Served, Sound
  <2>3. Agrees(f)
    BY <1>3, <2>1, <2>2 DEF SameKeys, Served, Sound, Agrees, Rest
  <2>4. Repeated(f)
    BY <1>3, <2>1 DEF Repeated
  <2>5. Prompt(f)
    BY <1>3, <2>1, <2>2 DEF SameKeys, Served, Sound, Prompt, Keyed, Rest
  <2>6. OwnOnly(f)
    BY <1>3, <1>6, <2>1, <2>2, NoneQueued DEF SameKeys, Served, Sound, OwnOnly, Own, Rest
  <2>7. Sound(f)
    BY <2>1, <2>2, <2>3, <2>4, <2>5, <2>6 DEF Sound
  <2> QED
    BY <1>2, <1>6, <2>7
<1>7. CASE opens /\ ~v.ui.button
  <2>1. /\ q \in UiThread /\ q.stack = p.stack /\ q.calls = p.calls
        /\ q.ui.button = TRUE /\ q.ui.tuneOk = p.ui.tuneOk
        /\ q.ui.vk = p.ui.vk /\ SameRadio(q, p)
    BY <1>3 DEF UiThread, UiType, SameRadio
  <2> HIDE DEF q
  <2>2. /\ \A c : Opened(q, c) <=> Opened(v, c)
        /\ NoStarting(q) <=> NoStarting(v)
        /\ Starting(q) /\ Len(q.stack) <= 1
        /\ ~Queued(q)
        /\ NoInput(q) <=> NoInput(v)
    BY <1>1, <1>3, <2>1, SameStack, SameCalls, UiFields DEF SameKeys, Served, Sound
  <2>3. q.ui.gTx => Len(q.stack) = 1
    <3>1. q.stack = v.stack /\ q.ui.gTx = v.ui.gTx
      BY <1>3, <2>1 DEF SameKeys, SameRadio
    <3>2. v.stack = <<>> => v.ui.button = v.ui.gTx
      BY DEF Served, Sound, Agrees, Rest
    <3>3. v.stack # <<>> => Len(v.stack) = 1
      <4>1. v.stack \in Seq(Frames)
        BY <1>1, UiFields
      <4>2. v.stack # <<>> => Len(v.stack) \in Nat /\ Len(v.stack) # 0
        BY <4>1, EmptySeq
      <4>3. Len(v.stack) <= 1
        BY DEF Served
      <4>4. \A n \in Nat : n # 0 /\ n <= 1 => n = 1
        OBVIOUS
      <4> QED
        BY <4>2, <4>3, <4>4
    <3> QED
      BY <1>7, <3>1, <3>2, <3>3
  <2>4. Repeated(q)
    BY <1>3, <2>1 DEF Repeated, SameRadio
  <2>5. ~TxDelay => Keyed(q)
    BY <1>3, <2>1, <2>2 DEF SameKeys, SameRadio, Served, Sound, Prompt, Keyed
  <2>6. TogglePre(q, "vkStart")
    BY <1>3, <2>1, <2>2, <2>3, <2>4, <2>5
    DEF SameKeys, SameRadio, Served, Sound, OwnOnly, Own, TogglePre
  <2> QED
    BY <1>2, <1>7, <2>6, ToggleSound DEF Conts
<1> QED
  BY <1>5, <1>6, <1>7

\* The voice keyer is stopped while it transmits: it has the button or is being
\* stopped already, so that there is a transmission for togglePTT() to end.
LEMMA SpaceBarSound ==
    ASSUME NEW v, NEW b \in BOOLEAN, Served(v), v.ui.vk = "tx", ConfigType
    PROVE  Sound(VkSpaceBar([v EXCEPT !.ui.button = b]))
<1> DEFINE w == [v EXCEPT !.ui.button = b]
           q == [w EXCEPT !.ui.button = FALSE, !.ui.endingTx = TRUE]
<1>1. v \in UiThread
  BY DEF Served, Sound
<1>2. w \in UiThread /\ w.ui.vk = "tx"
      /\ w.stack = v.stack /\ w.calls = v.calls /\ w.ui.tuneOk = v.ui.tuneOk
      /\ SameRadio(w, v)
  BY <1>1 DEF UiThread, UiType, SameRadio
<1> HIDE DEF w
<1>3. VkSpaceBar(w) = TogglePTT(q, "vkStop")
  BY <1>2 DEF VkSpaceBar
<1>4. /\ q \in UiThread /\ q.stack = v.stack /\ q.calls = v.calls
      /\ q.ui.button = FALSE /\ q.ui.tuneOk = v.ui.tuneOk
      /\ q.ui.gTx = v.ui.gTx /\ q.ui.rig = v.ui.rig /\ q.ui.reported = v.ui.reported
      /\ q.ui.tuning = v.ui.tuning /\ q.ui.playing = v.ui.playing
      /\ q.ui.repeat = v.ui.repeat /\ q.ui.vk = "tx"
  BY <1>2 DEF UiThread, UiType, SameRadio
<1> HIDE DEF q
<1>5. /\ \A c : Opened(q, c) <=> Opened(v, c)
      /\ NoStarting(q) <=> NoStarting(v)
      /\ Starting(q) /\ Len(q.stack) <= 1
      /\ ~Queued(q)
      /\ NoInput(q) <=> NoInput(v)
  BY <1>1, <1>4, SameStack, SameCalls, UiFields DEF Served, Sound
<1>6. Repeated(q)
  BY <1>4 DEF Served, Sound, Repeated
<1>7. ~TxDelay => Keyed(q)
  BY <1>4, <1>5 DEF Served, Sound, Prompt, Keyed
<1>8. ASSUME ~PttInput, v.stack = <<>> PROVE v.ui.gTx
  <2>1. v.ui.button
    BY <1>8, EmptySeq DEF Served, Sound, OwnOnly, Own, Opened
  <2> QED
    BY <1>8, <2>1 DEF Served, Sound, Agrees, Rest
<1>9. TogglePre(q, "vkStop")
  BY <1>4, <1>5, <1>6, <1>7, <1>8 DEF Served, Sound, OwnOnly, Own, TogglePre
<1> QED
  BY <1>3, <1>9, ToggleSound DEF Conts, w

\* The voice keyer is stopped while it listens.
LEMMA SpaceBarIdles ==
    ASSUME NEW w, Sound(w), w.ui.vk # "tx"
    PROVE  Sound(VkSpaceBar(w))
  BY UnmonitoredSound, IdleSound DEF VkSpaceBar

\* A record is unchanged when its button is.
LEMMA SameButton ==
    ASSUME NEW w \in UiThread PROVE w = [w EXCEPT !.ui.button = w.ui.button]
  BY DEF UiThread, UiType

\* Stopping the voice keyer keeps the invariant in each of its states.
LEMMA SpaceBarHere ==
    ASSUME NEW v, Served(v), ConfigType PROVE Sound(VkSpaceBar(v))
<1>1. v \in UiThread /\ Sound(v)
  BY DEF Served, Sound
<1>2. CASE v.ui.vk = "tx"
  <2>1. v.ui.button \in BOOLEAN
    BY <1>1, UiFields
  <2>2. Sound(VkSpaceBar([v EXCEPT !.ui.button = v.ui.button]))
    BY <1>2, <2>1, SpaceBarSound
  <2> QED
    BY <1>1, <2>2, SameButton
<1>3. CASE v.ui.vk # "tx"
  BY <1>1, <1>3, SpaceBarIdles
<1> QED
  BY <1>2, <1>3

\* The file has played to its end: the toggle that is queued has a transmission
\* to end, and no other is queued.
LEMMA PlayFinishedSound ==
    ASSUME NEW v, Sound(v), Len(v.stack) <= 1
    PROVE  Sound(StopPlayFileToMicIn(v))
<1> DEFINE w == [v EXCEPT !.ui.playing = FALSE]
           vk == IF w.ui.repeat < Repeats THEN "rx" ELSE "idle"
           t == [w EXCEPT !.ui.button = FALSE, !.ui.endingTx = TRUE,
                          !.ui.repeat = @ + 1, !.ui.vk = vk]
           f == [t EXCEPT !.calls = Append(@, "toggle")]
           u == Unmonitored(w)
<1>1. v \in UiThread
  BY DEF Sound
<1>2. /\ w \in UiThread /\ SameKeys(w, v)
      /\ w.ui.playing = FALSE /\ w.ui.repeat = v.ui.repeat /\ w.ui.vk = v.ui.vk
  BY <1>1 DEF UiThread, UiType, SameKeys
<1>3. StopPlayFileToMicIn(v) =
        IF ~v.ui.playing THEN v ELSE IF w.ui.vk = "tx" THEN f ELSE u
  <2>1. VkPlayFinished(w) = IF w.ui.vk = "tx" THEN f ELSE u
    BY DEF VkPlayFinished
  <2> QED
    BY <2>1 DEF StopPlayFileToMicIn
<1> HIDE DEF w
\* At most one call is open: no voice keyer start is waiting in it without a TX delay.
<1>4. ~TxDelay => ~Opened(v, "vkStart")
  <2> SUFFICES ASSUME ~TxDelay, NEW i \in 1 .. Len(v.stack), v.stack[i].cont = "vkStart"
               PROVE  FALSE
    BY DEF Opened
  <2>1. v.stack[i].at # "starting"
    BY DEF Sound, Prompt, Keyed, NoStarting
  <2>2. i = 2
    BY <2>1 DEF Sound, Starting
  <2> QED
    BY <1>1, <2>2, UiFields
<1>5. CASE v.ui.playing /\ w.ui.vk = "tx"
  <2>1. v.ui.repeat <= Repeats /\ v.ui.repeat \in Nat
    BY <1>1, <1>5, UiFields DEF Sound, Repeated
  <2>2. /\ t \in UiThread /\ t.stack = v.stack /\ t.calls = v.calls
        /\ t.ui.button = FALSE /\ t.ui.vk = vk /\ t.ui.playing = FALSE
        /\ t.ui.tuneOk = v.ui.tuneOk /\ t.ui.gTx = v.ui.gTx
        /\ t.ui.rig = v.ui.rig /\ t.ui.reported = v.ui.reported
        /\ t.ui.onOff = v.ui.onOff /\ t.ui.tuning = v.ui.tuning
        /\ t.ui.repeat = v.ui.repeat + 1
    <3>1. vk \in {"rx", "idle"}
      OBVIOUS
    <3>2. w.ui.repeat + 1 \in 0 .. Repeats + 1
      BY <1>2, <2>1, ParametersAssumption
    <3> HIDE DEF vk
    <3> QED
      BY <1>2, <3>1, <3>2 DEF UiThread, UiType, SameKeys
  <2> HIDE DEF t
  <2>3. Append(t.calls, "toggle") \in Seq(CallNames)
    BY <2>2, UiFields, AppendProperties DEF CallNames
  <2>4. /\ f \in UiThread /\ f.ui = t.ui /\ f.stack = v.stack
        /\ f.calls = Append(v.calls, "toggle")
    BY <2>2, <2>3 DEF UiThread
  <2> HIDE DEF f
  <2>5. Queued(f) /\ (NoInput(v) => NoInput(f))
    BY <1>1, <2>4, MoreCalls DEF CallNames
  <2>6. /\ \A c : Opened(f, c) <=> Opened(v, c)
        /\ NoStarting(f) <=> NoStarting(v)
        /\ Starting(f)
    BY <1>1, <2>4, SameStack, UiFields DEF Sound
  <2>7. Agrees(f)
    BY <2>5 DEF Agrees, Rest
  <2>8. Repeated(f)
    <3>1. f.ui.vk = "rx" => v.ui.repeat < Repeats
      BY <1>2, <2>2, <2>4
    <3>2. f.ui.vk \in {"rx", "idle"}
      BY <2>2, <2>4
    <3> QED
      BY <2>1, <2>2, <2>4, <3>1, <3>2, ParametersAssumption DEF Repeated
  <2>9. f.ui.vk # "tx"
    BY <2>2, <2>4
  <2>10. Prompt(f)
    BY <1>4, <2>2, <2>4, <2>5, <2>6, <2>9 DEF Sound, Prompt, Keyed, Rest
  <2>11. OwnOnly(f)
    <3> SUFFICES ASSUME ~PttInput PROVE Own(f)
      BY DEF OwnOnly
    <3>1. Own(v)
      BY DEF Sound, OwnOnly
    <3>2. ~Queued(v)
      BY <1>2, <1>5, <3>1 DEF Own
    <3>3. OneToggle(f)
      <4>1. \A i \in 1 .. Len(f.calls) : f.calls[i] = "toggle" => i = Len(v.calls) + 1
        <5>1. v.calls \in Seq(CallNames) /\ "toggle" \in CallNames
          BY <1>1, UiFields DEF CallNames
        <5>2. /\ Len(f.calls) = Len(v.calls) + 1
              /\ \A i \in 1 .. Len(v.calls) : f.calls[i] = v.calls[i]
              /\ Len(v.calls) \in Nat
          BY <2>4, <5>1, AppendProperties, LenProperties
        <5>3. \A i \in 1 .. Len(f.calls) : i \in 1 .. Len(v.calls) \/ i = Len(v.calls) + 1
          BY <5>2
        <5> QED
          BY <3>2, <5>2, <5>3 DEF Queued
      <4> QED
        BY <4>1 DEF OneToggle
    <3>4. v.stack = <<>> => v.ui.gTx
      <4> SUFFICES ASSUME v.stack = <<>> PROVE v.ui.gTx
        OBVIOUS
      <4>1. v.ui.button
        BY <1>2, <1>5, <3>1, EmptySeq DEF Own, Opened
      <4> QED
        BY <3>2, <4>1 DEF Sound, Agrees, Rest
    <3>5. Len(f.stack) # 2
      <4>1. Len(v.stack) # 2
        BY <1>1, UiFields
      <4> QED
        BY <2>4, <4>1
    <3> QED
      BY <2>2, <2>4, <2>5, <2>9, <3>1, <3>3, <3>4, <3>5 DEF Own, Rest
  <2> QED
    BY <1>3, <1>5, <2>4, <2>6, <2>7, <2>8, <2>10, <2>11 DEF Sound
<1>6. CASE v.ui.playing /\ w.ui.vk # "tx"
  <2>1. /\ u \in UiThread /\ SameKeys(u, v)
        /\ u.ui.playing = FALSE /\ u.ui.repeat = v.ui.repeat /\ u.ui.vk = v.ui.vk
    BY <1>2, UnmonitoredFields DEF SameKeys
  <2> HIDE DEF u
  <2>2. /\ \A c : Opened(u, c) <=> Opened(v, c)
        /\ NoStarting(u) <=> NoStarting(v)
        /\ Starting(u)
        /\ Queued(u) <=> Queued(v)
        /\ NoInput(u) <=> NoInput(v)
        /\ OneToggle(u) <=> OneToggle(v)
    BY <1>1, <2>1, SameStack, SameCalls, UiFields DEF SameKeys, Sound, OneToggle
  <2>3. Agrees(u) /\ Repeated(u)
    BY <2>1, <2>2 DEF Sound, Agrees, Repeated, Rest, SameKeys
  <2>4. Prompt(u)
    BY <1>2, <1>4, <1>6, <2>1, <2>2 DEF Sound, Prompt, Keyed, Rest, SameKeys
  <2>5. OwnOnly(u)
    BY <2>1, <2>2 DEF Sound, OwnOnly, Own, Rest, SameKeys
  <2>6. Sound(u)
    BY <2>1, <2>2, <2>3, <2>4, <2>5 DEF Sound, SameKeys
  <2> QED
    BY <1>3, <1>6, <2>6
<1>7. CASE ~v.ui.playing
  BY <1>3, <1>7
<1> QED
  BY <1>5, <1>6, <1>7

\* What a call finds when its wait ends.
LEMMA PoppedSound ==
    ASSUME NEW w, Sound(w), w.stack # <<>>, Len(w.stack) = 1 => ~Queued(w),
           NEW p, Pops(w, p)
    PROVE  /\ p \in UiThread /\ p.ui = w.ui /\ p.calls = w.calls
           /\ Len(p.stack) <= 1
           /\ Last(w.stack).cont \in Conts
           /\ Repeated(p) /\ Starting(p)
           /\ Last(w.stack).cont = "vkStart" /\ Last(w.stack).at # "starting" =>
                 Len(p.stack) = 1 /\ p.ui.button
           /\ ~TxDelay =>
                /\ Keyed(p) /\ Last(w.stack).at # "starting"
                /\ Last(w.stack).cont = "vkStart" => p.ui.playing
           /\ ~PttInput =>
                /\ NoInput(p) /\ ~Queued(p)
                /\ p.ui.vk = "tx" =>
                      p.ui.button \/ Opened(p, "vkStop") \/ Last(w.stack).cont = "vkStop"
<1> DEFINE top == Last(w.stack)
<1>1. w \in UiThread /\ Len(w.stack) <= 2 /\ Starting(w)
  BY DEF Sound
<1>2. /\ p \in UiThread /\ p.ui = w.ui /\ p.calls = w.calls
      /\ top \in Frames
      /\ Len(w.stack) \in Nat \ {0}
      /\ Len(p.stack) = Len(w.stack) - 1
      /\ \A c : Opened(w, c) <=> (Opened(p, c) \/ c = top.cont)
      /\ NoStarting(w) => NoStarting(p) /\ top.at # "starting"
      /\ Starting(p)
      /\ top.cont = "vkStart" /\ top.at # "starting" => Len(w.stack) = 2 /\ w.ui.button
  BY <1>1, PopFields
<1>3. top.cont \in Conts
  BY <1>2 DEF Frames, Conts
<1> HIDE DEF top
<1>4. /\ Len(p.stack) <= 1
      /\ Len(w.stack) = 1 \/ Len(w.stack) = 2
      /\ Len(w.stack) = 2 => Len(p.stack) = 1
  <2>1. \A n \in Nat \ {0} : n <= 2 => n - 1 <= 1 /\ (n = 1 \/ n = 2) /\ (n = 2 => n - 1 = 1)
    OBVIOUS
  <2> QED
    BY <1>1, <1>2, <2>1
<1>5. Queued(p) <=> Queued(w)
  BY <1>2, SameCalls
<1>6. NoInput(p) <=> NoInput(w)
  BY <1>2, SameCalls
<1>7. Repeated(p)
  BY <1>2 DEF Sound, Repeated
<1>8. ASSUME ~TxDelay
      PROVE  Keyed(p) /\ top.at # "starting" /\ (top.cont = "vkStart" => p.ui.playing)
  BY <1>2, <1>8 DEF Sound, Prompt, Keyed
<1>9. ASSUME ~PttInput
      PROVE  /\ NoInput(p) /\ ~Queued(p)
             /\ p.ui.vk = "tx" => p.ui.button \/ Opened(p, "vkStop") \/ top.cont = "vkStop"
  BY <1>2, <1>4, <1>5, <1>6, <1>9 DEF Sound, OwnOnly, Own
<1> QED
  BY <1>2, <1>3, <1>4, <1>7, <1>8, <1>9 DEF top

\* The end of a transmission restores the invariant, whatever the button is by then.
LEMMA LeaveSound ==
    ASSUME NEW w, Sound(w), w.stack # <<>>, Len(w.stack) = 1 => ~Queued(w),
           Last(w.stack).at = "flushing",
           NEW p, Pops(w, p)
    PROVE  Sound(EndTx(p, Last(w.stack).cont))
<1> DEFINE cont == Last(w.stack).cont
           q == [p EXCEPT !.ui.gTx = FALSE, !.ui.endingTx = FALSE,
                          !.ui.suspended = FALSE,
                          !.ui.onOff = TRUE, !.ui.vkOk = TRUE]
<1>1. /\ p \in UiThread /\ Len(p.stack) <= 1 /\ cont \in Conts
      /\ Repeated(p) /\ Starting(p)
      /\ cont = "vkStart" => p.ui.button
      /\ ~TxDelay => Keyed(p) /\ (cont = "vkStart" => p.ui.playing)
      /\ ~PttInput =>
                /\ NoInput(p) /\ ~Queued(p)
                /\ p.ui.vk = "tx" =>
                      p.ui.button \/ Opened(p, "vkStop") \/ cont = "vkStop"
  BY PoppedSound
<1>2. /\ q \in UiThread /\ q.stack = p.stack /\ q.calls = p.calls
      /\ q.ui.gTx = FALSE /\ q.ui.onOff = TRUE /\ q.ui.button = p.ui.button
      /\ q.ui.vk = p.ui.vk /\ q.ui.playing = p.ui.playing /\ q.ui.repeat = p.ui.repeat
  BY <1>1 DEF UiThread, UiType
<1>3. EndTx(p, cont) = Switch(q, cont)
  BY DEF EndTx
<1> HIDE DEF q, cont
<1>4. /\ \A c : Opened(q, c) <=> Opened(p, c)
      /\ NoStarting(q) <=> NoStarting(p)
      /\ Starting(q)
      /\ Queued(q) <=> Queued(p)
      /\ NoInput(q) <=> NoInput(p)
  BY <1>1, <1>2, SameStack, SameCalls, UiFields
<1>5. Repeated(q)
  BY <1>1, <1>2 DEF Repeated
<1>6. SwitchPre(q, cont)
  BY <1>1, <1>2, <1>4, <1>5 DEF SwitchPre, Keyed
<1> QED
  BY <1>1, <1>3, <1>6, SwitchSound DEF cont

\* So does the end of the TX delay.
LEMMA EnterSound ==
    ASSUME NEW w, Sound(w), w.stack # <<>>, Len(w.stack) = 1 => ~Queued(w),
           Last(w.stack).at = "starting",
           NEW p, Pops(w, p)
    PROVE  Sound(GoOnAir(p, Last(w.stack).cont))
<1> DEFINE cont == Last(w.stack).cont
           q == [p EXCEPT !.ui.gTx = TRUE, !.ui.suspended = FALSE]
<1>1. /\ p \in UiThread /\ Len(p.stack) <= 1 /\ cont \in Conts
      /\ Repeated(p) /\ Starting(p)
      /\ TxDelay
      /\ ~PttInput => NoInput(p) /\ ~Queued(p)
  BY PoppedSound
<1>2. /\ q \in UiThread /\ q.stack = p.stack /\ q.calls = p.calls
      /\ q.ui.gTx = TRUE
      /\ q.ui.vk = p.ui.vk /\ q.ui.playing = p.ui.playing /\ q.ui.repeat = p.ui.repeat
  BY <1>1 DEF UiThread, UiType
<1>3. GoOnAir(p, cont) = Finish(q, TRUE, cont)
  BY DEF GoOnAir
<1> HIDE DEF q, cont
<1>4. /\ Starting(q)
      /\ Queued(q) <=> Queued(p)
      /\ NoInput(q) <=> NoInput(p)
  BY <1>1, <1>2, SameStack, SameCalls, UiFields
<1>5. Repeated(q)
  BY <1>1, <1>2 DEF Repeated
<1>6. FinishPre(q, TRUE, cont)
  BY <1>1, <1>2, <1>4, <1>5 DEF FinishPre
<1> QED
  BY <1>1, <1>3, <1>6, FinishSound DEF cont

\* So does the second wait of the end of a transmission.
LEMMA AskSound ==
    ASSUME NEW w, Sound(w), w.stack # <<>>, Len(w.stack) = 1 => ~Queued(w),
           Last(w.stack).at = "draining",
           NEW p, Pops(w, p)
    PROVE  Sound(Wait([p EXCEPT !.ui.endingTx = TRUE], "flushing", Last(w.stack).cont))
<1> DEFINE cont == Last(w.stack).cont
           q == [p EXCEPT !.ui.endingTx = TRUE]
           f == Wait(q, "flushing", cont)
<1>1. /\ p \in UiThread /\ Len(p.stack) <= 1 /\ cont \in Conts
      /\ Repeated(p) /\ Starting(p)
      /\ cont = "vkStart" => Len(p.stack) = 1 /\ p.ui.button
      /\ ~TxDelay => Keyed(p) /\ (cont = "vkStart" => p.ui.playing)
      /\ ~PttInput =>
                /\ NoInput(p) /\ ~Queued(p)
                /\ p.ui.vk = "tx" =>
                      p.ui.button \/ Opened(p, "vkStop") \/ cont = "vkStop"
  BY PoppedSound
<1>2. /\ q \in UiThread /\ q.stack = p.stack /\ q.calls = p.calls
      /\ q.ui.button = p.ui.button /\ q.ui.tuneOk = p.ui.tuneOk
      /\ q.ui.gTx = p.ui.gTx /\ q.ui.onOff = p.ui.onOff
      /\ q.ui.rig = p.ui.rig /\ q.ui.reported = p.ui.reported /\ q.ui.tuning = p.ui.tuning
      /\ q.ui.vk = p.ui.vk /\ q.ui.playing = p.ui.playing /\ q.ui.repeat = p.ui.repeat
  BY <1>1 DEF UiThread, UiType
<1> HIDE DEF q, cont
<1>4. /\ \A c : Opened(q, c) <=> Opened(p, c)
      /\ NoStarting(q) <=> NoStarting(p)
      /\ Starting(q)
      /\ Queued(q) <=> Queued(p)
      /\ NoInput(q) <=> NoInput(p)
  BY <1>1, <1>2, SameStack, SameCalls, UiFields
<1>5. /\ f \in UiThread /\ f.ui = q.ui /\ f.calls = q.calls
      /\ f.stack # <<>> /\ Len(f.stack) = Len(q.stack) + 1
      /\ \A c : Opened(f, c) <=> (Opened(q, c) \/ c = cont)
      /\ NoStarting(f) <=> NoStarting(q)
      /\ \/ cont # "vkStart"
         \/ Len(q.stack) = 1 /\ q.ui.button
         => Starting(f)
  BY <1>1, <1>2, <1>4, WaitFields
<1> HIDE DEF f
<1>6. Starting(f)
  BY <1>1, <1>2, <1>5
<1>7. Queued(f) <=> Queued(p)
  BY <1>2, <1>5, SameCalls
<1>8. NoInput(f) <=> NoInput(p)
  BY <1>2, <1>5, SameCalls
<1>9. Agrees(f) /\ Repeated(f)
  BY <1>1, <1>2, <1>5 DEF Agrees, Repeated, Rest
<1>10. Prompt(f)
  BY <1>1, <1>2, <1>4, <1>5 DEF Prompt, Keyed, Rest
<1>11. OwnOnly(f)
  BY <1>1, <1>2, <1>4, <1>5, <1>7, <1>8, NoneQueued DEF OwnOnly, Own, Rest
<1>12. Len(f.stack) <= 2
  BY <1>1, <1>2, <1>5, UiFields
<1> QED
  BY <1>5, <1>6, <1>9, <1>10, <1>11, <1>12 DEF Sound, f, q, cont

\* The inductive invariant of PttControl.
PttInv ==
    /\ ConfigType /\ line \in BOOLEAN /\ seen \in BOOLEAN
    /\ ~PttInput => line = seen
    /\ Sound(Here)

\* A step to a sound record is a step to a sound state.
LEMMA BecomesSound ==
    ASSUME NEW w, Sound(w), Becomes(w), config' = config
    PROVE  Sound(Here)'
<1>1. w = [ui |-> w.ui, stack |-> w.stack, calls |-> w.calls]
  BY DEF Sound, UiThread
<1>2. Here' = w
  BY <1>1 DEF Here, Becomes
<1>3. \A v : Sound(v) => Sound(v)'
  BY DEF Sound, Agrees, Repeated, Starting, Prompt, Keyed, OwnOnly, Own, Rest, Queued,
         NoInput, OneToggle, Opened, NoStarting, TxDelay, PttInput, UiThread, UiType,
         Frames, CallNames
<1> QED
  BY <1>2, <1>3

\* The invariant, of the record of the variables.
LEMMA HereSound ==
    ASSUME PttInv
    PROVE  /\ Sound(Here) /\ Here \in UiThread /\ ConfigType
           /\ Here.ui = ui /\ Here.stack = stack /\ Here.calls = calls
           /\ OwnCallsDone => ~Queued(Here)
           /\ Dispatching => Len(Here.stack) <= 1
<1>1. Here.ui = ui /\ Here.stack = stack /\ Here.calls = calls
  BY DEF Here
<1>2. OwnCallsDone => ~Queued(Here)
  BY <1>1 DEF OwnCallsDone, Contains, Queued
<1> QED
  BY <1>1, <1>2 DEF PttInv, Sound, Dispatching

\* A step of the UI thread to a sound record keeps the invariant.
LEMMA Recorded ==
    ASSUME PttInv, NEW w, Sound(w), Becomes(w), UNCHANGED <<line, seen, config>>
    PROVE  PttInv'
<1>1. Sound(Here)'
  BY BecomesSound
<1>2. ConfigType' /\ (line \in BOOLEAN)' /\ (seen \in BOOLEAN)' /\ (~PttInput => line = seen)'
  BY DEF PttInv, ConfigType, PttInput
<1> QED
  BY <1>1, <1>2 DEF PttInv

\* A press or a release, by a click or by the PTT input.
LEMMA FlipSound ==
    ASSUME NEW v, Sound(v), Len(v.stack) <= 1, ConfigType, NEW b \in BOOLEAN,
           \/ PttInput
           \/ ~Queued(v) /\ (b \/ (v.ui.button /\ v.ui.vk # "tx")),
           NEW cont \in {"return", "close"}
    PROVE  Sound(TogglePTT([v EXCEPT !.ui.button = b], cont))
<1> DEFINE q == [v EXCEPT !.ui.button = b]
<1>1. v \in UiThread
  BY DEF Sound
<1>2. /\ q \in UiThread /\ q.stack = v.stack /\ q.calls = v.calls
      /\ q.ui.button = b /\ q.ui.tuneOk = v.ui.tuneOk /\ q.ui.vk = v.ui.vk
      /\ SameRadio(q, v)
  BY <1>1 DEF UiThread, UiType, SameRadio
<1> HIDE DEF q
<1>3. /\ \A c : Opened(q, c) <=> Opened(v, c)
      /\ NoStarting(q) <=> NoStarting(v)
      /\ Starting(q) /\ Len(q.stack) <= 1
      /\ Queued(q) <=> Queued(v)
      /\ NoInput(q) <=> NoInput(v)
  BY <1>1, <1>2, SameStack, SameCalls, UiFields DEF Sound
<1>4. Repeated(q)
  BY <1>2 DEF Sound, Repeated, SameRadio
<1>5. ~TxDelay => Keyed(q)
  BY <1>2, <1>3 DEF Sound, Prompt, Keyed, SameRadio
<1>6. ~PttInput /\ v.stack = <<>> => v.ui.gTx \/ b
  BY DEF Sound, Agrees, Rest
<1>7. TogglePre(q, cont)
  BY <1>2, <1>3, <1>4, <1>5, <1>6 DEF Sound, OwnOnly, Own, TogglePre, SameRadio
<1> QED
  BY <1>7, ToggleSound DEF Conts, q

\* A queued call is taken off: a toggle ends the transmission it was queued for,
\* and any other leaves a sound record to its handler.
LEMMA ShiftSound ==
    ASSUME NEW v, Sound(v), v.calls # <<>>, Len(v.stack) <= 1,
           NEW w, w = [v EXCEPT !.calls = Tail(@)], ConfigType
    PROVE  /\ Head(v.calls) \in CallNames
           /\ Head(v.calls) = "toggle" => Sound(TogglePTT(w, "return"))
           /\ Head(v.calls) # "toggle" => Sound(w) /\ w.stack = v.stack
           /\ w.ui = v.ui
           /\ Head(v.calls) \in {"pressed", "released"} => PttInput
<1>1. v \in UiThread /\ Len(v.stack) <= 2
  BY DEF Sound
<1>2. Tail(v.calls) \in Seq(CallNames)
  BY <1>1, UiFields, HeadTailProperties
<1>3. w \in UiThread /\ w.ui = v.ui /\ w.stack = v.stack /\ w.calls = Tail(v.calls)
  BY <1>1, <1>2 DEF UiThread
<1>4. /\ Head(v.calls) \in CallNames
      /\ Queued(v) <=> Queued(w) \/ Head(v.calls) = "toggle"
      /\ NoInput(v) => NoInput(w) /\ Head(v.calls) \notin {"pressed", "released"}
      /\ OneToggle(v) => OneToggle(w) /\ (Head(v.calls) = "toggle" => ~Queued(w))
  BY <1>1, <1>3, TailCalls
<1>5. /\ \A c : Opened(w, c) <=> Opened(v, c)
      /\ NoStarting(w) <=> NoStarting(v)
      /\ Starting(w)
  BY <1>1, <1>3, SameStack, UiFields DEF Sound
<1>6. Repeated(w)
  BY <1>3 DEF Sound, Repeated
<1>7. ASSUME Head(v.calls) = "toggle" PROVE Sound(TogglePTT(w, "return"))
  <2>1. ~TxDelay => Keyed(w)
    BY <1>3, <1>5 DEF Sound, Prompt, Keyed
  <2>2. TogglePre(w, "return")
    BY <1>3, <1>4, <1>5, <1>6, <1>7, <2>1 DEF Sound, OwnOnly, Own, TogglePre
  <2> QED
    BY <2>2, ToggleSound DEF Conts
<1>8. ASSUME Head(v.calls) # "toggle" PROVE Sound(w)
  <2>1. Agrees(w) /\ Prompt(w)
    BY <1>3, <1>4, <1>5, <1>8 DEF Sound, Agrees, Prompt, Keyed, Rest
  <2>2. OwnOnly(w)
    BY <1>3, <1>4, <1>5, <1>8 DEF Sound, OwnOnly, Own, Rest
  <2> QED
    BY <1>1, <1>3, <1>5, <1>6, <2>1, <2>2 DEF Sound
<1> QED
  BY <1>3, <1>4, <1>7, <1>8 DEF Sound, OwnOnly, Own

\* What an event of the user or of the timer finds.
LEMMA InputServed ==
    ASSUME PttInv, Dispatching, OwnCallsDone
    PROVE  /\ Served(Here) /\ Sound(Here) /\ ConfigType
           /\ Here \in UiThread /\ Here.ui = ui
           /\ ui.button \in BOOLEAN /\ ui.gTx \in BOOLEAN
  BY HereSound, UiFields DEF Served

\* A click on the PTT button.
LEMMA OnTogBtnPTTStep == PttInv /\ OnTogBtnPTT => PttInv'
<1> SUFFICES ASSUME PttInv, OnTogBtnPTT PROVE PttInv'
  OBVIOUS
<1> DEFINE b == ~ui.button
           w == [Here EXCEPT !.ui.button = b]
           g == IF ui.vk = "tx" THEN VkSpaceBar(w) ELSE TogglePTT(w, "return")
<1>1. /\ Served(Here) /\ Sound(Here) /\ ConfigType
      /\ Here \in UiThread /\ Here.ui = ui
      /\ ui.button \in BOOLEAN
  BY InputServed DEF OnTogBtnPTT, UserEvent
<1>2. Becomes(g) /\ UNCHANGED <<line, seen, config>>
  BY <1>1 DEF OnTogBtnPTT, UserEvent
<1> HIDE DEF w
<1>3. CASE ui.vk = "tx"
  BY <1>1, <1>2, <1>3, SpaceBarSound, Recorded DEF w
<1>4. CASE ui.vk # "tx"
  <2>1. Sound(TogglePTT(w, "return"))
    BY <1>1, <1>4, FlipSound DEF w, Served
  <2> QED
    BY <1>2, <1>4, <2>1, Recorded
<1> QED
  BY <1>3, <1>4

\* The space bar.
LEMMA FilterEventStep == PttInv /\ FilterEvent => PttInv'
<1> SUFFICES ASSUME PttInv, FilterEvent PROVE PttInv'
  OBVIOUS
<1> DEFINE b == ~ui.button
           w == [Here EXCEPT !.ui.button = b]
           g == IF ui.vk = "idle" THEN TogglePTT(w, "return") ELSE VkSpaceBar(Here)
<1>1. /\ Served(Here) /\ Sound(Here) /\ ConfigType
      /\ Here \in UiThread /\ Here.ui = ui
      /\ ui.button \in BOOLEAN
  BY InputServed DEF FilterEvent, UserEvent
<1>2. Becomes(g) /\ UNCHANGED <<line, seen, config>>
  BY <1>1 DEF FilterEvent, UserEvent
<1> HIDE DEF w
<1>3. CASE ui.vk = "idle"
  <2>1. Sound(TogglePTT(w, "return"))
    BY <1>1, <1>3, FlipSound DEF w, Served
  <2> QED
    BY <1>2, <1>3, <2>1, Recorded
<1>4. CASE ui.vk # "idle"
  <2>1. Sound(VkSpaceBar(Here))
    BY <1>1, SpaceBarHere
  <2> QED
    BY <1>2, <1>4, <2>1, Recorded
<1> QED
  BY <1>3, <1>4

\* The voice keyer is started.
LEMMA VkStartSound ==
    ASSUME NEW v, NEW opens, Served(v), ConfigType
    PROVE  Sound(VkStart(v, opens))
<1> DEFINE u == Unmonitored(v)
           w == [u EXCEPT !.ui.repeat = 0]
<1>1. v \in UiThread /\ Sound(v)
  BY DEF Served, Sound
<1>2. /\ u \in UiThread /\ SameKeys(u, v)
      /\ u.ui.playing = v.ui.playing /\ u.ui.repeat = v.ui.repeat /\ u.ui.vk = v.ui.vk
  BY <1>1, UnmonitoredFields
<1> HIDE DEF u
<1>3. /\ w \in UiThread /\ SameKeys(w, v)
      /\ w.ui.playing = v.ui.playing /\ w.ui.repeat = 0 /\ w.ui.vk = v.ui.vk
  <2>1. 0 \in 0 .. Repeats + 1
    BY ParametersAssumption
  <2>2. /\ w \in UiThread /\ SameKeys(w, u)
        /\ w.ui.playing = u.ui.playing /\ w.ui.repeat = 0 /\ w.ui.vk = u.ui.vk
    BY <1>2, <2>1 DEF UiThread, UiType, SameKeys
  <2> QED
    BY <1>2, <2>2 DEF SameKeys
<1>4. VkStart(v, opens) = VoiceKeyerStartTx(w, opens)
  BY DEF VkStart, u
<1> HIDE DEF w
<1>5. Sound(w)
  BY <1>1, <1>3, VkMoves
<1>6. Served(w)
  BY <1>3, <1>5, SameCalls DEF Served, SameKeys
<1> QED
  BY <1>3, <1>4, <1>6, StartTxSound, ParametersAssumption

\* A click on the voice keyer button.
LEMMA KeyerStep == PttInv /\ OnTogBtnVoiceKeyerClick => PttInv'
<1> SUFFICES ASSUME PttInv, OnTogBtnVoiceKeyerClick PROVE PttInv'
  OBVIOUS
<1>1. /\ Served(Here) /\ Sound(Here) /\ ConfigType
      /\ Here \in UiThread /\ Here.ui = ui
  BY InputServed DEF OnTogBtnVoiceKeyerClick, UserEvent
<1>2. PICK opens \in BOOLEAN :
         Becomes(IF ui.vk = "idle" THEN VkStart(Here, opens) ELSE VkSpaceBar(Here))
  BY DEF OnTogBtnVoiceKeyerClick
<1>3. UNCHANGED <<line, seen, config>>
  BY DEF OnTogBtnVoiceKeyerClick, UserEvent
<1>4. Sound(VkStart(Here, opens))
  BY <1>1, VkStartSound
<1>5. Sound(VkSpaceBar(Here))
  BY <1>1, SpaceBarHere
<1> QED
  BY <1>2, <1>3, <1>4, <1>5, Recorded

\* What Tune changes.
Tuned(v, on, off) ==
    [v EXCEPT !.ui.tuning = on, !.ui.rig = on,
              !.ui.onOff = off, !.ui.vkOk = off, !.ui.pttOk = off]

\* The record it leaves.
LEMMA TuneFields ==
    ASSUME NEW v \in UiThread, NEW on \in BOOLEAN, NEW off \in BOOLEAN
    PROVE  LET w == Tuned(v, on, off) IN
           /\ w \in UiThread /\ w.stack = v.stack /\ w.calls = v.calls
           /\ w.ui.button = v.ui.button /\ w.ui.tuneOk = v.ui.tuneOk
           /\ w.ui.gTx = v.ui.gTx /\ w.ui.endingTx = v.ui.endingTx
           /\ w.ui.rig = on /\ w.ui.tuning = on /\ w.ui.onOff = off
           /\ w.ui.reported = v.ui.reported
           /\ w.ui.playing = v.ui.playing /\ w.ui.repeat = v.ui.repeat /\ w.ui.vk = v.ui.vk
  BY DEF Tuned, UiThread, UiType

\* Tune: without a TX delay its button is only enabled while the modem receives.
LEMMA OnTogBtnTuneStep == PttInv /\ OnTogBtnTune => PttInv'
<1> SUFFICES ASSUME PttInv, OnTogBtnTune PROVE PttInv'
  OBVIOUS
<1> DEFINE newTx == ~ui.tuning
           w == [Here EXCEPT !.ui.tuning = newTx, !.ui.rig = newTx,
                             !.ui.onOff = ~newTx, !.ui.vkOk = ~newTx,
                             !.ui.pttOk = ~newTx]
           v == Here
<1>1. /\ Sound(v) /\ v \in UiThread /\ v.ui = ui /\ ui.tuning \in BOOLEAN
  BY InputServed, UiFields DEF OnTogBtnTune, UserEvent
<1>2. Becomes(w) /\ UNCHANGED <<line, seen, config>> /\ ui.tuneOk
  BY DEF OnTogBtnTune, UserEvent
<1> HIDE DEF v
<1>3. newTx \in BOOLEAN /\ (~newTx) \in BOOLEAN
  OBVIOUS
<1>4. w = Tuned(v, newTx, ~newTx)
  BY DEF v, Tuned
<1> HIDE DEF w
<1>5. /\ w \in UiThread /\ w.stack = v.stack /\ w.calls = v.calls
      /\ w.ui.button = v.ui.button /\ w.ui.tuneOk = v.ui.tuneOk
      /\ w.ui.gTx = v.ui.gTx /\ w.ui.endingTx = v.ui.endingTx
      /\ w.ui.rig = newTx /\ w.ui.tuning = newTx /\ w.ui.onOff = ~newTx
      /\ w.ui.reported = v.ui.reported
      /\ w.ui.playing = v.ui.playing /\ w.ui.repeat = v.ui.repeat /\ w.ui.vk = v.ui.vk
  BY <1>1, <1>3, <1>4, TuneFields
<1>6. /\ \A c : Opened(w, c) <=> Opened(v, c)
      /\ NoStarting(w) <=> NoStarting(v)
      /\ Queued(w) <=> Queued(v)
      /\ NoInput(w) <=> NoInput(v)
      /\ OneToggle(w) <=> OneToggle(v)
  BY <1>5, SameStack, SameCalls DEF OneToggle
<1>7. Starting(w) /\ Len(w.stack) <= 2
  BY <1>1, <1>5 DEF Sound, Starting
<1>8. Agrees(w) /\ Repeated(w)
  BY <1>1, <1>5, <1>6 DEF Sound, Agrees, Repeated, Rest
<1>9. ASSUME ~TxDelay PROVE ~v.ui.gTx
  BY <1>1, <1>2, <1>9 DEF Sound, Prompt, Keyed
<1>10. Prompt(w)
  <2> SUFFICES ASSUME ~TxDelay PROVE Prompt(w)
    BY DEF Prompt
  <2>1. w.ui.tuning \/ w.ui.rig = w.ui.gTx
    <3>1. CASE newTx
      BY <1>5, <3>1
    <3>2. CASE ~newTx
      <4>1. v.ui.gTx = FALSE
        BY <1>1, <1>9, UiFields
      <4>2. newTx = FALSE
        BY <3>2
      <4> QED
        BY <1>5, <4>1, <4>2
    <3> QED
      BY <3>1, <3>2
  <2> QED
    BY <1>1, <1>5, <1>6, <1>9, <2>1 DEF Sound, Prompt, Keyed
<1>11. OwnOnly(w)
  BY <1>1, <1>5, <1>6 DEF Sound, OwnOnly, Own, Rest
<1>12. Sound(w)
  BY <1>5, <1>7, <1>8, <1>10, <1>11 DEF Sound
<1> QED
  BY <1>2, <1>12, Recorded

\* The window is closed.
LEMMA OnCloseStep == PttInv /\ OnClose => PttInv'
<1> SUFFICES ASSUME PttInv, OnClose PROVE PttInv'
  OBVIOUS
<1> DEFINE f == [Here EXCEPT !.ui.stopping = TRUE]
<1>1. /\ Served(Here) /\ Sound(Here) /\ ConfigType
      /\ Here \in UiThread /\ Here.ui = ui
      /\ ui.button \in BOOLEAN
  BY InputServed DEF OnClose, UserEvent
<1>2. /\ Becomes(IF ui.button THEN TogglePTT(Here, "close") ELSE Resume(Here, "close"))
      /\ UNCHANGED <<line, seen, config>>
  BY DEF OnClose, UserEvent
<1>3. CASE ui.button
  <2>1. Here = [Here EXCEPT !.ui.button = TRUE]
    <3>1. ui.button = TRUE
      BY <1>1, <1>3
    <3>2. Here = [Here EXCEPT !.ui.button = Here.ui.button]
      BY <1>1, SameButton
    <3> QED
      BY <1>1, <3>1, <3>2
  <2> DEFINE w == [Here EXCEPT !.ui.button = TRUE]
  <2>2. Sound(TogglePTT(w, "close"))
    BY <1>1, FlipSound DEF Served
  <2> HIDE DEF w
  <2>3. w = Here
    BY <2>1 DEF w
  <2> QED
    BY <1>2, <1>3, <2>2, <2>3, Recorded
<1>4. CASE ~ui.button
  <2>1. Resume(Here, "close") = f
    BY ResumeClose
  <2>2. /\ f \in UiThread /\ SameKeys(f, Here)
        /\ f.ui.playing = Here.ui.playing /\ f.ui.repeat = Here.ui.repeat
        /\ f.ui.vk = Here.ui.vk
    <3> DEFINE v == Here
    <3>1. v \in UiThread
      BY <1>1
    <3> HIDE DEF v
    <3>2. LET g == [v EXCEPT !.ui.stopping = TRUE] IN
          /\ g \in UiThread /\ SameKeys(g, v)
          /\ g.ui.playing = v.ui.playing /\ g.ui.repeat = v.ui.repeat
          /\ g.ui.vk = v.ui.vk
      BY <3>1 DEF UiThread, UiType, SameKeys
    <3> QED
      BY <3>2 DEF v
  <2> HIDE DEF f
  <2>3. Sound(f)
    BY <1>1, <2>2, VkMoves
  <2> QED
    BY <1>2, <1>4, <2>1, <2>3, Recorded
<1> QED
  BY <1>3, <1>4

\* A tick of the timer moves the voice keyer.
LEMMA TickSound ==
    ASSUME NEW v, NEW outcome, NEW opens, Served(v), ConfigType
    PROVE  Sound(VkTick(v, outcome, opens))
<1> DEFINE u == Unmonitored(v)
           hears == [u EXCEPT !.ui.vk = "sync"]
           lost == [u EXCEPT !.ui.vk = "rx"]
           idle == [u EXCEPT !.ui.vk = "idle"]
           f == VkTick(v, outcome, opens)
<1>1. v \in UiThread /\ Sound(v)
  BY DEF Served, Sound
<1>2. \/ v.ui.vk = "rx" /\ f = hears
      \/ v.ui.vk = "rx" /\ f = VoiceKeyerStartTx(u, opens)
      \/ v.ui.vk = "sync" /\ f = lost
      \/ f = idle
      \/ f = u
  <2>1. CASE v.ui.vk = "rx" /\ outcome = "sync"
    <3>1. f = hears
      BY <2>1, Zenon DEF VkTick
    <3> QED
      BY <2>1, <3>1
  <2>2. CASE v.ui.vk = "rx" /\ outcome = "timeUp"
    <3>1. f = VoiceKeyerStartTx(u, opens)
      BY <2>2, Zenon DEF VkTick
    <3> QED
      BY <2>2, <3>1
  <2>3. CASE v.ui.vk = "sync" /\ outcome = "noSync"
    <3>1. f = lost
      BY <2>3, Zenon DEF VkTick
    <3> QED
      BY <2>3, <3>1
  <2>4. CASE v.ui.vk = "sync" /\ outcome = "timeUp"
    <3>1. f = idle
      BY <2>4, Zenon DEF VkTick
    <3> QED
      BY <3>1
  <2>5. CASE /\ ~(v.ui.vk = "rx" /\ outcome = "sync")
             /\ ~(v.ui.vk = "rx" /\ outcome = "timeUp")
             /\ ~(v.ui.vk = "sync" /\ outcome = "noSync")
             /\ ~(v.ui.vk = "sync" /\ outcome = "timeUp")
    <3>1. f = u
      BY <2>5, Zenon DEF VkTick
    <3> QED
      BY <3>1
  <2> HIDE DEF f, u, hears, lost, idle
  <2> QED
    BY <2>1, <2>2, <2>3, <2>4, <2>5
<1> HIDE DEF f
<1>3. Sound(u)
  BY <1>1, UnmonitoredSound
<1>4. /\ u \in UiThread /\ SameKeys(u, v) /\ u.ui.vk = v.ui.vk /\ u.ui.repeat = v.ui.repeat
  BY <1>1, UnmonitoredFields
<1>5. Served(u)
  BY <1>3, <1>4, SameCalls DEF Served, SameKeys
<1> HIDE DEF u
<1>6. CASE v.ui.vk = "rx" /\ f = hears
  <2>1. /\ hears \in UiThread /\ SameKeys(hears, u) /\ hears.ui.playing = u.ui.playing
        /\ hears.ui.repeat = u.ui.repeat /\ hears.ui.vk = "sync"
    BY <1>4 DEF UiThread, UiType, SameKeys
  <2> HIDE DEF hears
  <2>2. Sound(hears)
    BY <1>3, <1>4, <1>6, <2>1, VkMoves
  <2> QED
    BY <1>6, <2>2 DEF f
<1>7. CASE v.ui.vk = "rx" /\ f = VoiceKeyerStartTx(u, opens)
  <2>1. u.ui.repeat <= Repeats
    BY <1>3, <1>4, <1>7 DEF Sound, Repeated
  <2> QED
    BY <1>5, <1>7, <2>1, StartTxSound DEF f
<1>8. CASE v.ui.vk = "sync" /\ f = lost
  <2>1. /\ lost \in UiThread /\ SameKeys(lost, u) /\ lost.ui.playing = u.ui.playing
        /\ lost.ui.repeat = u.ui.repeat /\ lost.ui.vk = "rx"
    BY <1>4 DEF UiThread, UiType, SameKeys
  <2> HIDE DEF lost
  <2>2. Sound(lost)
    BY <1>3, <1>4, <1>8, <2>1, VkMoves
  <2> QED
    BY <1>8, <2>2 DEF f
<1>9. CASE f = idle
  BY <1>3, <1>9, IdleSound DEF f
<1>10. CASE f = u
  BY <1>3, <1>10 DEF f
<1> HIDE DEF hears, lost, idle
<1> QED
  BY <1>2, <1>6, <1>7, <1>8, <1>9, <1>10

\* A tick of the timer.
LEMMA OnTimerStep == PttInv /\ OnTimer => PttInv'
<1> SUFFICES ASSUME PttInv, OnTimer PROVE PttInv'
  OBVIOUS
<1>1. Served(Here) /\ ConfigType
  BY InputServed DEF OnTimer
<1>2. PICK outcome \in {"none", "sync", "noSync", "timeUp"}, opens \in BOOLEAN :
         Becomes(VkTick(Here, outcome, opens))
  BY DEF OnTimer
<1>3. UNCHANGED <<line, seen, config>>
  BY DEF OnTimer
<1>4. Sound(VkTick(Here, outcome, opens))
  BY <1>1, TickSound
<1> QED
  BY <1>2, <1>3, <1>4, Recorded

\* The head of the queue is served.
LEMMA RunCallStep == PttInv /\ RunCall => PttInv'
<1> SUFFICES ASSUME PttInv, RunCall PROVE PttInv'
  OBVIOUS
<1> DEFINE w == [Here EXCEPT !.calls = Tail(@)]
           pressed(b) == IF b = ui.button THEN w
                         ELSE TogglePTT([w EXCEPT !.ui.button = b], "return")
           g == CASE Head(calls) = "toggle"   -> TogglePTT(w, "return")
                  [] Head(calls) = "pressed"  -> pressed(TRUE)
                  [] Head(calls) = "released" -> pressed(FALSE)
                  [] OTHER                    -> StopPlayFileToMicIn(w)
<1>1. Becomes(g) /\ UNCHANGED <<line, seen, config>> /\ calls # <<>> /\ Dispatching
  BY Zenon DEF RunCall
<1>2. /\ Sound(Here) /\ ConfigType /\ Here.calls = calls /\ Here.stack = stack
      /\ Len(Here.stack) <= 1
  BY <1>1, HereSound
<1>3. /\ Head(calls) = "toggle" => Sound(TogglePTT(w, "return"))
      /\ Head(calls) # "toggle" => Sound(w) /\ Len(w.stack) <= 1
      /\ Head(calls) \in {"pressed", "released"} => PttInput
  BY <1>1, <1>2, ShiftSound
<1> HIDE DEF w
<1>4. ASSUME NEW b \in BOOLEAN, Head(calls) \in {"pressed", "released"}
      PROVE  Sound(pressed(b))
  <2>1. Sound(TogglePTT([w EXCEPT !.ui.button = b], "return"))
    BY <1>2, <1>3, <1>4, FlipSound
  <2> QED
    BY <1>3, <1>4, <2>1
<1> HIDE DEF pressed
<1>5. CASE Head(calls) = "toggle"
  <2>1. g = TogglePTT(w, "return")
    BY <1>5, Zenon
  <2> QED
    BY <1>1, <1>3, <1>5, <2>1, Recorded
<1>6. CASE Head(calls) = "pressed"
  <2>1. g = pressed(TRUE)
    BY <1>6, Zenon
  <2>2. Sound(pressed(TRUE))
    BY <1>4, <1>6
  <2> QED
    BY <1>1, <2>1, <2>2, Recorded
<1>7. CASE Head(calls) = "released"
  <2>1. g = pressed(FALSE)
    BY <1>7, Zenon
  <2>2. Sound(pressed(FALSE))
    BY <1>4, <1>7
  <2> QED
    BY <1>1, <2>1, <2>2, Recorded
<1>8. CASE Head(calls) \notin {"toggle", "pressed", "released"}
  <2>1. /\ Head(calls) # "toggle" /\ Head(calls) # "pressed" /\ Head(calls) # "released"
    BY <1>8
  <2>2. g = StopPlayFileToMicIn(w)
    BY <2>1, Zenon
  <2>3. Sound(StopPlayFileToMicIn(w))
    BY <1>3, <2>1, PlayFinishedSound
  <2> QED
    BY <1>1, <2>2, <2>3, Recorded
<1> QED
  BY <1>5, <1>6, <1>7, <1>8

\* A wait of the innermost togglePTT() ends.
LEMMA WaitingStep == PttInv /\ Waiting => PttInv'
<1> SUFFICES ASSUME PttInv, Waiting PROVE PttInv'
  OBVIOUS
<1> DEFINE top == Last(stack)
<1>1. /\ Sound(Here) /\ Here.ui = ui /\ Here.stack = stack
      /\ OwnCallsDone => ~Queued(Here)
  BY HereSound
<1>2. ASSUME NEW at, WaitEnds(at)
      PROVE  /\ Here.stack # <<>> /\ Last(Here.stack).at = at
             /\ Len(Here.stack) = 1 => ~Queued(Here)
             /\ UNCHANGED <<line, seen, config>>
  BY <1>1, <1>2 DEF WaitEnds
<1>3. Pops(Here, Popped)
  BY DEF Pops, Popped
<1>4. CASE AskForEoo
  <2> DEFINE f == Wait([Popped EXCEPT !.ui.endingTx = TRUE], "flushing", Last(Here.stack).cont)
  <2>1. Becomes(f) /\ WaitEnds("draining")
    BY <1>1, <1>4 DEF AskForEoo
  <2>2. Sound(f)
    BY <1>1, <1>2, <1>3, <2>1, AskSound
  <2> HIDE DEF f
  <2> QED
    BY <1>2, <2>1, <2>2, Recorded
<1>5. CASE LeaveTx
  <2> DEFINE f == EndTx(Popped, Last(Here.stack).cont)
  <2>1. Becomes(f) /\ WaitEnds("flushing")
    BY <1>1, <1>5 DEF LeaveTx
  <2>2. Sound(f)
    BY <1>1, <1>2, <1>3, <2>1, LeaveSound
  <2> HIDE DEF f
  <2> QED
    BY <1>2, <2>1, <2>2, Recorded
<1>6. CASE EnterTx
  <2> DEFINE f == GoOnAir(Popped, Last(Here.stack).cont)
  <2>1. Becomes(f) /\ WaitEnds("starting")
    BY <1>1, <1>6 DEF EnterTx
  <2>2. Sound(f)
    BY <1>1, <1>2, <1>3, <2>1, EnterSound
  <2> HIDE DEF f
  <2> QED
    BY <1>2, <2>1, <2>2, Recorded
<1> QED
  BY <1>4, <1>5, <1>6 DEF Waiting

\* Another thread queues a call that is not a toggle.
LEMMA QueueSound ==
    ASSUME NEW v, Sound(v), NEW f, NEW c \in {"fileDone", "pressed", "released"},
           f = [v EXCEPT !.calls = Append(@, c)], c # "fileDone" => PttInput
    PROVE  Sound(f)
<1>1. v \in UiThread /\ v.calls \in Seq(CallNames) /\ c \in CallNames /\ c # "toggle"
  BY UiFields DEF Sound, CallNames
<1>2. Append(v.calls, c) \in Seq(CallNames)
  BY <1>1, AppendProperties
<1>3. f \in UiThread /\ f.ui = v.ui /\ f.stack = v.stack /\ f.calls = Append(v.calls, c)
  BY <1>1, <1>2 DEF UiThread
<1>4. /\ Queued(f) <=> Queued(v)
      /\ NoInput(v) /\ c = "fileDone" => NoInput(f)
  BY <1>1, <1>3, MoreCalls
<1>5. ASSUME OneToggle(v) PROVE OneToggle(f)
  <2>1. /\ Len(f.calls) = Len(v.calls) + 1
        /\ \A i \in 1 .. Len(v.calls) : f.calls[i] = v.calls[i]
        /\ f.calls[Len(v.calls) + 1] = c
        /\ Len(v.calls) \in Nat
    BY <1>1, <1>3, AppendProperties, LenProperties
  <2>2. \A i \in 1 .. Len(f.calls) : i \in 1 .. Len(v.calls) \/ i = Len(v.calls) + 1
    BY <2>1
  <2> QED
    BY <1>1, <1>5, <2>1, <2>2 DEF OneToggle
<1>6. /\ \A k : Opened(f, k) <=> Opened(v, k)
      /\ NoStarting(f) <=> NoStarting(v)
  BY <1>3, SameStack
<1>7. Starting(f) /\ Len(f.stack) <= 2
  BY <1>3 DEF Sound, Starting
<1>8. Agrees(f) /\ Repeated(f) /\ Prompt(f)
  BY <1>3, <1>4, <1>6 DEF Sound, Agrees, Repeated, Prompt, Keyed, Rest
<1>9. OwnOnly(f)
  BY <1>3, <1>4, <1>5, <1>6 DEF Sound, OwnOnly, Own, Rest
<1> QED
  BY <1>3, <1>7, <1>8, <1>9 DEF Sound

\* The thread that plays the file, the PTT line and the thread that polls it.
LEMMA OtherThreadsStep ==
    PttInv /\ (PlayFinished \/ LineChanges \/ PollSerialPort) => PttInv'
<1> SUFFICES ASSUME PttInv, PlayFinished \/ LineChanges \/ PollSerialPort
             PROVE  PttInv'
  OBVIOUS
<1>1. /\ Sound(Here) /\ Here \in UiThread
      /\ Here.ui = ui /\ Here.stack = stack /\ Here.calls = calls
  BY HereSound
<1>2. ASSUME NEW c \in {"fileDone", "pressed", "released"}, c # "fileDone" => PttInput,
             calls' = Append(calls, c), UNCHANGED <<ui, stack, config>>
      PROVE  Sound(Here)'
  <2> DEFINE f == [Here EXCEPT !.calls = Append(@, c)]
  <2>1. Sound(f)
    BY <1>1, <1>2, QueueSound
  <2>2. Becomes(f)
    BY <1>1, <1>2 DEF Becomes
  <2> HIDE DEF f
  <2> QED
    BY <1>2, <2>1, <2>2, BecomesSound
<1>3. ConfigType' /\ (PttInput <=> PttInput')
  BY DEF PlayFinished, LineChanges, PollSerialPort, PttInv, ConfigType, PttInput
<1>4. CASE PlayFinished
  <2>1. Sound(Here)'
    BY <1>2, <1>4 DEF PlayFinished
  <2> QED
    BY <1>3, <1>4, <2>1 DEF PlayFinished, PttInv
<1>5. CASE LineChanges
  <2>1. Becomes(Here) /\ config' = config
    BY <1>1, <1>5 DEF LineChanges, Becomes
  <2>2. Sound(Here)'
    BY <1>1, <2>1, BecomesSound
  <2>3. (line \in BOOLEAN)' /\ (seen \in BOOLEAN)' /\ PttInput
    BY <1>5 DEF LineChanges, PttInv
  <2> QED
    BY <1>3, <2>2, <2>3 DEF PttInv
<1>6. CASE PollSerialPort
  <2>1. PttInput
    BY <1>6 DEF PollSerialPort, PttInv
  <2>2. Sound(Here)'
    BY <1>2, <1>6, <2>1 DEF PollSerialPort
  <2>3. (line \in BOOLEAN)' /\ (seen \in BOOLEAN)'
    BY <1>6 DEF PollSerialPort, PttInv
  <2> QED
    BY <1>3, <2>1, <2>2, <2>3 DEF PttInv
<1> QED
  BY <1>4, <1>5, <1>6

\* The invariant holds when the modem has been started.
LEMMA PttInitInv == PttInit => PttInv
<1> SUFFICES ASSUME PttInit PROVE PttInv
  OBVIOUS
<1>1. /\ Here.ui = ui /\ Here.stack = <<>> /\ Here.calls = <<>>
      /\ Len(Here.stack) = 0 /\ Len(Here.calls) = 0
  BY EmptySeq DEF PttInit, Here
<1>2. Here \in UiThread
  <2>1. ui \in UiType
    <3>1. 0 \in 0 .. Repeats + 1
      BY ParametersAssumption
    <3> QED
      BY <3>1 DEF PttInit, UiType
  <2>2. stack \in Seq(Frames) /\ calls \in Seq(CallNames)
    BY EmptySeq DEF PttInit
  <2> QED
    BY <2>1, <2>2 DEF Here, UiThread
<1>3. \A c : ~Opened(Here, c)
  BY <1>1 DEF Opened
<1>4. ~Queued(Here) /\ NoInput(Here) /\ NoStarting(Here) /\ OneToggle(Here) /\ Starting(Here)
  BY <1>1 DEF Queued, NoInput, NoStarting, OneToggle, Starting
<1>5. Agrees(Here) /\ Repeated(Here)
  BY <1>1, ParametersAssumption DEF PttInit, Agrees, Repeated
<1>6. Prompt(Here) /\ OwnOnly(Here)
  BY <1>1, <1>3, <1>4 DEF PttInit, Prompt, Keyed, OwnOnly, Own
<1>7. Sound(Here)
  BY <1>1, <1>2, <1>4, <1>5, <1>6 DEF Sound
<1> QED
  BY <1>7 DEF PttInit, PttInv, ConfigType

\* Every step keeps it.
LEMMA PttStep == PttInv /\ [PttNext]_pttVars => PttInv'
<1> SUFFICES ASSUME PttInv, [PttNext]_pttVars PROVE PttInv'
  OBVIOUS
<1>1. CASE UiStep
  BY <1>1, OnTogBtnPTTStep, FilterEventStep, KeyerStep, OnTogBtnTuneStep, OnCloseStep,
     OnTimerStep DEF UiStep
<1>2. CASE RunCall
  BY <1>2, RunCallStep
<1>3. CASE Waiting
  BY <1>3, WaitingStep
<1>4. CASE PlayFinished \/ LineChanges \/ PollSerialPort
  BY <1>4, OtherThreadsStep
<1>5. CASE UNCHANGED pttVars
  <2>1. Becomes(Here) /\ UNCHANGED <<line, seen, config>>
    BY <1>5 DEF pttVars, Becomes, Here
  <2> QED
    BY <2>1, Recorded, HereSound
<1> QED
  BY <1>1, <1>2, <1>3, <1>4, <1>5 DEF PttNext

\* The inductive invariant holds in every reachable state (ongui.cpp, togglePTT()
\* with everything that is dispatched in its waits).
THEOREM PttInductive == PttSpec => []PttInv
  BY PttInitInv, PttStep, PTL DEF PttSpec

\* The variables have their types: no more than two calls of togglePTT() are ever
\* open, and the voice keyer counts no more than one repeat too many.
THEOREM PttTypes == PttSpec => []PttTypeOK
<1>1. PttInv => PttTypeOK
  <2> SUFFICES ASSUME PttInv PROVE PttTypeOK
    OBVIOUS
  <2>1. /\ Here \in UiThread /\ Len(Here.stack) <= 2
        /\ Here.ui = ui /\ Here.stack = stack /\ Here.calls = calls
    BY HereSound DEF Sound
  <2>2. ui \in UiType /\ stack \in Seq(Frames) /\ calls \in Seq(CallNames)
    BY <2>1 DEF UiThread
  <2>3. stack \in BoundedSeq(Frames, 2)
    <3>1. Len(stack) \in Nat /\ stack \in [1 .. Len(stack) -> Frames]
      BY <2>2, LenProperties
    <3>2. Len(stack) <= 2
      BY <2>1
    <3>3. Len(stack) \in 0 .. 2
      BY <3>1, <3>2
    <3> QED
      BY <3>1, <3>3 DEF BoundedSeq, SeqOf
  <2>4. \A f \in DOMAIN ui \ {"vk", "repeat"} : ui[f] \in BOOLEAN
    BY <2>2 DEF UiType
  <2>5. ui.vk \in {"idle", "tx", "rx", "sync"} /\ ui.repeat \in 0 .. Repeats + 1
    BY <2>2 DEF UiType
  <2> QED
    BY <2>2, <2>3, <2>4, <2>5 DEF PttTypeOK, PttInv, CallNames
<1> QED
  BY PttInductive, <1>1, PTL

\* Once everything has been handled nothing is under way.
LEMMA SettledRests ==
    ASSUME PttInv, Settled
    PROVE  /\ Sound(Here) /\ Here.ui = ui /\ Rest(Here)
           /\ \A c : ~Opened(Here, c)
<1>1. Sound(Here) /\ Here.ui = ui /\ Here.stack = <<>> /\ Here.calls = <<>>
  BY HereSound DEF Settled
<1>2. Len(<<>>) = 0
  BY EmptySeq
<1> QED
  BY <1>1, <1>2 DEF Rest, Queued, Opened

\* Once everything has been handled the button shows whether the modem transmits,
\* On/Off is usable in receive, and a keyer that transmits has its file playing.
THEOREM ControlsAgreeHolds == PttSpec => []ControlsAgree
<1>1. PttInv => ControlsAgree
  <2> SUFFICES ASSUME PttInv PROVE ControlsAgree
    OBVIOUS
  <2>1. ButtonShowsTx
    BY SettledRests DEF ButtonShowsTx, Sound, Agrees
  <2>2. ReceivingIsUnlocked
    BY SettledRests DEF ReceivingIsUnlocked, Sound, OwnOnly, Own
  <2>3. KeyerTransmits
    <3> SUFFICES ASSUME Settled, ui.vk = "tx", ~TxDelay, ~PttInput
                 PROVE  ui.gTx /\ ui.playing
      BY DEF KeyerTransmits
    <3>1. /\ Sound(Here) /\ Here.ui = ui /\ Rest(Here) /\ ~Opened(Here, "vkStop")
      BY SettledRests
    <3>2. ui.button
      BY <3>1 DEF Sound, OwnOnly, Own
    <3> QED
      BY <3>1, <3>2 DEF Sound, Agrees, Prompt, Keyed
  <2> QED
    BY <2>1, <2>2, <2>3 DEF ControlsAgree
<1> QED
  BY PttInductive, <1>1, PTL

\* Without a TX delay the rig and the reporters follow the modem, and no audio goes
\* out unkeyed.
THEOREM RigFollowsTxHolds == PttSpec => []RigFollowsTx
<1>1. PttInv => RigFollowsTx
  <2> SUFFICES ASSUME PttInv PROVE RigFollowsTx
    OBVIOUS
  <2>1. TxAgrees
    BY SettledRests DEF TxAgrees, Sound, Prompt, Keyed
  <2>2. KeyedWithoutDelay
    BY HereSound DEF KeyedWithoutDelay, AudioOnlyWhenKeyed, Sound, Prompt, Keyed
  <2> QED
    BY <2>1, <2>2 DEF RigFollowsTx
<1> QED
  BY PttInductive, <1>1, PTL
=============================================================================
