---------------------------- MODULE GenericFIFO ----------------------------
(***************************************************************************)
(* The lock-free ring buffer between the audio callbacks and the signal    *)
(* processing threads, and inside most steps of the audio pipeline:        *)
(* src/src/util/GenericFIFO.h.  One thread writes, one reads, any may call *)
(* reset(), and only resets exclude each other.                            *)
(*                                                                         *)
(* Every load or store of a shared variable is a step of its own, in       *)
(* program order (the memory orders given in the code are not weakened     *)
(* further).  A pointer into buf is an index from 0 to Size - 1.  The      *)
(* elements written are numbered from 1; 0 is uninitialised memory.        *)
(***************************************************************************)
EXTENDS Naturals, Sequences

CONSTANTS Size,       \* nelem
          Lengths,    \* the lengths passed to write and read
          Resetters,  \* the threads that call reset
          MaxWritten, \* bounds the number of elements written
          MaxResets   \* bounds the number of resets

ASSUME SizeIsPositive == Size \in Nat \ {0}
ASSUME LengthsArePositive == Lengths \subseteq Nat \ {0}
ASSUME BoundsAreNat == MaxWritten \in Nat /\ MaxResets \in Nat

VARIABLES
    buf, pin, pout, resetting,
    poutCache, resetOut,   \* the writer's cache of pout; resetOutCache
    pinCache, resetIn,     \* the reader's cache of pin; resetInCache
    wpc, wpos, wleft,      \* write: its step, ppin, len
    rpc, rpos, rleft,      \* read: its step, ppout, len
    copied,                \* read: what was copied so far
    zpc,                   \* reset: the step of each resetter
    \* What follows only records what has happened.
    written, committed,    \* number of elements copied into buf, and behind pin
    resets,                \* number of resets begun
    out,                   \* what the last successful read returned
    intact                 \* no write or read has overlapped a reset since the
                           \* last one that overlapped none

sharedVars == <<buf, pin, pout, resetting, resetOut, resetIn>>
writerVars == <<poutCache, wpc, wpos, wleft, written, committed>>
readerVars == <<pinCache, rpc, rpos, rleft, copied, out>>
resetVars  == <<zpc, resets, intact>>
vars == <<sharedVars, writerVars, readerVars, resetVars>>

Index == 0..(Size - 1)
Elements == 1..MaxWritten

(* CALCULATE_ENTRIES_USED                                                  *)
Used(in, o) == IF in >= o THEN in - o ELSE Size + in - o

(* Seeded bug: the pointer wraps one element too late.                     *)
WrapLate(i) == IF i + 1 > Size THEN 0 ELSE i + 1

After(i) == IF i + 1 >= Size THEN 0 ELSE i + 1
Content == [i \in 1..Used(pin, pout) |-> buf[(pout + i - 1) % Size]]

TypeOK ==
    /\ buf \in [Index -> Elements \cup {0}]
    /\ {pin, pout, poutCache, pinCache, wpos, rpos} \subseteq Index
    /\ {resetting, resetOut, resetIn, intact} \subseteq BOOLEAN
    /\ wpc \in {"idle", "load", "flag", "clearFlag", "reload", "copy"}
    /\ rpc \in {"idle", "load", "flag", "clearFlag", "reload", "copy"}
    /\ wleft \in Nat /\ rleft \in Nat
    /\ copied \in Seq(Elements \cup {0}) /\ out \in Seq(Elements \cup {0})
    /\ zpc \in [Resetters -> {"idle", "flagOut", "flagIn", "pin", "pout", "unlock"}]
    /\ {written, committed} \subseteq 0..MaxWritten
    /\ resets \in 0..MaxResets
    /\ resetting <=> \E z \in Resetters : zpc[z] # "idle"

Init ==
    /\ buf = [i \in Index |-> 0]
    /\ pin = 0 /\ pout = 0 /\ poutCache = 0 /\ pinCache = 0
    /\ resetting = FALSE /\ resetOut = FALSE /\ resetIn = FALSE
    /\ wpc = "idle" /\ wpos = 0 /\ wleft = 0
    /\ rpc = "idle" /\ rpos = 0 /\ rleft = 0 /\ copied = << >>
    /\ zpc = [z \in Resetters |-> "idle"]
    /\ written = 0 /\ committed = 0 /\ resets = 0 /\ out = << >> /\ intact = TRUE

-----------------------------------------------------------------------------
(* write.  A call that finds resetting_ set returns at once.               *)

WriteBegin(n) ==
    /\ wpc = "idle" /\ ~resetting /\ written + n <= MaxWritten
    /\ wpc' = "load"
    /\ wleft' = n
    /\ UNCHANGED <<sharedVars, poutCache, wpos, written, committed, readerVars, resetVars>>

WriteLoad ==
    /\ wpc = "load"
    /\ wpos' = pin
    /\ wpc' = "flag"
    /\ UNCHANGED <<sharedVars, poutCache, wleft, written, committed, readerVars, resetVars>>

(* Seeded bug: the room is one more than there is.                         *)
RoomOffByOne(o) == Size - Used(wpos, o) >= wleft

Room(o) == Size - Used(wpos, o) - 1 >= wleft

WriteFlag ==
    /\ wpc = "flag"
    /\ wpc' = IF resetOut THEN "clearFlag" ELSE IF Room(poutCache) THEN "copy" ELSE "reload"
    /\ UNCHANGED <<sharedVars, poutCache, wpos, wleft, written, committed, readerVars, resetVars>>

WriteClearFlag ==
    /\ wpc = "clearFlag"
    /\ resetOut' = FALSE
    /\ wpc' = "reload"
    /\ UNCHANGED <<buf, pin, pout, resetting, resetIn, poutCache, wpos, wleft, written, committed,
                   readerVars, resetVars>>

(* Seeded bug: the cached pointer is not loaded again.                     *)
RefuseByCache ==
    /\ wpc = "reload"
    /\ wpc' = IF Room(poutCache) THEN "copy" ELSE "idle"
    /\ UNCHANGED <<sharedVars, poutCache, wpos, wleft, written, committed, readerVars, resetVars>>

WriteReload ==
    /\ wpc = "reload"
    /\ poutCache' = pout
    /\ wpc' = IF Room(pout) THEN "copy" ELSE "idle"
    /\ UNCHANGED <<sharedVars, wpos, wleft, written, committed, readerVars, resetVars>>

WriteCopy ==
    /\ wpc = "copy" /\ wleft > 0
    /\ buf' = [buf EXCEPT ![wpos] = written + 1]
    /\ written' = written + 1
    /\ wpos' = After(wpos)
    /\ wleft' = wleft - 1
    /\ UNCHANGED <<pin, pout, resetting, resetOut, resetIn, poutCache, wpc, committed,
                   readerVars, resetVars>>

WriteCommit ==
    /\ wpc = "copy" /\ wleft = 0
    /\ pin' = wpos
    /\ committed' = written
    /\ wpc' = "idle"
    /\ UNCHANGED <<buf, pout, resetting, resetOut, resetIn, poutCache, wpos, wleft, written,
                   readerVars, resetVars>>

Write ==
    \/ \E n \in Lengths : WriteBegin(n)
    \/ WriteLoad \/ WriteFlag \/ WriteClearFlag \/ WriteReload
    \/ WriteCopy \/ WriteCommit

-----------------------------------------------------------------------------
(* read *)

ReadBegin(n) ==
    /\ rpc = "idle" /\ ~resetting
    /\ rpc' = "load"
    /\ rleft' = n
    /\ copied' = << >>
    /\ UNCHANGED <<sharedVars, pinCache, rpos, out, writerVars, resetVars>>

ReadLoad ==
    /\ rpc = "load"
    /\ rpos' = pout
    /\ rpc' = "flag"
    /\ UNCHANGED <<sharedVars, pinCache, rleft, copied, out, writerVars, resetVars>>

Enough(in) == Used(in, rpos) >= rleft

ReadFlag ==
    /\ rpc = "flag"
    /\ rpc' = IF resetIn THEN "clearFlag" ELSE IF Enough(pinCache) THEN "copy" ELSE "reload"
    /\ UNCHANGED <<sharedVars, pinCache, rpos, rleft, copied, out, writerVars, resetVars>>

ReadClearFlag ==
    /\ rpc = "clearFlag"
    /\ resetIn' = FALSE
    /\ rpc' = "reload"
    /\ UNCHANGED <<buf, pin, pout, resetting, resetOut, pinCache, rpos, rleft, copied, out,
                   writerVars, resetVars>>

ReadReload ==
    /\ rpc = "reload"
    /\ pinCache' = pin
    /\ rpc' = IF Enough(pin) THEN "copy" ELSE "idle"
    /\ UNCHANGED <<sharedVars, rpos, rleft, copied, out, writerVars, resetVars>>

ReadCopy ==
    /\ rpc = "copy" /\ rleft > 0
    /\ copied' = Append(copied, buf[rpos])
    /\ rpos' = After(rpos)
    /\ rleft' = rleft - 1
    /\ UNCHANGED <<sharedVars, pinCache, rpc, out, writerVars, resetVars>>

ReadCommit ==
    /\ rpc = "copy" /\ rleft = 0
    /\ pout' = rpos
    /\ out' = copied
    /\ rpc' = "idle"
    /\ UNCHANGED <<buf, pin, resetting, resetOut, resetIn, pinCache, rpos, rleft, copied,
                   writerVars, resetVars>>

Read ==
    \/ \E n \in Lengths : ReadBegin(n)
    \/ ReadLoad \/ ReadFlag \/ ReadClearFlag \/ ReadReload
    \/ ReadCopy \/ ReadCommit

-----------------------------------------------------------------------------
(* reset *)

Busy == wpc # "idle" \/ rpc # "idle"

(* The compare-and-exchange succeeds for one caller at a time.             *)
ResetBegin(z) ==
    /\ zpc[z] = "idle" /\ ~resetting /\ resets < MaxResets
    /\ resetting' = TRUE
    /\ zpc' = [zpc EXCEPT ![z] = "flagOut"]
    /\ resets' = resets + 1
    /\ intact' = ~Busy
    /\ UNCHANGED <<buf, pin, pout, resetOut, resetIn, writerVars, readerVars>>

ResetFlagOut(z) ==
    /\ zpc[z] = "flagOut"
    /\ resetOut' = TRUE
    /\ zpc' = [zpc EXCEPT ![z] = "flagIn"]
    /\ UNCHANGED <<buf, pin, pout, resetting, resetIn, writerVars, readerVars,
                   resets, intact>>

ResetFlagIn(z) ==
    /\ zpc[z] = "flagIn"
    /\ resetIn' = TRUE
    /\ zpc' = [zpc EXCEPT ![z] = "pin"]
    /\ UNCHANGED <<buf, pin, pout, resetting, resetOut, writerVars, readerVars,
                   resets, intact>>

ResetPin(z) ==
    /\ zpc[z] = "pin"
    /\ pin' = 0
    /\ zpc' = [zpc EXCEPT ![z] = "pout"]
    /\ UNCHANGED <<buf, pout, resetting, resetOut, resetIn, writerVars, readerVars,
                   resets, intact>>

ResetPout(z) ==
    /\ zpc[z] = "pout"
    /\ pout' = 0
    /\ zpc' = [zpc EXCEPT ![z] = "unlock"]
    /\ UNCHANGED <<buf, pin, resetting, resetOut, resetIn, writerVars, readerVars,
                   resets, intact>>

ResetEnd(z) ==
    /\ zpc[z] = "unlock"
    /\ resetting' = FALSE
    /\ zpc' = [zpc EXCEPT ![z] = "idle"]
    /\ UNCHANGED <<buf, pin, pout, resetOut, resetIn, writerVars, readerVars,
                   resets, intact>>

Reset(z) ==
    \/ ResetBegin(z) \/ ResetFlagOut(z) \/ ResetFlagIn(z)
    \/ ResetPin(z) \/ ResetPout(z) \/ ResetEnd(z)

Next == Write \/ Read \/ \E z \in Resetters : Reset(z)

Spec == Init /\ [][Next]_vars
-----------------------------------------------------------------------------
(* Properties *)

Quiet == ~Busy /\ ~resetting

(* The ring buffer is a bounded FIFO (248-299): no element is lost,        *)
(* repeated, reordered, overwritten or read before it is complete, although*)
(* each side decides by a cached copy of the other's pointer; and one      *)
(* reset that meets no write or read repairs it, whatever a racing one has *)
(* done to the caches.                                                     *)
Fifo == INSTANCE BoundedFifo
          WITH Capacity <- Size - 1, put <- committed,
               items <- IF intact /\ ~resetting THEN Content ELSE << >>
ImplementsFifo == Fifo!Spec

(* A write is refused only when the elements do not fit, and a read only   *)
(* when there are not that many, at the moment the other side's pointer is *)
(* loaded (204-206, 237-239).                                              *)
WriteRefused == WriteReload /\ wpc' = "idle"
ReadRefused == ReadReload /\ rpc' = "idle"
JustRefusal ==
    /\ intact /\ WriteRefused => Len(Content) + wleft > Size - 1
    /\ intact /\ ReadRefused => Len(Content) < rleft
RefusesOnlyWhenItMust == [][JustRefusal]_vars

=============================================================================
