------------------------ MODULE GenericFIFO_proofs ------------------------
(***************************************************************************)
(* Proofs about GenericFIFO, for a buffer of any size, blocks of any       *)
(* length and any number of threads that reset it: type correctness, that  *)
(* it implements a bounded FIFO, and that it refuses only when it must.    *)
(***************************************************************************)
EXTENDS GenericFIFO, SequenceTheorems, TLAPS

(* The index i places after o.                                             *)
Shift(o, i) == IF o + i >= Size THEN o + i - Size ELSE o + i

Cells == Elements \cup {0}

-----------------------------------------------------------------------------
(* Arithmetic around the ring.                                             *)

(* Indices are natural numbers below Size.                                 *)
LEMMA IndexRange == \A a : a \in Index <=> a \in Nat /\ a < Size
  BY SizeIsPositive DEF Index

(* The distance is below Size, and leads from one pointer to the other.    *)
LEMMA UsedRange ==
    ASSUME NEW a \in Index, NEW o \in Index
    PROVE  /\ Used(a, o) \in Nat /\ Used(a, o) < Size
           /\ Shift(o, Used(a, o)) = a
  BY SizeIsPositive DEF Used, Shift, Index

(* A pointer is at no distance from itself.                                *)
LEMMA UsedSelf == ASSUME NEW a \in Index PROVE Used(a, a) = 0
  BY SizeIsPositive DEF Used, Index

(* Moving on stays in the ring, one place at a time or several.            *)
LEMMA ShiftRange ==
    ASSUME NEW o \in Index, NEW k \in Nat, k < Size
    PROVE  Shift(o, k) \in Index /\ Shift(o, 0) = o
  BY SizeIsPositive DEF Shift, Index

LEMMA AfterShift ==
    ASSUME NEW o \in Index, NEW k \in Nat, k + 1 < Size
    PROVE  After(Shift(o, k)) = Shift(o, k + 1)
  BY SizeIsPositive DEF After, Shift, Index

LEMMA AfterRange == ASSUME NEW a \in Index PROVE After(a) \in Index
  BY SizeIsPositive DEF After, Index

LEMMA ShiftShift ==
    ASSUME NEW o \in Index, NEW j \in Nat, NEW k \in Nat, j + k < Size
    PROVE  Shift(Shift(o, j), k) = Shift(o, j + k)
  BY SizeIsPositive DEF Shift, Index

(* Places less than a round apart are different cells.                     *)
LEMMA ShiftApart ==
    ASSUME NEW o \in Index, NEW j \in Nat, NEW k \in Nat, j < k, k < Size
    PROVE  Shift(o, j) # Shift(o, k)
  BY SizeIsPositive DEF Shift, Index

(* The writer goes away from o, the reader comes closer to a.              *)
LEMMA UsedAdvance ==
    ASSUME NEW a \in Index, NEW o \in Index, NEW k \in Nat, Used(a, o) + k < Size
    PROVE  /\ Used(Shift(a, k), o) = Used(a, o) + k
           /\ Shift(a, k) = Shift(o, Used(a, o) + k)
  BY SizeIsPositive DEF Used, Shift, Index

LEMMA UsedRetire ==
    ASSUME NEW a \in Index, NEW o \in Index, NEW k \in Nat, k <= Used(a, o)
    PROVE  Used(a, Shift(o, k)) = Used(a, o) - k
  BY SizeIsPositive DEF Used, Shift, Index

(* The index modulo Size of the model is the place of the code's pointer.  *)
LEMMA Modulo ==
    ASSUME NEW o \in Index, NEW i \in 1..Size
    PROVE  (o + i - 1) % Size = Shift(o, i - 1)
<1> DEFINE x == o + i - 1
<1>1. o \in Nat /\ o < Size /\ i \in Nat /\ 1 <= i /\ i <= Size /\ Size \in Nat
  BY SizeIsPositive, IndexRange
<1>2. x \in Nat /\ x <= 2 * Size - 1
  BY <1>1
<1> HIDE DEF x
<1>3. CASE x < Size
  <2>1. x \in 0..(Size - 1)
    BY <1>1, <1>2, <1>3
  <2>2. x % Size = x
    BY <2>1, SizeIsPositive
  <2> QED
    BY <1>1, <1>3, <2>2 DEF Shift, x
<1>4. CASE ~(x < Size)
  <2>1. x \in Size..(2 * Size - 1)
    BY <1>1, <1>2, <1>4
  <2>2. x % Size = x - Size
    BY <2>1, SizeIsPositive
  <2> QED
    BY <1>1, <1>4, <2>2 DEF Shift, x
<1> QED
  BY <1>3, <1>4

-----------------------------------------------------------------------------
(* The inductive invariant.                                                *)

(* Elements copied into buf and not yet behind pin.                        *)
Fresh == written - committed

(* What does not depend on resets: the writer's count, and that a call     *)
(* starts with nothing copied.                                             *)
Counts ==
    /\ committed <= written
    /\ wpc # "copy" => written = committed
    /\ wpc # "idle" => written + wleft <= MaxWritten
    /\ rpc \notin {"idle", "copy"} => copied = << >> /\ rleft > 0

OneReset == \A y, z \in Resetters : zpc[y] # "idle" /\ zpc[z] # "idle" => y = z

(* A reset that meets no write or read keeps both out, and what it has set *)
(* stays.                                                                  *)
Phases ==
    intact => \A z \in Resetters :
        /\ zpc[z] # "idle" => ~Busy
        /\ zpc[z] \in {"flagIn", "pin", "pout", "unlock"} => resetOut
        /\ zpc[z] \in {"pin", "pout", "unlock"} => resetIn
        /\ zpc[z] \in {"pout", "unlock"} => pin = 0
        /\ zpc[z] = "unlock" => pout = 0

(* Unless the flag makes it load pout again, the writer takes the FIFO for *)
(* at least as full as it is; and there is room for what it still copies.  *)
WriterSees ==
    /\ wpc \in {"flag", "clearFlag", "reload"} => wpos = pin
    /\ wpc \in {"reload", "copy"} => ~resetOut
    /\ wpc # "reload" /\ ~resetOut => Used(pin, pout) <= Used(pin, poutCache)
    /\ wpc = "copy" =>
          /\ wpos = Shift(pin, Fresh)
          /\ Used(pin, poutCache) + Fresh + wleft < Size
          /\ \A i \in 1..Fresh : buf[Shift(pin, i - 1)] = committed + i

(* The reader takes it for at most as full as it is; and what it copies is *)
(* there, and is the front of it.                                          *)
ReaderSees ==
    /\ rpc \in {"flag", "clearFlag", "reload"} => rpos = pout
    /\ rpc \in {"reload", "copy"} => ~resetIn
    /\ rpc # "reload" /\ ~resetIn => Used(pinCache, pout) <= Used(pin, pout)
    /\ rpc = "copy" =>
          /\ rpos = Shift(pout, Len(copied))
          /\ 1 <= Len(copied) + rleft
          /\ Len(copied) + rleft <= Used(pinCache, pout)
          /\ \A i \in 1..Len(copied) : copied[i] = buf[Shift(pout, i - 1)]

(* The FIFO is defined: no reset runs, and the last one met nobody.        *)
Defined == intact /\ ~resetting

FifoInv ==
    /\ TypeOK
    /\ Counts /\ OneReset /\ Phases
    /\ Defined => WriterSees /\ ReaderSees

(* The initial state satisfies the inductive invariant.                    *)
LEMMA InitFifoInv == Init => FifoInv
<1> SUFFICES ASSUME Init PROVE FifoInv
  OBVIOUS
<1>1. 0 \in Index /\ 0 \in 0..MaxWritten /\ 0 \in 0..MaxResets
  BY SizeIsPositive, BoundsAreNat DEF Index
<1>2. buf \in [Index -> Cells] /\ zpc \in [Resetters ->
        {"idle", "flagOut", "flagIn", "pin", "pout", "unlock"}]
  BY DEF Init, Cells
<1>3. copied \in Seq(Cells) /\ out \in Seq(Cells)
  BY EmptySeq DEF Init
<1>4. ~resetting /\ ~ \E z \in Resetters : zpc[z] # "idle"
  BY DEF Init
<1>5. TypeOK
  BY <1>1, <1>2, <1>3, <1>4 DEF Init, TypeOK, Cells
<1>6. WriterSees /\ ReaderSees
  BY <1>1, UsedSelf DEF Init, WriterSees, ReaderSees
<1>7. Counts /\ OneReset /\ Phases
  BY <1>4, BoundsAreNat DEF Init, Counts, OneReset, Phases
<1> QED
  BY <1>5, <1>6, <1>7 DEF FifoInv

(* The types by name.                                                      *)
LEMMA Types ==
    ASSUME TypeOK
    PROVE  /\ buf \in [Index -> Cells]
           /\ pin \in Index /\ pout \in Index /\ poutCache \in Index
           /\ pinCache \in Index /\ wpos \in Index /\ rpos \in Index
           /\ wleft \in Nat /\ rleft \in Nat
           /\ copied \in Seq(Cells) /\ Len(copied) \in Nat
           /\ written \in Nat /\ committed \in Nat
           /\ written <= MaxWritten /\ MaxWritten \in Nat
<1>1. copied \in Seq(Cells)
  BY DEF TypeOK, Cells
<1>2. Len(copied) \in Nat
  BY <1>1, LenProperties
<1> QED
  BY <1>1, <1>2, BoundsAreNat DEF TypeOK, Cells

-----------------------------------------------------------------------------
(* Types, counts and the mutual exclusion of resets.                       *)

(* A step of the writer preserves the types and the counts.                *)
LEMMA WriteTypes == TypeOK /\ Counts /\ Write => TypeOK' /\ Counts'
<1> SUFFICES ASSUME TypeOK, Counts, Write PROVE TypeOK' /\ Counts'
  OBVIOUS
<1> USE DEF sharedVars, writerVars, readerVars, resetVars
<1>t. /\ buf \in [Index -> Cells] /\ wpos \in Index /\ wleft \in Nat
      /\ written \in Nat /\ committed \in Nat /\ MaxWritten \in Nat
  BY Types
<1>1. ASSUME NEW n \in Lengths, WriteBegin(n) PROVE TypeOK' /\ Counts'
  BY <1>1, <1>t, LengthsArePositive DEF WriteBegin, TypeOK, Counts
<1>2. CASE WriteLoad
  BY <1>2 DEF WriteLoad, TypeOK, Counts
<1>3. CASE WriteFlag \/ WriteClearFlag \/ WriteReload
  <2>1. wpc' \in {"idle", "clearFlag", "reload", "copy"} /\ wpc \notin {"idle", "copy"}
    BY <1>3 DEF WriteFlag, WriteClearFlag, WriteReload
  <2>2. poutCache' \in Index /\ resetOut' \in BOOLEAN
    BY <1>3 DEF WriteFlag, WriteClearFlag, WriteReload, TypeOK
  <2>3. UNCHANGED <<buf, pin, pout, resetting, resetIn, wpos, wleft, written, committed,
                    readerVars, resetVars>>
    BY <1>3 DEF WriteFlag, WriteClearFlag, WriteReload
  <2> QED
    BY <2>1, <2>2, <2>3, <1>t DEF TypeOK, Counts
<1>4. CASE WriteCopy
  <2>1. written' \in 0..MaxWritten /\ written + 1 \in Cells /\ wleft' \in Nat
    BY <1>4, <1>t DEF WriteCopy, Counts, Cells, Elements
  <2>2. buf' \in [Index -> Cells]
    BY <1>4, <1>t, <2>1 DEF WriteCopy
  <2>3. wpos' \in Index
    BY <1>4, <1>t, AfterRange DEF WriteCopy
  <2> QED
    BY <1>4, <1>t, <2>1, <2>2, <2>3 DEF WriteCopy, TypeOK, Counts, Cells
<1>5. CASE WriteCommit
  BY <1>5, <1>t DEF WriteCommit, TypeOK, Counts
<1> QED
  BY <1>1, <1>2, <1>3, <1>4, <1>5 DEF Write

(* A step of the reader preserves the types and the counts.                *)
LEMMA ReadTypes == TypeOK /\ Counts /\ Read => TypeOK' /\ Counts'
<1> SUFFICES ASSUME TypeOK, Counts, Read PROVE TypeOK' /\ Counts'
  OBVIOUS
<1> USE DEF sharedVars, writerVars, readerVars, resetVars
<1>t. /\ buf \in [Index -> Cells] /\ rpos \in Index /\ rleft \in Nat
      /\ copied \in Seq(Cells)
  BY Types
<1>1. ASSUME NEW n \in Lengths, ReadBegin(n) PROVE TypeOK' /\ Counts'
  <2>1. copied' \in Seq(Cells) /\ copied' = << >> /\ rleft' \in Nat /\ rleft' > 0
    BY <1>1, LengthsArePositive, EmptySeq DEF ReadBegin
  <2> QED
    BY <1>1, <2>1 DEF ReadBegin, TypeOK, Counts, Cells
<1>2. CASE ReadLoad
  BY <1>2 DEF ReadLoad, TypeOK, Counts
<1>3. CASE ReadFlag \/ ReadClearFlag \/ ReadReload
  <2>1. rpc' \in {"idle", "clearFlag", "reload", "copy"} /\ rpc \notin {"idle", "copy"}
    BY <1>3 DEF ReadFlag, ReadClearFlag, ReadReload
  <2>2. pinCache' \in Index /\ resetIn' \in BOOLEAN
    BY <1>3 DEF ReadFlag, ReadClearFlag, ReadReload, TypeOK
  <2>3. UNCHANGED <<buf, pin, pout, resetting, resetOut, rpos, rleft, copied, out,
                    writerVars, resetVars>>
    BY <1>3 DEF ReadFlag, ReadClearFlag, ReadReload
  <2> QED
    BY <2>1, <2>2, <2>3 DEF TypeOK, Counts
<1>4. CASE ReadCopy
  <2>1. copied' \in Seq(Cells)
    BY <1>4, <1>t, AppendProperties DEF ReadCopy
  <2>2. rpos' \in Index /\ rleft' \in Nat
    BY <1>4, <1>t, AfterRange DEF ReadCopy
  <2> QED
    BY <1>4, <2>1, <2>2 DEF ReadCopy, TypeOK, Counts, Cells
<1>5. CASE ReadCommit
  BY <1>5 DEF ReadCommit, TypeOK, Counts
<1> QED
  BY <1>1, <1>2, <1>3, <1>4, <1>5 DEF Read

(* A step of a reset preserves the types, and only one reset runs.         *)
LEMMA ResetTypes ==
    ASSUME TypeOK, Counts, OneReset, NEW z \in Resetters, Reset(z)
    PROVE  TypeOK' /\ Counts' /\ OneReset'
<1> USE DEF sharedVars, writerVars, readerVars, resetVars
<1>t. /\ zpc \in [Resetters -> {"idle", "flagOut", "flagIn", "pin", "pout", "unlock"}]
      /\ 0 \in Index /\ resetting <=> \E y \in Resetters : zpc[y] # "idle"
      /\ resetting \in BOOLEAN /\ resets \in 0..MaxResets /\ MaxResets \in Nat
  BY SizeIsPositive, BoundsAreNat DEF TypeOK, Index
<1>c. Counts'
  BY DEF Counts, Reset, ResetBegin, ResetFlagOut, ResetFlagIn, ResetPin, ResetPout,
         ResetEnd
<1>1. CASE ResetBegin(z)
  <2>1. \A y \in Resetters : zpc[y] = "idle"
    BY <1>1, <1>t DEF ResetBegin
  <2>2. \A y \in Resetters : zpc'[y] = IF y = z THEN "flagOut" ELSE "idle"
    BY <1>1, <1>t, <2>1 DEF ResetBegin
  <2>3. OneReset'
    BY <2>2 DEF OneReset
  <2>4. resets' \in 0..MaxResets /\ intact' \in BOOLEAN
    <3>1. resets' \in 0..MaxResets
      BY <1>1, <1>t DEF ResetBegin
    <3>2. intact' \in BOOLEAN
      BY <1>1 DEF ResetBegin
    <3> QED
      BY <3>1, <3>2
  <2>5. resetting' <=> \E y \in Resetters : zpc'[y] # "idle"
    BY <1>1, <2>2 DEF ResetBegin
  <2> QED
    BY <1>1, <1>t, <1>c, <2>3, <2>4, <2>5 DEF ResetBegin, TypeOK
<1>2. CASE \/ ResetFlagOut(z) \/ ResetFlagIn(z) \/ ResetPin(z) \/ ResetPout(z)
  <2>1. zpc[z] # "idle" /\ zpc'[z] # "idle" /\ resetting' = resetting
        /\ \A y \in Resetters \ {z} : zpc'[y] = zpc[y]
        /\ zpc' \in [Resetters -> {"idle", "flagOut", "flagIn", "pin", "pout", "unlock"}]
    BY <1>2, <1>t DEF ResetFlagOut, ResetFlagIn, ResetPin, ResetPout
  <2>2. resetting' <=> \E y \in Resetters : zpc'[y] # "idle"
    BY <1>t, <2>1
  <2>3. OneReset'
    BY <2>1 DEF OneReset
  <2> QED
    BY <1>2, <1>t, <1>c, <2>1, <2>2, <2>3
    DEF ResetFlagOut, ResetFlagIn, ResetPin, ResetPout, TypeOK
<1>3. CASE ResetEnd(z)
  <2>1. \A y \in Resetters : zpc'[y] = "idle"
    BY <1>3, <1>t DEF ResetEnd, OneReset
  <2>2. zpc' \in [Resetters -> {"idle", "flagOut", "flagIn", "pin", "pout", "unlock"}]
    BY <1>3, <1>t DEF ResetEnd
  <2> QED
    BY <1>3, <1>c, <2>1, <2>2 DEF ResetEnd, TypeOK, OneReset
<1> QED
  BY <1>1, <1>2, <1>3 DEF Reset
-----------------------------------------------------------------------------
(* What the writer and the reader see of each other.                       *)

(* A reset that keeps the FIFO intact keeps both out of it.                *)
LEMMA NobodyInReset ==
    ASSUME TypeOK, Phases, intact, resetting
    PROVE  ~Busy
<1>1. PICK z \in Resetters : zpc[z] # "idle"
  BY DEF TypeOK
<1> QED
  BY <1>1 DEF Phases

(* What a write copies lies outside of what a read may take.               *)
LEMMA WriterApart ==
    ASSUME TypeOK, Counts, WriterSees, wpc = "copy", wleft > 0,
           NEW i \in 1..Used(pin, pout)
    PROVE  Shift(pout, i - 1) # wpos
<1> DEFINE u == Used(pin, pout)
           p == Fresh
<1>t. /\ pin \in Index /\ pout \in Index /\ poutCache \in Index /\ wleft \in Nat
      /\ written \in Nat /\ committed \in Nat /\ Size \in Nat
  BY Types, SizeIsPositive
<1>1. u \in Nat /\ p \in Nat /\ Used(pin, poutCache) \in Nat
  BY <1>t, UsedRange DEF Fresh, Counts
<1>2. u + p < Size /\ wpos = Shift(pin, p)
  BY <1>t, <1>1 DEF WriterSees
<1>3. wpos = Shift(pout, u + p)
  BY <1>t, <1>1, <1>2, UsedAdvance
<1>4. i - 1 \in Nat /\ i - 1 < u + p
  BY <1>1
<1> HIDE DEF u, p
<1> QED
  BY <1>t, <1>1, <1>2, <1>3, <1>4, ShiftApart

(* A step of the writer, while the FIFO is defined.                        *)
LEMMA WriterKeeps ==
    ASSUME TypeOK, Counts, WriterSees, ReaderSees, Write
    PROVE  WriterSees' /\ ReaderSees'
<1> USE DEF sharedVars, writerVars, readerVars, resetVars
<1>t. /\ buf \in [Index -> Cells] /\ pin \in Index /\ pout \in Index
      /\ poutCache \in Index /\ pinCache \in Index /\ wpos \in Index
      /\ wleft \in Nat /\ written \in Nat /\ committed \in Nat
      /\ rleft \in Nat /\ Len(copied) \in Nat /\ Size \in Nat
  BY Types, SizeIsPositive
<1>u. /\ Used(pin, pout) \in Nat /\ Used(pin, pout) < Size
      /\ Used(pin, poutCache) \in Nat /\ Used(pinCache, pout) \in Nat
  BY <1>t, UsedRange
<1>r. ASSUME UNCHANGED <<buf, pin, pout, resetIn, pinCache, rpc, rpos, rleft, copied>>
      PROVE  ReaderSees'
  BY <1>r DEF ReaderSees
<1>1. ASSUME NEW n \in Lengths, WriteBegin(n) PROVE WriterSees' /\ ReaderSees'
  BY <1>1, <1>r DEF WriteBegin, WriterSees
<1>2. CASE WriteLoad
  BY <1>2, <1>r DEF WriteLoad, WriterSees
<1>3. CASE WriteFlag
  <2>1. wpos = pin /\ Fresh = 0 /\ Shift(pin, 0) = pin
    BY <1>3, <1>t, ShiftRange, SizeIsPositive DEF WriteFlag, WriterSees, Counts, Fresh
  <2>2. ASSUME wpc' = "copy"
        PROVE  ~resetOut /\ Used(pin, poutCache) + Fresh + wleft < Size
    BY <1>3, <1>t, <1>u, <2>1, <2>2 DEF WriteFlag, Room
  <2>3. WriterSees'
    BY <1>3, <1>t, <2>1, <2>2 DEF WriteFlag, WriterSees, Fresh
  <2> QED
    BY <1>3, <1>r, <2>3 DEF WriteFlag
<1>4. CASE WriteClearFlag
  BY <1>4, <1>r DEF WriteClearFlag, WriterSees
<1>5. CASE WriteReload
  <2>1. wpos = pin /\ Fresh = 0 /\ Shift(pin, 0) = pin
    BY <1>5, <1>t, ShiftRange, SizeIsPositive DEF WriteReload, WriterSees, Counts, Fresh
  <2>2. ASSUME wpc' = "copy"
        PROVE  Used(pin, pout) + Fresh + wleft < Size
    BY <1>5, <1>t, <1>u, <2>1, <2>2 DEF WriteReload, Room
  <2>3. ~resetOut
    BY <1>5 DEF WriteReload, WriterSees
  <2>4. WriterSees'
    BY <1>5, <1>t, <1>u, <2>1, <2>2, <2>3 DEF WriteReload, WriterSees, Fresh
  <2> QED
    BY <1>5, <1>r, <2>4 DEF WriteReload
<1>6. CASE WriteCopy
  <2>1. /\ wpc = "copy" /\ wleft > 0 /\ buf' = [buf EXCEPT ![wpos] = written + 1]
        /\ Fresh' = Fresh + 1 /\ Fresh \in Nat /\ wleft' = wleft - 1
        /\ committed + (Fresh + 1) = written + 1
    BY <1>6, <1>t DEF WriteCopy, Fresh, Counts
  <2>2. /\ ~resetOut /\ wpos = Shift(pin, Fresh)
        /\ Used(pin, poutCache) + Fresh + wleft < Size
        /\ \A i \in 1..Fresh : buf[Shift(pin, i - 1)] = committed + i
    BY <2>1 DEF WriterSees
  <2>3. wpos' = Shift(pin, Fresh + 1)
    <3>1. Fresh + 1 < Size
      BY <1>t, <1>u, <2>1, <2>2
    <3> QED
      BY <1>6, <1>t, <2>1, <2>2, <3>1, AfterShift DEF WriteCopy
  <2>4. \A i \in 1..(Fresh + 1) : buf'[Shift(pin, i - 1)] = committed + i
    <3> SUFFICES ASSUME NEW i \in 1..(Fresh + 1)
                 PROVE  buf'[Shift(pin, i - 1)] = committed + i
      OBVIOUS
    <3>1. i - 1 \in Nat /\ i - 1 < Size /\ Fresh < Size
      BY <1>t, <1>u, <2>1, <2>2
    <3>2. Shift(pin, i - 1) \in Index
      BY <1>t, <3>1, ShiftRange
    <3>3. CASE i = Fresh + 1
      BY <1>t, <2>1, <2>2, <3>3, <3>2
    <3>4. CASE i \in 1..Fresh
      <4>1. Shift(pin, i - 1) # wpos
        BY <1>t, <2>1, <2>2, <3>1, <3>4, ShiftApart
      <4> QED
        BY <1>t, <2>1, <2>2, <3>2, <3>4, <4>1
    <3> QED
      BY <2>1, <3>3, <3>4
  <2>5. WriterSees'
    <3>1. UNCHANGED <<pin, pout, poutCache, committed, wpc, resetOut>>
      BY <1>6 DEF WriteCopy
    <3>2. Used(pin, poutCache) + (Fresh + 1) + wleft' < Size
      BY <1>t, <1>u, <2>1, <2>2
    <3> QED
      BY <2>1, <2>2, <2>3, <2>4, <3>1, <3>2 DEF WriterSees
  <2>6. ReaderSees'
    <3>1. UNCHANGED <<pin, pout, pinCache, rpc, rpos, rleft, copied, resetIn>>
      BY <1>6 DEF WriteCopy
    <3>2. ASSUME rpc = "copy", NEW i \in 1..Len(copied)
          PROVE  copied[i] = buf'[Shift(pout, i - 1)]
      <4>1. i \in 1..Used(pin, pout) /\ i - 1 \in Nat /\ i - 1 < Size
        BY <1>t, <1>u, <3>2 DEF ReaderSees
      <4>2. Shift(pout, i - 1) # wpos /\ Shift(pout, i - 1) \in Index
        BY <1>t, <2>1, <4>1, WriterApart, ShiftRange
      <4> QED
        BY <1>t, <2>1, <3>2, <4>2 DEF ReaderSees
    <3> QED
      BY <3>1, <3>2 DEF ReaderSees
  <2> QED
    BY <2>5, <2>6
<1>7. CASE WriteCommit
  <2>1. /\ wpc = "copy" /\ Fresh \in Nat /\ wpos = Shift(pin, Fresh)
        /\ Used(pin, poutCache) + Fresh < Size
        /\ Used(pin, pout) <= Used(pin, poutCache)
    BY <1>7, <1>t, <1>u DEF WriteCommit, WriterSees, Counts, Fresh
  <2>2. /\ Used(wpos, pout) = Used(pin, pout) + Fresh
        /\ Used(wpos, poutCache) = Used(pin, poutCache) + Fresh
    BY <1>t, <1>u, <2>1, UsedAdvance
  <2>3. WriterSees'
    BY <1>7, <1>u, <2>1, <2>2 DEF WriteCommit, WriterSees
  <2>4. ReaderSees'
    <3>1. UNCHANGED <<buf, pout, pinCache, rpc, rpos, rleft, copied, resetIn>> /\ pin' = wpos
      BY <1>7 DEF WriteCommit
    <3>2. Used(pin, pout) <= Used(pin', pout')
      BY <1>u, <2>1, <2>2, <3>1
    <3> QED
      BY <1>u, <2>2, <3>1, <3>2, <2>1 DEF ReaderSees
  <2> QED
    BY <2>3, <2>4
<1> QED
  BY <1>1, <1>2, <1>3, <1>4, <1>5, <1>6, <1>7 DEF Write

(* A step of the reader, while the FIFO is defined.                        *)
LEMMA ReaderKeeps ==
    ASSUME TypeOK, Counts, WriterSees, ReaderSees, Read
    PROVE  WriterSees' /\ ReaderSees'
<1> USE DEF sharedVars, writerVars, readerVars, resetVars
<1>t. /\ buf \in [Index -> Cells] /\ pin \in Index /\ pout \in Index
      /\ poutCache \in Index /\ pinCache \in Index /\ rpos \in Index
      /\ copied \in Seq(Cells)
      /\ rleft \in Nat /\ Len(copied) \in Nat /\ Size \in Nat
  BY Types, SizeIsPositive
<1>u. /\ Used(pin, pout) \in Nat /\ Used(pin, pout) < Size
      /\ Used(pin, poutCache) \in Nat
      /\ Used(pinCache, pout) \in Nat /\ Used(pinCache, pout) < Size
  BY <1>t, UsedRange
<1>w. ASSUME UNCHANGED <<buf, pin, pout, resetOut, poutCache, wpc, wpos, wleft,
                         written, committed>>
      PROVE  WriterSees'
  BY <1>w DEF WriterSees, Fresh
<1>1. ASSUME NEW n \in Lengths, ReadBegin(n) PROVE WriterSees' /\ ReaderSees'
  BY <1>1, <1>w DEF ReadBegin, ReaderSees
<1>2. CASE ReadLoad
  BY <1>2, <1>w DEF ReadLoad, ReaderSees
<1>3. CASE ReadFlag
  <2>1. /\ rpos = pout /\ Len(copied) = 0 /\ Shift(pout, 0) = pout /\ rleft > 0
        /\ UNCHANGED <<buf, pin, pout, resetIn, pinCache, rpos, rleft, copied>>
    BY <1>3, <1>t, ShiftRange, SizeIsPositive, EmptySeq DEF ReadFlag, ReaderSees, Counts
  <2>2. ASSUME rpc' = "copy"
        PROVE  ~resetIn /\ Len(copied) + rleft <= Used(pinCache, pout)
    BY <1>3, <1>t, <1>u, <2>1, <2>2 DEF ReadFlag, Enough
  <2>3. ReaderSees'
    BY <1>3, <1>t, <2>1, <2>2 DEF ReadFlag, ReaderSees
  <2> QED
    BY <1>3, <1>w, <2>3 DEF ReadFlag
<1>4. CASE ReadClearFlag
  BY <1>4, <1>w DEF ReadClearFlag, ReaderSees
<1>5. CASE ReadReload
  <2>1. /\ rpos = pout /\ Len(copied) = 0 /\ Shift(pout, 0) = pout /\ rleft > 0
        /\ UNCHANGED <<buf, pin, pout, resetIn, rpos, rleft, copied>> /\ pinCache' = pin
    BY <1>5, <1>t, ShiftRange, SizeIsPositive, EmptySeq DEF ReadReload, ReaderSees, Counts
  <2>2. ASSUME rpc' = "copy"
        PROVE  Len(copied) + rleft <= Used(pin, pout)
    BY <1>5, <1>t, <1>u, <2>1, <2>2 DEF ReadReload, Enough
  <2>3. rpc' = "copy" => ~resetIn
    BY <1>5 DEF ReadReload, ReaderSees
  <2>4. ReaderSees'
    BY <1>5, <1>t, <1>u, <2>1, <2>2, <2>3 DEF ReadReload, ReaderSees
  <2> QED
    BY <1>5, <1>w, <2>4 DEF ReadReload
<1>6. CASE ReadCopy
  <2> DEFINE k == Len(copied)
  <2>1. /\ rpc = "copy" /\ rpc' = "copy" /\ rleft > 0 /\ rleft' = rleft - 1
        /\ copied' = Append(copied, buf[rpos]) /\ rpos' = After(rpos)
        /\ UNCHANGED <<buf, pin, pout, resetIn, pinCache>>
    BY <1>6 DEF ReadCopy
  <2>2. /\ ~resetIn /\ rpos = Shift(pout, k)
        /\ k + rleft <= Used(pinCache, pout)
        /\ \A i \in 1..k : copied[i] = buf[Shift(pout, i - 1)]
        /\ Used(pinCache, pout) <= Used(pin, pout)
    BY <2>1 DEF ReaderSees
  <2>3. /\ Len(copied') = k + 1 /\ k \in Nat
        /\ \A i \in 1..k : copied'[i] = copied[i]
        /\ copied'[k + 1] = buf[rpos]
    BY <1>t, <2>1, AppendProperties
  <2> HIDE DEF k
  <2>4. rpos' = Shift(pout, k + 1)
    <3>1. k + 1 < Size
      BY <1>t, <1>u, <2>1, <2>2, <2>3
    <3> QED
      BY <1>t, <2>1, <2>2, <2>3, <3>1, AfterShift
  <2>5. \A i \in 1..(k + 1) : copied'[i] = buf[Shift(pout, i - 1)]
    <3> SUFFICES ASSUME NEW i \in 1..(k + 1)
                 PROVE  copied'[i] = buf[Shift(pout, i - 1)]
      OBVIOUS
    <3>1. CASE i \in 1..k
      BY <2>2, <2>3, <3>1
    <3>2. CASE i = k + 1
      BY <2>2, <2>3, <3>2
    <3> QED
      BY <2>3, <3>1, <3>2
  <2>6. ReaderSees'
    <3>1. 1 <= (k + 1) + rleft' /\ (k + 1) + rleft' <= Used(pinCache, pout)
      BY <1>t, <1>u, <2>1, <2>2, <2>3
    <3> QED
      BY <2>1, <2>2, <2>3, <2>4, <2>5, <3>1 DEF ReaderSees
  <2> QED
    BY <1>6, <1>w, <2>6 DEF ReadCopy
<1>7. CASE ReadCommit
  <2> DEFINE k == Len(copied)
  <2>1. /\ rpc = "copy" /\ rpc' = "idle" /\ pout' = rpos /\ rpos = Shift(pout, k)
        /\ k <= Used(pinCache, pout) /\ Used(pinCache, pout) <= Used(pin, pout)
        /\ k \in Nat
    BY <1>7, <1>t, <1>u DEF ReadCommit, ReaderSees
  <2>2. /\ Used(pin, rpos) = Used(pin, pout) - k
        /\ Used(pinCache, rpos) = Used(pinCache, pout) - k
    BY <1>t, <1>u, <2>1, UsedRetire
  <2> HIDE DEF k
  <2>3. ReaderSees'
    <3>1. UNCHANGED <<pin, pinCache>>
      BY <1>7 DEF ReadCommit
    <3> QED
      BY <1>u, <2>1, <2>2, <3>1 DEF ReaderSees
  <2>4. WriterSees'
    <3>1. UNCHANGED <<buf, pin, resetOut, poutCache, wpc, wpos, wleft, written, committed>>
      BY <1>7 DEF ReadCommit
    <3>2. Used(pin, pout') <= Used(pin, pout)
      BY <1>u, <2>1, <2>2
    <3>3. Used(pin, pout) <= Used(pin, poutCache) => Used(pin, pout') <= Used(pin, poutCache)
      BY <1>u, <2>1, <2>2, <3>2
    <3> QED
      BY <3>1, <3>3 DEF WriterSees, Fresh
  <2> QED
    BY <2>3, <2>4
<1> QED
  BY <1>1, <1>2, <1>3, <1>4, <1>5, <1>6, <1>7 DEF Read
(* A step of a reset: one that meets nobody leaves both sides with their   *)
(* flag set, so that whatever their caches hold is loaded again.           *)
LEMMA ResetKeeps ==
    ASSUME FifoInv, NEW z \in Resetters, Reset(z)
    PROVE  Phases' /\ (Defined' => WriterSees' /\ ReaderSees')
<1> USE DEF sharedVars, writerVars, readerVars, resetVars
<1>t. /\ zpc \in [Resetters -> {"idle", "flagOut", "flagIn", "pin", "pout", "unlock"}]
      /\ resetting <=> \E y \in Resetters : zpc[y] # "idle"
      /\ pin \in Index /\ pout \in Index
  BY DEF FifoInv, TypeOK
<1>o. ASSUME zpc[z] # "idle", NEW y \in Resetters, zpc[y] # "idle" PROVE y = z
  BY <1>o DEF FifoInv, OneReset
<1>1. CASE ResetBegin(z)
  <2>1. \A y \in Resetters : zpc'[y] = IF y = z THEN "flagOut" ELSE "idle"
    BY <1>1, <1>t DEF ResetBegin
  <2>2. ~Defined' /\ (intact' => ~Busy')
    BY <1>1 DEF ResetBegin, Defined, Busy
  <2> QED
    BY <2>1, <2>2 DEF Phases
<1>2. CASE \/ ResetFlagOut(z) \/ ResetFlagIn(z) \/ ResetPin(z) \/ ResetPout(z)
  <2>1. /\ zpc[z] # "idle" /\ resetting /\ resetting' = resetting
        /\ \A y \in Resetters \ {z} : zpc'[y] = zpc[y]
        /\ UNCHANGED <<intact, wpc, rpc>>
    BY <1>2, <1>t DEF ResetFlagOut, ResetFlagIn, ResetPin, ResetPout
  <2>2. \A y \in Resetters \ {z} : zpc'[y] = "idle"
    BY <1>o, <2>1
  <2>3. Phases'
    <3> SUFFICES ASSUME intact PROVE Phases'
      BY <2>1 DEF Phases
    <3>1. ~Busy'
      BY <2>1 DEF FifoInv, Phases, Busy
    <3>2. CASE ResetFlagOut(z)
      BY <1>t, <2>2, <3>1, <3>2 DEF ResetFlagOut, Phases
    <3>3. CASE ResetFlagIn(z)
      BY <1>t, <2>2, <3>1, <3>3 DEF ResetFlagIn, FifoInv, Phases
    <3>4. CASE ResetPin(z)
      BY <1>t, <2>2, <3>1, <3>4 DEF ResetPin, FifoInv, Phases
    <3>5. CASE ResetPout(z)
      BY <1>t, <2>2, <3>1, <3>5 DEF ResetPout, FifoInv, Phases
    <3> QED
      BY <1>2, <3>2, <3>3, <3>4, <3>5
  <2> QED
    BY <2>1, <2>3 DEF Defined
<1>3. CASE ResetEnd(z)
  <2>1. \A y \in Resetters : zpc'[y] = "idle"
    BY <1>3, <1>t, <1>o DEF ResetEnd
  <2>2. Phases'
    BY <2>1 DEF Phases
  <2>3. ASSUME intact PROVE WriterSees' /\ ReaderSees'
    <3>1. resetOut' /\ resetIn' /\ wpc' = "idle" /\ rpc' = "idle"
      BY <1>3, <2>3 DEF ResetEnd, FifoInv, Phases, Busy
    <3> QED
      BY <3>1 DEF WriterSees, ReaderSees
  <2> QED
    BY <1>3, <2>2, <2>3 DEF ResetEnd, Defined
<1> QED
  BY <1>1, <1>2, <1>3 DEF Reset

(* Every step preserves the invariant.                                     *)
LEMMA FifoStep == FifoInv /\ [Next]_vars => FifoInv'
<1> SUFFICES ASSUME FifoInv, [Next]_vars PROVE FifoInv'
  OBVIOUS
<1> USE DEF sharedVars, writerVars, readerVars, resetVars
<1>c. Counts /\ TypeOK /\ OneReset /\ Phases
  BY DEF FifoInv
<1>1. CASE Write \/ Read
  <2>1. TypeOK' /\ Counts'
    BY <1>1, <1>c, WriteTypes, ReadTypes
  <2>2. UNCHANGED <<zpc, intact, resetting, resets>>
    <3>1. CASE Write
      BY <3>1 DEF Write, WriteBegin, WriteLoad, WriteFlag, WriteClearFlag, WriteReload,
         WriteCopy, WriteCommit
    <3>2. CASE Read
      BY <3>2 DEF Read, ReadBegin, ReadLoad, ReadFlag, ReadClearFlag, ReadReload,
         ReadCopy, ReadCommit
    <3> QED
      BY <1>1, <3>1, <3>2
  <2>3. Busy \/ ~resetting
    <3>1. CASE Write
      BY <3>1 DEF Write, WriteBegin, WriteLoad, WriteFlag, WriteClearFlag, WriteReload,
         WriteCopy, WriteCommit, Busy
    <3>2. CASE Read
      BY <3>2 DEF Read, ReadBegin, ReadLoad, ReadFlag, ReadClearFlag, ReadReload,
         ReadCopy, ReadCommit, Busy
    <3> QED
      BY <1>1, <3>1, <3>2
  <2>4. intact => ~resetting
    BY <1>c, <2>3, NobodyInReset
  <2>5. intact => \A z \in Resetters : zpc[z] = "idle"
    BY <1>c, <2>4 DEF TypeOK
  <2>6. OneReset' /\ Phases'
    BY <1>c, <2>2, <2>5 DEF OneReset, Phases
  <2>7. Defined' => WriterSees' /\ ReaderSees'
    BY <1>1, <1>c, <2>2, WriterKeeps, ReaderKeeps DEF FifoInv, Defined
  <2> QED
    BY <2>1, <2>6, <2>7 DEF FifoInv
<1>2. ASSUME NEW z \in Resetters, Reset(z) PROVE FifoInv'
  BY <1>2, <1>c, ResetTypes, ResetKeeps DEF FifoInv
<1>3. CASE UNCHANGED vars
  BY <1>3 DEF vars, FifoInv, TypeOK, Counts, OneReset, Phases, Busy, Defined, WriterSees,
     ReaderSees, Fresh
<1> QED
  BY <1>1, <1>2, <1>3 DEF Next

(* The invariant holds throughout.                                         *)
THEOREM FifoInductive == Spec => []FifoInv
<1> QED
  BY InitFifoInv, FifoStep, PTL DEF Spec

(* The variables keep their types; above all, no pointer leaves the        *)
(* buffer, whatever the resets do.                                         *)
THEOREM FifoTypes == Spec => []TypeOK
<1>1. FifoInv => TypeOK
  BY DEF FifoInv
<1> QED
  BY <1>1, FifoInductive, PTL

-----------------------------------------------------------------------------
(* What is in the FIFO.                                                    *)

(* A function on 1..n is a sequence of n elements.                         *)
LEMMA FunctionSeq ==
    ASSUME NEW S, NEW n \in Nat, NEW f \in [1..n -> S]
    PROVE  f \in Seq(S) /\ Len(f) = n
<1>1. f \in Seq(S)
  BY SeqDef
<1>2. Len(f) \in Nat /\ DOMAIN f = 1..Len(f) /\ DOMAIN f = 1..n
  BY <1>1, LenProperties
<1> QED
  BY <1>1, <1>2

(* The content is a sequence, as long as the distance of the pointers.     *)
ContentSeq ==
    /\ Content \in Seq(Cells) /\ Len(Content) = Used(pin, pout)
    /\ \A i \in 1..Used(pin, pout) : Content[i] = buf[Shift(pout, i - 1)]

LEMMA ContentIs == TypeOK => ContentSeq
<1> SUFFICES ASSUME TypeOK PROVE ContentSeq
  OBVIOUS
<1>t. buf \in [Index -> Cells] /\ pin \in Index /\ pout \in Index /\ Size \in Nat
  BY Types, SizeIsPositive
<1>u. Used(pin, pout) \in Nat /\ Used(pin, pout) < Size
  BY <1>t, UsedRange
<1>1. ASSUME NEW i \in 1..Used(pin, pout)
      PROVE  (pout + i - 1) % Size = Shift(pout, i - 1) /\ Shift(pout, i - 1) \in Index
  <2>1. i \in 1..Size /\ i - 1 \in Nat /\ i - 1 < Size
    BY <1>t, <1>u
  <2> QED
    BY <1>t, <2>1, Modulo, ShiftRange
<1>2. Content \in [1..Used(pin, pout) -> Cells]
  BY <1>t, <1>1 DEF Content
<1>3. \A i \in 1..Used(pin, pout) : Content[i] = buf[Shift(pout, i - 1)]
  BY <1>1 DEF Content
<1> QED
  BY <1>u, <1>2, <1>3, FunctionSeq DEF ContentSeq

(* A refusal is never due to a stale pointer: of the writer's, or of the   *)
(* reader's.                                                               *)
LEMMA RefusalStep == FifoInv /\ [Next]_vars => JustRefusal
<1> SUFFICES ASSUME FifoInv, intact,
                    \/ WriteRefused /\ ~(Len(Content) + wleft > Size - 1)
                    \/ ReadRefused /\ ~(Len(Content) < rleft)
             PROVE  FALSE
  BY DEF JustRefusal
<1>t. /\ TypeOK /\ Phases /\ Size \in Nat /\ wleft \in Nat /\ rleft \in Nat
      /\ Used(pin, pout) \in Nat
  BY Types, UsedRange, SizeIsPositive DEF FifoInv
<1>1. Defined
  BY <1>t, NobodyInReset DEF WriteRefused, ReadRefused, WriteReload, ReadReload, Busy,
     Defined
<1>2. Len(Content) = Used(pin, pout)
  BY <1>t, ContentIs DEF ContentSeq
<1>3. CASE WriteRefused /\ ~(Len(Content) + wleft > Size - 1)
  <2>1. wpos = pin /\ ~Room(pout)
    BY <1>1, <1>3 DEF WriteRefused, WriteReload, FifoInv, WriterSees
  <2> QED
    BY <1>t, <1>2, <1>3, <2>1 DEF Room
<1>4. CASE ReadRefused /\ ~(Len(Content) < rleft)
  <2>1. rpos = pout /\ ~Enough(pin)
    BY <1>1, <1>4 DEF ReadRefused, ReadReload, FifoInv, ReaderSees
  <2> QED
    BY <1>t, <1>2, <1>4, <2>1 DEF Enough
<1> QED
  BY <1>3, <1>4

(* A write fails only when its elements do not fit, and a read only when   *)
(* there are not that many, although both decide by cached pointers.       *)
THEOREM RefusesOnlyWhenItMustHolds == Spec => RefusesOnlyWhenItMust
<1> QED
  BY FifoInductive, RefusalStep, PTL DEF Spec, RefusesOnlyWhenItMust

-----------------------------------------------------------------------------
(* Refinement: the ring buffer implements BoundedFifo.                     *)

(* What a write copies is behind the content, and becomes its end when pin *)
(* is stored.                                                              *)
LEMMA CommitIsPut ==
    ASSUME FifoInv, Defined, WriteCommit
    PROVE  /\ Content' = Content \o [i \in 1..Fresh |-> committed + i]
           /\ committed' = committed + Fresh
           /\ Fresh \in Nat /\ Len(Content) + Fresh <= Size - 1
<1> DEFINE f == [i \in 1..Fresh |-> committed + i]
<1>t. /\ TypeOK /\ Counts /\ WriterSees /\ Size \in Nat
      /\ pin \in Index /\ pout \in Index /\ poutCache \in Index
      /\ wleft \in Nat /\ written \in Nat /\ committed \in Nat
      /\ written <= MaxWritten /\ MaxWritten \in Nat
  BY Types, SizeIsPositive DEF FifoInv
<1>1. /\ Fresh \in Nat /\ Used(pin, pout) \in Nat /\ Used(pin, poutCache) \in Nat
      /\ committed + Fresh = written
  BY <1>t, UsedRange DEF Fresh, Counts
<1>2. /\ wpos = Shift(pin, Fresh) /\ Used(pin, pout) + Fresh < Size
      /\ \A i \in 1..Fresh : buf[Shift(pin, i - 1)] = committed + i
  BY <1>t, <1>1 DEF WriteCommit, WriterSees
<1>3. pin' = wpos /\ Used(wpos, pout) = Used(pin, pout) + Fresh
  BY <1>t, <1>1, <1>2, UsedAdvance DEF WriteCommit
<1>4. pout' = pout /\ buf' = buf /\ committed' = written
  BY DEF WriteCommit
<1>5. TypeOK'
  BY <1>t, WriteTypes DEF Write
<1>6. /\ Content \in Seq(Cells) /\ Len(Content) = Used(pin, pout)
      /\ \A i \in 1..Used(pin, pout) : Content[i] = buf[Shift(pout, i - 1)]
  BY <1>t, ContentIs DEF ContentSeq
<1>7. /\ Content' \in Seq(Cells) /\ Len(Content') = Used(pin, pout) + Fresh
      /\ \A i \in 1..(Used(pin, pout) + Fresh) : Content'[i] = buf[Shift(pout, i - 1)]
  <2>1. /\ Content' \in Seq(Cells) /\ Len(Content') = Used(pin', pout')
        /\ \A i \in 1..Used(pin', pout') : Content'[i] = buf'[Shift(pout', i - 1)]
    <3>1. TypeOK' => ContentSeq'
      BY ContentIs, PTL
    <3> QED
      BY <1>5, <3>1 DEF ContentSeq
  <2> QED
    BY <1>3, <1>4, <2>1
<1>8. f \in Seq(Cells) /\ Len(f) = Fresh
  <2>1. \A i \in 1..Fresh : committed + i \in Cells
    BY <1>t, <1>1 DEF Cells, Elements
  <2>2. f \in [1..Fresh -> Cells]
    BY <2>1
  <2> HIDE DEF f
  <2> QED
    BY <1>1, <2>2, FunctionSeq
<1>9. \A i \in 1..Fresh : f[i] = committed + i
  OBVIOUS
<1> HIDE DEF f
<1>10. /\ Content \o f \in Seq(Cells) /\ Len(Content \o f) = Used(pin, pout) + Fresh
       /\ \A i \in 1..(Used(pin, pout) + Fresh) :
             (Content \o f)[i] = IF i <= Used(pin, pout) THEN Content[i] ELSE f[i - Used(pin, pout)]
  <2>1. /\ Content \o f \in Seq(Cells)
        /\ Len(Content \o f) = Len(Content) + Len(f)
        /\ \A i \in 1..(Len(Content) + Len(f)) :
             (Content \o f)[i] = IF i <= Len(Content) THEN Content[i] ELSE f[i - Len(Content)]
    BY <1>6, <1>8, ConcatProperties
  <2> QED
    BY <1>6, <1>8, <2>1
<1>11. ASSUME NEW i \in 1..(Used(pin, pout) + Fresh) PROVE Content'[i] = (Content \o f)[i]
  <2>0. i \in Nat /\ 1 <= i /\ i <= Used(pin, pout) + Fresh
    BY <1>1
  <2>1. CASE i <= Used(pin, pout)
    <3>1. i \in 1..Used(pin, pout)
      BY <1>1, <2>0, <2>1
    <3> QED
      BY <1>6, <1>7, <1>10, <2>1, <3>1
  <2>2. CASE ~(i <= Used(pin, pout))
    <3> DEFINE k == i - Used(pin, pout)
    <3>1. /\ k \in 1..Fresh /\ k - 1 \in Nat
          /\ Used(pin, pout) + (k - 1) < Size /\ Used(pin, pout) + (k - 1) = i - 1
      BY <1>t, <1>1, <1>2, <2>0, <2>2
    <3>2. pin = Shift(pout, Used(pin, pout))
      BY <1>t, UsedRange
    <3>3. Shift(pin, k - 1) = Shift(pout, i - 1)
      BY <1>t, <1>1, <3>1, <3>2, ShiftShift
    <3> QED
      BY <1>2, <1>7, <1>9, <1>10, <2>2, <3>1, <3>3
  <2> QED
    BY <2>1, <2>2
<1>12. Content' = Content \o f
  BY <1>7, <1>10, <1>11, SeqEqual
<1> QED
  BY <1>t, <1>1, <1>2, <1>4, <1>6, <1>12 DEF f
(* Storing pout hands out what was copied: the front of the content.       *)
LEMMA CommitIsGet ==
    ASSUME FifoInv, Defined, ReadCommit
    PROVE  /\ Len(copied) \in 1..Len(Content)
           /\ copied = SubSeq(Content, 1, Len(copied))
           /\ Content' = SubSeq(Content, Len(copied) + 1, Len(Content))
<1>t. /\ TypeOK /\ Counts /\ ReaderSees /\ Size \in Nat
      /\ pin \in Index /\ pout \in Index /\ pinCache \in Index
      /\ copied \in Seq(Cells) /\ Len(copied) \in Nat
  BY Types, SizeIsPositive DEF FifoInv
<1>u. /\ Used(pin, pout) \in Nat /\ Used(pin, pout) < Size
      /\ Used(pinCache, pout) \in Nat
  BY <1>t, UsedRange
<1>1. /\ rpos = Shift(pout, Len(copied)) /\ 1 <= Len(copied)
      /\ Len(copied) <= Used(pin, pout)
      /\ \A i \in 1..Len(copied) : copied[i] = buf[Shift(pout, i - 1)]
  <2>1. rpc = "copy" /\ rleft = 0
    BY DEF ReadCommit
  <2>2. /\ rpos = Shift(pout, Len(copied))
        /\ 1 <= Len(copied) + rleft /\ Len(copied) + rleft <= Used(pinCache, pout)
        /\ Used(pinCache, pout) <= Used(pin, pout)
        /\ \A i \in 1..Len(copied) : copied[i] = buf[Shift(pout, i - 1)]
    BY <1>t, <2>1 DEF ReaderSees
  <2> QED
    BY <1>t, <1>u, <2>1, <2>2
<1>2. /\ Content \in Seq(Cells) /\ Len(Content) = Used(pin, pout)
      /\ \A i \in 1..Used(pin, pout) : Content[i] = buf[Shift(pout, i - 1)]
  BY <1>t, ContentIs DEF ContentSeq
<1>3. /\ pout' = rpos /\ pin' = pin /\ buf' = buf
      /\ Used(pin, rpos) = Used(pin, pout) - Len(copied)
  BY <1>t, <1>u, <1>1, UsedRetire DEF ReadCommit
<1>4. /\ Content' \in Seq(Cells) /\ Len(Content') = Used(pin, pout) - Len(copied)
      /\ \A i \in 1..(Used(pin, pout) - Len(copied)) :
            Content'[i] = buf[Shift(rpos, i - 1)]
  <2>1. TypeOK'
    BY <1>t, ReadTypes DEF Read
  <2>2. TypeOK' => ContentSeq'
    BY ContentIs, PTL
  <2>3. /\ Content' \in Seq(Cells) /\ Len(Content') = Used(pin', pout')
        /\ \A i \in 1..Used(pin', pout') : Content'[i] = buf'[Shift(pout', i - 1)]
    BY <2>1, <2>2 DEF ContentSeq
  <2> QED
    BY <1>3, <2>3
<1>5. copied = SubSeq(Content, 1, Len(copied))
  <2> DEFINE s == SubSeq(Content, 1, Len(copied))
  <2>1. \A i \in 1..Len(copied) : Content[i] \in Cells
    <3>1. \A i \in 1..Len(copied) : i \in 1..Len(Content)
      BY <1>t, <1>u, <1>1, <1>2
    <3> QED
      BY <1>2, <3>1, ElementOfSeq
  <2>2. /\ s \in Seq(Cells)
        /\ Len(s) = IF 1 <= Len(copied) THEN Len(copied) - 1 + 1 ELSE 0
        /\ \A i \in 1..(Len(copied) - 1 + 1) : s[i] = Content[1 + i - 1]
    BY <1>t, <2>1, SubSeqProperties
  <2> HIDE DEF s
  <2>3. Len(s) = Len(copied)
    BY <1>t, <1>1, <2>2
  <2>4. ASSUME NEW i \in 1..Len(copied) PROVE copied[i] = s[i]
    <3>1. i \in 1..Used(pin, pout) /\ 1 + i - 1 = i /\ i \in 1..(Len(copied) - 1 + 1)
      BY <1>t, <1>u, <1>1
    <3> QED
      BY <1>1, <1>2, <2>2, <3>1
  <2>5. copied = s
    BY <1>t, <2>2, <2>3, <2>4, SeqEqual
  <2> QED
    BY <2>5 DEF s
<1>6. Content' = SubSeq(Content, Len(copied) + 1, Len(Content))
  <2> DEFINE k == Len(copied)
             s == SubSeq(Content, k + 1, Len(Content))
  <2>1. \A i \in (k + 1)..Len(Content) : Content[i] \in Cells
    <3>1. \A i \in (k + 1)..Len(Content) : i \in 1..Len(Content)
      BY <1>t, <1>u, <1>1, <1>2
    <3> QED
      BY <1>2, <3>1, ElementOfSeq
  <2>2. k + 1 \in Int /\ Len(Content) \in Int
    BY <1>t, <1>u, <1>2
  <2>3. /\ s \in Seq(Cells)
        /\ Len(s) = IF k + 1 <= Len(Content) THEN Len(Content) - (k + 1) + 1 ELSE 0
        /\ \A i \in 1..(Len(Content) - (k + 1) + 1) : s[i] = Content[k + 1 + i - 1]
    BY <2>1, <2>2, SubSeqProperties
  <2> HIDE DEF s
  <2>4. Len(s) = Len(Content') /\ Len(Content') = Len(Content) - k
    BY <1>t, <1>u, <1>1, <1>2, <1>4, <2>3
  <2>5. ASSUME NEW i \in 1..Len(Content') PROVE Content'[i] = s[i]
    <3>1. /\ i \in 1..(Len(Content) - (k + 1) + 1) /\ k + 1 + i - 1 = k + i
          /\ k + i \in 1..Used(pin, pout) /\ i - 1 \in Nat
          /\ k + (i - 1) < Size /\ k + (i - 1) = (k + i) - 1
          /\ i \in 1..(Used(pin, pout) - k)
      BY <1>t, <1>u, <1>1, <1>2, <2>4
    <3>2. Shift(rpos, i - 1) = Shift(pout, (k + i) - 1)
      BY <1>t, <1>1, <3>1, ShiftShift
    <3>3. s[i] = Content[k + i]
      BY <2>3, <3>1
    <3> QED
      BY <1>2, <1>4, <3>1, <3>2, <3>3
  <2>6. Content' = s
    BY <1>4, <2>3, <2>4, <2>5, SeqEqual
  <2> QED
    BY <2>6 DEF s
<1> QED
  BY <1>t, <1>u, <1>1, <1>2, <1>5, <1>6

(* Copying into buf changes nothing that is in the FIFO.                   *)
LEMMA CopyKeepsContent ==
    ASSUME FifoInv, Defined, WriteCopy
    PROVE  Content' = Content
<1>t. /\ TypeOK /\ Counts /\ WriterSees /\ Size \in Nat
      /\ buf \in [Index -> Cells] /\ pin \in Index /\ pout \in Index
  BY Types, SizeIsPositive DEF FifoInv, Defined
<1>u. Used(pin, pout) \in Nat /\ Used(pin, pout) < Size
  BY <1>t, UsedRange
<1>1. /\ pin' = pin /\ pout' = pout /\ buf' = [buf EXCEPT ![wpos] = written + 1]
      /\ wpc = "copy" /\ wleft > 0
  BY DEF WriteCopy
<1>2. /\ Content \in Seq(Cells) /\ Len(Content) = Used(pin, pout)
      /\ \A i \in 1..Used(pin, pout) : Content[i] = buf[Shift(pout, i - 1)]
  BY <1>t, ContentIs DEF ContentSeq
<1>3. /\ Content' \in Seq(Cells) /\ Len(Content') = Used(pin, pout)
      /\ \A i \in 1..Used(pin, pout) : Content'[i] = buf'[Shift(pout, i - 1)]
  <2>1. TypeOK'
    BY <1>t, WriteTypes DEF Write
  <2>2. TypeOK' => ContentSeq'
    BY ContentIs, PTL
  <2>3. /\ Content' \in Seq(Cells) /\ Len(Content') = Used(pin', pout')
        /\ \A i \in 1..Used(pin', pout') : Content'[i] = buf'[Shift(pout', i - 1)]
    BY <2>1, <2>2 DEF ContentSeq
  <2> QED
    BY <1>1, <2>3
<1>4. ASSUME NEW i \in 1..Used(pin, pout) PROVE Content'[i] = Content[i]
  <2>1. i - 1 \in Nat /\ i - 1 < Size
    BY <1>t, <1>u
  <2>2. Shift(pout, i - 1) \in Index /\ Shift(pout, i - 1) # wpos
    BY <1>t, <1>1, <2>1, ShiftRange, WriterApart
  <2> QED
    BY <1>t, <1>1, <1>2, <1>3, <2>2
<1> QED
  BY <1>2, <1>3, <1>4, SeqEqual

(* The initial state maps to the initial state.                            *)
LEMMA InitRefines == Init => Fifo!Init
<1> SUFFICES ASSUME Init PROVE Fifo!Init
  OBVIOUS
<1>1. 0 \in Index
  BY SizeIsPositive DEF Index
<1>2. Used(pin, pout) = 0
  BY <1>1, UsedSelf DEF Init
<1>3. FifoInv
  BY InitFifoInv
<1>4. Content \in Seq(Cells) /\ Len(Content) = 0
  BY <1>2, <1>3, ContentIs DEF FifoInv, ContentSeq
<1>5. Content = << >>
  BY <1>4, EmptySeq
<1> QED
  BY <1>5 DEF Init, Fifo!Init

(* Every step maps to a step of the FIFO or to none.                       *)
LEMMA StepRefines == FifoInv /\ FifoInv' /\ [Next]_vars => [Fifo!Next]_(Fifo!vars)
<1> SUFFICES ASSUME FifoInv, FifoInv', [Next]_vars PROVE [Fifo!Next]_(Fifo!vars)
  OBVIOUS
<1> USE DEF sharedVars, writerVars, readerVars, resetVars
<1>c. TypeOK /\ Phases /\ Size \in Nat
  BY SizeIsPositive DEF FifoInv
<1>s. ASSUME UNCHANGED <<buf, pin, pout, resetting, intact, committed, out>>
      PROVE  UNCHANGED Fifo!vars
  BY <1>s DEF Fifo!vars, Content
<1>n. ASSUME ~intact, UNCHANGED <<intact, resetting>> PROVE [Fifo!Next]_(Fifo!vars)
  BY <1>n DEF Fifo!Next, Fifo!Undefined
<1>d. ASSUME intact, Busy PROVE Defined
  BY <1>c, <1>d, NobodyInReset DEF Defined
<1>1. ASSUME NEW n \in Lengths, WriteBegin(n) \/ ReadBegin(n)
      PROVE  UNCHANGED Fifo!vars
  BY <1>1, <1>s DEF WriteBegin, ReadBegin
<1>2. CASE WriteLoad \/ WriteFlag \/ WriteClearFlag \/ WriteReload
  BY <1>2, <1>s DEF WriteLoad, WriteFlag, WriteClearFlag, WriteReload
<1>3. CASE WriteCopy
  <2>1. UNCHANGED <<pin, pout, resetting, intact, committed, out>>
    BY <1>3 DEF WriteCopy
  <2>2. CASE intact
    <3>1. Content' = Content
      BY <1>3, <1>d, <2>2, CopyKeepsContent DEF WriteCopy, Busy
    <3> QED
      BY <2>1, <3>1 DEF Fifo!vars
  <2>3. CASE ~intact
    BY <1>n, <2>1, <2>3
  <2> QED
    BY <2>2, <2>3
<1>4. CASE WriteCommit
  <2>1. UNCHANGED <<resetting, intact, out>>
    BY <1>4 DEF WriteCommit
  <2>2. CASE intact
    <3>1. Defined /\ intact /\ ~resetting
      BY <1>4, <1>d, <2>2 DEF WriteCommit, Busy, Defined
    <3>2. /\ Content' = Content \o [i \in 1..Fresh |-> committed + i]
          /\ committed' = committed + Fresh
          /\ Fresh \in Nat /\ Len(Content) + Fresh <= Size - 1
      BY <1>4, <3>1, CommitIsPut
    <3>3. Content \in Seq(Cells) /\ Len(Content) \in Nat
      BY <1>c, ContentIs, LenProperties DEF ContentSeq
    <3>4. CASE Fresh = 0
      <4>1. Content' = Content /\ committed' = committed
        <5>1. [i \in 1..Fresh |-> committed + i] = << >>
          BY <3>4
        <5>2. Content \o << >> = Content
          BY <3>3, ConcatEmptySeq
        <5>3. committed \in Nat
          BY <1>c, Types
        <5> QED
          BY <3>2, <3>4, <5>1, <5>2, <5>3
      <4> QED
        BY <2>1, <4>1 DEF Fifo!vars
    <3>5. CASE Fresh # 0
      <4>1. Fresh \in 1..((Size - 1) - Len(Content))
        BY <1>c, <3>2, <3>3, <3>5
      <4> QED
        BY <2>1, <3>1, <3>2, <4>1 DEF Fifo!Next, Fifo!Put
    <3> QED
      BY <3>4, <3>5
  <2>3. CASE ~intact
    BY <1>n, <2>1, <2>3
  <2> QED
    BY <2>2, <2>3
<1>5. CASE ReadLoad \/ ReadFlag \/ ReadClearFlag \/ ReadReload \/ ReadCopy
  BY <1>5, <1>s DEF ReadLoad, ReadFlag, ReadClearFlag, ReadReload, ReadCopy
<1>6. CASE ReadCommit
  <2>1. UNCHANGED <<resetting, intact, committed>> /\ out' = copied
    BY <1>6 DEF ReadCommit
  <2>2. CASE intact
    <3>1. Defined /\ intact /\ ~resetting
      BY <1>6, <1>d, <2>2 DEF ReadCommit, Busy, Defined
    <3>2. /\ Len(copied) \in 1..Len(Content)
          /\ copied = SubSeq(Content, 1, Len(copied))
          /\ Content' = SubSeq(Content, Len(copied) + 1, Len(Content))
      BY <1>6, <3>1, CommitIsGet
    <3> QED
      BY <2>1, <3>1, <3>2 DEF Fifo!Next, Fifo!Get
  <2>3. CASE ~intact
    BY <1>n, <2>1, <2>3
  <2> QED
    BY <2>2, <2>3
<1>7. ASSUME NEW z \in Resetters, ResetBegin(z) PROVE Fifo!Next
  <2>1. resetting' /\ UNCHANGED <<committed, out>> /\ intact' = ~Busy
    BY <1>7 DEF ResetBegin
  <2>2. CASE Busy
    BY <2>1, <2>2 DEF Fifo!Next, Fifo!Break
  <2>3. CASE ~Busy
    BY <2>1, <2>3 DEF Fifo!Next, Fifo!Clear
  <2> QED
    BY <2>2, <2>3
<1>8. ASSUME NEW z \in Resetters,
             ResetFlagOut(z) \/ ResetFlagIn(z) \/ ResetPin(z) \/ ResetPout(z)
      PROVE  UNCHANGED Fifo!vars
  <2>1. /\ zpc[z] # "idle"
        /\ UNCHANGED <<resetting, intact, committed, out>>
    BY <1>8 DEF ResetFlagOut, ResetFlagIn, ResetPin, ResetPout
  <2>2. resetting
    BY <1>c, <2>1 DEF TypeOK
  <2> QED
    BY <2>1, <2>2 DEF Fifo!vars
<1>9. ASSUME NEW z \in Resetters, ResetEnd(z) PROVE UNCHANGED Fifo!vars
  <2>1. /\ zpc[z] = "unlock" /\ ~resetting'
        /\ UNCHANGED <<intact, committed, out, pin, pout, buf>>
    BY <1>9 DEF ResetEnd
  <2>2. resetting
    BY <1>c, <2>1 DEF TypeOK
  <2>3. ASSUME intact PROVE Content' = << >>
    <3>1. pin' = 0 /\ pout' = 0
      BY <1>c, <2>1, <2>3 DEF Phases
    <3>2. TypeOK' => ContentSeq'
      BY ContentIs, PTL
    <3>3. Content' \in Seq(Cells) /\ Len(Content') = Used(0, 0)
      BY <3>1, <3>2 DEF FifoInv, ContentSeq
    <3>4. Used(0, 0) = 0
      BY <1>c, UsedSelf, IndexRange, SizeIsPositive
    <3> QED
      BY <3>3, <3>4, EmptySeq
  <2> QED
    BY <2>1, <2>2, <2>3 DEF Fifo!vars
<1>10. CASE UNCHANGED vars
  BY <1>10, <1>s DEF vars
<1> QED
  BY <1>1, <1>2, <1>3, <1>4, <1>5, <1>6, <1>7, <1>8, <1>9, <1>10
  DEF Next, Write, Read, Reset

(* The ring buffer with its cached pointers is a bounded FIFO to a writer  *)
(* and a reader that run side by side, for any size and any blocks; a      *)
(* reset that meets neither empties it, whatever an earlier one broke.     *)
THEOREM FifoRefinement == Spec => ImplementsFifo
<1> QED
  BY InitRefines, FifoInductive, StepRefines, PTL DEF Spec, ImplementsFifo, Fifo!Spec
=============================================================================
