------------------------- MODULE RigControl_proofs -------------------------
(***************************************************************************)
(* Proofs about RigControl.  The strengthening IInv says that only the     *)
(* first task of the queue can be a connection, and that of a new          *)
(* controller (Shape); that a session ends with the radio closed (Ends);   *)
(* that a closed controller transmits nothing (Known); and what the radio, *)
(* the controller and the settings to return to have to do with each other *)
(* while nothing has failed (Restorable).                                  *)
(***************************************************************************)
EXTENDS RigControl, FiniteSetTheorems, SequenceTheorems, TLAPS

\* Tasks that do not connect, nor set the mode if only frequencies are set.
Plain(tasks) ==
    /\ tasks \in Seq(Tasks)
    /\ \A i \in 1..Len(tasks) : /\ tasks[i].name # "connect"
                                /\ tasks[i].name = "mode" => ~FreqOnly

Connecting ==
    /\ queue # <<>> /\ Head(queue) = Task("connect", None) /\ Plain(Tail(queue))
    /\ ctl = NewController /\ phase # "off" /\ phase # "draining"

Shape == Plain(queue) \/ Connecting

Ends ==
    /\ phase = "off" => queue = <<>> /\ ctl = NewController
    /\ phase = "draining" => ~ctl.open

Known ==
    /\ ~doubt => radio.keyed = ctl.pttSet
    /\ ~ctl.open /\ ~doubt => ~ctl.pttSet

AsFound == radio.freq = before.freq /\ radio.mode = before.mode

Restorable ==
    sound =>
      /\ ~ctl.open => AsFound
      /\ ctl.open =>
           /\ ctl.origFreq = before.freq /\ ctl.origMode = before.mode
           /\ IF ctl.freq = None THEN radio.freq = before.freq ELSE radio.freq = ctl.freq
           /\ IF ctl.mode = None \/ FreqOnly THEN radio.mode = before.mode
                                             ELSE radio.mode = ctl.mode

IInv == TypeOK /\ Shape /\ Ends /\ Known /\ Restorable

-----------------------------------------------------------------------------
(* Tasks and queues.                                                        *)

LEMMA TaskIsTask ==
    ASSUME NEW n \in DOMAIN Arguments, NEW a \in Arguments[n]
    PROVE  /\ Task(n, a) \in Tasks
           /\ Task(n, a).name = n /\ Task(n, a).arg = a
BY DEF Tasks, Task

LEMMA TaskArgument ==
    ASSUME NEW t \in Tasks
    PROVE  t.name \in DOMAIN Arguments /\ t.arg \in Arguments[t.name]
<1>1. PICK n \in DOMAIN Arguments : t \in {Task(n, a) : a \in Arguments[n]}
  BY DEF Tasks
<1>2. PICK a \in Arguments[n] : t = Task(n, a)
  BY <1>1
<1> QED
  BY <1>2 DEF Task

LEMMA SettingArgument ==
    ASSUME NEW t \in Tasks
    PROVE  /\ t.name = "freq" => t.arg \in Freqs
           /\ t.name = "mode" => t.arg \in Modes
           /\ t.name = "ptt" => t.arg \in BOOLEAN
           /\ t.name = "connect" => t = Task("connect", None)
<1>1. t.arg \in Arguments[t.name]
  BY TaskArgument
<1>2. PICK n \in DOMAIN Arguments : t \in {Task(n, a) : a \in Arguments[n]}
  BY DEF Tasks
<1>3. PICK a \in Arguments[n] : t = Task(n, a)
  BY <1>2
<1> QED
  BY <1>1, <1>3 DEF Arguments, Task

LEMMA PlainOne ==
    ASSUME NEW n \in DOMAIN Arguments, NEW a \in Arguments[n],
           n # "connect", n = "mode" => ~FreqOnly
    PROVE  Plain(<<Task(n, a)>>)
BY TaskIsTask DEF Plain

LEMMA PlainNone == Plain(<<>>)
BY DEF Plain

LEMMA PlainBoth ==
    ASSUME NEW p, NEW q, Plain(p), Plain(q)
    PROVE  Plain(p \o q)
<1>1. p \o q \in Seq(Tasks) /\ Len(p \o q) = Len(p) + Len(q)
  BY ConcatProperties DEF Plain
<1>2. ASSUME NEW i \in 1..Len(p \o q)
      PROVE  (p \o q)[i].name # "connect" /\ ((p \o q)[i].name = "mode" => ~FreqOnly)
  <2>1. CASE i <= Len(p)
    BY <1>1, <2>1, ConcatProperties DEF Plain
  <2>2. CASE i > Len(p)
    BY <1>1, <2>2, ConcatProperties DEF Plain
  <2> QED
    BY <2>1, <2>2, <1>1, LenProperties DEF Plain
<1> QED
  BY <1>1, <1>2 DEF Plain

LEMMA PlainTail ==
    ASSUME NEW q, Plain(q), q # <<>>
    PROVE  Plain(Tail(q)) /\ Head(q) \in Tasks /\ Head(q).name # "connect"
           /\ (Head(q).name = "mode" => ~FreqOnly)
<1>1. /\ Tail(q) \in Seq(Tasks) /\ Len(Tail(q)) = Len(q) - 1 /\ Len(q) \in Nat /\ Len(q) >= 1
      /\ \A i \in 1..Len(Tail(q)) : Tail(q)[i] = q[i + 1]
      /\ Head(q) = q[1] /\ Head(q) \in Tasks
  BY HeadTailProperties, EmptySeq, LenProperties DEF Plain
<1> QED
  BY <1>1 DEF Plain

LEMMA PlainAsk == ASSUME NEW b PROVE Plain(Ask(b))
BY PlainNone, PlainOne DEF Ask, Arguments

LEMMA PlainSetTo == ASSUME NEW f \in Freqs PROVE Plain(SetTo(f))
<1>1. Plain(<<Task("freq", f)>>)
  BY PlainOne DEF Arguments
<1>2. ~FreqOnly => Plain(<<Task("mode", ModeOf[f])>>)
  BY PlainOne, RigAssumption DEF Arguments
<1> QED
  BY <1>1, <1>2, PlainNone, PlainBoth DEF SetTo

\* Asking for more keeps the shape of the queue; so does carrying out a task.
LEMMA AskedKeeps ==
    ASSUME NEW tasks, Plain(tasks), Asked(tasks), queue \in Seq(Tasks), Shape
    PROVE  /\ queue' \in Seq(Tasks)
           /\ Plain(queue) => Plain(queue')
           /\ ~Plain(queue) => /\ queue' # <<>> /\ Head(queue') = Task("connect", None)
                               /\ Plain(Tail(queue'))
<1>1. queue' = queue \o tasks /\ tasks \in Seq(Tasks)
  BY DEF Asked, Plain
<1>2. queue' \in Seq(Tasks)
  BY <1>1, ConcatProperties
<1>3. Plain(queue) => Plain(queue')
  BY <1>1, PlainBoth
<1>4. ASSUME ~Plain(queue)
      PROVE  queue' # <<>> /\ Head(queue') = Task("connect", None) /\ Plain(Tail(queue'))
  <2>1. queue # <<>> /\ Head(queue) = Task("connect", None) /\ Plain(Tail(queue))
    BY <1>4 DEF Shape, Connecting
  <2>2. queue' # <<>> /\ Head(queue') = Head(queue) /\ Tail(queue') = Tail(queue) \o tasks
    BY <1>1, <2>1, SMT
  <2> QED
    BY <2>1, <2>2, PlainBoth
<1> QED
  BY <1>2, <1>3, <1>4

LEMMA ThenKeeps ==
    ASSUME NEW tasks, Plain(tasks), Then(tasks), queue \in Seq(Tasks), queue # <<>>, Shape
    PROVE  /\ Plain(queue') /\ queue' \in Seq(Tasks)
           /\ Head(queue) \in Tasks
           /\ Head(queue).name = "connect" => Connecting
           /\ Head(queue).name = "mode" => ~FreqOnly
<1>1. Plain(Tail(queue)) /\ Head(queue) \in Tasks
  BY PlainTail, HeadTailProperties DEF Shape, Connecting
<1>2. Plain(queue')
  BY <1>1, PlainBoth DEF Then
<1>3. Head(queue).name = "connect" => Connecting
  BY PlainTail DEF Shape
<1>4. Head(queue).name = "mode" => ~FreqOnly
  BY PlainTail DEF Shape, Connecting, Task
<1> QED
  BY <1>1, <1>2, <1>3, <1>4 DEF Plain

LEMMA FailuresCount ==
    ASSUME NEW o \in Seq(Outcomes)
    PROVE  /\ Failures(o) \in Nat
           /\ Failures(o) = 0 => \A i \in DOMAIN o : o[i] = "done"
<1> DEFINE S == {i \in DOMAIN o : o[i] # "done"}
<1>1. IsFiniteSet(DOMAIN o)
  BY LenProperties, FS_Interval
<1>2. IsFiniteSet(S)
  BY <1>1, FS_Subset
<1>3. Cardinality(S) \in Nat /\ (Cardinality(S) = 0 => S = {})
  BY <1>2, FS_CardinalityType, FS_EmptySet
<1> QED
  BY <1>3 DEF Failures

LEMMA SpendCounts ==
    ASSUME NEW o \in Seq(Outcomes), NEW ok \in BOOLEAN, Spend(o, ok), TypeOK
    PROVE  /\ left' \in [faults : 0..MaxFaults, changes : 0..MaxChanges]
           /\ sound' \in BOOLEAN
           /\ sound' => ok /\ \A i \in DOMAIN o : o[i] = "done"
<1> DEFINE n == Failures(o)
<1>1. n \in Nat /\ (n = 0 => \A i \in DOMAIN o : o[i] = "done")
  BY FailuresCount
<1>2. n <= left.faults /\ left' = [left EXCEPT !.faults = @ - n]
  BY DEF Spend
<1>3. sound' = (ok /\ n = 0)
  BY DEF Spend
<1>4. left \in [faults : 0..MaxFaults, changes : 0..MaxChanges]
  BY DEF TypeOK
<1> HIDE DEF n
<1>5. left' \in [faults : 0..MaxFaults, changes : 0..MaxChanges]
  BY <1>1, <1>2, <1>4, RigAssumption
<1> QED
  BY <1>1, <1>3, <1>5

LEMMA NewControllerIs ==
    /\ NewController \in [open : BOOLEAN, pttSet : BOOLEAN, freq : Freqs \cup {None},
                          mode : Modes \cup {None}, origFreq : Freqs \cup {None},
                          origMode : Modes \cup {None}]
    /\ ~NewController.open /\ ~NewController.pttSet
    /\ NewController.freq = None /\ NewController.mode = None
    /\ NewController.origFreq = None /\ NewController.origMode = None
BY DEF NewController

LEMMA InitInv == Init => IInv
<1> SUFFICES ASSUME Init PROVE IInv
  OBVIOUS
<1>1. TypeOK
  <2>1. PICK f \in Freqs, m \in Modes : /\ radio = [keyed |-> FALSE, freq |-> f, mode |-> m]
                                        /\ before = [freq |-> f, mode |-> m]
    BY DEF Init
  <2>2. /\ radio \in [keyed : BOOLEAN, freq : Freqs, mode : Modes]
        /\ before \in [freq : Freqs, mode : Modes]
    BY <2>1
  <2>3. left = [faults |-> MaxFaults, changes |-> MaxChanges]
    BY DEF Init
  <2>4. left \in [faults : 0..MaxFaults, changes : 0..MaxChanges]
    BY <2>3, RigAssumption
  <2>5. ctl = NewController /\ queue = <<>> /\ calls = <<>>
    BY DEF Init
  <2>6. /\ phase = "off" /\ box \in Freqs /\ focus = FALSE /\ first = FALSE
        /\ doubt = FALSE /\ sound = FALSE
    BY DEF Init
  <2>7. queue \in Seq(Tasks) /\ calls \in Seq(Freqs)
    BY <2>5
  <2>8. ctl \in [open : BOOLEAN, pttSet : BOOLEAN, freq : Freqs \cup {None},
                 mode : Modes \cup {None}, origFreq : Freqs \cup {None},
                 origMode : Modes \cup {None}]
    BY <2>5, NewControllerIs
  <2> QED
    BY <2>2, <2>4, <2>6, <2>7, <2>8 DEF TypeOK
<1>2. Shape
  BY PlainNone DEF Init, Shape
<1>3. Ends /\ Known /\ Restorable
  <2>1. ctl = NewController /\ queue = <<>> /\ phase = "off" /\ ~sound
    BY DEF Init
  <2>2. radio.keyed = FALSE
    BY DEF Init
  <2>3. ctl.pttSet = FALSE
    BY <2>1 DEF NewController
  <2> QED
    BY <2>1, <2>2, <2>3 DEF Ends, Known, Restorable
<1> QED
  BY <1>1, <1>2, <1>3 DEF IInv

-----------------------------------------------------------------------------
(* The tasks.                                                               *)

LEMMA NoRadioKeeps ==
    ASSUME TypeOK, Shape, queue # <<>>, NoRadio
    PROVE  Plain(queue') /\ queue' \in Seq(Tasks)
BY ThenKeeps, PlainNone DEF NoRadio, TypeOK

LEMMA RunsIs ==
    ASSUME TypeOK, Shape, Ends, NEW name, Runs(name)
    PROVE  /\ queue # <<>> /\ phase # "off"
           /\ Head(queue) \in Tasks /\ Head(queue).name = name
           /\ name = "connect" => Connecting
           /\ name = "mode" => ~FreqOnly
           /\ name = "freq" => Head(queue).arg \in Freqs
           /\ name = "mode" => Head(queue).arg \in Modes
           /\ name = "ptt" => Head(queue).arg \in BOOLEAN
<1>1. queue # <<>> /\ Head(queue).name = name /\ phase # "off"
  BY DEF Runs, Ends
<1>2. Head(queue) \in Tasks
  BY <1>1, HeadTailProperties DEF TypeOK
<1>3. name = "connect" => Connecting
  BY <1>1, PlainTail DEF Shape
<1>4. name = "mode" => ~FreqOnly
  BY <1>1, PlainTail DEF Shape, Connecting, Task
<1> QED
  BY <1>1, <1>2, <1>3, <1>4, SettingArgument

LEMMA ConnectInv == IInv /\ Connect => IInv'
<1> SUFFICES ASSUME IInv, Connect PROVE IInv'
  OBVIOUS
<1> USE DEF IInv
<1>1. Connecting /\ Runs("connect") /\ ctl = NewController /\ ~ctl.open
      /\ queue # <<>> /\ phase # "off" /\ phase # "draining"
  BY RunsIs, NewControllerIs DEF Connect, Connecting
<1>2. CASE /\ Spend(<<"refused">>, FALSE) /\ Then(<<>>)
           /\ UNCHANGED <<ctl, first, calls, before>>
  <2>1. /\ left' \in [faults : 0..MaxFaults, changes : 0..MaxChanges] /\ sound' = FALSE
    <3>1. <<"refused">> \in Seq(Outcomes)
      BY DEF Outcomes
    <3>2. Spend(<<"refused">>, FALSE)
      BY <1>2
    <3> QED
      BY <3>1, <3>2, SpendCounts
  <2>2. Plain(queue') /\ queue' \in Seq(Tasks)
    BY <1>1, <1>2, ThenKeeps, PlainNone DEF TypeOK
  <2>3. UNCHANGED <<radio, ctl, phase, box, focus, doubt, first, calls, before>>
    BY <1>2 DEF Connect, session
  <2> QED
    BY <1>1, <2>1, <2>2, <2>3
    DEF TypeOK, Shape, Ends, Known, Restorable
<1>3. ASSUME NEW answer \in {"done", "refused"},
             Spend(<<answer>>, TRUE), Then(SetTo(box)),
             ctl' = IF answer = "done" THEN Reported([ctl EXCEPT !.open = TRUE])
                                       ELSE [ctl EXCEPT !.open = TRUE],
             calls' = IF answer = "done" THEN Append(calls, radio.freq) ELSE calls,
             first' = TRUE,
             before' = [freq |-> radio.freq, mode |-> radio.mode]
      PROVE  IInv'
  <2>0. box \in Freqs /\ radio \in [keyed : BOOLEAN, freq : Freqs, mode : Modes]
    BY DEF TypeOK
  <2>1. /\ left' \in [faults : 0..MaxFaults, changes : 0..MaxChanges]
        /\ sound' \in BOOLEAN /\ (sound' => answer = "done")
    <3>1. <<answer>> \in Seq(Outcomes) /\ 1 \in DOMAIN <<answer>> /\ <<answer>>[1] = answer
      BY DEF Outcomes
    <3> QED
      BY <1>3, <3>1, SpendCounts
  <2>2. Plain(queue') /\ queue' \in Seq(Tasks)
    BY <1>1, <1>3, <2>0, ThenKeeps, PlainSetTo DEF TypeOK
  <2>3. UNCHANGED <<radio, phase, box, focus, doubt>>
    BY DEF Connect, session
  <2>4. calls' \in Seq(Freqs)
    BY <1>3, <2>0, AppendProperties DEF TypeOK
  <2>5. ctl' = IF answer = "done"
               THEN [NewController EXCEPT !.open = TRUE, !.origFreq = radio.freq,
                                          !.origMode = radio.mode]
               ELSE [NewController EXCEPT !.open = TRUE]
    BY <1>1, <1>3 DEF Reported, NewController
  <2>6. /\ ctl'.open /\ ctl'.freq = None /\ ctl'.mode = None /\ ~ctl'.pttSet
        /\ answer = "done" => ctl'.origFreq = radio.freq /\ ctl'.origMode = radio.mode
        /\ ctl' \in [open : BOOLEAN, pttSet : BOOLEAN, freq : Freqs \cup {None},
                     mode : Modes \cup {None}, origFreq : Freqs \cup {None},
                     origMode : Modes \cup {None}]
    BY <2>0, <2>5 DEF NewController
  <2>7. before' \in [freq : Freqs, mode : Modes] /\ AsFound'
    BY <1>3, <2>0, <2>3 DEF AsFound
  <2>8. TypeOK'
    BY <1>3, <2>1, <2>2, <2>3, <2>4, <2>6, <2>7 DEF TypeOK
  <2>9. Known'
    BY <1>1, <2>3, <2>6, NewControllerIs DEF Known
  <2>10. Restorable'
    BY <2>1, <2>6, <2>7, <1>3, <2>3 DEF Restorable, AsFound
  <2> QED
    BY <1>1, <2>2, <2>3, <2>8, <2>9, <2>10 DEF Shape, Ends
<1> QED
  BY <1>2, <1>3 DEF Connect

LEMMA PttInv == IInv /\ Ptt => IInv'
<1> SUFFICES ASSUME IInv, Ptt PROVE IInv'
  OBVIOUS
<1> USE DEF IInv
<1> DEFINE on == Head(queue).arg
<1>1. on \in BOOLEAN /\ queue # <<>> /\ phase # "off"
  BY RunsIs DEF Ptt
<1>2. UNCHANGED <<phase, box, focus, first, before>>
  BY DEF Ptt, session
<1>3. CASE ~ctl.open
  <2>1. NoRadio
    BY <1>3 DEF Ptt
  <2> QED
    BY <1>1, <1>2, <2>1, NoRadioKeeps
    DEF NoRadio, TypeOK, Shape, Ends, Known, Restorable, AsFound
<1>4. ASSUME ctl.open, NEW o \in Outcomes, Spend(<<o>>, sound),
             radio' = [radio EXCEPT !.keyed = IF Took(o) THEN on ELSE @],
             ctl' = [ctl EXCEPT !.pttSet = IF o = "done" THEN on ELSE @],
             doubt' = (o # "done"),
             Then(Ask(o = "done" /\ ctl.pttSet /\ ~on)), calls' = calls
      PROVE  IInv'
  <2>1. /\ left' \in [faults : 0..MaxFaults, changes : 0..MaxChanges]
        /\ sound' \in BOOLEAN /\ (sound' => sound)
    <3>1. <<o>> \in Seq(Outcomes) /\ sound \in BOOLEAN
      BY DEF TypeOK
    <3> QED
      BY <1>4, <3>1, SpendCounts
  <2>2. Plain(queue') /\ queue' \in Seq(Tasks)
    BY <1>1, <1>4, ThenKeeps, PlainAsk DEF TypeOK
  <2>3. /\ radio' \in [keyed : BOOLEAN, freq : Freqs, mode : Modes]
        /\ radio'.freq = radio.freq /\ radio'.mode = radio.mode
        /\ o = "done" => radio'.keyed = on
    BY <1>1, <1>4 DEF TypeOK, Took
  <2>4. /\ ctl' \in [open : BOOLEAN, pttSet : BOOLEAN, freq : Freqs \cup {None},
                     mode : Modes \cup {None}, origFreq : Freqs \cup {None},
                     origMode : Modes \cup {None}]
        /\ ctl'.open /\ (o = "done" => ctl'.pttSet = on)
        /\ ctl'.freq = ctl.freq /\ ctl'.mode = ctl.mode
        /\ ctl'.origFreq = ctl.origFreq /\ ctl'.origMode = ctl.origMode
    BY <1>1, <1>4 DEF TypeOK
  <2>5. doubt' \in BOOLEAN
    BY <1>4
  <2>6. TypeOK'
    BY <1>2, <1>4, <2>1, <2>2, <2>3, <2>4, <2>5 DEF TypeOK
  <2>7. Known'
    BY <1>4, <2>3, <2>4 DEF Known
  <2>8. Restorable'
    BY <1>2, <1>4, <2>1, <2>3, <2>4 DEF Restorable
  <2> QED
    BY <1>1, <1>2, <1>4, <2>2, <2>6, <2>7, <2>8 DEF Shape, Ends
<1> QED
  BY <1>3, <1>4 DEF Ptt

LEMMA SetInv == ASSUME NEW what \in {"freq", "mode"}, IInv, Set(what) PROVE IInv'
<1> USE DEF IInv
<1> DEFINE v == Head(queue).arg
<1>1. queue # <<>> /\ phase # "off" /\ (what = "mode" => ~FreqOnly)
  BY RunsIs DEF Set
<1>2. v \in (IF what = "freq" THEN Freqs ELSE Modes) /\ v # None
  BY RunsIs, RigAssumption DEF Set
<1>3. UNCHANGED <<phase, box, focus, first, before>>
  BY DEF Set, session
<1>4. CASE NoRadio
  BY <1>1, <1>3, <1>4, NoRadioKeeps
  DEF NoRadio, TypeOK, Shape, Ends, Known, Restorable, AsFound
<1>5. ASSUME ctl.open,
             NEW unkey \in Outcomes, NEW set \in Outcomes, NEW rekey \in Outcomes,
             ~ctl.pttSet => unkey = "done" /\ rekey = "done",
             unkey # "done" => set = "done" /\ rekey = "done",
             Spend(<<unkey, set, rekey>>, sound),
             radio' = [radio EXCEPT
                ![what] = IF unkey = "done" /\ Took(set) THEN v ELSE @,
                !.keyed = IF ~ctl.pttSet THEN @
                          ELSE IF unkey = "done" THEN Took(rekey) ELSE @ /\ ~Took(unkey)],
             ctl' = [ctl EXCEPT ![what] = IF unkey = "done" /\ set = "done" THEN v ELSE @],
             doubt' = IF ctl.pttSet THEN unkey # "done" \/ rekey # "done" ELSE doubt,
             Then(Ask(unkey = "done" /\ set = "done")), calls' = calls
      PROVE  IInv'
  <2>1. /\ left' \in [faults : 0..MaxFaults, changes : 0..MaxChanges]
        /\ sound' \in BOOLEAN
        /\ sound' => sound /\ unkey = "done" /\ set = "done" /\ rekey = "done"
    <3> DEFINE o == <<unkey, set, rekey>>
    <3>1. o \in Seq(Outcomes)
      OBVIOUS
    <3>3. Spend(o, sound)
      BY <1>5
    <3>4. sound \in BOOLEAN
      BY DEF TypeOK
    <3>2. /\ 1 \in DOMAIN o /\ 2 \in DOMAIN o /\ 3 \in DOMAIN o
          /\ o[1] = unkey /\ o[2] = set /\ o[3] = rekey
      OBVIOUS
    <3> HIDE DEF o
    <3> QED
      BY <3>1, <3>2, <3>3, <3>4, SpendCounts
  <2>2. Plain(queue') /\ queue' \in Seq(Tasks)
    BY <1>1, <1>5, ThenKeeps, PlainAsk DEF TypeOK
  <2>3. /\ radio \in [keyed : BOOLEAN, freq : Freqs, mode : Modes]
        /\ ctl \in [open : BOOLEAN, pttSet : BOOLEAN, freq : Freqs \cup {None},
                     mode : Modes \cup {None}, origFreq : Freqs \cup {None},
                     origMode : Modes \cup {None}]
        /\ doubt \in BOOLEAN
    BY DEF TypeOK
  <2>4. /\ radio' \in [keyed : BOOLEAN, freq : Freqs, mode : Modes]
        /\ radio'.keyed = IF ~ctl.pttSet THEN radio.keyed
             ELSE IF unkey = "done" THEN Took(rekey) ELSE radio.keyed /\ ~Took(unkey)
        /\ unkey = "done" /\ set = "done" => radio'[what] = v
        /\ what = "freq" => radio'.mode = radio.mode
        /\ what = "mode" => radio'.freq = radio.freq
    BY <1>2, <1>5, <2>3 DEF Took
  <2>5. /\ ctl' \in [open : BOOLEAN, pttSet : BOOLEAN, freq : Freqs \cup {None},
                     mode : Modes \cup {None}, origFreq : Freqs \cup {None},
                     origMode : Modes \cup {None}]
        /\ ctl'.open /\ ctl'.pttSet = ctl.pttSet
        /\ ctl'.origFreq = ctl.origFreq /\ ctl'.origMode = ctl.origMode
        /\ unkey = "done" /\ set = "done" => ctl'[what] = v
        /\ what = "freq" => ctl'.mode = ctl.mode
        /\ what = "mode" => ctl'.freq = ctl.freq
    BY <1>2, <1>5, <2>3
  <2>6. doubt' \in BOOLEAN
    BY <1>5, <2>3
  <2>7. TypeOK'
    BY <1>3, <1>5, <2>1, <2>2, <2>4, <2>5, <2>6 DEF TypeOK
  <2>8. Known'
    BY <1>5, <2>3, <2>4, <2>5 DEF Known, Took
  <2>9. Restorable'
    BY <1>1, <1>2, <1>3, <1>5, <2>1, <2>4, <2>5 DEF Restorable
  <2> QED
    BY <1>1, <1>3, <1>5, <2>2, <2>5, <2>7, <2>8, <2>9 DEF Shape, Ends
<1> QED
  <2>1. CASE ~ctl.open \/ ctl[what] = v
    BY <1>4, <2>1 DEF Set
  <2>2. CASE ctl.open /\ ctl[what] # v
    BY <1>5, <2>2 DEF Set
  <2> QED
    BY <2>1, <2>2

LEMMA RequestInv == IInv /\ Request => IInv'
<1> SUFFICES ASSUME IInv, Request PROVE IInv'
  OBVIOUS
<1> USE DEF IInv
<1>1. queue # <<>> /\ phase # "off"
  BY RunsIs DEF Request
<1>2. UNCHANGED <<phase, box, focus, first, before>>
  BY DEF Request, session
<1>3. CASE NoRadio
  BY <1>1, <1>2, <1>3, NoRadioKeeps
  DEF NoRadio, TypeOK, Shape, Ends, Known, Restorable, AsFound
<1>4. ASSUME ctl.open, NEW answer \in {"done", "refused"}, Spend(<<answer>>, sound),
             ctl' = IF answer = "done" THEN Reported(ctl) ELSE ctl,
             calls' = IF answer = "done" THEN Append(calls, radio.freq) ELSE calls,
             Then(<<>>), UNCHANGED <<radio, doubt>>
      PROVE  IInv'
  <2>1. /\ left' \in [faults : 0..MaxFaults, changes : 0..MaxChanges]
        /\ sound' \in BOOLEAN /\ (sound' => sound)
    <3>1. <<answer>> \in Seq(Outcomes) /\ sound \in BOOLEAN
      BY DEF TypeOK, Outcomes
    <3> QED
      BY <1>4, <3>1, SpendCounts
  <2>2. Plain(queue') /\ queue' \in Seq(Tasks)
    BY <1>1, <1>4, ThenKeeps, PlainNone DEF TypeOK
  <2>3. /\ radio \in [keyed : BOOLEAN, freq : Freqs, mode : Modes]
        /\ before \in [freq : Freqs, mode : Modes]
        /\ ctl \in [open : BOOLEAN, pttSet : BOOLEAN, freq : Freqs \cup {None},
                     mode : Modes \cup {None}, origFreq : Freqs \cup {None},
                     origMode : Modes \cup {None}]
    BY DEF TypeOK
  <2>4. calls' \in Seq(Freqs)
    BY <1>4, <2>3, AppendProperties DEF TypeOK
  <2>5. /\ ctl' \in [open : BOOLEAN, pttSet : BOOLEAN, freq : Freqs \cup {None},
                     mode : Modes \cup {None}, origFreq : Freqs \cup {None},
                     origMode : Modes \cup {None}]
        /\ ctl'.open /\ ctl'.pttSet = ctl.pttSet
        /\ ctl'.freq = ctl.freq /\ ctl'.mode = ctl.mode
        /\ ctl.origFreq # None => ctl' = ctl
    BY <1>4, <2>3 DEF Reported
  <2>6. TypeOK'
    BY <1>2, <1>4, <2>1, <2>2, <2>4, <2>5 DEF TypeOK
  <2>7. Restorable'
    <3>1. before.freq # None
      BY <2>3, RigAssumption
    <3> QED
      BY <1>2, <1>4, <2>1, <2>5, <3>1 DEF Restorable
  <2> QED
    BY <1>1, <1>2, <1>4, <2>2, <2>5, <2>6, <2>7 DEF Shape, Ends, Known
<1> QED
  BY <1>3, <1>4 DEF Request

\* What both ways to disconnect do: Off can rely on it.
LEMMA Disconnects ==
    ASSUME IInv, queue # <<>>, ctl.open, DisconnectOpen,
           UNCHANGED <<box, focus, first, before>>,
           phase' \in {phase, "draining"}, phase # "off"
    PROVE  IInv'
<1> USE DEF IInv
<1>1. PICK unkey \in Outcomes, freq \in Outcomes, mode \in Outcomes :
       /\ ~ctl.pttSet => unkey = "done"
       /\ ~SetsBack("freq") => freq = "done"
       /\ ~SetsBack("mode") => mode = "done"
       /\ Spend(<<unkey, freq, mode>>, sound)
       /\ radio' = [keyed |-> radio.keyed /\ ~(ctl.pttSet /\ Took(unkey)),
             freq |-> IF SetsBack("freq") /\ Took(freq) THEN ctl.origFreq ELSE radio.freq,
             mode |-> IF SetsBack("mode") /\ Took(mode) THEN ctl.origMode ELSE radio.mode]
       /\ ctl' = [NewController EXCEPT
             !.pttSet = ctl.pttSet /\ unkey # "done",
             !.freq = IF SetsBack("freq") /\ freq = "done" THEN ctl.origFreq ELSE ctl.freq,
             !.mode = IF SetsBack("mode") /\ mode = "done" THEN ctl.origMode ELSE ctl.mode]
       /\ doubt' = IF ctl.pttSet THEN unkey # "done" ELSE doubt
       /\ Then(Ask(ctl.pttSet /\ unkey = "done")
               \o Ask(SetsBack("freq") /\ freq = "done")
               \o Ask(SetsBack("mode") /\ mode = "done"))
       /\ UNCHANGED calls
  BY DEF DisconnectOpen
<1>2. /\ left' \in [faults : 0..MaxFaults, changes : 0..MaxChanges]
      /\ sound' \in BOOLEAN
      /\ sound' => sound /\ unkey = "done" /\ freq = "done" /\ mode = "done"
  <2> DEFINE o == <<unkey, freq, mode>>
  <2>1. o \in Seq(Outcomes) /\ sound \in BOOLEAN /\ Spend(o, sound)
    BY <1>1 DEF TypeOK
  <2>2. /\ 1 \in DOMAIN o /\ 2 \in DOMAIN o /\ 3 \in DOMAIN o
        /\ o[1] = unkey /\ o[2] = freq /\ o[3] = mode
    OBVIOUS
  <2> HIDE DEF o
  <2> QED
    BY <2>1, <2>2, SpendCounts
<1>3. Plain(queue') /\ queue' \in Seq(Tasks)
  <2> DEFINE a == Ask(ctl.pttSet /\ unkey = "done")
             b == Ask(SetsBack("freq") /\ freq = "done")
             c == Ask(SetsBack("mode") /\ mode = "done")
  <2>1. Plain(a) /\ Plain(b) /\ Plain(c) /\ Then(a \o b \o c)
    BY <1>1, PlainAsk
  <2> HIDE DEF a, b, c
  <2>2. Plain(a \o b \o c)
    BY <2>1, PlainBoth
  <2> QED
    BY <2>1, <2>2, ThenKeeps DEF TypeOK
<1>4. /\ radio \in [keyed : BOOLEAN, freq : Freqs, mode : Modes]
      /\ before \in [freq : Freqs, mode : Modes]
      /\ ctl \in [open : BOOLEAN, pttSet : BOOLEAN, freq : Freqs \cup {None},
                   mode : Modes \cup {None}, origFreq : Freqs \cup {None},
                   origMode : Modes \cup {None}]
      /\ doubt \in BOOLEAN /\ FreqOnly \in BOOLEAN
  BY RigAssumption DEF TypeOK
<1>5. /\ SetsBack("freq") <=> ctl.origFreq # None /\ ctl.freq # ctl.origFreq
      /\ SetsBack("mode") <=> ~FreqOnly /\ ctl.origMode # None /\ ctl.mode # ctl.origMode
  BY DEF SetsBack
<1>6. radio' \in [keyed : BOOLEAN, freq : Freqs, mode : Modes]
  BY <1>1, <1>4, <1>5
<1>7. /\ ctl' \in [open : BOOLEAN, pttSet : BOOLEAN, freq : Freqs \cup {None},
                   mode : Modes \cup {None}, origFreq : Freqs \cup {None},
                   origMode : Modes \cup {None}]
      /\ ~ctl'.open /\ (ctl'.pttSet <=> ctl.pttSet /\ unkey # "done")
  BY <1>1, <1>4, NewControllerIs DEF NewController
<1>8. TypeOK'
  <2>1. doubt' \in BOOLEAN
    BY <1>1, <1>4
  <2>2. phase' \in {"off", "on", "stopping", "closing", "destroying", "draining"}
    BY DEF TypeOK
  <2> QED
    BY <1>1, <1>2, <1>3, <1>6, <1>7, <2>1, <2>2 DEF TypeOK
<1>9. Known'
  <2>1. radio'.keyed <=> radio.keyed /\ ~(ctl.pttSet /\ Took(unkey))
    BY <1>1
  <2> QED
    BY <1>1, <1>4, <1>6, <1>7, <2>1 DEF Known, Took
<1>10. Restorable'
  <2>1. SUFFICES ASSUME sound' PROVE AsFound'
    BY <1>7 DEF Restorable
  <2>2. /\ radio'.freq = IF SetsBack("freq") THEN ctl.origFreq ELSE radio.freq
        /\ radio'.mode = IF SetsBack("mode") THEN ctl.origMode ELSE radio.mode
    BY <1>1, <1>2, <2>1 DEF Took
  <2>3. before.freq # None /\ before.mode # None
    BY <1>4, RigAssumption
  <2> QED
    BY <1>2, <1>4, <1>5, <2>1, <2>2, <2>3 DEF Restorable, AsFound
<1> QED
  BY <1>3, <1>7, <1>8, <1>9, <1>10 DEF Shape, Ends

LEMMA DisconnectInv == IInv /\ (Disconnect \/ Last) => IInv'
<1> SUFFICES ASSUME IInv, Disconnect \/ Last PROVE IInv'
  OBVIOUS
<1>1. queue # <<>> /\ phase # "off"
  BY RunsIs DEF Disconnect, Last, IInv
<1>2. UNCHANGED <<box, focus, first, before>> /\ phase' \in {phase, "draining"}
  BY DEF Disconnect, Last, session
<1>3. CASE ctl.open
  BY <1>1, <1>2, <1>3, Disconnects DEF Disconnect, Last
<1>4. CASE ~ctl.open
  <2>1. NoRadio
    BY <1>4 DEF Disconnect, Last
  <2> QED
    BY <1>1, <1>2, <1>4, <2>1, NoRadioKeeps
    DEF IInv, NoRadio, TypeOK, Shape, Ends, Known, Restorable, AsFound
<1> QED
  BY <1>3, <1>4

-----------------------------------------------------------------------------
(* The UI thread, On and Off, and the operator at the radio.                *)

\* A step that at most asks for more, and changes nothing of the radio, the
\* controller or the session.
LEMMA AskingKeeps ==
    ASSUME IInv, NEW tasks, Plain(tasks), Asked(tasks), phase # "off" \/ tasks = <<>>,
           UNCHANGED <<radio, ctl, phase, doubt, before, sound>>,
           box' \in Freqs, focus' \in BOOLEAN, first' \in BOOLEAN, calls' \in Seq(Freqs),
           left' \in [faults : 0..MaxFaults, changes : 0..MaxChanges]
    PROVE  IInv'
<1> USE DEF IInv
<1>1. queue \in Seq(Tasks)
  BY DEF TypeOK
<1>2. /\ queue' \in Seq(Tasks)
      /\ Plain(queue) => Plain(queue')
      /\ ~Plain(queue) => /\ queue' # <<>> /\ Head(queue') = Task("connect", None)
                          /\ Plain(Tail(queue'))
  BY <1>1, AskedKeeps
<1>3. TypeOK'
  BY <1>2 DEF TypeOK
<1>4. Shape'
  BY <1>2 DEF Shape, Connecting
<1>5. Ends'
  <2>1. phase = "off" => queue' = queue
    BY <1>1 DEF Asked, Ends
  <2> QED
    BY <2>1 DEF Ends
<1>6. Known' /\ Restorable'
  BY DEF Known, Restorable, AsFound
<1> QED
  BY <1>3, <1>4, <1>5, <1>6

LEMMA NothingAsked ==
    ASSUME queue \in Seq(Tasks), UNCHANGED queue
    PROVE  Plain(<<>>) /\ Asked(<<>>)
BY PlainNone DEF Asked

LEMMA BoxAsks ==
    ASSUME IInv, NEW f \in Freqs, ChangeBox(f)
    PROVE  /\ box' \in Freqs
           /\ \E tasks : Plain(tasks) /\ Asked(tasks) /\ (phase # "off" \/ tasks = <<>>)
<1>1. CASE f # box /\ Held
  BY <1>1, PlainSetTo DEF ChangeBox, Held
<1>2. CASE ~(f # box /\ Held)
  BY <1>2, PlainNone DEF ChangeBox
<1> QED
  BY <1>1, <1>2 DEF ChangeBox

LEMMA ChangeSpent ==
    ASSUME left \in [faults : 0..MaxFaults, changes : 0..MaxChanges], left.changes > 0,
           left' = [left EXCEPT !.changes = @ - 1]
    PROVE  left' \in [faults : 0..MaxFaults, changes : 0..MaxChanges]
<1>1. left.changes - 1 \in 0..MaxChanges
  BY RigAssumption
<1> QED
  BY <1>1

LEMMA UserInv ==
    ASSUME IInv, ShowReport \/ SetFocus \/ KillFocus \/ \E f \in Freqs : Enter(f)
    PROVE  IInv'
<1>1. /\ queue \in Seq(Tasks) /\ box \in Freqs /\ focus \in BOOLEAN /\ first \in BOOLEAN
      /\ calls \in Seq(Freqs)
      /\ left \in [faults : 0..MaxFaults, changes : 0..MaxChanges]
  BY DEF IInv, TypeOK
<1>2. CASE ShowReport
  <2>1. /\ UNCHANGED <<radio, ctl, phase, doubt, before, sound, focus, left>>
        /\ first' \in BOOLEAN /\ calls' \in Seq(Freqs) /\ Head(calls) \in Freqs
    BY <1>1, <1>2, HeadTailProperties DEF ShowReport, rigSide
  <2>2. CASE first \/ focus \/ Manual
    BY <1>1, <1>2, <2>1, <2>2, NothingAsked, AskingKeeps DEF ShowReport
  <2>3. CASE ~(first \/ focus \/ Manual)
    <3>1. ChangeBox(Head(calls))
      BY <1>2, <2>3 DEF ShowReport
    <3> QED
      BY <1>1, <2>1, <3>1, BoxAsks, AskingKeeps
  <2> QED
    BY <2>2, <2>3
<1>3. CASE SetFocus \/ KillFocus
  <2>1. /\ UNCHANGED <<radio, ctl, phase, doubt, before, sound, left, queue, box, first, calls>>
        /\ focus' \in BOOLEAN
    BY <1>3 DEF SetFocus, KillFocus, rigSide
  <2> QED
    BY <1>1, <2>1, NothingAsked, AskingKeeps
<1>4. ASSUME NEW f \in Freqs, Enter(f) PROVE IInv'
  <2>1. /\ UNCHANGED <<radio, ctl, phase, doubt, before, sound, first, calls>>
        /\ focus' \in BOOLEAN /\ ChangeBox(f)
    BY <1>4 DEF Enter
  <2>2. left' \in [faults : 0..MaxFaults, changes : 0..MaxChanges]
    BY <1>1, <1>4, ChangeSpent DEF Enter
  <2> QED
    BY <1>1, <2>1, <2>2, BoxAsks, AskingKeeps
<1> QED
  BY <1>2, <1>3, <1>4

LEMMA AskingInv == ASSUME IInv, Poll \/ \E on \in BOOLEAN : AskPtt(on) PROVE IInv'
<1>1. /\ queue \in Seq(Tasks) /\ box \in Freqs /\ focus \in BOOLEAN /\ first \in BOOLEAN
      /\ calls \in Seq(Freqs)
      /\ left \in [faults : 0..MaxFaults, changes : 0..MaxChanges]
  BY DEF IInv, TypeOK
<1>2. /\ UNCHANGED <<radio, ctl, phase, doubt, before, sound, left, box, focus, first, calls>>
      /\ phase # "off"
  BY DEF Poll, AskPtt, rigSide, session, Held
<1>3. \E tasks : Plain(tasks) /\ Asked(tasks)
  <2>1. CASE Poll
    BY <2>1, PlainOne DEF Poll, Arguments
  <2>2. ASSUME NEW on \in BOOLEAN, AskPtt(on) PROVE \E tasks : Plain(tasks) /\ Asked(tasks)
    BY <2>2, PlainOne DEF AskPtt, Arguments
  <2> QED
    BY <2>1, <2>2
<1> QED
  BY <1>1, <1>2, <1>3, AskingKeeps

LEMMA OnInv == ASSUME IInv, On PROVE IInv'
<1> USE DEF IInv
<1>1. /\ phase = "off" /\ phase' = "on" /\ queue' = <<Task("connect", None)>>
      /\ first' = FALSE
      /\ UNCHANGED <<radio, ctl, left, doubt, before, sound, box, focus, calls>>
  BY DEF On, rigSide
<1>2. ctl = NewController
  BY <1>1 DEF Ends
<1>3. Task("connect", None) \in Tasks
  BY TaskIsTask DEF Arguments
<1>4. queue' \in Seq(Tasks) /\ queue' # <<>> /\ Head(queue') = Task("connect", None)
      /\ Tail(queue') = <<>>
  BY <1>1, <1>3
<1>5. TypeOK'
  BY <1>1, <1>4 DEF TypeOK
<1>6. Shape'
  BY <1>1, <1>2, <1>4, PlainNone DEF Shape, Connecting
<1> QED
  BY <1>1, <1>5, <1>6 DEF Ends, Known, Restorable, AsFound

\* Off as far as it asks for more: the same, with the session a step further.
LEMMA OffAsks ==
    ASSUME IInv, NEW tasks, Plain(tasks), Asked(tasks), phase # "off",
           phase # "draining", phase' \in {"stopping", "closing", "destroying"},
           UNCHANGED <<radio, ctl, doubt, before, sound, box, focus, first, calls, left>>
    PROVE  IInv'
<1> USE DEF IInv
<1>1. /\ queue' \in Seq(Tasks)
      /\ Plain(queue) => Plain(queue')
      /\ ~Plain(queue) => /\ queue' # <<>> /\ Head(queue') = Task("connect", None)
                          /\ Plain(Tail(queue'))
  BY AskedKeeps DEF TypeOK
<1>2. TypeOK'
  BY <1>1 DEF TypeOK
<1>3. Shape'
  BY <1>1 DEF Shape, Connecting
<1> QED
  BY <1>2, <1>3 DEF Ends, Known, Restorable, AsFound

LEMMA OffInv == ASSUME IInv, Off PROVE IInv'
<1>0. queue \in Seq(Tasks)
  BY DEF IInv, TypeOK
<1>1. CASE OffUnkeys
  <2>1. /\ UNCHANGED <<radio, ctl, doubt, before, sound, box, focus, first, calls, left>>
        /\ phase = "on" /\ phase' \in {"stopping", "closing", "destroying"}
    BY <1>1 DEF OffUnkeys, rigSide
  <2>2. \E tasks : Plain(tasks) /\ Asked(tasks)
    BY <1>0, <1>1, NothingAsked, PlainOne DEF OffUnkeys, Arguments
  <2> QED
    BY <2>1, <2>2, OffAsks
<1>2. CASE OffDisconnects
  <2>1. /\ UNCHANGED <<radio, ctl, doubt, before, sound, box, focus, first, calls, left>>
        /\ phase = "stopping" /\ phase' \in {"stopping", "closing", "destroying"}
    BY <1>2 DEF OffDisconnects, rigSide
  <2>2. \E tasks : Plain(tasks) /\ Asked(tasks)
    BY <1>2, PlainOne DEF OffDisconnects, Arguments
  <2> QED
    BY <2>1, <2>2, OffAsks
<1>3. CASE OffReleases
  <2>1. /\ UNCHANGED <<radio, ctl, doubt, before, sound, box, focus, first, calls, left>>
        /\ phase = "closing" /\ phase' \in {"stopping", "closing", "destroying"}
    BY <1>3 DEF OffReleases, rigSide
  <2>2. PICK yes \in BOOLEAN : Asked((IF yes THEN <<Task("disconnect", None)>> ELSE <<>>)
                                    \o <<Task("last", None)>>)
    BY <1>3 DEF OffReleases
  <2>3. /\ Plain(<<Task("disconnect", None)>>) /\ Plain(<<Task("last", None)>>)
        /\ Plain(<<>>)
    BY PlainOne, PlainNone DEF Arguments
  <2>4. Plain((IF yes THEN <<Task("disconnect", None)>> ELSE <<>>) \o <<Task("last", None)>>)
    BY <2>3, PlainBoth
  <2> QED
    BY <2>1, <2>2, <2>4, OffAsks
<1>4. CASE Destroyed
  <2>1. /\ phase = "draining" /\ queue = <<>> /\ queue' = queue /\ phase' = "off"
        /\ ctl' = NewController
        /\ UNCHANGED <<radio, left, doubt, before, sound, box, focus, first, calls>>
    BY <1>4 DEF Destroyed
  <2>2. /\ TypeOK /\ Ends /\ Known /\ Restorable /\ ~ctl.open
    BY <2>1 DEF IInv, Ends
  <2>3. TypeOK'
    BY <2>1, <2>2, NewControllerIs DEF TypeOK
  <2>4. Known'
    <3>1. ctl'.pttSet = FALSE /\ ~ctl'.open
      BY <2>1 DEF NewController
    <3>2. ~doubt => ctl.pttSet = FALSE
      BY <2>2 DEF Known, TypeOK
    <3> QED
      BY <2>1, <2>2, <3>1, <3>2 DEF Known
  <2>5. Shape' /\ Ends' /\ Restorable'
    BY <2>1, <2>2, PlainNone, NewControllerIs DEF Shape, Ends, Restorable, AsFound
  <2> QED
    BY <2>3, <2>4, <2>5 DEF IInv
<1> QED
  BY <1>1, <1>2, <1>3, <1>4 DEF Off

LEMMA TurnInv == ASSUME IInv, Turn PROVE IInv'
<1> USE DEF IInv
<1>1. /\ sound' = FALSE
      /\ UNCHANGED <<ctl, doubt, before, queue, phase, box, focus, first, calls>>
  BY DEF Turn, session
<1>2. left' \in [faults : 0..MaxFaults, changes : 0..MaxChanges]
  BY ChangeSpent DEF Turn, TypeOK
<1>3. radio' \in [keyed : BOOLEAN, freq : Freqs, mode : Modes] /\ radio'.keyed = radio.keyed
  BY DEF Turn, TypeOK
<1>4. TypeOK'
  BY <1>1, <1>2, <1>3 DEF TypeOK
<1>5. Shape' /\ Ends' /\ Known' /\ Restorable'
  BY <1>1, <1>3 DEF Shape, Plain, Connecting, Ends, Known, Restorable
<1> QED
  BY <1>4, <1>5

LEMMA StepInv == ASSUME IInv, [Next]_vars PROVE IInv'
<1>1. CASE Work
  BY <1>1, ConnectInv, PttInv, SetInv, RequestInv, DisconnectInv DEF Work
<1>2. CASE ShowReport \/ SetFocus \/ KillFocus \/ \E f \in Freqs : Enter(f)
  BY <1>2, UserInv
<1>3. CASE Poll \/ \E on \in BOOLEAN : AskPtt(on)
  BY <1>3, AskingInv
<1>4. CASE On
  BY <1>4, OnInv
<1>5. CASE Off
  BY <1>5, OffInv
<1>6. CASE Turn
  BY <1>6, TurnInv
<1>7. CASE UNCHANGED vars
  BY <1>7 DEF vars, session, IInv, TypeOK, Shape, Plain, Connecting, Ends, Known,
              Restorable, AsFound
<1> QED
  BY <1>1, <1>2, <1>3, <1>4, <1>5, <1>6, <1>7 DEF Next

-----------------------------------------------------------------------------
(* The theorems.                                                            *)

\* The strengthening holds throughout.
THEOREM Invariance == Spec => []IInv
BY InitInv, StepInv, PTL DEF Spec

\* Every variable of the controller and of its users stays in its range: no task
\* carries an argument of the wrong kind, and no more fails than is allowed.
THEOREM TypeCorrect == Spec => []TypeOK
<1>1. IInv => TypeOK
  BY DEF IInv
<1> QED
  BY <1>1, Invariance, PTL

\* The controller knows whether the radio is keyed, unless the last PTT command
\* failed: the interruptions by setFrequencyImpl_ and setModeImpl_ end where
\* they began.
THEOREM KeyedAsKnownHolds == Spec => []KeyedAsKnown
<1>1. IInv => KeyedAsKnown
  BY DEF IInv, Known, KeyedAsKnown
<1> QED
  BY <1>1, Invariance, PTL

\* Whatever was queued before the destruction of the controller or is queued
\* during it, the radio is in receive and, nothing having failed, set as found.
THEOREM OffRestoresHolds == Spec => []OffRestores
<1>1. IInv => OffRestores
  <2> SUFFICES ASSUME IInv, phase = "off"
               PROVE  /\ ~doubt => ~radio.keyed
                      /\ sound => radio.freq = before.freq /\ radio.mode = before.mode
    BY DEF OffRestores
  <2>1. ctl = NewController
    BY DEF IInv, Ends
  <2>2. ~ctl.open
    BY <2>1, NewControllerIs
  <2> QED
    BY <2>2 DEF IInv, Known, Restorable, AsFound
<1> QED
  BY <1>1, Invariance, PTL
=============================================================================
