------------------------- MODULE ModemOnOff_proofs -------------------------
(***************************************************************************)
(* Proofs about ModemOnOff, for any set of sound card numbers: type        *)
(* correctness, and that as long as every device that was found starts,    *)
(* threads have what they work with and nothing is left of a session.      *)
(***************************************************************************)
EXTENDS ModemOnOff, TLAPS

-----------------------------------------------------------------------------
(* The inductive invariant.                                                *)

(* A player is there only while its pipeline is.                           *)
Players ==
    \A t \in Sides : player[t] # "none" => thr[t] \in {"ready", "working", "ending"}

(* What a step of On or Off finds and leaves besides threads and devices.  *)
Resources ==
    /\ buffers = (running \/ op \in {"dropBuffers", "stopTx", "stopRx", "free"})
    /\ engine = buffers
    /\ modem = (running \/ op \notin {"idle", "prepare", "reenable"})
    /\ op \in {"openTx", "openRx", "dropDevices", "retireTx", "makeTx", "makeRx",
               "signal"} => running
    /\ op \in {"prepare", "validate", "dropBuffers", "stopTx", "stopRx", "free",
               "clean"} => ~running

(* A thread that is not there has no device; one that is there has not     *)
(* been let go, or is past the point where it waits to be.                 *)
Idle(t)   == thr[t] = "none" /\ \A d \in DevicesOf[t] : dev[d] = "none"
Held(t)   == /\ thr[t] \in {"started", "ready"} /\ ~go[t]
             /\ \A d \in DevicesOf[t] : dev[d] = "on"
Let(t)    == thr[t] \in {"ready", "working", "ending", "done"}

(* Where the threads and devices are at each step.                         *)
Stage ==
    /\ op \in {"openTx", "openRx", "dropDevices", "retireTx", "makeTx"} =>
          \A t \in Sides : thr[t] = "none"
    /\ op = "openTx" => cards = 2 /\ \A t \in Sides : Idle(t)
    /\ op = "openRx" /\ cards # 2 => Idle("tx")
    /\ op = "makeRx" => (Idle("tx") \/ Held("tx")) /\ thr["rx"] = "none"
    /\ op = "signal" => (Idle("tx") \/ Held("tx")) /\ Held("rx")
    /\ op \in {"idle", "reenable", "quiet", "stop"} =>
          \A t \in Sides : Idle(t) \/ (running /\ Let(t))
    /\ op \in {"stopTx", "stopRx"} => \A t \in Sides : Idle(t) \/ Let(t)
    /\ op = "stopRx" => Idle("tx")
    /\ op \in {"prepare", "validate", "dropBuffers", "free", "clean"} =>
          \A t \in Sides : Idle(t)

SessionInv == TypeOK /\ Players /\ (~lost => Resources /\ Stage)

(* The devices of a side are its own.                                      *)
LEMMA OwnDevices ==
    /\ DevicesOf["tx"] = {"txIn", "txOut"} /\ DevicesOf["rx"] = {"rxIn", "rxOut"}
    /\ Devices = {"txIn", "txOut", "rxIn", "rxOut"}
    /\ "tx" \in Sides /\ "rx" \in Sides /\ \A t \in Sides : t = "tx" \/ t = "rx"
    /\ \A t \in Sides : DevicesOf[t] \subseteq Devices
    /\ \A d \in DevicesOf["tx"] : d \notin DevicesOf["rx"]
  BY DEF DevicesOf, Devices, Sides

LEMMA InitSession == Init => SessionInv
<1> SUFFICES ASSUME Init PROVE SessionInv
  OBVIOUS
<1>1. TypeOK
  BY DEF Init, TypeOK, NoDevices, Steps, Alive
<1>2. Players
  BY DEF Init, Players
<1>3. Resources
  BY DEF Init, Resources
<1>4. \A t \in Sides : Idle(t)
  BY OwnDevices DEF Init, Idle, NoDevices
<1>5. Stage
  BY <1>4 DEF Init, Stage
<1> QED
  BY <1>1, <1>2, <1>3, <1>5 DEF SessionInv

-----------------------------------------------------------------------------
(* Types.                                                                  *)

(* What a step of On or Off leaves to the button.                          *)
LEMMA AtType ==
    ASSUME TypeOK, NEW step \in Steps, NEW next \in Steps \ {"idle"},
           step # "idle", At(step, next)
    PROVE  /\ op' \in Steps /\ enabled' = (op' = "idle")
           /\ enabled' \in BOOLEAN /\ starting' \in BOOLEAN
  BY DEF TypeOK, At

(* What making a thread leaves.                                            *)
LEMMA MadeType ==
    ASSUME TypeOK, NEW t \in Sides, NEW how \in {"started", "made"}, Made(t, how)
    PROVE  /\ thr' \in [Sides -> Alive \cup {"none", "made", "done"}]
           /\ run' \in [Sides -> BOOLEAN] /\ go' \in [Sides -> BOOLEAN]
  BY DEF TypeOK, Made, Alive

LEMMA ClickTypes == TypeOK /\ (Click \/ OnClose \/ OnExit) => TypeOK'
<1> USE DEF session, stream, threads, window
<1> SUFFICES ASSUME TypeOK, Click \/ OnClose \/ OnExit PROVE TypeOK'
  OBVIOUS
<1>1. CASE Click
  BY <1>1 DEF Click, Toggle, TypeOK, Steps
<1>2. ASSUME Leave, dialog' \in BOOLEAN PROVE TypeOK'
  <2>1. /\ running' \in BOOLEAN /\ enabled' \in BOOLEAN /\ starting' \in BOOLEAN
        /\ cards' \in Cards /\ op' \in Steps /\ enabled' = (op' = "idle")
    BY <1>2 DEF Leave, Toggle, TypeOK, Steps
  <2>2. terminating' \in BOOLEAN /\ frame' \in {"open", "destroyed", "crashed"}
    BY <1>2 DEF Leave, TypeOK
  <2> QED
    BY <1>2, <2>1, <2>2 DEF Leave, TypeOK
<1>3. CASE OnClose
  BY <1>2, <1>3 DEF OnClose, TypeOK
<1>4. CASE OnExit
  BY <1>2, <1>4 DEF OnExit, TypeOK
<1> QED
  BY <1>1, <1>3, <1>4

LEMMA OnTypes == TypeOK /\ On => TypeOK'
<1> USE DEF session, stream, threads, window, Others, Steps
<1> SUFFICES ASSUME TypeOK, On PROVE TypeOK'
  OBVIOUS
<1>1. CASE Prepare
  BY <1>1, AtType DEF Prepare, TypeOK
<1>2. CASE Validate
  BY <1>2, AtType DEF Validate, TypeOK
<1>3. CASE OpenTx
  <2>1. dev' \in [Devices -> {"none", "made", "on"}]
    BY <1>3 DEF OpenTx, TypeOK
  <2>2. op' \in Steps /\ enabled' = (op' = "idle") /\ enabled' \in BOOLEAN
        /\ starting' \in BOOLEAN
    BY <1>3, AtType DEF OpenTx
  <2> QED
    BY <1>3, <2>1, <2>2 DEF OpenTx, TypeOK
<1>4. CASE OpenRx
  <2>1. dev' \in [Devices -> {"none", "made", "on"}]
    BY <1>4 DEF OpenRx, TypeOK
  <2>2. op' \in Steps /\ enabled' = (op' = "idle") /\ enabled' \in BOOLEAN
        /\ starting' \in BOOLEAN
    BY <1>4, AtType DEF OpenRx
  <2> QED
    BY <1>4, <2>1, <2>2 DEF OpenRx, TypeOK
<1>5. CASE DropDevices
  BY <1>5, AtType DEF DropDevices, TypeOK, NoDevices
<1>6. CASE DropBuffers
  BY <1>6, AtType DEF DropBuffers, TypeOK
<1>7. CASE RetireTx
  BY <1>7, AtType DEF RetireTx, TypeOK
<1>8. CASE MakeTx
  <2>1. dev' \in [Devices -> {"none", "made", "on"}]
    BY <1>8 DEF MakeTx, GiveUp, TypeOK, NoDevices
  <2>2. op' \in Steps /\ enabled' = (op' = "idle") /\ enabled' \in BOOLEAN
        /\ starting' \in BOOLEAN
    BY <1>8, AtType DEF MakeTx
  <2>3. Made("tx", "started") \/ Made("tx", "made")
    BY <1>8 DEF MakeTx
  <2>4. /\ thr' \in [Sides -> Alive \cup {"none", "made", "done"}]
        /\ run' \in [Sides -> BOOLEAN] /\ go' \in [Sides -> BOOLEAN]
    BY <2>3, MadeType, OwnDevices
  <2>5. running' \in BOOLEAN /\ lost' \in BOOLEAN
    BY <1>8 DEF MakeTx, GiveUp, TypeOK
  <2> QED
    BY <1>8, <2>1, <2>2, <2>4, <2>5 DEF MakeTx, TypeOK
<1>9. CASE MakeRx
  <2>1. dev' \in [Devices -> {"none", "made", "on"}]
    BY <1>9 DEF MakeRx, GiveUp, TypeOK, NoDevices
  <2>2. op' \in Steps /\ enabled' = (op' = "idle") /\ enabled' \in BOOLEAN
        /\ starting' \in BOOLEAN
    BY <1>9, AtType DEF MakeRx
  <2>3. Made("rx", "started") \/ Made("rx", "made")
    BY <1>9 DEF MakeRx
  <2>4. /\ thr' \in [Sides -> Alive \cup {"none", "made", "done"}]
        /\ run' \in [Sides -> BOOLEAN] /\ go' \in [Sides -> BOOLEAN]
    BY <2>3, MadeType, OwnDevices
  <2>5. running' \in BOOLEAN /\ lost' \in BOOLEAN
    BY <1>9 DEF MakeRx, GiveUp, TypeOK
  <2> QED
    BY <1>9, <2>1, <2>2, <2>4, <2>5 DEF MakeRx, TypeOK
<1>10. CASE Signal
  BY <1>10, AtType DEF Signal, AllRun, TypeOK
<1> QED
  BY <1>1, <1>2, <1>3, <1>4, <1>5, <1>6, <1>7, <1>8, <1>9, <1>10 DEF On

LEMMA OffTypes == TypeOK /\ (Off \/ Reenable) => TypeOK'
<1> USE DEF session, stream, threads, window, Others, Steps
<1> SUFFICES ASSUME TypeOK, Off \/ Reenable PROVE TypeOK'
  OBVIOUS
<1>1. CASE Quiet
  BY <1>1, AtType DEF Quiet, TypeOK
<1>2. CASE StopStream
  BY <1>2, AtType DEF StopStream, TypeOK
<1>3. CASE StopTx
  BY <1>3, AtType DEF StopTx, Stopped, TypeOK
<1>4. CASE StopRx
  BY <1>4, AtType DEF StopRx, Stopped, TypeOK
<1>5. CASE Free
  BY <1>5, AtType DEF Free, TypeOK
<1>6. CASE Clean
  BY <1>6, AtType DEF Clean, TypeOK
<1>7. CASE Reenable
  BY <1>7 DEF Reenable, TypeOK
<1> QED
  BY <1>1, <1>2, <1>3, <1>4, <1>5, <1>6, <1>7 DEF Off

LEMMA ThreadTypes ==
    ASSUME TypeOK, NEW t \in Sides, Works(t) \/ FilePlayed(t) \/ CloseFile(t), Elsewhere
    PROVE  TypeOK'
  BY DEF TypeOK, Works, Ready, Begin, Finish, End, FilePlayed, CloseFile, Moves,
         Elsewhere, session, stream, window, Alive

LEMMA SessionTypes == TypeOK /\ [Next]_vars => TypeOK'
<1>1. TypeOK /\ UNCHANGED vars => TypeOK'
  BY DEF TypeOK, vars, session, stream, threads, window
<1> QED
  BY <1>1, ClickTypes, OnTypes, OffTypes, ThreadTypes DEF Next

-----------------------------------------------------------------------------
(* Players.                                                                *)
LEMMA PlayersStep == TypeOK /\ Players /\ [Next]_vars => Players'
<1> USE DEF session, stream, threads, window
<1> SUFFICES ASSUME TypeOK, Players, [Next]_vars PROVE Players'
  OBVIOUS
<1>1. CASE \E t \in Sides : (Works(t) \/ FilePlayed(t) \/ CloseFile(t)) /\ Elsewhere
  <2> SUFFICES ASSUME NEW t \in Sides, Works(t) \/ FilePlayed(t) \/ CloseFile(t)
               PROVE  Players'
    BY <1>1
  <2> USE DEF TypeOK, Players, Moves
  <2>1. CASE Works(t)
    BY <2>1 DEF Works, Ready, Begin, Finish, End
  <2>2. CASE FilePlayed(t)
    BY <2>2 DEF FilePlayed
  <2>3. CASE CloseFile(t)
    BY <2>3 DEF CloseFile
  <2> QED
    BY <2>1, <2>2, <2>3
<1>2. ASSUME NEW t \in Sides, thr[t] \notin Alive, UNCHANGED player,
             \A u \in Sides \ {t} : thr'[u] = thr[u]
      PROVE  Players'
  BY <1>2 DEF Players, Alive
<1>3. CASE MakeTx \/ MakeRx
  BY <1>2, <1>3, OwnDevices DEF MakeTx, MakeRx, Made, TypeOK
<1>4. CASE StopTx \/ StopRx
  BY <1>2, <1>4, OwnDevices DEF StopTx, StopRx, Stopped, TypeOK
<1>5. CASE UNCHANGED threads
  BY <1>5 DEF Players
<1>6. CASE Click \/ OnClose \/ OnExit \/ UNCHANGED vars
  BY <1>5, <1>6 DEF Click, OnClose, OnExit, Leave, vars
<1>7. CASE \/ Prepare \/ Validate \/ OpenTx \/ OpenRx \/ DropDevices \/ DropBuffers
           \/ RetireTx \/ Signal
  BY <1>7 DEF Prepare, Validate, OpenTx, OpenRx, DropDevices, DropBuffers, RetireTx,
              Signal, Players
<1>8. CASE Quiet \/ StopStream \/ Free \/ Clean \/ Reenable
  BY <1>8 DEF Quiet, StopStream, Free, Clean, Reenable, Players
<1> QED
  BY <1>1, <1>3, <1>4, <1>6, <1>7, <1>8 DEF Next, On, Off

-----------------------------------------------------------------------------
(* Threads and devices, step by step.                                      *)

Safe == Resources /\ Stage

(* The button starts what is off and stops what is on.                     *)
LEMMA ToggleSafe ==
    ASSUME TypeOK, Safe, enabled, Toggle, UNCHANGED <<stream, threads, modem>>
    PROVE  Safe'
<1> USE DEF stream, threads, Toggle
<1>1. op = "idle" /\ running' = running
  BY DEF TypeOK
<1>2. op' = IF running THEN "quiet" ELSE "prepare"
  OBVIOUS
<1>3. Resources'
  BY <1>1, <1>2 DEF Safe, Resources, TypeOK
<1>4. \A t \in Sides : Idle(t)' = Idle(t) /\ Let(t)' = Let(t) /\ Held(t)' = Held(t)
  BY DEF Idle, Let, Held
<1>5. Stage'
  BY <1>1, <1>2, <1>4 DEF Safe, Stage
<1> QED
  BY <1>3, <1>5 DEF Safe

LEMMA LeaveSafe ==
    ASSUME TypeOK, Safe, Click \/ OnClose \/ OnExit
    PROVE  Safe'
<1>1. CASE enabled /\ Toggle /\ UNCHANGED <<stream, threads, modem>>
  BY <1>1, ToggleSafe
<1>2. CASE UNCHANGED <<session, stream, threads, modem>>
  BY <1>2 DEF Safe, Resources, Stage, Idle, Held, Let, session, stream, threads
<1> QED
  BY <1>1, <1>2 DEF Click, OnClose, OnExit, Leave, session

(* A step that leaves threads and devices alone leaves each side as it is. *)
LEMMA SameSides ==
    ASSUME UNCHANGED <<dev, thr, go>>
    PROVE  \A t \in Sides : Idle(t)' = Idle(t) /\ Let(t)' = Let(t) /\ Held(t)' = Held(t)
  BY DEF Idle, Let, Held

LEMMA OnSafe ==
    ASSUME TypeOK, Safe, On, ~lost'
    PROVE  Safe'
<1> USE DEF At, stream, threads, Others
<1>1. CASE Prepare
  <2>1. op = "prepare" /\ op' = "validate" /\ UNCHANGED <<dev, thr, go>>
    BY <1>1 DEF Prepare
  <2>2. Resources'
    BY <1>1, <2>1 DEF Prepare, Safe, Resources
  <2>3. Stage'
    BY <2>1, SameSides DEF Safe, Stage
  <2> QED
    BY <2>2, <2>3 DEF Safe
<1>2. CASE Validate
  <2>1. op = "validate" /\ modem' = modem /\ UNCHANGED <<dev, thr, go>>
    BY <1>2 DEF Validate
  <2>a. \/ op' = "quiet" /\ UNCHANGED <<running, buffers, engine>>
        \/ op' = "openTx" /\ cards' = 2 /\ running' = TRUE /\ buffers' = TRUE /\ engine' = TRUE
        \/ op' = "openRx" /\ running' = TRUE /\ buffers' = TRUE /\ engine' = TRUE
    BY <1>2 DEF Validate
  <2>2. Resources'
    <3>1. running = FALSE /\ buffers = FALSE /\ engine = FALSE /\ modem = TRUE
      BY <2>1 DEF Safe, Resources, TypeOK
    <3>2. CASE op' = "quiet"
      BY <2>1, <2>a, <3>1, <3>2 DEF Resources
    <3>3. CASE op' # "quiet"
      BY <2>1, <2>a, <3>1, <3>3 DEF Resources
    <3> QED
      BY <3>2, <3>3
  <2>3. \A t \in Sides : Idle(t) /\ Idle(t)'
    BY <2>1, SameSides DEF Safe, Stage
  <2>4. Stage'
    <3>1. \A t \in Sides : thr'[t] = "none"
      BY <2>3 DEF Idle
    <3> QED
      BY <2>a, <2>3, <3>1, OwnDevices DEF Stage
  <2> QED
    BY <2>2, <2>4 DEF Safe
<1>3. CASE OpenTx
  <2>1. op = "openTx" /\ op' = "openRx" /\ cards' = cards /\ thr' = thr
    BY <1>3 DEF OpenTx
  <2>2. Resources'
    BY <1>3, <2>1 DEF OpenTx, Safe, Resources
  <2>3. \A t \in Sides : thr'[t] = "none"
    BY <2>1 DEF Safe, Stage
  <2>4. cards' = 2
    BY <2>1 DEF Safe, Stage
  <2>5. Stage'
    BY <2>1, <2>3, <2>4 DEF Stage
  <2> QED
    BY <2>2, <2>5 DEF Safe
<1>4. CASE OpenRx
  <2>1. op = "openRx" /\ op' \in {"dropDevices", "retireTx", "makeRx"} /\ thr' = thr
        /\ cards' = cards /\ (op' = "makeRx" => cards # 2)
    BY <1>4 DEF OpenRx
  <2>2. Resources'
    BY <1>4, <2>1 DEF OpenRx, Safe, Resources
  <2>3. \A t \in Sides : thr'[t] = "none"
    BY <2>1 DEF Safe, Stage
  <2>4. cards # 2 => Idle("tx")'
    <3>1. \A d \in DevicesOf["tx"] : dev'[d] = dev[d]
      BY <1>4, OwnDevices DEF OpenRx, TypeOK
    <3> QED
      BY <2>1, <3>1 DEF Safe, Stage, Idle
  <2>5. Stage'
    BY <2>1, <2>3, <2>4, OwnDevices DEF Stage
  <2> QED
    BY <2>2, <2>5 DEF Safe
<1>5. CASE DropDevices
  <2>1. op = "dropDevices" /\ op' = "dropBuffers" /\ thr' = thr /\ dev' = NoDevices
    BY <1>5 DEF DropDevices
  <2>2. Resources'
    BY <1>5, <2>1 DEF DropDevices, Safe, Resources
  <2>3. \A t \in Sides : Idle(t)'
    BY <2>1, OwnDevices DEF Safe, Stage, Idle, NoDevices
  <2>4. Stage'
    BY <2>1, <2>3 DEF Stage
  <2> QED
    BY <2>2, <2>4 DEF Safe
<1>6. CASE DropBuffers
  <2>1. op = "dropBuffers" /\ op' = "quiet" /\ UNCHANGED <<dev, thr, go>>
    BY <1>6 DEF DropBuffers
  <2>2. Resources'
    BY <1>6, <2>1 DEF DropBuffers, Safe, Resources
  <2>3. \A t \in Sides : Idle(t)'
    BY <2>1, SameSides DEF Safe, Stage
  <2>4. Stage'
    BY <2>1, <2>3 DEF Stage
  <2> QED
    BY <2>2, <2>4 DEF Safe
<1>7. CASE RetireTx
  <2>1. op = "retireTx" /\ op' = "makeTx" /\ UNCHANGED <<dev, thr, go>>
    BY <1>7 DEF RetireTx
  <2>2. Resources'
    BY <1>7, <2>1 DEF RetireTx, Safe, Resources
  <2>3. Stage'
    BY <2>1 DEF Safe, Stage
  <2> QED
    BY <2>2, <2>3 DEF Safe
<1>8. CASE MakeTx
  <2>1. /\ op = "makeTx" /\ op' = "makeRx" /\ running' = running /\ dev' = dev
        /\ \A d \in DevicesOf["tx"] : dev[d] = "on"
        /\ Made("tx", "started")
    BY <1>8 DEF MakeTx, GiveUp
  <2>2. Resources'
    BY <1>8, <2>1 DEF MakeTx, Safe, Resources
  <2>3. thr'["tx"] = "started" /\ ~go'["tx"] /\ thr'["rx"] = thr["rx"]
    BY <2>1, OwnDevices DEF Made, TypeOK
  <2>4. Held("tx")' /\ thr'["rx"] = "none"
    BY <2>1, <2>3, OwnDevices DEF Held, Safe, Stage
  <2>5. Stage'
    BY <2>1, <2>4 DEF Stage
  <2> QED
    BY <2>2, <2>5 DEF Safe
<1>9. CASE MakeRx
  <2>1. /\ op = "makeRx" /\ op' = "signal" /\ running' = running
        /\ dev' = [d \in Devices |-> IF d \in DevicesOf["rx"] THEN "on" ELSE dev[d]]
        /\ Made("rx", "started")
    BY <1>9 DEF MakeRx, GiveUp
  <2>2. Resources'
    BY <1>9, <2>1 DEF MakeRx, Safe, Resources
  <2>3. /\ thr'["rx"] = "started" /\ ~go'["rx"]
        /\ thr'["tx"] = thr["tx"] /\ go'["tx"] = go["tx"]
    BY <2>1, OwnDevices DEF Made, TypeOK
  <2>4. /\ \A d \in DevicesOf["rx"] : dev'[d] = "on"
        /\ \A d \in DevicesOf["tx"] : dev'[d] = dev[d]
    BY <2>1, OwnDevices
  <2>5. Held("rx")'
    BY <2>3, <2>4 DEF Held
  <2>6. Idle("tx")' \/ Held("tx")'
    BY <2>1, <2>3, <2>4 DEF Safe, Stage, Idle, Held
  <2>7. Stage'
    BY <2>1, <2>5, <2>6 DEF Stage
  <2> QED
    BY <2>2, <2>7 DEF Safe
<1>10. CASE Signal
  <2>1. /\ op = "signal" /\ thr' = thr /\ dev' = dev /\ running' = AllRun
        /\ \A t \in Sides : thr[t] # "none" => thr[t] \notin {"made", "started"}
        /\ op' = IF AllRun THEN "reenable" ELSE "quiet"
    BY <1>10 DEF Signal, Present
  <2>2. (Idle("tx") \/ Held("tx")) /\ Held("rx")
    BY <2>1 DEF Safe, Stage
  <2>3. AllRun
    BY <2>2 DEF AllRun, Idle, Held
  <2>4. Resources'
    BY <1>10, <2>1, <2>3 DEF Signal, Safe, Resources
  <2>5. \A t \in Sides : Idle(t)' \/ Let(t)'
    BY <2>1, <2>2, OwnDevices DEF Idle, Held, Let
  <2>6. Stage'
    BY <2>1, <2>3, <2>5 DEF Stage
  <2> QED
    BY <2>4, <2>6 DEF Safe
<1> QED
  BY <1>1, <1>2, <1>3, <1>4, <1>5, <1>6, <1>7, <1>8, <1>9, <1>10 DEF On

LEMMA OffSafe ==
    ASSUME TypeOK, Safe, Off \/ Reenable
    PROVE  Safe'
<1> USE DEF At, stream, threads, Others
<1>1. CASE Quiet
  <2>1. op = "quiet" /\ op' = "stop" /\ running' = running /\ UNCHANGED <<dev, thr, go>>
    BY <1>1 DEF Quiet
  <2>2. Resources'
    BY <1>1, <2>1 DEF Quiet, Safe, Resources
  <2>3. Stage'
    BY <2>1, SameSides DEF Safe, Stage
  <2> QED
    BY <2>2, <2>3 DEF Safe
<1>2. CASE StopStream
  <2>1. /\ op = "stop" /\ running' = FALSE /\ UNCHANGED <<dev, thr, go>>
        /\ op' = IF running THEN "stopTx" ELSE "clean"
    BY <1>2 DEF StopStream
  <2>2. Resources'
    BY <1>2, <2>1 DEF StopStream, Safe, Resources, TypeOK
  <2>3. \A t \in Sides : Idle(t)' \/ (running /\ Let(t)')
    BY <2>1, SameSides DEF Safe, Stage
  <2>4. Stage'
    BY <2>1, <2>3 DEF Stage, TypeOK
  <2> QED
    BY <2>2, <2>4 DEF Safe
<1>3. CASE StopTx
  <2>1. op = "stopTx" /\ op' = "stopRx" /\ Stopped("tx")
    BY <1>3 DEF StopTx
  <2>2. Resources'
    BY <1>3, <2>1 DEF StopTx, Safe, Resources
  <2>3. Idle("tx") \/ Let("tx")
    BY <2>1, OwnDevices DEF Safe, Stage
  <2>4. Idle("rx") \/ Let("rx")
    BY <2>1, OwnDevices DEF Safe, Stage
  <2>5. Idle("tx")'
    BY <2>1, <2>3, OwnDevices DEF Stopped, Idle, Let, TypeOK
  <2>6. thr'["rx"] = thr["rx"] /\ \A d \in DevicesOf["rx"] : dev'[d] = dev[d]
    BY <2>1, OwnDevices DEF Stopped, TypeOK
  <2>7. Idle("rx")' \/ Let("rx")'
    BY <2>4, <2>6 DEF Idle, Let
  <2>8. Stage'
    BY <2>1, <2>5, <2>7, OwnDevices DEF Stage
  <2> QED
    BY <2>2, <2>8 DEF Safe
<1>4. CASE StopRx
  <2>1. op = "stopRx" /\ op' = "free" /\ Stopped("rx")
    BY <1>4 DEF StopRx
  <2>2. Resources'
    BY <1>4, <2>1 DEF StopRx, Safe, Resources
  <2>3. Idle("tx") /\ (Idle("rx") \/ Let("rx"))
    BY <2>1, OwnDevices DEF Safe, Stage
  <2>4. Idle("rx")'
    BY <2>1, <2>3, OwnDevices DEF Stopped, Idle, Let, TypeOK
  <2>5. thr'["tx"] = thr["tx"] /\ \A d \in DevicesOf["tx"] : dev'[d] = dev[d]
    BY <2>1, OwnDevices DEF Stopped, TypeOK
  <2>6. Idle("tx")'
    BY <2>3, <2>5 DEF Idle
  <2>7. Stage'
    BY <2>1, <2>4, <2>6, OwnDevices DEF Stage
  <2> QED
    BY <2>2, <2>7 DEF Safe
<1>5. CASE Free
  <2>1. op = "free" /\ op' = "clean" /\ UNCHANGED <<dev, thr, go>>
    BY <1>5 DEF Free
  <2>2. Resources'
    BY <1>5, <2>1 DEF Free, Safe, Resources
  <2>3. Stage'
    BY <2>1, SameSides DEF Safe, Stage
  <2> QED
    BY <2>2, <2>3 DEF Safe
<1>6. CASE Clean
  <2>1. op = "clean" /\ op' = "reenable" /\ UNCHANGED <<dev, thr, go>>
    BY <1>6 DEF Clean
  <2>2. Resources'
    BY <1>6, <2>1 DEF Clean, Safe, Resources
  <2>3. Stage'
    BY <2>1, SameSides DEF Safe, Stage
  <2> QED
    BY <2>2, <2>3 DEF Safe
<1>7. CASE Reenable
  <2>1. op = "reenable" /\ op' = "idle" /\ running' = running /\ UNCHANGED <<dev, thr, go>>
    BY <1>7 DEF Reenable
  <2>2. Resources'
    BY <1>7, <2>1 DEF Reenable, Safe, Resources
  <2>3. Stage'
    BY <2>1, SameSides DEF Safe, Stage
  <2> QED
    BY <2>2, <2>3 DEF Safe
<1> QED
  BY <1>1, <1>2, <1>3, <1>4, <1>5, <1>6, <1>7 DEF Off

(* A thread goes on its way.                                               *)
LEMMA ThreadSafe ==
    ASSUME TypeOK, Safe, NEW t \in Sides, Works(t) \/ FilePlayed(t) \/ CloseFile(t),
           Elsewhere
    PROVE  Safe'
<1> USE DEF Elsewhere, session, stream, Moves
<1>1. Resources'
  BY DEF Safe, Resources
<1>2. /\ dev' = dev /\ go' = go
      /\ \A u \in Sides : u # t => thr'[u] = thr[u]
      /\ \/ thr' = thr
         \/ thr[t] = "started" /\ thr'[t] = "ready"
         \/ thr[t] = "ready" /\ thr'[t] = "working" /\ go[t]
         \/ thr[t] = "working" /\ thr'[t] = "ending"
         \/ thr[t] = "ending" /\ thr'[t] = "done"
  BY DEF Works, Ready, Begin, Finish, End, FilePlayed, CloseFile, TypeOK
<1>3. \A u \in Sides : /\ Idle(u) => Idle(u)'
                       /\ Held(u) => Held(u)'
                       /\ Let(u) => Let(u)'
                       /\ thr[u] = "none" => thr'[u] = "none"
  BY <1>2 DEF Idle, Held, Let
<1>4. UNCHANGED <<op, cards, running>>
  OBVIOUS
<1>5. Stage'
  BY <1>3, <1>4, OwnDevices DEF Safe, Stage
<1> QED
  BY <1>1, <1>5 DEF Safe

-----------------------------------------------------------------------------
LEMMA SessionStep == SessionInv /\ [Next]_vars => SessionInv'
<1> SUFFICES ASSUME SessionInv, [Next]_vars PROVE SessionInv'
  OBVIOUS
<1>1. TypeOK' /\ Players'
  BY SessionTypes, PlayersStep DEF SessionInv
<1>2. ASSUME ~lost' PROVE Safe'
  <2>1. ~lost
    <3>1. lost => lost'
      BY DEF Next, Click, OnClose, OnExit, Leave, On, Prepare, Validate, OpenTx, OpenRx,
             DropDevices, DropBuffers, RetireTx, MakeTx, MakeRx, GiveUp, Signal, Off,
             Quiet, StopStream, StopTx, StopRx, Free, Clean, Reenable, Elsewhere, vars
    <3> QED
      BY <1>2, <3>1
  <2>2. TypeOK /\ Safe
    BY <2>1 DEF SessionInv, Safe
  <2>3. CASE UNCHANGED vars
    BY <2>2, <2>3 DEF vars, session, stream, threads, Safe, Resources, Stage, Idle, Held, Let
  <2> QED
    BY <1>2, <2>2, <2>3, LeaveSafe, OnSafe, OffSafe, ThreadSafe DEF Next
<1> QED
  BY <1>1, <1>2 DEF SessionInv, Safe

(* Everything below follows from this.                                     *)
THEOREM SessionInductive == Spec => []SessionInv
  BY InitSession, SessionStep, PTL DEF Spec

(* Every variable keeps its type, and the button is disabled exactly while *)
(* an On or Off is under way.                                              *)
THEOREM SessionTyped == Spec => []TypeOK
<1>1. SessionInv => TypeOK
  BY DEF SessionInv
<1> QED
  BY <1>1, SessionInductive, PTL

(* As long as every device that was found starts, a device runs only while *)
(* the FIFOs are there, a thread only while the FIFOs and the modem are,   *)
(* and neither works before both are ready (startRxStream, stopRxStream    *)
(* and TxRxThread::Entry).                                                 *)
THEOREM WorkersAreServedHolds == Spec => []WorkersAreServed
<1>1. SessionInv => WorkersAreServed
  <2> SUFFICES ASSUME SessionInv, ~lost
               PROVE  /\ (\E d \in Devices : dev[d] = "on") => buffers
                      /\ \A t \in Sides :
                           /\ thr[t] \in Alive => buffers /\ modem
                           /\ thr[t] = "working" =>
                                \A u \in Present : thr[u] \notin {"made", "started"}
    BY DEF WorkersAreServed
  <2>1. Resources /\ Stage /\ TypeOK
    BY DEF SessionInv
  <2>2. CASE \A t \in Sides : Idle(t)
    BY <2>2, OwnDevices DEF Idle, Alive
  <2>3. CASE op \in {"openTx", "openRx", "dropDevices", "retireTx", "makeTx"}
    BY <2>1, <2>3 DEF Resources, Stage, Alive
  <2>4. CASE op \in {"makeRx", "signal"}
    BY <2>1, <2>4, OwnDevices DEF Resources, Stage, Idle, Held
  <2>5. CASE /\ op \in {"idle", "reenable", "quiet", "stop", "stopTx", "stopRx"}
             /\ ~ \A t \in Sides : Idle(t)
    <3>1. \A t \in Sides : Idle(t) \/ Let(t)
      BY <2>1, <2>5 DEF Stage
    <3>2. buffers /\ modem
      BY <2>1, <2>5 DEF Resources, Stage
    <3>3. \A t \in Present : thr[t] \notin {"made", "started"}
      BY <3>1 DEF Idle, Let, Present
    <3> QED
      BY <3>2, <3>3
  <2> QED
    BY <2>1, <2>2, <2>3, <2>4, <2>5 DEF TypeOK, Steps, Stage
<1> QED
  BY <1>1, SessionInductive, PTL

(* Whether it was stopped or did not get to start, nothing of a session is *)
(* left once it is off: no device, thread, player, FIFO, engine or modem.  *)
THEOREM OffLeavesNothingHolds == Spec => []OffLeavesNothing
<1>1. SessionInv => OffLeavesNothing
  <2> SUFFICES ASSUME SessionInv, op = "idle", ~running, ~lost
               PROVE  /\ dev = NoDevices /\ Present = {} /\ ~buffers /\ ~engine /\ ~modem
                      /\ \A t \in Sides : player[t] = "none"
    BY DEF OffLeavesNothing
  <2>1. TypeOK /\ Players /\ Resources /\ Stage
    BY DEF SessionInv
  <2>2. \A t \in Sides : Idle(t)
    BY <2>1 DEF Stage
  <2>3. dev = NoDevices
    BY <2>1, <2>2, OwnDevices DEF TypeOK, Idle, NoDevices
  <2>4. Present = {} /\ \A t \in Sides : player[t] = "none"
    BY <2>1, <2>2 DEF Idle, Present, Players
  <2>5. ~buffers /\ ~engine /\ ~modem
    BY <2>1 DEF Resources
  <2> QED
    BY <2>3, <2>4, <2>5
<1> QED
  BY <1>1, SessionInductive, PTL
=============================================================================
