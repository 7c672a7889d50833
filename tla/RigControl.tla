----------------------------- MODULE RigControl -----------------------------
(***************************************************************************)
(* Control of the radio through Hamlib (HamlibRigController.cpp, and its   *)
(* users in ongui.cpp and main.cpp).                                       *)
(*                                                                         *)
(* The controller is a ThreadedObject: every operation is a task of its    *)
(* queue, and the tasks talk to the radio.  Reports of the radio's         *)
(* frequency go to the UI thread as queued calls; the UI thread writes     *)
(* them into the frequency box, whose change is a request to set that very *)
(* frequency.  Off runs on a thread of its own and destroys the            *)
(* controller; the next On makes a new one.                                *)
(*                                                                         *)
(* A task is one step: only the controller's thread talks to the radio.    *)
(* A command is carried out and answered, refused, or carried out with the *)
(* answer lost, which the controller takes for a refusal.  The attempts on *)
(* the other VFO are part of a command.  PTT goes through Hamlib as well;  *)
(* error messages and the box's formats are left out.                      *)
(***************************************************************************)
EXTENDS Naturals, Sequences, FiniteSets

CONSTANTS
    Freqs,      \* frequencies, as numbers above 0
    Modes,      \* modes of the radio
    ModeOf,     \* getCurrentMode_(): the mode that goes with a frequency
    FreqOnly,   \* BOOLEAN: hamlibEnableFreqChangesOnly
    Manual,     \* BOOLEAN: manualFrequencyReporting
    MaxQueue,   \* bound on the tasks and reports under way when one is added
    MaxFaults,  \* bound on commands that fail
    MaxChanges  \* bound on frequencies entered and knobs turned

None == 0  \* no frequency, RIG_MODE_NONE

ASSUME RigAssumption ==
    /\ Freqs \subseteq Nat \ {None} /\ None \notin Modes
    /\ ModeOf \in [Freqs -> Modes]
    /\ FreqOnly \in BOOLEAN /\ Manual \in BOOLEAN
    /\ MaxQueue \in Nat /\ MaxFaults \in Nat /\ MaxChanges \in Nat

VARIABLES
    radio,   \* [keyed, freq, mode]: the radio itself
    ctl,     \* the controller's own [open, pttSet, freq, mode, origFreq, origMode]
    queue,   \* its tasks
    phase,   \* the session: "off", "on", and the steps of Off
    box,     \* reportingFrequency
    focus,   \* suppressFreqModeUpdates_: the box has the focus
    first,   \* firstFreqUpdateOnConnect_
    calls,   \* reports queued for the UI thread
    left,    \* [faults, changes] still allowed
    doubt,   \* history: the last PTT command failed
    before,  \* history: [freq, mode] of the radio as it was connected
    sound    \* history: since then no command failed and no knob was turned

session == <<phase, box, focus>>
vars    == <<radio, ctl, queue, session, first, calls, left, doubt, before, sound>>

Outcomes == {"done", "refused", "lost"}
Task(name, arg) == [name |-> name, arg |-> arg]

NewController == [open |-> FALSE, pttSet |-> FALSE, freq |-> None, mode |-> None,
                  origFreq |-> None, origMode |-> None]

\* The pointers to the controller have not been reset yet.
Held       == phase \in {"on", "stopping", "closing"}
Destroying == phase \in {"destroying", "draining"}

Init ==
    /\ \E f \in Freqs, m \in Modes :
          /\ radio = [keyed |-> FALSE, freq |-> f, mode |-> m]
          /\ before = [freq |-> f, mode |-> m]
    /\ ctl = NewController /\ queue = <<>> /\ phase = "off"
    /\ box \in Freqs /\ focus = FALSE /\ first = FALSE /\ calls = <<>>
    /\ left = [faults |-> MaxFaults, changes |-> MaxChanges]
    /\ doubt = FALSE /\ sound = FALSE

-----------------------------------------------------------------------------
(* Commands.  A failure spends one of the faults.                           *)

Failures(outcomes) == Cardinality({i \in DOMAIN outcomes : outcomes[i] # "done"})

Spend(outcomes, ok) ==
    /\ Failures(outcomes) <= left.faults
    /\ left' = [left EXCEPT !.faults = @ - Failures(outcomes)]
    /\ sound' = (ok /\ Failures(outcomes) = 0)

Took(o) == o # "refused"

\* requestCurrentFrequencyMode(), as a task calls it when it has changed something.
Ask(yes) == IF yes /\ ~Destroying THEN <<Task("request", None)>> ELSE <<>>

\* The first report is what Off returns to.
Reported(c) == IF c.origFreq # None THEN c
               ELSE [c EXCEPT !.origFreq = radio.freq, !.origMode = radio.mode]

\* What setting the frequency of the box asks for.
SetTo(f) == <<Task("freq", f)>> \o (IF FreqOnly THEN <<>> ELSE <<Task("mode", ModeOf[f])>>)

-----------------------------------------------------------------------------
(* The tasks.                                                               *)

Runs(name) == queue # <<>> /\ Head(queue).name = name
Then(tasks) == queue' = Tail(queue) \o tasks
NoRadio == Then(<<>>) /\ UNCHANGED <<radio, ctl, calls, left, doubt, sound>>

(* Seeded bug: the radio is asked for its settings by a task of its own.     *)
ConnectAsksLater ==
    /\ Runs("connect")
    /\ \/ Spend(<<"refused">>, FALSE) /\ Then(<<>>)
          /\ UNCHANGED <<ctl, first, calls, before>>
       \/ /\ Spend(<<>>, TRUE)
          /\ Then(SetTo(box) \o <<Task("request", None)>>)
          /\ ctl' = [ctl EXCEPT !.open = TRUE]
          /\ first' = TRUE
          /\ before' = [freq |-> radio.freq, mode |-> radio.mode]
          /\ UNCHANGED calls
    /\ UNCHANGED <<radio, session, doubt>>

\* connectImpl_().  onRadioConnected_() asks for the settings of the box; those
\* to return to are read before that is carried out.
Connect ==
    /\ Runs("connect")
    /\ \/ Spend(<<"refused">>, FALSE) /\ Then(<<>>)
          /\ UNCHANGED <<ctl, first, calls, before>>
       \/ \E answer \in {"done", "refused"} :
          /\ Spend(<<answer>>, TRUE)
          /\ Then(SetTo(box))
          /\ LET c == [ctl EXCEPT !.open = TRUE]
             IN  ctl' = IF answer = "done" THEN Reported(c) ELSE c
          /\ calls' = IF answer = "done" THEN Append(calls, radio.freq) ELSE calls
          /\ first' = TRUE
          /\ before' = [freq |-> radio.freq, mode |-> radio.mode]
    /\ UNCHANGED <<radio, session, doubt>>

\* pttImpl_()
Ptt ==
    /\ Runs("ptt")
    /\ LET on == Head(queue).arg IN
       IF ~ctl.open THEN NoRadio ELSE \E o \in Outcomes :
          /\ Spend(<<o>>, sound)
          /\ radio' = [radio EXCEPT !.keyed = IF Took(o) THEN on ELSE @]
          /\ ctl' = [ctl EXCEPT !.pttSet = IF o = "done" THEN on ELSE @]
          /\ doubt' = (o # "done")
          /\ Then(Ask(o = "done" /\ ctl.pttSet /\ ~on))
          /\ UNCHANGED calls
    /\ UNCHANGED <<session, first, before>>

(* Seeded bug: the radio is keyed again only if the setting was taken.       *)
SetRekeysOnSuccess(what) ==
    /\ Runs(what)
    /\ LET v == Head(queue).arg IN
       IF ~ctl.open \/ ctl[what] = v THEN NoRadio ELSE
       \E unkey, set, rekey \in Outcomes :
          /\ ~ctl.pttSet => unkey = "done" /\ rekey = "done"
          /\ unkey # "done" => set = "done" /\ rekey = "done"
          /\ Spend(<<unkey, set, rekey>>, sound)
          /\ radio' = [radio EXCEPT
                ![what] = IF unkey = "done" /\ Took(set) THEN v ELSE @,
                !.keyed = IF ~ctl.pttSet THEN @
                          ELSE IF unkey = "done" THEN set = "done" /\ Took(rekey)
                          ELSE @ /\ ~Took(unkey)]
          /\ ctl' = [ctl EXCEPT ![what] = IF unkey = "done" /\ set = "done" THEN v ELSE @]
          /\ doubt' = IF ctl.pttSet THEN unkey # "done" \/ rekey # "done" ELSE doubt
          /\ Then(Ask(unkey = "done" /\ set = "done"))
          /\ UNCHANGED calls
    /\ UNCHANGED <<session, first, before>>

\* setFrequencyImpl_() and setModeImpl_(): a transmission is interrupted for it.
\* Commands that are not issued count as done.
Set(what) ==
    /\ Runs(what)
    /\ LET v == Head(queue).arg IN
       IF ~ctl.open \/ ctl[what] = v THEN NoRadio ELSE
       \E unkey, set, rekey \in Outcomes :
          /\ ~ctl.pttSet => unkey = "done" /\ rekey = "done"
          /\ unkey # "done" => set = "done" /\ rekey = "done"
          /\ Spend(<<unkey, set, rekey>>, sound)
          /\ radio' = [radio EXCEPT
                ![what] = IF unkey = "done" /\ Took(set) THEN v ELSE @,
                !.keyed = IF ~ctl.pttSet THEN @
                          ELSE IF unkey = "done" THEN Took(rekey) ELSE @ /\ ~Took(unkey)]
          /\ ctl' = [ctl EXCEPT ![what] = IF unkey = "done" /\ set = "done" THEN v ELSE @]
          /\ doubt' = IF ctl.pttSet THEN unkey # "done" \/ rekey # "done" ELSE doubt
          /\ Then(Ask(unkey = "done" /\ set = "done"))
          /\ UNCHANGED calls
    /\ UNCHANGED <<session, first, before>>

\* requestCurrentFrequencyModeImpl_(): nothing is asked while transmitting.
Request ==
    /\ Runs("request")
    /\ IF ~ctl.open \/ ctl.pttSet THEN NoRadio ELSE \E answer \in {"done", "refused"} :
          /\ Spend(<<answer>>, sound)
          /\ ctl' = IF answer = "done" THEN Reported(ctl) ELSE ctl
          /\ calls' = IF answer = "done" THEN Append(calls, radio.freq) ELSE calls
          /\ Then(<<>>)
          /\ UNCHANGED <<radio, doubt>>
    /\ UNCHANGED <<session, first, before>>

(* Seeded bug: what was never asked for is set back as well.                 *)
SetsBackAlways(what) ==
    IF what = "freq" THEN ctl.freq # ctl.origFreq
    ELSE ~FreqOnly /\ ctl.mode # ctl.origMode

\* What disconnectImpl_() sets back, and whether a command is needed for it.
SetsBack(what) ==
    IF what = "freq" THEN ctl.origFreq # None /\ ctl.freq # ctl.origFreq
    ELSE ~FreqOnly /\ ctl.origMode # None /\ ctl.mode # ctl.origMode

\* disconnectImpl_() with the radio connected.
DisconnectOpen ==
    \E unkey, freq, mode \in Outcomes :
       /\ ~ctl.pttSet => unkey = "done"
       /\ ~SetsBack("freq") => freq = "done"
       /\ ~SetsBack("mode") => mode = "done"
       /\ Spend(<<unkey, freq, mode>>, sound)
       /\ radio' = [keyed |-> radio.keyed /\ ~(ctl.pttSet /\ Took(unkey)),
             freq |-> IF SetsBack("freq") /\ Took(freq) THEN ctl.origFreq ELSE radio.freq,
             mode |-> IF SetsBack("mode") /\ Took(mode) THEN ctl.origMode ELSE radio.mode]
       /\ ctl' = [NewController EXCEPT
             !.pttSet = ctl.pttSet /\ unkey # "done",
             !.freq = IF SetsBack("freq") /\ freq = "done" THEN ctl.origFreq ELSE ctl.freq,
             !.mode = IF SetsBack("mode") /\ mode = "done" THEN ctl.origMode ELSE ctl.mode]
       /\ doubt' = IF ctl.pttSet THEN unkey # "done" ELSE doubt
       /\ Then(Ask(ctl.pttSet /\ unkey = "done")
               \o Ask(SetsBack("freq") /\ freq = "done")
               \o Ask(SetsBack("mode") /\ mode = "done"))
       /\ UNCHANGED calls

Disconnect ==
    /\ Runs("disconnect")
    /\ IF ctl.open THEN DisconnectOpen ELSE NoRadio
    /\ UNCHANGED <<session, first, before>>

\* The task the destructor waits for.
Last ==
    /\ Runs("last")
    /\ IF ctl.open THEN DisconnectOpen ELSE NoRadio
    /\ phase' = "draining"
    /\ UNCHANGED <<box, focus, first, before>>

Work == Connect \/ Ptt \/ Set("freq") \/ Set("mode") \/ Request \/ Disconnect \/ Last

-----------------------------------------------------------------------------
(* The UI thread.                                                           *)

rigSide == <<radio, ctl, left, doubt, before, sound>>
Asked(tasks) == queue' = queue \o tasks

\* A bound: more is asked of the controller only when little is under way.
Room == Len(queue) + Len(calls) < MaxQueue

\* isConnected(), which is true during the attempt to connect already.
SaysConnected(yes) == IF yes THEN ctl.open \/ Runs("connect") ELSE ~ctl.open

\* OnChangeReportFrequency()
ChangeBox(f) ==
    /\ box' = f
    /\ Asked(IF f # box /\ Held THEN SetTo(f) ELSE <<>>)

\* onFrequencyModeChange_(): the first report after connecting is not shown.
ShowReport ==
    /\ calls # <<>>
    /\ calls' = Tail(calls)
    /\ first' = FALSE
    /\ IF first \/ focus \/ Manual THEN UNCHANGED <<box, queue>>
       ELSE ChangeBox(Head(calls))
    /\ UNCHANGED <<rigSide, phase, focus>>

\* The box gets the focus for an entry only (a bound: the visits to the box).
SetFocus ==
    /\ ~focus /\ left.changes > 0
    /\ focus' = TRUE
    /\ UNCHANGED <<rigSide, queue, phase, box, first, calls>>

\* A frequency is entered with the focus kept, or by leaving the box.
Enter(f) ==
    /\ focus /\ left.changes > 0 /\ f # box
    /\ Room
    /\ left' = [left EXCEPT !.changes = @ - 1]
    /\ ChangeBox(f)
    /\ focus' \in BOOLEAN
    /\ UNCHANGED <<radio, ctl, doubt, before, sound, phase, first, calls>>

KillFocus ==
    /\ focus
    /\ focus' = FALSE
    /\ UNCHANGED <<rigSide, queue, phase, box, first, calls>>

\* togglePTT() and OnTimer(), which look at isConnected().
AskPtt(on) ==
    /\ Held /\ phase # "closing" /\ SaysConnected(TRUE)
    /\ Room
    /\ Asked(<<Task("ptt", on)>>)
    /\ UNCHANGED <<rigSide, session, first, calls>>

Poll ==
    /\ phase = "on" /\ SaysConnected(TRUE)
    /\ Room
    /\ Asked(<<Task("request", None)>>)
    /\ UNCHANGED <<rigSide, session, first, calls>>

-----------------------------------------------------------------------------
(* On and Off, and the operator at the radio.                               *)

\* OpenHamlibRig().  The On thread has waited for functions of its own to run
\* on the UI thread, so the reports queued before them have been shown.
On ==
    /\ phase = "off" /\ calls = <<>>
    /\ phase' = "on"
    /\ queue' = <<Task("connect", None)>>
    /\ first' = FALSE
    /\ UNCHANGED <<rigSide, box, focus, calls>>

\* performFreeDVOff_(): "always end with PTT in rx state".
OffUnkeys ==
    /\ phase = "on"
    /\ \/ SaysConnected(TRUE) /\ phase' = "stopping" /\ Asked(<<Task("ptt", FALSE)>>)
       \/ SaysConnected(FALSE) /\ phase' = "closing" /\ UNCHANGED queue
    /\ UNCHANGED <<rigSide, box, focus, first, calls>>

OffDisconnects ==
    /\ phase = "stopping"
    /\ phase' = "closing"
    /\ Asked(<<Task("disconnect", None)>>)
    /\ UNCHANGED <<rigSide, box, focus, first, calls>>

\* Both pointers are reset, and with the second one the controller goes.
OffReleases ==
    /\ phase = "closing"
    /\ phase' = "destroying"
    /\ \E yes \in BOOLEAN :
          /\ SaysConnected(yes)
          /\ Asked((IF yes THEN <<Task("disconnect", None)>> ELSE <<>>)
                   \o <<Task("last", None)>>)
    /\ UNCHANGED <<rigSide, box, focus, first, calls>>

Destroyed ==
    /\ phase = "draining" /\ queue = <<>>
    /\ phase' = "off"
    /\ ctl' = NewController
    /\ UNCHANGED <<radio, left, doubt, before, sound, queue, box, focus, first, calls>>

Off == OffUnkeys \/ OffDisconnects \/ OffReleases \/ Destroyed

Turn ==
    /\ left.changes > 0
    /\ left' = [left EXCEPT !.changes = @ - 1]
    /\ sound' = FALSE
    /\ \/ \E f \in Freqs \ {radio.freq} : radio' = [radio EXCEPT !.freq = f]
       \/ \E m \in Modes \ {radio.mode} : radio' = [radio EXCEPT !.mode = m]
    /\ UNCHANGED <<ctl, doubt, before, queue, session, first, calls>>

Next ==
    \/ Work
    \/ ShowReport \/ SetFocus \/ KillFocus
    \/ \E f \in Freqs : Enter(f)
    \/ \E on \in BOOLEAN : AskPtt(on)
    \/ Poll \/ On \/ Off \/ Turn

Spec == Init /\ [][Next]_vars

-----------------------------------------------------------------------------
Arguments == [freq |-> Freqs, mode |-> Modes, ptt |-> BOOLEAN, connect |-> {None},
              disconnect |-> {None}, request |-> {None}, last |-> {None}]
Tasks == UNION {{Task(n, a) : a \in Arguments[n]} : n \in DOMAIN Arguments}

\* Every variable is in its range.
TypeOK ==
    /\ radio \in [keyed : BOOLEAN, freq : Freqs, mode : Modes]
    /\ ctl \in [open : BOOLEAN, pttSet : BOOLEAN, freq : Freqs \cup {None},
                mode : Modes \cup {None}, origFreq : Freqs \cup {None},
                origMode : Modes \cup {None}]
    /\ queue \in Seq(Tasks) /\ calls \in Seq(Freqs)
    /\ phase \in {"off", "on", "stopping", "closing", "destroying", "draining"}
    /\ box \in Freqs /\ focus \in BOOLEAN /\ first \in BOOLEAN
    /\ doubt \in BOOLEAN /\ sound \in BOOLEAN
    /\ left \in [faults : 0..MaxFaults, changes : 0..MaxChanges]
    /\ before \in [freq : Freqs, mode : Modes]

\* Unless its last PTT command failed, the controller knows whether the radio
\* is keyed, whatever settings were changed during the transmission.
KeyedAsKnown == ~doubt => radio.keyed = ctl.pttSet

\* Off leaves the radio in receive, whatever was queued before it and whatever
\* the UI thread adds meanwhile, unless the last PTT command failed; and it gives
\* the radio back as it was found, if no command failed and nobody turned its
\* knobs.
OffRestores ==
    phase = "off" =>
        /\ ~doubt => ~radio.keyed
        /\ sound => radio.freq = before.freq /\ radio.mode = before.mode
=============================================================================
