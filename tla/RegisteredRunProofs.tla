------------------------- MODULE RegisteredRunProofs -------------------------
(***************************************************************************)
(* What the registry says of a run is proved here for any number of        *)
(* signals, and for a disk that may refuse any write.                      *)
(***************************************************************************)
EXTENDS RegisteredRun, TLAPS

(***************************************************************************)
(* The inductive invariant.                                                *)
(***************************************************************************)
InMain ==
    {"registering", "half_registered", "program", "initialising", "attached", "half_attached",
     "working"}
Undecided == {"ended", "deciding", "assigning"}
Settled == {"cancelling", "recording", "shutdown", "closing", "closed"}
Recorded == {"shutdown", "closing", "closed"}
Closing == {"closing", "closed"}

Typed ==
    /\ pc \in InMain \/ pc \in Undecided \/ pc \in Settled \/ pc = "gone"
    /\ handler \in [Signals -> {"default", "terminal", "ray", "killed"}]
    /\ frame \in [kind : {"none", "terminal", "killed"}, signum : Signals \cup {NoSignal},
                  step : {"latch", "record", "last"}]
    /\ latch \in Signals \cup {NoSignal}
    /\ outcome \in Nat
    /\ record.state \in {"running", "done", "failed", "killed"} /\ record.code \in Nat
    /\ exit \in [by : {"none", "status", "signal", "SIGKILL", "abort"}, n : Nat]

\* A handler's frame says how far it got; only the latch's own handler sets it
Framed ==
    /\ frame.kind = "none" => frame = NoFrame
    /\ frame.kind = "terminal" =>
          /\ frame.signum \in Signals /\ handler[frame.signum] = "terminal"
          /\ frame.step \in {"record", "last"}
          /\ frame.step = "last" /\ ~unwritten =>
                record = [state |-> "killed", code |-> 128 + frame.signum, fingerprint |-> FALSE]
    /\ frame.kind = "killed" =>
          /\ frame.signum \in Signals /\ ~decided
          /\ IF frame.step = "latch" THEN latch = NoSignal ELSE latch = frame.signum

\* The decision is taken once, for the signal or for main.py
Decision ==
    /\ decided => latch = NoSignal /\ pc \notin InMain /\ pc \notin Undecided
    /\ pc = "assigning" /\ frame = NoFrame => latch = NoSignal
    /\ record.state \in {"done", "failed"} => decided

\* Until main.py has ended, its place says which of the handlers is ours, and an
\* undisturbed main thread has nothing behind it
Beginning ==
    /\ pc \in InMain =>
          /\ handler[SIGTERM] = "killed" <=> pc \in {"half_attached", "working"}
          /\ handler[SIGINT] = "killed" <=> pc = "working"
          /\ marker = {}
    /\ pc \in InMain /\ frame = NoFrame => latch = NoSignal /\ record.state = "running"

KilledRecord == record.state = "killed" /\ record.code = 128 + latch

\* What has become of a run whose handlers are armed
RecordInv ==
    /\ latch = NoSignal /\ ~decided => record.state = "running"
    /\ frame.kind = "killed" /\ frame.step # "last" => record.state = "running"
    /\ latch # NoSignal => record.state = "running" \/ KilledRecord
    /\ /\ pc # "gone" /\ latch # NoSignal /\ ~unwritten
       /\ frame.kind = "killed" => frame.step = "last"
       => KilledRecord

\* How far an armed run is from main.py's end to the exit, and what it has done by then
ProgressInv ==
    /\ pc \in Undecided /\ latch = NoSignal => outcome \in OwnOutcomes
    /\ decided => outcome \in OwnOutcomes
    /\ pc \in Settled => frame = NoFrame /\ (decided \/ latch # NoSignal)
    /\ decided /\ pc \in {"cancelling", "recording"} => record.state = "running"
    /\ decided /\ ~unwritten /\ pc \in Recorded =>
          record = [state |-> terminal_state(outcome), code |-> outcome, fingerprint |-> TRUE]
    /\ latch # NoSignal /\ pc \in Closing => outcome = 128 + latch
    /\ pc # "closed" => marker = {}
    /\ pc = "closed" => marker = {outcome}

\* What the registry would have to say of an exit with status n by now
Unseen(n) ==
    \/ n = SIGTERM /\ handler[SIGTERM] = "ray"
    \/ n = 128 + SIGINT /\ handler[SIGINT] = "default"
StateOf(n) ==
    IF latch # NoSignal \/ n = SIGTERM THEN "killed" ELSE IF n = 0 THEN "done" ELSE "failed"
Told(n) ==
    /\ record.code = n
    /\ record.state = StateOf(n)
    /\ IF latch # NoSignal THEN n = 128 + latch ELSE record.fingerprint

\* Of any run: which handlers can be together, and that a latch means the driver's own
Handled ==
    /\ pc \in {"registering", "half_registered"} => handler[SIGTERM] \in {"default", "terminal"}
    /\ pc \in {"program", "initialising", "attached", "half_attached"} =>
          handler[SIGINT] = "terminal"
    /\ handler[SIGINT] # "ray"
    /\ handler[SIGINT] = "default" => handler[SIGTERM] \in {"default", "terminal"}
    /\ handler[SIGINT] = "killed" => handler[SIGTERM] = "killed"
    /\ latch # NoSignal \/ frame.kind = "killed" => handler[SIGTERM] = "killed"

\* Of any run, armed or not, while every write has succeeded and no handler is running:
\* from main.py's end to the exit, the record is the one that the next step relies on
AnyRun ==
    /\ pc \in {"cancelling", "recording", "shutdown"} => decided \/ latch # NoSignal
    /\ frame.kind = "killed" /\ frame.step = "last" /\ ~unwritten => KilledRecord
    /\ frame.kind = "none" /\ ~unwritten =>
          /\ pc # "gone" /\ latch # NoSignal => KilledRecord
          /\ /\ pc \in Undecided \/ (decided /\ pc \in {"cancelling", "recording"})
             /\ latch = NoSignal /\ record.state # "running"
             => outcome = SIGTERM /\ record.state = "killed"
          /\ decided /\ pc = "shutdown" =>
                record = [state |-> terminal_state(outcome), code |-> outcome,
                          fingerprint |-> TRUE]
          /\ pc \in Closing => Told(outcome) \/ Unseen(outcome)

\* How the process ended
Ended ==
    /\ pc = "gone" <=> exit.by # "none"
    /\ pc = "gone" => frame = NoFrame
    /\ RecordTellsExit
    /\ exit.by = "status" /\ Armed => (latch # NoSignal => exit.n = 128 + latch) /\ marker = {exit.n}

RunInv ==
    /\ Typed /\ Framed /\ Decision /\ Beginning /\ Handled /\ AnyRun
    /\ Armed => RecordInv /\ (pc # "gone" => ProgressInv)
    /\ Ended

-----------------------------------------------------------------------------
(***************************************************************************)
(* Every step keeps the invariant: one lemma for each action, one step in  *)
(* it for each conjunct.                                                   *)
(***************************************************************************)
USE DEF InMain, InProgram, Undecided, Settled, Recorded, Closing, Signals, SIGINT, SIGTERM,
        NoSignal, NoFrame, OwnOutcomes, disk

\* registering and attaching: the place in main.py says which handler is whose
LEMMA InstallHandlersKeeps == ASSUME RunInv, InstallHandlers PROVE RunInv'
<1> USE DEF RunInv, InstallHandlers
<1>1. Typed'
  BY DEF Typed, Undisturbed, Goto, Install
<1>2. Framed'
  BY DEF Framed, Undisturbed, Goto, Install
<1>3. Decision'
  BY DEF Decision, Undisturbed, Goto, Install
<1>4. Beginning'
  BY DEF Beginning, Typed, Undisturbed, Goto, Install
<1>5. (Armed => RecordInv /\ (pc # "gone" => ProgressInv))'
  <2>1. frame = NoFrame /\ frame' = NoFrame /\ pc \in InMain /\ pc' \in InMain
    BY DEF Undisturbed, Goto
  <2>2. latch' = NoSignal /\ record'.state = "running"
    BY <2>1 DEF Beginning
  <2>3. Armed' => pc' = "working"
    BY <1>4, <2>1 DEF Beginning, Armed
  <2>4. SUFFICES ASSUME Armed' PROVE RecordInv' /\ ProgressInv'
    OBVIOUS
  <2>5. pc' = "working" /\ ~decided' /\ marker' = {}
    BY <2>1, <2>3, <2>4 DEF Beginning, Decision
  <2> QED
    BY <2>1, <2>2, <2>5 DEF RecordInv, ProgressInv
<1>6. Ended'
  BY DEF UnseenExit, Ended, RecordTellsExit, Undisturbed, Goto, Install
<1>7. Handled'
  BY DEF Handled, Typed, Framed, Beginning, Undisturbed, Goto, Install
<1>8. AnyRun'
  BY DEF AnyRun, Typed, Framed, Decision, Handled, Beginning, KilledRecord, Told, Unseen, StateOf,
         terminal_state, Undisturbed, Goto, Install
<1> QED
  BY <1>1, <1>2, <1>3, <1>4, <1>5, <1>6, <1>7, <1>8

\* ray.init takes SIGTERM away from terminal, and the driver's handlers are not there yet
LEMMA RayInitKeeps == ASSUME RunInv, RayInit PROVE RunInv'
<1> USE DEF RunInv, RayInit
<1>1. Typed'
  BY DEF Typed, Undisturbed, Goto, Install
<1>2. Framed'
  BY DEF Framed, Undisturbed, Goto, Install
<1>3. Decision'
  BY DEF Decision, Undisturbed, Goto, Install
<1>4. Beginning'
  BY DEF Beginning, Typed, Undisturbed, Goto, Install
<1>5. (Armed => RecordInv /\ (pc # "gone" => ProgressInv))'
  BY DEF Beginning, Decision, ProgressInv, RecordInv, Undisturbed, Goto, Install
<1>6. Ended'
  BY DEF UnseenExit, Ended, RecordTellsExit, Undisturbed, Goto, Install
<1>7. Handled'
  BY DEF Handled, Typed, Framed, Beginning, Undisturbed, Goto, Install
<1>8. AnyRun'
  BY DEF AnyRun, Typed, Framed, Decision, Handled, Beginning, KilledRecord, Told, Unseen, StateOf,
         terminal_state, Undisturbed, Goto, Install
<1> QED
  BY <1>1, <1>2, <1>3, <1>4, <1>5, <1>6, <1>7, <1>8

\* main.py ends with an outcome of its own
LEMMA ProgramEndsKeeps == ASSUME RunInv, ProgramEnds PROVE RunInv'
<1> USE DEF RunInv, ProgramEnds
<1>1. Typed'
  BY DEF Typed, Undisturbed, Goto
<1>2. Framed'
  BY DEF Framed, Undisturbed, Goto
<1>3. Decision'
  BY DEF Decision, Undisturbed, Goto
<1>4. Beginning'
  BY DEF Beginning, Undisturbed, Goto
<1>5. (Armed => RecordInv /\ (pc # "gone" => ProgressInv))'
  BY DEF Armed, KilledRecord, ProgressInv, RecordInv, Undisturbed, Goto
<1>6. Ended'
  BY DEF UnseenExit, Ended, RecordTellsExit, Undisturbed, Goto
<1>7. Handled'
  BY DEF Handled, Typed, Framed, Beginning, Undisturbed, Goto
<1>8. AnyRun'
  BY DEF AnyRun, Typed, Framed, Decision, Handled, Beginning, KilledRecord, Told, Unseen, StateOf,
         terminal_state, Undisturbed, Goto
<1> QED
  BY <1>1, <1>2, <1>3, <1>4, <1>5, <1>6, <1>7, <1>8

\* finish_after_exec is called; nothing is decided
LEMMA EnterFinishKeeps == ASSUME RunInv, EnterFinish PROVE RunInv'
<1> USE DEF RunInv, EnterFinish
<1>1. Typed'
  BY DEF Typed, Undisturbed, Goto
<1>2. Framed'
  BY DEF Framed, Undisturbed, Goto
<1>3. Decision'
  BY DEF Decision, Undisturbed, Goto
<1>4. Beginning'
  BY DEF Beginning, Undisturbed, Goto
<1>5. (Armed => RecordInv /\ (pc # "gone" => ProgressInv))'
  BY DEF Armed, KilledRecord, ProgressInv, RecordInv, Undisturbed, Goto
<1>6. Ended'
  BY DEF UnseenExit, Ended, RecordTellsExit, Undisturbed, Goto
<1>7. Handled'
  BY DEF Handled, Typed, Framed, Beginning, Undisturbed, Goto
<1>8. AnyRun'
  BY DEF AnyRun, Typed, Framed, Decision, Handled, Beginning, KilledRecord, Told, Unseen, StateOf,
         terminal_state, Undisturbed, Goto
<1> QED
  BY <1>1, <1>2, <1>3, <1>4, <1>5, <1>6, <1>7, <1>8

\* decide: the latch that is empty now stays empty, because decided is set first
LEMMA DecideKeeps == ASSUME RunInv, Decide PROVE RunInv'
<1> USE DEF RunInv, Decide
<1>1. Typed'
  BY DEF Typed, Undisturbed, Goto
<1>2. Framed'
  BY DEF Framed, Undisturbed, Goto
<1>3. Decision'
  BY DEF Decision, Undisturbed, Goto
<1>4. Beginning'
  BY DEF Beginning, Undisturbed, Goto
<1>5. (Armed => RecordInv /\ (pc # "gone" => ProgressInv))'
  BY DEF Armed, Decision, KilledRecord, ProgressInv, RecordInv, Undisturbed, Goto
<1>6. Ended'
  BY DEF UnseenExit, Ended, RecordTellsExit, Undisturbed, Goto
<1>7. Handled'
  BY DEF Handled, Typed, Framed, Beginning, Undisturbed, Goto
<1>8. AnyRun'
  BY DEF AnyRun, Typed, Framed, Decision, Handled, Beginning, KilledRecord, Told, Unseen, StateOf,
         terminal_state, Undisturbed, Goto
<1> QED
  BY <1>1, <1>2, <1>3, <1>4, <1>5, <1>6, <1>7, <1>8

\* nothing but the alarm changes
LEMMA CancelAlarmKeeps == ASSUME RunInv, CancelAlarm PROVE RunInv'
<1> USE DEF RunInv, CancelAlarm
<1>1. Typed'
  BY DEF Typed, Undisturbed, Goto
<1>2. Framed'
  BY DEF Framed, Undisturbed, Goto
<1>3. Decision'
  BY DEF Decision, Undisturbed, Goto
<1>4. Beginning'
  BY DEF Beginning, Undisturbed, Goto
<1>5. (Armed => RecordInv /\ (pc # "gone" => ProgressInv))'
  BY DEF Armed, KilledRecord, ProgressInv, RecordInv, Undisturbed, Goto
<1>6. Ended'
  BY DEF UnseenExit, Ended, RecordTellsExit, Undisturbed, Goto
<1>7. Handled'
  BY DEF Handled, Typed, Framed, Beginning, Undisturbed, Goto
<1>8. AnyRun'
  BY DEF AnyRun, Typed, Framed, Decision, Handled, Beginning, KilledRecord, Told, Unseen, StateOf,
         terminal_state, Undisturbed, Goto
<1> QED
  BY <1>1, <1>2, <1>3, <1>4, <1>5, <1>6, <1>7, <1>8

\* the record of the end, which may overwrite the one of the signal
LEMMA RecordEndKeeps == ASSUME RunInv, RecordEnd PROVE RunInv'
<1> USE DEF RunInv, RecordEnd
<1>1. Typed'
  BY DEF Typed, terminal_state, Undisturbed, Goto, CanWrite, CannotWrite, Raise, KilledCode
<1>2. Framed'
  BY DEF Framed, Undisturbed, Goto, CanWrite, CannotWrite, Raise, KilledCode
<1>3. Decision'
  BY DEF Decision, Undisturbed, Goto, CanWrite, CannotWrite, Raise, KilledCode
<1>4. Beginning'
  BY DEF Beginning, Undisturbed, Goto, CanWrite, CannotWrite, Raise, KilledCode
<1>5. (Armed => RecordInv /\ (pc # "gone" => ProgressInv))'
  BY DEF Armed, Decision, KilledRecord, ProgressInv, RecordInv, Undisturbed, Goto, CanWrite,
         CannotWrite, Raise, KilledCode
<1>6. Ended'
  BY DEF UnseenExit, Ended, RecordTellsExit, Undisturbed, Goto, CanWrite, CannotWrite, Raise, KilledCode
<1>7. Handled'
  BY DEF Handled, Typed, Framed, Beginning, Undisturbed, Goto, CanWrite, CannotWrite, Raise, KilledCode
<1>8. AnyRun'
  BY DEF AnyRun, Typed, Framed, Decision, Handled, Beginning, KilledRecord, Told, Unseen, StateOf,
         terminal_state, Undisturbed, Goto, CanWrite, CannotWrite, Raise, KilledCode
<1> QED
  BY <1>1, <1>2, <1>3, <1>4, <1>5, <1>6, <1>7, <1>8

\* the outcome becomes the signal's if the signal was decided for
LEMMA ShutDownKeeps == ASSUME RunInv, ShutDown PROVE RunInv'
<1> USE DEF RunInv, ShutDown
<1>1. Typed'
  BY DEF Typed, Undisturbed, Goto, DriverOutcome, KilledCode
<1>2. Framed'
  BY DEF Framed, Undisturbed, Goto, DriverOutcome, KilledCode
<1>3. Decision'
  BY DEF Decision, Undisturbed, Goto, DriverOutcome, KilledCode
<1>4. Beginning'
  BY DEF Beginning, Undisturbed, Goto, DriverOutcome, KilledCode
<1>5. (Armed => RecordInv /\ (pc # "gone" => ProgressInv))'
  BY DEF Armed, Decision, KilledRecord, ProgressInv, RecordInv, Undisturbed, Goto,
         DriverOutcome, KilledCode
<1>6. Ended'
  BY DEF UnseenExit, Ended, RecordTellsExit, Undisturbed, Goto, DriverOutcome, KilledCode
<1>7. Handled'
  BY DEF Handled, Typed, Framed, Beginning, Undisturbed, Goto, DriverOutcome, KilledCode
<1>8. AnyRun'
  BY DEF AnyRun, Typed, Framed, Decision, Handled, Beginning, KilledRecord, Told, Unseen, StateOf,
         terminal_state, Undisturbed, Goto, DriverOutcome, KilledCode
<1> QED
  BY <1>1, <1>2, <1>3, <1>4, <1>5, <1>6, <1>7, <1>8

\* the marker names the outcome that the process then exits with
LEMMA PrintMarkerKeeps == ASSUME RunInv, PrintMarker PROVE RunInv'
<1> USE DEF RunInv, PrintMarker
<1>1. Typed'
  BY DEF Typed, Undisturbed, Goto
<1>2. Framed'
  BY DEF Framed, Undisturbed, Goto
<1>3. Decision'
  BY DEF Decision, Undisturbed, Goto
<1>4. Beginning'
  BY DEF Beginning, Undisturbed, Goto
<1>5. (Armed => RecordInv /\ (pc # "gone" => ProgressInv))'
  BY DEF Armed, KilledRecord, ProgressInv, RecordInv, Undisturbed, Goto
<1>6. Ended'
  BY DEF UnseenExit, Ended, RecordTellsExit, Undisturbed, Goto
<1>7. Handled'
  BY DEF Handled, Typed, Framed, Beginning, Undisturbed, Goto
<1>8. AnyRun'
  BY DEF AnyRun, Typed, Framed, Decision, Handled, Beginning, KilledRecord, Told, Unseen, StateOf,
         terminal_state, Undisturbed, Goto
<1> QED
  BY <1>1, <1>2, <1>3, <1>4, <1>5, <1>6, <1>7, <1>8

\* the exit status is the outcome
LEMMA LeaveKeeps == ASSUME RunInv, Leave PROVE RunInv'
<1> USE DEF RunInv, Leave
<1>1. Typed'
  BY DEF Typed, Undisturbed, Die
<1>2. Framed'
  BY DEF Framed, Undisturbed, Die
<1>3. Decision'
  BY DEF Decision, Undisturbed, Die
<1>4. Beginning'
  BY DEF Beginning, Undisturbed, Die
<1>5. (Armed => RecordInv /\ (pc # "gone" => ProgressInv))'
  BY DEF Armed, KilledRecord, RecordInv, Undisturbed, Die
<1>6. Ended'
  <2>1. pc = "closed" /\ frame = NoFrame /\ pc' = "gone" /\ frame' = NoFrame
    BY DEF Undisturbed, Die
  <2>2. exit' = [by |-> "status", n |-> outcome]
    BY DEF Die
  <2>3. ~unwritten => Told(outcome) \/ Unseen(outcome)
    BY <2>1 DEF AnyRun
  <2>4. RecordTellsExit'
    BY <2>2, <2>3 DEF RecordTellsExit, Told, StateOf, Unseen, UnseenExit, KilledCode
  <2>5. (exit.by = "status" /\ Armed =>
            (latch # NoSignal => exit.n = 128 + latch) /\ marker = {exit.n})'
    BY <2>1, <2>2 DEF Armed, ProgressInv
  <2> QED
    BY <2>1, <2>2, <2>4, <2>5 DEF Ended
<1>7. Handled'
  BY DEF Handled, Typed, Framed, Beginning, Undisturbed, Die
<1>8. AnyRun'
  BY DEF AnyRun, Typed, Framed, Decision, Handled, Beginning, KilledRecord, Told, Unseen, StateOf,
         terminal_state, Undisturbed, Die
<1> QED
  BY <1>1, <1>2, <1>3, <1>4, <1>5, <1>6, <1>7, <1>8

\* terminal runs only where the driver has not installed its own handler
LEMMA TerminalKeeps == ASSUME RunInv, Terminal PROVE RunInv'
<1> USE DEF RunInv, Terminal
<1>1. Typed'
  BY DEF Typed, CanWrite, CannotWrite, Raise, Swallow, Goto, DriverOutcome, Die, Enter, KilledCode
<1>2. Framed'
  BY DEF Framed, CanWrite, CannotWrite, Raise, Swallow, Goto, DriverOutcome, Die, Enter, KilledCode
<1>3. Decision'
  BY DEF Decision, CanWrite, CannotWrite, Raise, Swallow, Goto, DriverOutcome, Die, Enter, KilledCode
<1>4. Beginning'
  BY DEF Beginning, CanWrite, CannotWrite, Raise, Swallow, Goto, DriverOutcome, Die, Enter, KilledCode
<1>5. (Armed => RecordInv /\ (pc # "gone" => ProgressInv))'
  BY DEF Armed, Framed, CanWrite, CannotWrite, Raise, Swallow, Goto, DriverOutcome, Die, Enter, KilledCode
<1>6. Ended'
  BY DEF UnseenExit, Ended, Framed, RecordTellsExit, CanWrite, CannotWrite, Raise, Swallow, Goto, DriverOutcome, Die, Enter,
         KilledCode
<1>7. Handled'
  BY DEF Handled, Typed, Framed, Beginning, CanWrite, CannotWrite, Raise, Swallow, Goto, DriverOutcome, Die, Enter, KilledCode
<1>8. AnyRun'
  BY DEF AnyRun, Typed, Framed, Decision, Handled, Beginning, KilledRecord, Told, Unseen, StateOf,
         terminal_state, CanWrite, CannotWrite, Raise, Swallow, Goto, DriverOutcome, Die, Enter, KilledCode
<1> QED
  BY <1>1, <1>2, <1>3, <1>4, <1>5, <1>6, <1>7, <1>8

\* the handler latches, records and raises
LEMMA KilledKeeps == ASSUME RunInv, Killed PROVE RunInv'
<1> USE DEF RunInv, Killed
<1>1. Typed'
  BY DEF Typed, CanWrite, CannotWrite, Raise, Enter, KilledCode, Remember
<1>2. Framed'
  BY DEF Framed, CanWrite, CannotWrite, Raise, Enter, KilledCode, Remember
<1>3. Decision'
  BY DEF Decision, Framed, CanWrite, CannotWrite, Raise, Enter, KilledCode, Remember
<1>4. Beginning'
  BY DEF Beginning, CanWrite, CannotWrite, Raise, Enter, KilledCode, Remember
<1>5. (Armed => RecordInv /\ (pc # "gone" => ProgressInv))'
  BY DEF Armed, Ended, Framed, KilledRecord, ProgressInv, RecordInv, CanWrite, CannotWrite,
         Raise, Enter, KilledCode, Remember
<1>6. Ended'
  BY DEF UnseenExit, Ended, RecordTellsExit, CanWrite, CannotWrite, Raise, Enter, KilledCode, Remember
<1>7. Handled'
  BY DEF Handled, Typed, Framed, Beginning, CanWrite, CannotWrite, Raise, Enter, KilledCode, Remember
<1>8. AnyRun'
  BY DEF AnyRun, Typed, Framed, Decision, Handled, Beginning, KilledRecord, Told, Unseen, StateOf,
         terminal_state, CanWrite, CannotWrite, Raise, Enter, KilledCode, Remember
<1> QED
  BY <1>1, <1>2, <1>3, <1>4, <1>5, <1>6, <1>7, <1>8

\* no handler sees it
LEMMA SIGKILLKeeps == ASSUME RunInv, SIGKILL PROVE RunInv'
<1> USE DEF RunInv, SIGKILL
<1>1. Typed'
  BY DEF Typed, Die
<1>2. Framed'
  BY DEF Framed, Die
<1>3. Decision'
  BY DEF Decision, Die
<1>4. Beginning'
  BY DEF Beginning, Die
<1>5. (Armed => RecordInv /\ (pc # "gone" => ProgressInv))'
  BY DEF Armed, KilledRecord, RecordInv, Die
<1>6. Ended'
  BY DEF UnseenExit, Ended, RecordTellsExit, Die
<1>7. Handled'
  BY DEF Handled, Typed, Framed, Beginning, Die
<1>8. AnyRun'
  BY DEF AnyRun, Typed, Framed, Decision, Handled, Beginning, KilledRecord, Told, Unseen, StateOf,
         terminal_state, Die
<1> QED
  BY <1>1, <1>2, <1>3, <1>4, <1>5, <1>6, <1>7, <1>8

\* no handler sees it
LEMMA AbortKeeps == ASSUME RunInv, Abort PROVE RunInv'
<1> USE DEF RunInv, Abort
<1>1. Typed'
  BY DEF Typed, Die
<1>2. Framed'
  BY DEF Framed, Die
<1>3. Decision'
  BY DEF Decision, Die
<1>4. Beginning'
  BY DEF Beginning, Die
<1>5. (Armed => RecordInv /\ (pc # "gone" => ProgressInv))'
  BY DEF Armed, KilledRecord, RecordInv, Die
<1>6. Ended'
  BY DEF UnseenExit, Ended, RecordTellsExit, Die
<1>7. Handled'
  BY DEF Handled, Typed, Framed, Beginning, Die
<1>8. AnyRun'
  BY DEF AnyRun, Typed, Framed, Decision, Handled, Beginning, KilledRecord, Told, Unseen, StateOf,
         terminal_state, Die
<1> QED
  BY <1>1, <1>2, <1>3, <1>4, <1>5, <1>6, <1>7, <1>8

\* a signal enters the handler that is installed, or is only noted
LEMMA DeliverKeeps == ASSUME NEW s \in Signals, RunInv, Deliver(s) PROVE RunInv'
<1> USE DEF RunInv, Deliver
<1>1. Typed'
  BY DEF Typed, Raise, Die, Enter, KilledHandler, KilledCode
<1>2. Framed'
  BY DEF Framed, Raise, Die, Enter, KilledHandler, KilledCode
<1>3. Decision'
  BY DEF Decision, Raise, Die, Enter, KilledHandler, KilledCode
<1>4. Beginning'
  BY DEF Beginning, Raise, Die, Enter, KilledHandler, KilledCode
<1>5. (Armed => RecordInv /\ (pc # "gone" => ProgressInv))'
  BY DEF Armed, KilledRecord, ProgressInv, RecordInv, Raise, Die, Enter, KilledHandler,
         KilledCode
<1>6. Ended'
  BY DEF UnseenExit, Ended, RecordTellsExit, Raise, Die, Enter, KilledHandler, KilledCode
<1>7. Handled'
  BY DEF Handled, Typed, Framed, Beginning, Raise, Die, Enter, KilledHandler, KilledCode
<1>8. AnyRun'
  <2>1. CASE handler[s] \in {"terminal", "killed"}
    BY <2>1 DEF AnyRun, Typed, KilledRecord, Told, Unseen, StateOf, Enter, KilledHandler
  <2>2. CASE handler[s] = "ray"
    <3>1. s = SIGTERM /\ latch = NoSignal /\ frame.kind # "killed"
      BY <2>2 DEF Handled, Typed
    <3>2. frame' = NoFrame /\ outcome' = SIGTERM /\ pc' \in {"ended"} \cup Closing
      BY <2>2, <3>1 DEF Raise
    <3>3. pc' = "ended" => pc \in InMain /\ ~decided /\ record.state \in {"running", "killed"}
      BY <2>2, <3>1 DEF Raise, Decision, Typed
    <3> QED
      BY <2>2, <3>1, <3>2, <3>3 DEF AnyRun, Unseen
  <2>3. CASE handler[s] = "default" /\ s = SIGTERM
    BY <2>3 DEF AnyRun, Die
  <2>4. CASE handler[s] = "default" /\ s = SIGINT
    <3>1. latch = NoSignal /\ pc \notin InProgram
      BY <2>4 DEF Handled, Beginning
    <3>2. frame' = NoFrame /\ outcome' = 128 + SIGINT /\ pc' \in Closing
      BY <2>4, <3>1 DEF Raise, KilledCode
    <3> QED
      BY <2>4, <3>1, <3>2 DEF AnyRun, Unseen
  <2> QED
    BY <2>1, <2>2, <2>3, <2>4 DEF Typed
<1> QED
  BY <1>1, <1>2, <1>3, <1>4, <1>5, <1>6, <1>7, <1>8

-----------------------------------------------------------------------------
LEMMA InitHolds == Init => RunInv
<1> SUFFICES ASSUME Init PROVE RunInv
  OBVIOUS
<1>1. ~Armed /\ handler[SIGTERM] = "default" /\ handler[SIGINT] = "default"
  BY DEF Init, Armed
<1> QED
  BY <1>1 DEF Init, RunInv, Typed, Framed, Decision, Beginning, Handled, AnyRun, Ended,
         RecordTellsExit

LEMMA StutterKeeps == RunInv /\ UNCHANGED vars => RunInv'
BY DEF RunInv, Typed, Framed, Decision, Beginning, Handled, AnyRun, Told, Unseen, StateOf, Armed,
       RecordInv, ProgressInv, KilledRecord, Ended, RecordTellsExit, UnseenExit, terminal_state, vars

(***************************************************************************)
(* The inductive invariant holds of every run, however many signals reach  *)
(* it and whichever writes of status.json fail.                            *)
(***************************************************************************)
THEOREM RunInvariant == Spec => []RunInv
<1>1. RunInv /\ [Next]_vars => RunInv'
  <2> SUFFICES ASSUME RunInv, [Next]_vars PROVE RunInv'
    OBVIOUS
  <2>1. CASE MainThread
    BY <2>1, InstallHandlersKeeps, RayInitKeeps, ProgramEndsKeeps, EnterFinishKeeps, DecideKeeps,
       CancelAlarmKeeps, RecordEndKeeps, ShutDownKeeps, PrintMarkerKeeps, LeaveKeeps
       DEF MainThread
  <2>2. CASE Terminal \/ Killed
    BY <2>2, TerminalKeeps, KilledKeeps
  <2>3. CASE \E s \in Signals : Deliver(s)
    BY <2>3, DeliverKeeps
  <2>4. CASE SIGKILL \/ Abort
    BY <2>4, SIGKILLKeeps, AbortKeeps
  <2>5. CASE UNCHANGED vars
    BY <2>5, StutterKeeps
  <2> QED
    BY <2>1, <2>2, <2>3, <2>4, <2>5 DEF Next, Process
<1> QED
  BY InitHolds, <1>1, PTL DEF Spec

(***************************************************************************)
(* The registry and the exit status tell the same story (finish_after_exec *)
(* and the handlers), in a run that attached to Ray and in one that did    *)
(* not: whatever signals come, a run that exited with a status and could   *)
(* write status.json is recorded with that status, unless the exit is one  *)
(* of UnseenExit's: 15 under Ray's own handler, 130 before registration is *)
(* over.                                                                   *)
(***************************************************************************)
THEOREM RecordTellsExitAlways == Spec => []RecordTellsExit
<1>1. RunInv => RecordTellsExit
  BY DEF RunInv, Ended
<1> QED
  BY RunInvariant, <1>1, PTL

(***************************************************************************)
(* A run stopped by the driver's handler is never recorded as done or      *)
(* failed, also if the disk refuses; and once both of its handlers are in  *)
(* place, it exits with the signal's code and prints that code alone.      *)
(***************************************************************************)
THEOREM SignalDecidesExitAlways == Spec => []SignalDecidesExit
<1>1. RunInv => SignalDecidesExit
  BY DEF RunInv, Typed, Decision, Ended, SignalDecidesExit
<1> QED
  BY RunInvariant, <1>1, PTL

(***************************************************************************)
(* What is recorded once of a signal or of an outcome is not written over, *)
(* except by a death in a run that did not attach.  The record is written  *)
(* in three places: by terminal, which an armed run does not have and      *)
(* which writes killed; by the handler, which comes first; and at the end, *)
(* where decide has seen the latch, and where a run that did not attach    *)
(* has either recorded nothing or a death by SIGTERM, which RecordEnd      *)
(* records again.                                                          *)
(***************************************************************************)
THEOREM RecordStandsAlways == Spec => RecordStands
<1> DEFINE Kept == /\ record'.state = record.state /\ record'.code = record.code
                   /\ record.fingerprint => record'.fingerprint
           Stands == record.state # "running" =>
                        Kept \/ (~Armed /\ (record'.state = "killed" \/ unwritten))
<1>1. RunInv /\ [Next]_vars => Stands
  <2> SUFFICES ASSUME RunInv, [Next]_vars, record.state # "running"
               PROVE  Kept \/ (~Armed /\ (record'.state = "killed" \/ unwritten))
    OBVIOUS
  <2>1. Typed /\ Framed /\ Decision /\ AnyRun
    BY DEF RunInv
  <2>2. Armed => RecordInv /\ (pc # "gone" => ProgressInv)
    BY DEF RunInv
  <2>3. CASE RecordEnd
    <3>1. pc = "recording" /\ frame = NoFrame
      BY <2>3 DEF RecordEnd, Undisturbed
    <3>2. CASE Armed
      <4>1. ~decided /\ latch # NoSignal /\ KilledRecord
        BY <2>2, <3>1, <3>2 DEF ProgressInv, RecordInv
      <4> QED
        BY <2>3, <4>1 DEF RecordEnd, CanWrite, CannotWrite, KilledRecord, KilledCode
    <3>3. CASE ~Armed /\ ~unwritten /\ decided
      <4>1. outcome = SIGTERM /\ record.state = "killed"
        BY <2>1, <3>1, <3>3 DEF AnyRun, Decision
      <4> QED
        BY <2>3, <3>3, <4>1 DEF RecordEnd, CanWrite, CannotWrite, terminal_state
    <3>4. CASE ~Armed /\ ~decided
      BY <2>3, <3>4 DEF RecordEnd, CanWrite, CannotWrite
    <3> QED
      BY <3>2, <3>3, <3>4
  <2>4. CASE Terminal
    BY <2>1, <2>4 DEF Terminal, Framed, Armed, CanWrite, CannotWrite
  <2>5. CASE Killed
    <3>1. CASE Armed
      BY <2>1, <2>2, <2>5, <3>1 DEF Killed, RecordInv, Raise, Enter
    <3>2. CASE ~Armed
      BY <2>5, <3>2 DEF Killed, CanWrite, CannotWrite
    <3> QED
      BY <3>1, <3>2
  <2>6. CASE UNCHANGED record
    BY <2>6
  <2>7. Next => RecordEnd \/ Terminal \/ Killed \/ UNCHANGED record
    BY DEF Next, Process, MainThread, InstallHandlers, RayInit, ProgramEnds, EnterFinish, Decide,
           CancelAlarm, ShutDown, PrintMarker, Leave, Deliver, SIGKILL, Abort
  <2> QED
    BY <2>3, <2>4, <2>5, <2>6, <2>7 DEF vars
<1> QED
  BY RunInvariant, <1>1, PTL DEF RecordStands, Spec
=============================================================================
