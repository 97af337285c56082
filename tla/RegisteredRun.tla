--------------------------- MODULE RegisteredRun ---------------------------
(***************************************************************************)
(* RunDrivers/registered_run.py: a run of main.py from its registration to *)
(* the end of the process, and how signals reach it on the way.            *)
(*                                                                         *)
(* The main thread registers the run, runs main.py (which calls ray.init   *)
(* and opens the store), records how it ended and exits.  A signal is      *)
(* handled on that thread between two of its steps, by whatever handler is *)
(* installed at that moment, and the handler itself can be interrupted.    *)
(*                                                                         *)
(* Outcomes are exit codes: 0 for a return, n for SystemExit(n), 1 for any *)
(* other exception, which the driver records and exits with alike.         *)
(***************************************************************************)
EXTENDS Naturals

CONSTANTS
    MaxSignals,     \* bound: how many signals the process is sent
    WritesMayFail   \* may status.json not be writable?

ASSUME RegisteredRunAssumption == MaxSignals \in Nat /\ WritesMayFail \in BOOLEAN

SIGINT == 2
SIGTERM == 15
Signals == {SIGINT, SIGTERM}
NoSignal == 0
KilledCode(s) == 128 + s

\* What main.py ends with of its own accord: it returns, refuses, or raises
OwnOutcomes == {0, 1, 2}

VARIABLES
    pc,         \* where the main thread is
    handler,    \* the disposition of each signal
    frame,      \* the handler that interrupts the main thread, if one does
    latch,      \* SignalLatch.signum
    decided,    \* SignalLatch.decided
    outcome,    \* the exit code of what is being raised or has been returned
    record,     \* status.json
    unwritten,  \* has a write of it failed?
    alarm,      \* has absl's handler armed the alarm that aborts the process?
    marker,     \* the statuses that were printed as "** driver exit status N"
    exit,       \* how the process ended
    sent        \* signals sent so far

vars == <<pc, handler, frame, latch, decided, outcome, record, unwritten, alarm, marker, exit, sent>>

disk == <<record, unwritten>>

\* Where the main thread is in main.py, or between it and its handlers
InProgram == {"program", "initialising", "attached", "half_attached", "working"}

NoFrame == [kind |-> "none", signum |-> NoSignal, step |-> "last"]

\* begin() has just written the manifest
Init ==
    /\ pc = "registering"
    /\ handler = [s \in Signals |-> "default"]
    /\ frame = NoFrame
    /\ latch = NoSignal
    /\ decided = FALSE
    /\ outcome = 0
    /\ record = [state |-> "running", code |-> 0, fingerprint |-> FALSE]
    /\ unwritten = FALSE
    /\ alarm = FALSE
    /\ marker = {}
    /\ exit = [by |-> "none", n |-> 0]
    /\ sent = 0

-----------------------------------------------------------------------------
\* run.finish replaces the record, or raises and leaves it
CanWrite(state, code, fingerprint) ==
    /\ record' = [state |-> state, code |-> code, fingerprint |-> fingerprint]
    /\ UNCHANGED unwritten
CannotWrite == WritesMayFail /\ unwritten' = TRUE /\ UNCHANGED record

(***************************************************************************)
(* An exception raised at this point of the main thread.  While main.py    *)
(* runs, it ends main.py; inside decide() it is caught and, if the latch   *)
(* is set, taken for the signal; in run()'s finally it cuts the marker     *)
(* short; anywhere else it leaves main().                                  *)
(***************************************************************************)
Raise(code) ==
    /\ frame' = NoFrame
    /\ IF pc \in {"deciding", "assigning"} /\ latch # NoSignal
         THEN pc' = "cancelling" /\ UNCHANGED outcome
         ELSE /\ pc' = CASE pc \in InProgram -> "ended"
                        [] pc \in {"closing", "closed"} -> "closed"
                        [] OTHER -> "closing"
              /\ outcome' = code

Die(by, n) == pc' = "gone" /\ frame' = NoFrame /\ exit' = [by |-> by, n |-> n]

-----------------------------------------------------------------------------
(***************************************************************************)
(* The main thread.                                                        *)
(***************************************************************************)
Undisturbed(from) == pc = from /\ frame = NoFrame
Goto(to) == pc' = to

Install(s, h) == handler' = [handler EXCEPT ![s] = h]

\* register() and install_killed_handler go through KILLED_SIGNALS one by one
InstallHandlers ==
    /\ \/ Undisturbed("registering") /\ Install(SIGTERM, "terminal") /\ Goto("half_registered")
       \/ Undisturbed("half_registered") /\ Install(SIGINT, "terminal") /\ Goto("program")
       \/ Undisturbed("attached") /\ Install(SIGTERM, "killed") /\ Goto("half_attached")
       \/ Undisturbed("half_attached") /\ Install(SIGINT, "killed") /\ Goto("working")
    /\ UNCHANGED <<frame, latch, decided, outcome, disk, alarm, marker, exit, sent>>

\* Ray's own handler is installed when its ray.init starts; ours when it has returned
RayInit ==
    /\ \/ Undisturbed("program") /\ Install(SIGTERM, "ray") /\ Goto("initialising")
       \/ Undisturbed("initialising") /\ UNCHANGED handler /\ Goto("attached")
    /\ UNCHANGED <<frame, latch, decided, outcome, disk, alarm, marker, exit, sent>>

\* Slip: only an exception is recorded, a return is not
ProgramEndsUnrecorded ==
    /\ pc \in {"program", "initialising", "working"} /\ frame = NoFrame
    /\ outcome' \in IF pc = "initialising" THEN {1} ELSE OwnOutcomes
    /\ Goto(IF outcome' = 0 THEN "closing" ELSE "ended")
    /\ UNCHANGED <<handler, frame, latch, decided, disk, alarm, marker, exit, sent>>

\* main.py refuses its arguments, fails to attach (ray.init raises), or comes to its end
ProgramEnds ==
    /\ pc \in {"program", "initialising", "working"} /\ frame = NoFrame
    /\ outcome' \in IF pc = "initialising" THEN {1} ELSE OwnOutcomes
    /\ Goto("ended")
    /\ UNCHANGED <<handler, frame, latch, decided, disk, alarm, marker, exit, sent>>

\* The call of finish_after_exec, up to its try
EnterFinish ==
    /\ Undisturbed("ended")
    /\ Goto("deciding")
    /\ UNCHANGED <<handler, frame, latch, decided, outcome, disk, alarm, marker, exit, sent>>

\* Slip: the latch is not consulted
DecideAlways ==
    /\ Undisturbed("deciding")
    /\ decided' = TRUE
    /\ Goto("cancelling")
    /\ UNCHANGED <<handler, frame, latch, outcome, disk, alarm, marker, exit, sent>>

\* SignalLatch.decide: the test, and then the assignment
Decide ==
    /\ \/ /\ Undisturbed("deciding")
          /\ Goto(IF latch = NoSignal THEN "assigning" ELSE "cancelling")
          /\ UNCHANGED decided
       \/ /\ Undisturbed("assigning")
          /\ decided' = TRUE
          /\ Goto("cancelling")
    /\ UNCHANGED <<handler, frame, latch, outcome, disk, alarm, marker, exit, sent>>

CancelAlarm ==
    /\ Undisturbed("cancelling")
    /\ alarm' = FALSE
    /\ Goto("recording")
    /\ UNCHANGED <<handler, frame, latch, decided, outcome, disk, marker, exit, sent>>

terminal_state(code) == IF code = 0 THEN "done" ELSE IF code = SIGTERM THEN "killed" ELSE "failed"

\* main.py's own outcome, whose failure to be written is an exception; or the signal's
RecordEnd ==
    /\ Undisturbed("recording")
    /\ IF decided
         THEN \/ CanWrite(terminal_state(outcome), outcome, TRUE)
                 /\ Goto("shutdown") /\ UNCHANGED <<frame, outcome>>
              \/ CannotWrite /\ Raise(1)
         ELSE /\ CanWrite("killed", KilledCode(latch), TRUE) \/ CannotWrite
              /\ Goto("shutdown") /\ UNCHANGED <<frame, outcome>>
    /\ UNCHANGED <<handler, latch, decided, alarm, marker, exit, sent>>

\* What finish_after_exec ends with: main.py's outcome again, or the signal's SystemExit
DriverOutcome == IF decided THEN outcome ELSE KilledCode(latch)

ShutDown ==
    /\ Undisturbed("shutdown")
    /\ outcome' = DriverOutcome
    /\ Goto("closing")
    /\ UNCHANGED <<handler, frame, latch, decided, disk, alarm, marker, exit, sent>>

\* The finally of run(), and the interpreter's exit
PrintMarker ==
    /\ Undisturbed("closing")
    /\ marker' = marker \cup {outcome}
    /\ Goto("closed")
    /\ UNCHANGED <<handler, frame, latch, decided, outcome, disk, alarm, exit, sent>>

Leave ==
    /\ Undisturbed("closed")
    /\ Die("status", outcome)
    /\ UNCHANGED <<handler, latch, decided, outcome, disk, alarm, marker, sent>>

MainThread ==
    \/ InstallHandlers \/ RayInit \/ ProgramEnds \/ EnterFinish \/ Decide
    \/ CancelAlarm \/ RecordEnd \/ ShutDown \/ PrintMarker \/ Leave

-----------------------------------------------------------------------------
(***************************************************************************)
(* Signals and their handlers.                                             *)
(***************************************************************************)
Enter(kind, s, step) == frame' = [kind |-> kind, signum |-> s, step |-> step]

\* Slip: a signal after the decision is treated like any other
KilledHandlerDeaf(s) ==
    /\ IF latch # NoSignal THEN UNCHANGED frame ELSE Enter("killed", s, "latch")
    /\ UNCHANGED <<pc, outcome>>

\* A second signal, or one after the decision, is noted; the first test, and then the latch
KilledHandler(s) ==
    /\ IF latch # NoSignal \/ decided THEN UNCHANGED frame ELSE Enter("killed", s, "latch")
    /\ UNCHANGED <<pc, outcome>>

(***************************************************************************)
(* The default of SIGTERM ends the process; that of SIGINT is the          *)
(* interpreter's KeyboardInterrupt.  Ray's handler is sys.exit(signum),    *)
(* with absl's alarm beside it.  A handler that interrupts another one     *)
(* either returns at once or ends in an exception or the process's death,  *)
(* so that the one it interrupted need not be remembered.                  *)
(***************************************************************************)
Deliver(s) ==
    /\ pc # "gone"
    /\ sent < MaxSignals
    /\ sent' = sent + 1
    /\ \/ /\ handler[s] = "default"
          /\ IF s = SIGTERM THEN Die("signal", s) /\ UNCHANGED outcome
                            ELSE Raise(KilledCode(s)) /\ UNCHANGED exit
          /\ UNCHANGED alarm
       \/ /\ handler[s] = "terminal"
          /\ Enter("terminal", s, "record")
          /\ UNCHANGED <<pc, outcome, alarm, exit>>
       \/ /\ handler[s] = "ray"
          /\ alarm' = TRUE
          /\ Raise(s)
          /\ UNCHANGED exit
       \/ /\ handler[s] = "killed"
          /\ KilledHandler(s)
          /\ UNCHANGED <<alarm, exit>>
    /\ UNCHANGED <<handler, latch, decided, disk, marker>>

(***************************************************************************)
(* terminal's own write failing is an ordinary exception.  The driver goes *)
(* on after it in three places: where it records a killed run, where it    *)
(* shuts Ray down, and where it prints the marker, which is then lost.     *)
(***************************************************************************)
Swallow ==
    /\ frame' = NoFrame
    /\ \/ pc = "recording" /\ ~decided /\ Goto("shutdown") /\ UNCHANGED outcome
       \/ pc = "shutdown" /\ Goto("closing") /\ outcome' = DriverOutcome
       \/ pc = "closing" /\ Goto("closed") /\ UNCHANGED outcome

\* terminal: record the death, then die as the default handler would have
Terminal ==
    /\ frame.kind = "terminal"
    /\ LET s == frame.signum IN
          \/ /\ frame.step = "record"
             /\ \/ /\ CanWrite("killed", KilledCode(s), FALSE)
                   /\ Enter("terminal", s, "last")
                   /\ UNCHANGED <<pc, outcome>>
                \/ CannotWrite /\ (Raise(1) \/ Swallow)
             /\ UNCHANGED exit
          \/ frame.step = "last" /\ Die("signal", s) /\ UNCHANGED <<outcome, disk>>
    /\ UNCHANGED <<handler, latch, decided, alarm, marker, sent>>

\* SignalLatch.remember
Remember(s) == latch' = s

(***************************************************************************)
(* killed_handler: remember the signal, record it at once if that can be   *)
(* done, and raise.  Out of a wait in Ray the exception may reach the      *)
(* driver as another one, or not at all.                                   *)
(***************************************************************************)
Killed ==
    /\ frame.kind = "killed"
    /\ LET s == frame.signum IN
          \/ /\ frame.step = "latch"
             /\ Remember(s)
             /\ Enter("killed", s, "record")
             /\ UNCHANGED <<pc, outcome, disk>>
          \/ /\ frame.step = "record"
             /\ CanWrite("killed", KilledCode(s), FALSE) \/ CannotWrite
             /\ Enter("killed", s, "last")
             /\ UNCHANGED <<pc, latch, outcome>>
          \/ /\ frame.step = "last"
             /\ Raise(KilledCode(s)) \/ (pc = "working" /\ \E code \in {0, 1} : Raise(code))
             /\ UNCHANGED <<latch, disk>>
    /\ UNCHANGED <<handler, decided, alarm, marker, exit, sent>>

\* The process can be killed, or aborted by an alarm nobody cancelled
SIGKILL ==
    /\ pc # "gone"
    /\ sent < MaxSignals
    /\ sent' = sent + 1
    /\ Die("SIGKILL", 9)
    /\ UNCHANGED <<handler, latch, decided, outcome, disk, alarm, marker>>

Abort ==
    /\ pc # "gone"
    /\ alarm
    /\ Die("abort", 6)
    /\ UNCHANGED <<handler, latch, decided, outcome, disk, alarm, marker, sent>>

Process == MainThread \/ Terminal \/ Killed

Next == Process \/ (\E s \in Signals : Deliver(s)) \/ SIGKILL \/ Abort

Spec == Init /\ [][Next]_vars

\* The interpreter goes on, and main.py comes to an end
FairSpec == Spec /\ WF_vars(Process)

-----------------------------------------------------------------------------

\* The driver's own handler has replaced Ray's and terminal
Armed == \A s \in Signals : handler[s] = "killed"

\* The exits whose status the registry need not know: SIGTERM under Ray's own handler,
\* where ray.init began and did not return; SIGINT before register() has installed a handler
UnseenExit ==
    \/ exit.n = SIGTERM /\ handler[SIGTERM] = "ray"
    \/ exit.n = KilledCode(SIGINT) /\ handler[SIGINT] = "default"

(***************************************************************************)
(* However signals fall, when the process has exited with a status and     *)
(* status.json could be written, the registry says the same: killed by the *)
(* signal the driver's handler saw first, or by SIGTERM while Ray started  *)
(* (15); done, or failed with that very code; and without the driver's     *)
(* handler having fired, with the fingerprint of the store.  This is said  *)
(* of every run, also of one that refuses before Ray or fails to attach,   *)
(* with the two exits of UnseenExit left out: status 15 under Ray's own    *)
(* handler, status 130 before registration is over.  A death by a signal   *)
(* that terminal saw is in the registry too, under the signal the process  *)
(* died of.                                                                *)
(***************************************************************************)
RecordTellsExit ==
    /\ exit.by = "status" /\ ~unwritten /\ ~UnseenExit =>
          /\ record.code = exit.n
          /\ record.state = IF latch # NoSignal \/ exit.n = SIGTERM THEN "killed"
                            ELSE IF exit.n = 0 THEN "done" ELSE "failed"
          /\ IF latch # NoSignal THEN exit.n = 128 + latch ELSE record.fingerprint
    /\ exit.by = "signal" /\ handler[exit.n] = "terminal" /\ ~unwritten =>
          record = [state |-> "killed", code |-> 128 + exit.n, fingerprint |-> FALSE]

(***************************************************************************)
(* Also when status.json cannot be written: a run that the driver's own    *)
(* handler stopped is never recorded as done or failed.  And of a run that *)
(* attached, so that both of the driver's handlers are in place (Armed):   *)
(* one that was stopped exits with the signal's code, whatever reaches the *)
(* driver, and the marker, printed once, names the exit status.  Of a run  *)
(* that did not attach the second half is not said: there a handler may    *)
(* raise out of the printing of the marker.                                *)
(***************************************************************************)
SignalDecidesExit ==
    /\ latch # NoSignal => record.state \in {"running", "killed"}
    /\ exit.by = "status" /\ Armed =>
          /\ latch # NoSignal => exit.n = 128 + latch
          /\ marker = {exit.n}

(***************************************************************************)
(* Once a run is recorded as over, the record changes in two ways only: by *)
(* the fingerprint that completes it, and, in a run that did not attach    *)
(* (not Armed: terminal and Ray's handler are still there), by a later     *)
(* signal's killed.  So in a run that attached, what is recorded of a      *)
(* signal or of main.py's outcome stays, and in no run does a recorded     *)
(* death become done or failed, unless a write has failed before.          *)
(***************************************************************************)
RecordStands ==
    [][ record.state # "running" =>
          \/ /\ record'.state = record.state /\ record'.code = record.code
             /\ record.fingerprint => record'.fingerprint
          \/ ~Armed /\ (record'.state = "killed" \/ unwritten) ]_vars

(***************************************************************************)
(* Signals cannot keep the process from ending, and when it ends with a    *)
(* status and no write has failed, the registry has heard of it.  What it  *)
(* need not hear of: SIGKILL, an abort by absl's alarm, the default        *)
(* disposition of SIGTERM, and the two exits of UnseenExit, that is        *)
(* SIGTERM under Ray's handler once main.py has failed to attach, and      *)
(* SIGINT before registration is over.                                     *)
(***************************************************************************)
EventuallyRecorded ==
    <>(/\ pc = "gone"
       /\ exit.by = "status" /\ ~unwritten /\ ~UnseenExit => record.state # "running")

(***************************************************************************)
(* finish_after_exec's docstring: once main.py's outcome is decided, "with *)
(* Ray up or not", a signal "is noted by the handler and changes nothing". *)
(* A process that then ends of itself or by a signal, with every write     *)
(* done, ends with a status, the recorded one.  The code does not do this  *)
(* where ray.init was not reached or raised: terminal or Ray's handler is  *)
(* the one that is installed.                                              *)
(***************************************************************************)
DecidedStands ==
    decided /\ ~unwritten /\ exit.by \in {"status", "signal"} =>
        exit.by = "status" /\ record.code = exit.n /\ record.fingerprint

=============================================================================
