-------------------------- MODULE RegisteredStream --------------------------
(***************************************************************************)
(* RunDrivers/registered_run.py: sys.stdout of a registered run.  The main *)
(* thread prints the pipeline's lines and a thread of Ray's the workers';  *)
(* each write goes to the real stream and then, under a lock, into the     *)
(* run's copy, the stage and the heartbeat.  print() makes two writes, the *)
(* text and the newline.  A signal's handler may raise SystemExit at any   *)
(* point of a print of the main thread; no `except Exception` stops it.    *)
(* At the end the main thread stops the beats and prints the exit marker,  *)
(* on a line of its own.                                                   *)
(***************************************************************************)
EXTENDS Integers, Sequences, FiniteSets, FiniteSetsExt

CONSTANTS
    Script,         \* what each thread prints: a sequence of texts
    Interval,       \* BEAT_MIN_INTERVAL
    MaxTime,        \* bound of the clock
    Interrupts,     \* may a signal handler raise out of a print of the main thread?
    Failures        \* may the real stream, the copy and the heartbeat fail?

Threads == {"main", "ray"}

\* A text, and whether it begins with a newline, as main.py's banners do
Kinds == {"banner", "progress", "complete", "worker", "marker"}
Texts == [kind : Kinds, id : Nat, newlineFirst : BOOLEAN]

ASSUME StreamAssumption ==
    /\ Script \in [Threads -> Seq(Texts)]
    /\ Interval \in Nat \ {0} /\ MaxTime \in Nat
    /\ Interrupts \in BOOLEAN /\ Failures \in BOOLEAN

Newline == [kind |-> "newline", id |-> 0, newlineFirst |-> FALSE]
ExitMarker == [kind |-> "marker", id |-> 0, newlineFirst |-> FALSE]

VARIABLES
    todo,       \* the prints each thread has left
    part,       \* which of the two writes of its current print each thread is in
    at,         \* where in that write it is
    real,       \* what the real stream has received
    lost,       \* of that, what an exception kept from the rest of its write
    midLine,    \* _mid_line
    copy,       \* what the run's copy has received
    copyOpen,   \* is there a copy still?
    pending,    \* _pending: the texts of the line that is not finished
    lines,      \* _observe's lines, those not yet fed, with their newlines
    changed,    \* _observe's changed
    title,      \* StageTracker.title
    stage,      \* StageTracker.stage
    now,        \* time.monotonic()
    lastBeat,   \* _last_beat
    status,     \* the stage and the heartbeat in status.json
    lastLine,   \* when the clock was last read for a whole line
    missed,     \* has a heartbeat failed, or been cut off by an exception?
    beats,      \* _beats
    ending      \* how far run() is with the end

program == <<todo, part, at>>
streams == <<real, lost, midLine, copy, copyOpen>>
reading == <<pending, lines, changed, title, stage>>
heart == <<lastBeat, status, lastLine, missed>>
vars == <<program, streams, reading, heart, now, beats, ending>>

NoStage == [title |-> <<>>, now |-> <<>>]

Init ==
    /\ todo = Script
    /\ part = [t \in Threads |-> "text"]
    /\ at = [t \in Threads |-> "write"]
    /\ real = <<>> /\ lost = <<>> /\ midLine = FALSE
    /\ copy = <<>> /\ copyOpen = TRUE
    /\ pending = <<>> /\ lines = <<>> /\ changed = FALSE
    /\ title = <<>> /\ stage = NoStage
    /\ now = Interval                       \* the clock is well past its origin
    /\ lastBeat = 0
    /\ status = [stage |-> NoStage, at |-> 0]
    /\ lastLine = 0
    /\ missed = FALSE
    /\ beats = TRUE
    /\ ending = "running"

-----------------------------------------------------------------------------
(***************************************************************************)
(* StageTracker.feed: a line that begins with a banner is the title and    *)
(* the stage; progress and completion anywhere in a line add to the title. *)
(***************************************************************************)
IsBanner(line) == line # <<>> /\ Head(line).kind \in {"banner", "marker"}

\* The progress figures, if the line has any, else the completion
FiguresIn(line) ==
    LET progress == SelectSeq(line, LAMBDA x : x.kind = "progress")
    IN  IF progress # <<>> THEN <<Head(progress)>>
        ELSE SelectSeq(line, LAMBDA x : x.kind = "complete")

Feed(line) ==
    /\ title' = IF IsBanner(line) THEN line ELSE title
    /\ stage' = IF IsBanner(line) THEN [title |-> line, now |-> <<>>]
                ELSE IF title # <<>> /\ FiguresIn(line) # <<>>
                THEN [title |-> title, now |-> FiguresIn(line)]
                ELSE stage

\* What the current write adds: a newline, or a text with or without one before it
Pieces(t) ==
    IF part[t] = "newline" THEN <<Newline>>
    ELSE IF Head(todo[t]).newlineFirst THEN <<Newline, Head(todo[t])>> ELSE <<Head(todo[t])>>

Newlines(s) == {i \in DOMAIN s : s[i] = Newline}

-----------------------------------------------------------------------------
(***************************************************************************)
(* write(): the real write, _mid_line, and then the rest under the lock.   *)
(***************************************************************************)
Move(t, place) == at' = [at EXCEPT ![t] = place] /\ UNCHANGED <<todo, part>>

\* On to the next write of the print, or to the next print
Return(t) ==
    /\ at' = [at EXCEPT ![t] = "write"]
    /\ part' = [part EXCEPT ![t] = IF @ = "text" THEN "newline" ELSE "text"]
    /\ todo' = [todo EXCEPT ![t] = IF part[t] = "newline" THEN Tail(@) ELSE @]

\* An exception leaves the print: main.py unwinds (what it may print on the way is left
\* out), and Ray's thread goes on to its next
Abandon(t) ==
    /\ at' = [at EXCEPT ![t] = "write"]
    /\ part' = [part EXCEPT ![t] = "text"]
    /\ todo' = [todo EXCEPT ![t] = IF t = "main" THEN <<>> ELSE Tail(@)]

RealWrite(t) ==
    /\ at[t] = "write" /\ todo[t] # <<>>
    /\ real' = real \o Pieces(t)
    /\ Move(t, "flag")
    /\ UNCHANGED <<lost, midLine, copy, copyOpen, reading, heart, now, beats, ending>>

\* The real stream raises, having taken the write or not: nothing after it is done
RealWriteRaises(t) ==
    /\ Failures
    /\ at[t] = "write" /\ todo[t] # <<>>
    /\ \/ UNCHANGED <<real, lost>>
       \/ real' = real \o Pieces(t) /\ lost' = lost \o Pieces(t)
    /\ Abandon(t)
    /\ UNCHANGED <<midLine, copy, copyOpen, reading, heart, now, beats, ending>>

SetMidLine(t) ==
    /\ at[t] = "flag"
    /\ midLine' = (part[t] = "text")
    /\ Move(t, "observe")
    /\ UNCHANGED <<real, lost, copy, copyOpen, reading, heart, now, beats, ending>>

\* Slip: the copy is closed with the beats
CopyWhileBeating(t) ==
    /\ copy' = IF copyOpen /\ beats THEN copy \o Pieces(t) ELSE copy
    /\ UNCHANGED copyOpen

\* A copy that has failed once is dropped
Copy(t) ==
    \/ /\ copy' = IF copyOpen THEN copy \o Pieces(t) ELSE copy
       /\ UNCHANGED copyOpen
    \/ Failures /\ copyOpen' = FALSE /\ UNCHANGED copy

\* Who is past the copy holds the lock
Locked == {t \in Threads : at[t] \in {"copied", "feeding", "beating"}}

\* _observe: the lock is taken, and the copy written
Observe(t) ==
    /\ at[t] = "observe" /\ Locked = {}
    /\ Copy(t)
    /\ IF beats THEN Move(t, "copied") ELSE Return(t)
    /\ UNCHANGED <<real, lost, midLine, reading, heart, now, beats, ending>>

\* The line goes on, or whole lines are taken off it
TakeLines(t) ==
    /\ at[t] = "copied"
    /\ LET text == pending \o Pieces(t)
           last == Max(Newlines(text))
       IN  IF Newlines(text) = {}
             THEN pending' = text /\ Return(t) /\ UNCHANGED <<lines, changed>>
             ELSE /\ lines' = SubSeq(text, 1, last)
                  /\ pending' = SubSeq(text, last + 1, Len(text))
                  /\ changed' = FALSE
                  /\ Move(t, "feeding")
    /\ UNCHANGED <<streams, title, stage, heart, now, beats, ending>>

\* The tracker is fed line by line
NextLine == SubSeq(lines, 1, Min(Newlines(lines)) - 1)

FeedLine(t) ==
    /\ at[t] = "feeding" /\ lines # <<>>
    /\ Feed(NextLine)
    /\ lines' = SubSeq(lines, Min(Newlines(lines)) + 1, Len(lines))
    /\ changed' = (changed \/ stage' # stage)
    /\ UNCHANGED <<program, streams, pending, heart, now, beats, ending>>

\* Slip: a change of the stage waits for its turn as well
DueThrottled == now - lastBeat >= Interval

Due == changed \/ now - lastBeat >= Interval

\* The clock is read, and the heartbeat is taken if it is due
Throttle(t) ==
    /\ at[t] = "feeding" /\ lines = <<>>
    /\ lastLine' = now
    /\ IF Due THEN lastBeat' = now /\ Move(t, "beating")
              ELSE UNCHANGED lastBeat /\ Return(t)
    /\ UNCHANGED <<streams, reading, status, missed, now, beats, ending>>

Heartbeat(t) ==
    /\ at[t] = "beating"
    /\ \/ status' = [stage |-> stage, at |-> now] /\ UNCHANGED missed
       \/ Failures /\ missed' = TRUE /\ UNCHANGED status
    /\ Return(t)
    /\ UNCHANGED <<streams, reading, lastBeat, lastLine, now, beats, ending>>

(***************************************************************************)
(* A signal's handler raises, wherever the main thread is in a print: what *)
(* is left of the write is not done.  Within _observe it may leave the     *)
(* line longer and not taken off, or a banner the title and not the stage. *)
(***************************************************************************)
Interrupt ==
    /\ Interrupts
    /\ todo["main"] # <<>>
    /\ Abandon("main")
    /\ lost' = IF at["main"] \in {"flag", "observe"} THEN lost \o Pieces("main") ELSE lost
    /\ missed' = (missed \/ at["main"] = "beating" \/ (at["main"] = "feeding" /\ changed))
    /\ pending' \in {pending} \cup (IF at["main"] = "copied" THEN {pending \o Pieces("main")} ELSE {})
    /\ title' \in {title} \cup
          (IF at["main"] = "feeding" /\ lines # <<>> /\ IsBanner(NextLine) THEN {NextLine} ELSE {})
    /\ lines' = IF at["main"] = "feeding" THEN <<>> ELSE lines
    /\ UNCHANGED <<real, midLine, copy, copyOpen, changed, stage, lastBeat, status, lastLine, now,
                   beats, ending>>

\* run()'s finally, which takes the lock.  Ray's thread has ended with ray.shutdown, if that was reached
StopBeating ==
    /\ ending = "running"
    /\ todo["main"] = <<>> /\ Locked = {}
    /\ beats' = FALSE
    /\ ending' = "stopped"
    /\ UNCHANGED <<program, streams, reading, heart, now>>

PrintMarker ==
    /\ ending = "stopped"
    /\ todo' = [todo EXCEPT !["main"] = <<[ExitMarker EXCEPT !.newlineFirst = midLine]>>]
    /\ ending' = "marker"
    /\ UNCHANGED <<part, at, streams, reading, heart, now, beats>>

\* On the clean path only
CloseCopy ==
    /\ ending = "marker"
    /\ todo["main"] = <<>> /\ Locked = {}
    /\ copyOpen' = FALSE
    /\ ending' = "closed"
    /\ UNCHANGED <<program, real, lost, midLine, copy, reading, heart, now, beats>>

Tick ==
    /\ now < MaxTime
    /\ now' = now + 1
    /\ UNCHANGED <<program, streams, reading, heart, beats, ending>>

Write(t) ==
    \/ RealWrite(t) \/ RealWriteRaises(t) \/ SetMidLine(t) \/ Observe(t)
    \/ TakeLines(t) \/ FeedLine(t) \/ Throttle(t) \/ Heartbeat(t)

Next == (\E t \in Threads : Write(t)) \/ Interrupt \/ StopBeating \/ PrintMarker \/ CloseCopy \/ Tick

Spec == Init /\ [][Next]_vars

-----------------------------------------------------------------------------
Quiet == \A t \in Threads : todo[t] = <<>>

(***************************************************************************)
(* When both threads are quiet the copy, if it never failed and is still   *)
(* open, lacks nothing that the real stream got but the writes that an     *)
(* exception cut off between the two (lost: a handler's, or the real       *)
(* stream's own), has nothing twice and nothing else; the exit marker,     *)
(* printed when the beats are over, is in it too.  The lines may be in     *)
(* another order, because the real write is made outside the lock.  lost   *)
(* grows by one write for each exception that leaves a print, and by none  *)
(* without one.                                                            *)
(***************************************************************************)
Count(s, x) == Cardinality({i \in DOMAIN s : s[i] = x})

CopyIsComplete ==
    Quiet /\ copyOpen =>
        \A x \in {real[i] : i \in DOMAIN real} \cup {copy[i] : i \in DOMAIN copy} :
            Count(copy, x) + Count(lost, x) = Count(real, x)

(***************************************************************************)
(* The heartbeat in status.json is never older, by the interval or more,   *)
(* than the last line that was read, and its stage is the tracker's:       *)
(* BEAT_MIN_INTERVAL holds back no change of the stage.  This is said      *)
(* between writes (nobody is feeding or beating), and until a heartbeat    *)
(* fails or an exception falls between a changed stage and its heartbeat   *)
(* (missed): the code does not make up for either.                         *)
(***************************************************************************)
HeartbeatIsFresh ==
    ~missed /\ (\A t \in Threads : at[t] \notin {"feeding", "beating"}) =>
        lastLine - status.at < Interval /\ status.stage = stage

(***************************************************************************)
(* The exit marker begins a line of its own, as mid_line's docstring says  *)
(* ("so that it is a whole line"), "even after a line a signal left        *)
(* unfinished" (run).  The code does not do this if the handler raises     *)
(* after the real write and before _mid_line is set.                       *)
(***************************************************************************)
MarkerIsALine ==
    \A i \in DOMAIN real : real[i].kind = "marker" => i = 1 \/ real[i - 1] = Newline

=============================================================================
