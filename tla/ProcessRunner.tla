---------------------------- MODULE ProcessRunner ----------------------------
(***************************************************************************)
(* One run of an external program (src/src/core/process.c): the parent     *)
(* with its two ways to call, the program, a helper the program has left   *)
(* in its process group, and the pipes between them.  With input (sfdisk,  *)
(* mkfs, blkid) the parent writes, then reads to the end of file, then     *)
(* waits; cancellable (the source tools) it polls.  Output is counted in   *)
(* units numbered in the order they were written; from MaxWritten on they   *)
(* bear that number, so that a process may write for ever.                 *)
(***************************************************************************)
EXTENDS Naturals, Sequences

CONSTANTS
  PipeSize,    \* what a pipe holds
  InputSize,   \* the input; at most CLASSICSETUP_SFDISK_SCRIPT_SIZE
  OutputSize,  \* what result->output keeps
  ReadSize,    \* the chunk of append_available_output
  Grace,       \* polls between SIGTERM and SIGKILL
  MaxWritten,  \* units are told apart up to this number
  Programs     \* what programs may be like, see below

Members == {"leader", "helper"}

\* A program may read its input to the end first and leave a helper that holds
\* the output open; each of the two may come to an end of itself or not, and
\* heed SIGTERM or not.
ProgramKinds ==
  {k \in [drains : BOOLEAN, members : {{"leader"}, Members},
          ends : SUBSET Members, heeds : SUBSET Members] :
     k.ends \cup k.heeds \subseteq k.members}

ASSUME RunnerAssumption ==
  /\ {PipeSize, OutputSize, ReadSize, Grace, MaxWritten} \subseteq Nat \ {0}
  /\ InputSize \in Nat
  /\ InputSize <= PipeSize
  /\ ReadSize <= OutputSize
  /\ Programs \subseteq ProgramKinds

VARIABLES
  call,     \* which of the two functions was called, on which program
  parent,   \* the function's local state and its result
  cancel,   \* what the cancel callback answers
  input,    \* the input pipe: what is in it, whether it is open for writing
  pipe,     \* the output pipe: units written and not yet read
  procs,    \* leader and helper: running, whether they hold the output pipe
  wrote     \* units written in all, and when the leader ended

vars == <<call, parent, cancel, input, pipe, procs, wrote>>

Units == 1..MaxWritten

TypeOK ==
  /\ call \in [kind : {"with_input", "cancellable"}, program : Programs]
  /\ parent \in
       [at : {"start", "write", "read", "wait", "poll", "signal", "reap",
              "drain", "done"},
        sent : 0..InputSize, failed : BOOLEAN,
        output : Seq(Units), truncated : BOOLEAN,
        termed : BOOLEAN, killed : BOOLEAN, polls : 0..Grace,
        reaped : BOOLEAN, code : {"NONE", "ERROR", "OK", "CANCELLED"}]
  /\ Len(parent.output) <= OutputSize
  /\ cancel \in BOOLEAN
  /\ input \in [held : 0..InputSize, open : BOOLEAN]
  /\ pipe \in Seq(Units) /\ Len(pipe) <= PipeSize
  /\ procs \in [Members -> [runs : BOOLEAN, holds : BOOLEAN]]
  /\ wrote \in [all : 0..MaxWritten, atEnd : 0..MaxWritten]

Init ==
  /\ call \in [kind : {"with_input", "cancellable"}, program : Programs]
  /\ parent = [at |-> "start", sent |-> 0, failed |-> FALSE, output |-> <<>>,
               truncated |-> FALSE, termed |-> FALSE, killed |-> FALSE,
               polls |-> 0, reaped |-> FALSE, code |-> "NONE"]
  /\ cancel = FALSE
  /\ input = [held |-> 0, open |-> TRUE]
  /\ pipe = <<>>
  /\ procs = [m \in Members |-> [runs |-> FALSE, holds |-> FALSE]]
  /\ wrote = [all |-> 0, atEnd |-> 0]

Running(m) == procs[m].runs

\* A read of the output pipe reports end of file once nobody holds it.
AtEof == pipe = <<>> /\ \A m \in Members : ~procs[m].holds

Smaller(a, b) == IF a < b THEN a ELSE b

Goes(to) == parent' = [parent EXCEPT !.at = to]

Returns(p, code) == [p EXCEPT !.at = "done", !.code = code]
-----------------------------------------------------------------------------
\* pipe and fork, which may fail, then the two ways part.
Fork ==
  /\ parent.at = "start"
  /\ \/ /\ parent' = Returns(parent, "ERROR")
        /\ UNCHANGED procs
     \/ /\ Goes(IF call.kind = "with_input" THEN "write" ELSE "poll")
        /\ procs' = [m \in Members |-> [runs |-> m \in call.program.members,
                                       holds |-> m \in call.program.members]]
  /\ UNCHANGED <<call, cancel, input, pipe, wrote>>

\* write_all: blocked by a full pipe, ended by EPIPE when nobody reads.
WriteInput ==
  /\ parent.at = "write" /\ parent.sent < InputSize
  /\ \/ /\ \E m \in Members : Running(m)
        /\ input.held < PipeSize
        /\ input' = [input EXCEPT !.held = @ + 1]
        /\ parent' = [parent EXCEPT !.sent = @ + 1]
     \/ /\ \A m \in Members : ~Running(m)
        /\ input' = [input EXCEPT !.open = FALSE]
        /\ parent' = [parent EXCEPT !.failed = TRUE, !.at = "read"]
  /\ UNCHANGED <<call, cancel, pipe, procs, wrote>>

\* Mutant: the input stays open while the output is read.
CloseInputLate ==
  /\ parent.at = "write" /\ parent.sent = InputSize
  /\ Goes("read")
  /\ UNCHANGED <<call, cancel, input, pipe, procs, wrote>>

CloseInput ==
  /\ parent.at = "write" /\ parent.sent = InputSize
  /\ input' = [input EXCEPT !.open = FALSE]
  /\ Goes("read")
  /\ UNCHANGED <<call, cancel, pipe, procs, wrote>>

\* read_output keeps the first of the output and discards the rest, up to
\* the end of file.
ReadOutput ==
  /\ parent.at = "read"
  /\ LET room == OutputSize - Len(parent.output)
         take == Smaller(room, Len(pipe))
     IN  \/ /\ pipe # <<>> /\ room > 0
            /\ parent' = [parent EXCEPT !.output = @ \o SubSeq(pipe, 1, take)]
            /\ pipe' = SubSeq(pipe, take + 1, Len(pipe))
         \/ /\ pipe # <<>> /\ room = 0
            /\ parent' = [parent EXCEPT !.truncated = TRUE]
            /\ pipe' = <<>>
         \/ /\ AtEof
            /\ Goes("wait")
            /\ UNCHANGED pipe
  /\ UNCHANGED <<call, cancel, input, procs, wrote>>

\* waitpid, which has no status to give when another has taken it.
WaitForChild ==
  /\ parent.at = "wait" /\ ~Running("leader")
  /\ \/ parent' = Returns([parent EXCEPT !.reaped = TRUE],
                          IF parent.failed THEN "ERROR" ELSE "OK")
     \/ parent' = Returns(parent, "ERROR")
  /\ UNCHANGED <<call, cancel, input, pipe, procs, wrote>>
-----------------------------------------------------------------------------
\* append_available_output: the oldest output gives way.
Kept(p, chunk) ==
  LET whole == p.output \o chunk
      discard == IF Len(whole) > OutputSize THEN Len(whole) - OutputSize ELSE 0
  IN  [p EXCEPT !.output = SubSeq(whole, discard + 1, Len(whole)),
                !.truncated = @ \/ discard > 0]

\* One chunk is read, if there is any.
Takes(p, to) ==
  LET take == Smaller(ReadSize, Len(pipe))
  IN  /\ parent' = [Kept(p, SubSeq(pipe, 1, take)) EXCEPT !.at = to]
      /\ pipe' = SubSeq(pipe, take + 1, Len(pipe))

\* poll waits up to 100 ms for output or the end of file.
Poll ==
  /\ parent.at = "poll"
  /\ Takes(parent, "signal")
  /\ UNCHANGED <<call, cancel, input, procs, wrote>>

\* Mutant: a program that ignores SIGTERM is asked again, no more.
SignalNeverKills ==
  /\ parent.at = "signal"
  /\ parent' = [parent EXCEPT !.termed = @ \/ cancel, !.at = "reap"]
  /\ UNCHANGED <<call, cancel, input, pipe, procs, wrote>>

\* The cancel callback is asked until it says yes; SIGTERM then, SIGKILL at
\* the Grace-th round from then on.
Signal ==
  /\ parent.at = "signal"
  /\ LET sent == parent.termed \/ cancel
         n == IF sent THEN Smaller(parent.polls + 1, Grace) ELSE parent.polls
     IN  parent' = [parent EXCEPT !.termed = sent, !.polls = n,
                                  !.killed = @ \/ n = Grace, !.at = "reap"]
  /\ UNCHANGED <<call, cancel, input, pipe, procs, wrote>>

\* Mutant: the round that finds the program ended goes on with the signals.
ReapThenSignal ==
  /\ parent.at = "reap"
  /\ parent' = [parent EXCEPT !.reaped = ~Running("leader"),
                              !.at = IF parent.reaped THEN "drain"
                                     ELSE IF Running("leader") THEN "poll" ELSE "signal"]
  /\ UNCHANGED <<call, cancel, input, pipe, procs, wrote>>

\* waitpid with WNOHANG: the program runs, has ended, or its status is gone.
Reap ==
  /\ parent.at = "reap"
  /\ \/ Running("leader") /\ Goes("poll")
     \/ ~Running("leader") /\ parent' = [parent EXCEPT !.reaped = TRUE, !.at = "drain"]
     \/ ~Running("leader") /\ parent' = Returns(parent, "ERROR")
  /\ UNCHANGED <<call, cancel, input, pipe, procs, wrote>>

\* Mutant: what was written after the last poll is left in the pipe.
DrainNothing ==
  /\ parent.at = "drain"
  /\ parent' = Returns(parent, IF parent.termed THEN "CANCELLED" ELSE "OK")
  /\ UNCHANGED <<call, cancel, input, pipe, procs, wrote>>

\* What is in the pipe after the program has ended, and what a helper that is
\* left writes meanwhile; the cancel callback is not asked any more.
Drain ==
  /\ parent.at = "drain"
  /\ IF pipe # <<>> THEN Takes(parent, "drain")
     ELSE /\ parent' = Returns(parent, IF parent.termed THEN "CANCELLED" ELSE "OK")
          /\ UNCHANGED pipe
  /\ UNCHANGED <<call, cancel, input, procs, wrote>>
-----------------------------------------------------------------------------
(***************************************************************************)
(* The program and its helper.                                             *)
(***************************************************************************)
Consume ==
  /\ Running("leader") /\ input.held > 0
  /\ input' = [input EXCEPT !.held = @ - 1]
  /\ UNCHANGED <<call, parent, cancel, pipe, procs, wrote>>

Write(m) ==
  /\ Running(m) /\ procs[m].holds
  /\ parent.at # "done" /\ Len(pipe) < PipeSize
  /\ LET unit == Smaller(wrote.all + 1, MaxWritten)
     IN  /\ wrote' = [wrote EXCEPT !.all = unit]
         /\ pipe' = pipe \o <<unit>>
  /\ UNCHANGED <<call, parent, cancel, input, procs>>

\* A program may close its output and go on.
CloseOutput ==
  /\ Running("leader") /\ procs["leader"].holds
  /\ procs' = [procs EXCEPT !["leader"].holds = FALSE]
  /\ UNCHANGED <<call, parent, cancel, input, pipe, wrote>>

Gone == [runs |-> FALSE, holds |-> FALSE]

Finishes(m) ==
  /\ procs' = [procs EXCEPT ![m] = Gone]
  /\ wrote' = IF m = "leader" THEN [wrote EXCEPT !.atEnd = wrote.all] ELSE wrote
  /\ UNCHANGED <<call, parent, cancel, input, pipe>>

End(m) ==
  /\ Running(m) /\ m \in call.program.ends
  /\ m = "leader" /\ call.program.drains /\ call.kind = "with_input" =>
       input = [held |-> 0, open |-> FALSE]
  /\ Finishes(m)

\* SIGKILL ends either, SIGTERM the one that does not ignore it.
Die(m) ==
  /\ Running(m)
  /\ parent.killed \/ (parent.termed /\ m \in call.program.heeds)
  /\ Finishes(m)

RequestCancel ==
  /\ call.kind = "cancellable" /\ ~cancel /\ parent.at # "done"
  /\ cancel' = TRUE
  /\ UNCHANGED <<call, parent, input, pipe, procs, wrote>>

Parent ==
  \/ Fork \/ WriteInput \/ CloseInput \/ ReadOutput \/ WaitForChild
  \/ Poll \/ Signal \/ Reap \/ Drain

Member(m) == Write(m) \/ End(m) \/ Die(m)

Next == Parent \/ RequestCancel \/ Consume \/ CloseOutput \/ \E m \in Members : Member(m)

\* The parent is scheduled, signals are delivered, and a program that comes to
\* an end does; whether it writes, and whether anyone cancels, is its own affair.
Fairness ==
  /\ WF_vars(Parent) /\ WF_vars(Consume)
  /\ \A m \in Members : WF_vars(End(m)) /\ WF_vars(Die(m))

Spec == Init /\ [][Next]_vars /\ Fairness
-----------------------------------------------------------------------------
\* The units kept, of the first `last` written.
Window(first, last) == [i \in 1..(last - first + 1) |-> first + i - 1]

\* What the callers look for in the output is there: with input the first
\* lines (sfdisk and blkid print little), of a source tool the last ones ("Completed.",
\* "[Done]", the end of a report), what it wrote just before it ended
\* included, and nothing is missing unnoticed (process.c:36, process.c:159).
\* Of a run in which units were no longer told apart it says nothing.
OutputKept ==
  parent.at = "done" /\ parent.code \notin {"NONE", "ERROR"} /\ wrote.all < MaxWritten =>
    IF call.kind = "with_input"
    THEN /\ parent.output = Window(1, Smaller(wrote.all, OutputSize))
         /\ parent.truncated = (wrote.all > OutputSize)
    ELSE \E last \in wrote.atEnd..wrote.all :
           /\ parent.truncated = (last > OutputSize)
           /\ parent.output =
                Window(IF last > OutputSize THEN last - OutputSize + 1 ELSE 1, last)

\* With input a call returns when the program and what it leaves behind come
\* to an end: the parent and a program that reads its input before it answers
\* never wait for each other, whatever the program writes meanwhile
\* (process.c:124-135).
RunEnds ==
  call.kind = "with_input" /\ call.program.ends = call.program.members
    ~> parent.at = "done"

\* A helper has outlived the leader and got no SIGKILL.
HelperLeft == parent.at = "drain" /\ Running("helper") /\ ~parent.killed

\* Cancelled, a call returns though the program ignores SIGTERM, closes its
\* output or leaves a helper that holds it open (process.c:243-268).  The one
\* exception is the loop after the program has ended (process.c:274), which
\* has no bound and asks for no cancel: a helper that is left may hold the
\* call there, if it never stops writing.
CancelReturns ==
  \/ cancel ~> parent.at = "done"
  \/ <>[]HelperLeft /\ []<><<Write("helper")>>_vars

\* No signal is sent to a process group whose leader has been waited for: its
\* number may be another's by then (process.c:256-271).
SignalsReachTheProgram ==
  [][parent'.termed # parent.termed \/ parent'.killed # parent.killed
       => ~parent.reaped /\ ~parent'.reaped]_vars
=============================================================================
