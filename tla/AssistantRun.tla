------------------------------ MODULE AssistantRun ------------------------------
(***************************************************************************)
(* One run of an assistant (run in apps/markdesk/src-tauri/src/            *)
(* assistants.rs), on unix.  The shell starts a child in a process group   *)
(* of its own and polls it; the child starts other processes, which hold   *)
(* its pipes, outlive it, or leave the group.  The shell ends the run when *)
(* the child exits, the author cancels, or the time is over, and must      *)
(* neither wait for ever nor leave a process at work.                      *)
(***************************************************************************)
EXTENDS Naturals, FiniteSets

CONSTANTS
  Child,          \* the process that the shell starts
  Grandchildren   \* bound: the processes that it may start

ASSUME ProcessAssumption == Child \notin Grandchildren

VARIABLES
  runAt,      \* the step of run: "off", "poll", "killing", "reap", "grace", "late", "ended"
  alive,      \* the processes
  started,    \* those that have ever been
  inGroup,    \* those in the group of the child
  holds,      \* for each process, the streams of the run that it has open
  cancelled,  \* the flag of the shell
  ending,     \* how the run ends: "none", "exited", "cancelled", "timedOut"
  closed      \* the streams whose reader has told that they are closed

runVars == <<runAt, ending, closed>>
processVars == <<alive, started, inGroup, holds>>
assistantVars == <<runVars, processVars, cancelled>>

Processes == {Child} \cup Grandchildren
Streams == {"stdout", "stderr"}

\* A stream is open as long as some process has it open.
Open(stream) == \E p \in alive : stream \in holds[p]

RunInit ==
  /\ runAt = "off" /\ ending = "none" /\ closed = {}
  /\ alive = {} /\ started = {} /\ inGroup = {}
  /\ holds = [p \in Processes |-> {}]
  /\ cancelled = FALSE

-------------------------------------------------------------------------------
\* What the processes do.  The guard of the shell admits one run at a time.
Spawn ==
  /\ runAt = "off"
  /\ runAt' = "poll" /\ cancelled' = FALSE
  /\ alive' = {Child} /\ started' = {Child} /\ inGroup' = {Child}
  /\ holds' = [holds EXCEPT ![Child] = Streams]
  /\ UNCHANGED <<ending, closed>>

\* A process starts another one, which inherits the group and some streams.
Fork(p, q) ==
  /\ p \in alive /\ q \notin started
  /\ alive' = alive \cup {q} /\ started' = started \cup {q}
  /\ inGroup' = IF p \in inGroup THEN inGroup \cup {q} ELSE inGroup
  /\ \E kept \in SUBSET holds[p] : holds' = [holds EXCEPT ![q] = kept]
  /\ UNCHANGED <<runVars, cancelled>>

\* A daemon makes a session of its own.
LeaveGroup(q) ==
  /\ q \in alive \cap inGroup /\ q # Child
  /\ inGroup' = inGroup \ {q}
  /\ UNCHANGED <<runVars, alive, started, holds, cancelled>>

Exit(p) ==
  /\ p \in alive
  /\ alive' = alive \ {p}
  /\ UNCHANGED <<runVars, started, inGroup, holds, cancelled>>

\* cancel_assistant_test, cancel_assistant_prompt
CancelRun ==
  /\ ~cancelled
  /\ cancelled' = TRUE
  /\ UNCHANGED <<runVars, processVars>>

-------------------------------------------------------------------------------
\* What the shell does.
Step(at) == runAt' = at /\ UNCHANGED <<closed, cancelled>>

\* The poll finds that the child has exited, then that the run was cancelled,
\* then that its time is over.
PollExited ==
  /\ runAt = "poll" /\ Child \notin alive
  /\ ending' = "exited"
  /\ Step("grace")
  /\ UNCHANGED processVars

PollCancelled ==
  /\ runAt = "poll" /\ Child \in alive /\ cancelled
  /\ ending' = "cancelled"
  /\ Step("killing")
  /\ UNCHANGED processVars

PollTimedOut ==
  /\ runAt = "poll" /\ Child \in alive /\ ~cancelled
  /\ ending' = "timedOut"
  /\ Step("killing")
  /\ UNCHANGED processVars

\* A mutant of KillGroup: kill_process_group is not called.
KillChildOnly ==
  /\ alive' = alive \ {Child}
  /\ UNCHANGED <<started, inGroup, holds>>

\* kill_process_group: SIGKILL for every process of the group.
KillGroup ==
  /\ alive' = alive \ inGroup
  /\ UNCHANGED <<started, inGroup, holds>>

\* The group, then the child (which is of the group), then its status.
KillAll ==
  /\ runAt = "killing"
  /\ KillGroup
  /\ Step("reap")
  /\ UNCHANGED ending

\* The output is left aside: a process outside the group may still hold it.
Reap ==
  /\ runAt = "reap" /\ Child \notin alive
  /\ Step("ended")
  /\ UNCHANGED <<ending, processVars>>

\* A reader comes to the end of its stream.
StreamCloses(stream) ==
  /\ runAt \in {"grace", "late"} /\ stream \notin closed /\ ~Open(stream)
  /\ closed' = closed \cup {stream}
  /\ UNCHANGED <<runAt, ending, processVars, cancelled>>

OutputComplete ==
  /\ runAt = "grace" /\ closed = Streams
  /\ Step("ended")
  /\ UNCHANGED <<ending, processVars>>

\* A mutant of GraceEnds: the wait has no deadline.
GraceEndsOnlyClosed ==
  /\ runAt = "grace" /\ closed = Streams
  /\ KillGroup
  /\ Step("late")
  /\ UNCHANGED ending

\* OUTPUT_GRACE is over: whoever of the group still holds a stream is killed.
GraceEnds ==
  /\ runAt = "grace" /\ closed # Streams
  /\ KillGroup
  /\ Step("late")
  /\ UNCHANGED ending

\* The readers have told, or AFTER_KILL_GRACE is over: what was read is returned.
LateEnds ==
  /\ runAt = "late"
  /\ Step("ended")
  /\ UNCHANGED <<ending, processVars>>

ShellStep ==
  \/ PollExited \/ PollCancelled \/ PollTimedOut \/ KillAll \/ Reap
  \/ OutputComplete \/ GraceEnds \/ LateEnds

AssistantNext ==
  \/ Spawn \/ CancelRun \/ ShellStep
  \/ \E p, q \in Processes : Fork(p, q)
  \/ \E p \in Processes : LeaveGroup(p) \/ Exit(p)
  \/ \E stream \in Streams : StreamCloses(stream)

AssistantSpec == RunInit /\ [][AssistantNext]_assistantVars

\* The thread of the run goes on, and each of its waits has a deadline.  The
\* processes and the readers owe nothing.
AssistantFairSpec == AssistantSpec /\ WF_assistantVars(ShellStep)

-------------------------------------------------------------------------------
AssistantTypeOK ==
  /\ runAt \in {"off", "poll", "killing", "reap", "grace", "late", "ended"}
  /\ alive \subseteq started /\ started \subseteq Processes /\ inGroup \subseteq started
  /\ holds \in [Processes -> SUBSET Streams]
  /\ cancelled \in BOOLEAN /\ closed \subseteq Streams
  /\ ending \in {"none", "exited", "cancelled", "timedOut"}

\* The comments of run and of kill_process_group: when a run has ended, no
\* process of its group is at work if it was cancelled or timed out, and none
\* holds its output if the child ended by itself.
NoneLeftAtWork ==
  runAt = "ended" =>
    IF ending = "exited"
      THEN \A p \in alive \cap inGroup : holds[p] = {}
      ELSE alive \cap inGroup = {}

\* Every run comes to its end, whatever its processes do with the pipes (the
\* comment of assistants.rs:735-737): the guard is released.
RunEnds == runAt = "poll" ~> runAt = "ended"
===============================================================================
