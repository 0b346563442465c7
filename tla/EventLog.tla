------------------------------- MODULE EventLog --------------------------------
(***************************************************************************)
(* The event log of the language server (lsp/event_log.ts).  Several       *)
(* servers of one project (one per editor window) write to the same path:  *)
(* each buffers its lines, opens the file once, rotates it first when it   *)
(* is full, and appends.  Lines logged before the project is known wait in *)
(* a short queue.  Every call is synchronous, so only the system calls of  *)
(* an opening interleave with another server.                              *)
(*                                                                         *)
(* A file is an identity: a rename moves it, and an open handle follows it.*)
(***************************************************************************)
EXTENDS Integers, Sequences, FiniteSets

CONSTANTS
  Servers,      \* the servers of the project
  Explicit,     \* those started with MARKSPEC_LSP_LOG
  NoHandle,     \* no file is open
  MaxPreInit,   \* MAX_PRE_INIT_EVENTS
  Threshold,    \* FLUSH_THRESHOLD_CHARS, in lines
  MaxSize,      \* MAX_BYTES, in lines
  Keep,         \* KEEP
  MaxLines,     \* bound on the lines of a server
  MaxLogFaults  \* bound on failed writes and openings

ASSUME LogAssumption ==
  /\ MaxPreInit \in Nat \ {0} /\ Threshold \in Nat \ {0, 1} /\ MaxSize \in Nat \ {0}
  /\ Keep \in Nat \ {0} /\ Explicit \subseteq Servers /\ NoHandle \notin Servers \cup Nat

VARIABLES
  path,         \* path[0] is the file at the path, path[i] the one at path.i; 0 for none
  content,      \* the lines of every file ever created
  handle,       \* for each server, the file it appends to, or NoHandle
  projectKnown, \* for each server, whether setProjectRoot was called
  disabled,     \* for each server, whether its channel is inert
  preInitQueue, lineBuffer,  \* for each server, the lines that wait
  flushTimer,   \* for each server, whether the timer is armed
  opening,      \* for each server, the step of openHandleIfNeeded it is in:
                \* "no", "stat", "remove", "generations", "path", or "open"
  generation,   \* for each server, the number it renames next
  held,         \* for each server, the line whose logEvent opens the file
  logged,       \* history: how many lines each server has logged
  rotated,      \* history: the servers that have rotated the file
  raced,        \* history: two of them did so at once
  early,        \* history: how many of them before the file was opened
  logFaults     \* bound

openVars == <<path, handle, disabled, opening, generation, held>>
historyVars == <<logged, early, rotated, raced, logFaults>>
logVars == <<content, openVars, projectKnown, preInitQueue, lineBuffer, flushTimer, historyVars>>

Line(s, number) == [of |-> s, at |-> number]
OldLine == [of |-> NoHandle, at |-> 0]
\* The files that earlier sessions have left at the paths, the newest first.
Generations == 1..(Keep + 1)

LogInit ==
  /\ \E size \in {0, MaxSize} :
       content = [f \in Generations |-> [i \in 1..(IF f = 1 THEN size ELSE MaxSize) |-> OldLine]]
  /\ path = [i \in 0..Keep |-> i + 1]
  /\ handle = [s \in Servers |-> NoHandle]
  /\ projectKnown = [s \in Servers |-> FALSE] /\ disabled = [s \in Servers |-> FALSE]
  /\ preInitQueue = [s \in Servers |-> <<>>] /\ lineBuffer = [s \in Servers |-> <<>>]
  /\ flushTimer = [s \in Servers |-> FALSE]
  /\ opening = [s \in Servers |-> "no"] /\ generation = [s \in Servers |-> 0]
  /\ held = [s \in Servers |-> <<>>]
  /\ logged = [s \in Servers |-> 0] /\ early = [s \in Servers |-> 0]
  /\ rotated = {} /\ raced = FALSE /\ logFaults = 0

\* Between the first system call of a rotation and the last.
Rotating == {"generations", "path"}

\* Every call is synchronous: while a server opens the file it does nothing else.
Runs(s) == opening[s] = "no" /\ ~disabled[s]
HasDestination(s) == s \in Explicit \/ projectKnown[s]

\* setProjectRoot
SetProjectRoot(s) ==
  /\ Runs(s) /\ ~projectKnown[s]
  /\ projectKnown' = [projectKnown EXCEPT ![s] = TRUE]
  /\ opening' = [opening EXCEPT ![s] = IF handle[s] = NoHandle THEN "stat" ELSE "no"]
  /\ UNCHANGED <<path, content, handle, disabled, generation, preInitQueue, lineBuffer, flushTimer, held, historyVars>>

\* flushSync: the lines go to the file and the timer is cleared; when the
\* write fails the file is closed and the channel is inert from then on.
Flush(s, lines) ==
  /\ lineBuffer' = [lineBuffer EXCEPT ![s] = <<>>]
  /\ flushTimer' = [flushTimer EXCEPT ![s] = FALSE]
  /\ \/ /\ handle[s] # NoHandle
        /\ content' = [content EXCEPT ![handle[s]] = @ \o lines]
        /\ UNCHANGED <<handle, disabled, logFaults>>
     \/ /\ handle[s] # NoHandle
        /\ logFaults < MaxLogFaults /\ logFaults' = logFaults + 1
        /\ disabled' = [disabled EXCEPT ![s] = TRUE]
        /\ handle' = [handle EXCEPT ![s] = NoHandle]
        /\ UNCHANGED content
     \/ /\ handle[s] = NoHandle
        /\ UNCHANGED <<content, handle, disabled, logFaults>>

\* The end of logEvent, with the file open: the line is buffered.
Buffer(s, lines) ==
  IF Len(lines) >= Threshold
  THEN Flush(s, lines)
  ELSE /\ lineBuffer' = [lineBuffer EXCEPT ![s] = lines]
       /\ flushTimer' = [flushTimer EXCEPT ![s] = (lines # <<>>)]
       /\ UNCHANGED <<content, handle, disabled, logFaults>>

\* A mutant of Queued: a full queue drops the new line.
QueuedDroppingNew(queue, line) ==
  IF Len(queue) < MaxPreInit THEN Append(queue, line) ELSE queue

\* The queue keeps the newest lines.
Queued(queue, line) ==
  IF Len(queue) < MaxPreInit THEN Append(queue, line) ELSE Append(Tail(queue), line)

LogEvent(s) ==
  LET line == Line(s, logged[s] + 1)
  IN /\ Runs(s) /\ logged[s] < MaxLines
     /\ logged' = [logged EXCEPT ![s] = @ + 1]
     /\ early' = [early EXCEPT ![s] = @ + IF HasDestination(s) THEN 0 ELSE 1]
     /\ \/ /\ ~HasDestination(s)
           /\ preInitQueue' = [preInitQueue EXCEPT ![s] = Queued(@, line)]
           /\ UNCHANGED <<content, openVars, lineBuffer, flushTimer, logFaults>>
        \/ /\ HasDestination(s) /\ handle[s] = NoHandle
           /\ opening' = [opening EXCEPT ![s] = "stat"]
           /\ held' = [held EXCEPT ![s] = <<line>>]
           /\ UNCHANGED <<path, content, handle, disabled, generation, preInitQueue, lineBuffer, flushTimer, logFaults>>
        \/ /\ handle[s] # NoHandle
           /\ Buffer(s, Append(lineBuffer[s], line))
           /\ UNCHANGED <<path, opening, generation, held, preInitQueue>>
     /\ UNCHANGED <<projectKnown, rotated, raced>>

FlushTimer(s) ==
  /\ opening[s] = "no" /\ flushTimer[s]
  /\ Flush(s, lineBuffer[s])
  /\ UNCHANGED <<path, opening, generation, held, projectKnown, preInitQueue, logged, early, rotated, raced>>

(***************************************************************************)
(* openHandleIfNeeded: rotateIfNeeded, one system call at a time, and the  *)
(* opening.  A file that is missing is no error, except at the last rename.*)
(***************************************************************************)
Proceed(s, step) ==
  /\ opening' = [opening EXCEPT ![s] = step]
  /\ UNCHANGED <<content, handle, disabled, held, projectKnown, preInitQueue, lineBuffer, flushTimer,
                 logged, early, logFaults>>

StatLog(s) ==
  /\ opening[s] = "stat"
  /\ Proceed(s, IF path[0] # 0 /\ Len(content[path[0]]) >= MaxSize THEN "remove" ELSE "open")
  /\ UNCHANGED <<path, generation, rotated, raced>>

RemoveOldest(s) ==
  /\ opening[s] = "remove"
  /\ path' = [path EXCEPT ![Keep] = 0]
  /\ rotated' = rotated \cup {s}
  /\ raced' = (raced \/ \E other \in Servers : opening[other] \in Rotating)
  /\ Proceed(s, IF Keep = 1 THEN "path" ELSE "generations")
  /\ generation' = [generation EXCEPT ![s] = Keep - 1]

\* path.1 to path.2 and so on, the highest number first.
RenameGeneration(s) ==
  /\ opening[s] = "generations"
  /\ LET i == generation[s]
     IN /\ path' = IF path[i] = 0 THEN path ELSE [path EXCEPT ![i + 1] = path[i], ![i] = 0]
        /\ generation' = [generation EXCEPT ![s] = i - 1]
        /\ Proceed(s, IF i = 1 THEN "path" ELSE "generations")
  /\ UNCHANGED <<rotated, raced>>

RenameLog(s) ==
  /\ opening[s] = "path" /\ path[0] # 0
  /\ path' = [path EXCEPT ![1] = path[0], ![0] = 0]
  /\ Proceed(s, "open")
  /\ UNCHANGED <<generation, rotated, raced>>

\* Another server has moved the file away, or a system call fails: the
\* channel is inert for the session, and the line of this call is dropped.
OpeningFails(s) ==
  /\ opening[s] # "no"
  /\ \/ opening[s] = "path" /\ path[0] = 0 /\ UNCHANGED logFaults
     \/ logFaults < MaxLogFaults /\ logFaults' = logFaults + 1
  /\ opening' = [opening EXCEPT ![s] = "no"]
  /\ disabled' = [disabled EXCEPT ![s] = TRUE]
  /\ held' = [held EXCEPT ![s] = <<>>]
  /\ UNCHANGED <<path, content, handle, generation, projectKnown, preInitQueue, lineBuffer, flushTimer,
                 logged, early, rotated, raced>>

\* The queue is drained and flushed at once, which may fail; then the call
\* goes on with its line, if it has one.
OpenLog(s) ==
  LET missing == path[0] = 0
      file == IF missing THEN Len(content) + 1 ELSE path[0]
      files == IF missing THEN Append(content, <<>>) ELSE content
  IN /\ opening[s] = "open"
     /\ path' = [path EXCEPT ![0] = file]
     /\ opening' = [opening EXCEPT ![s] = "no"] /\ held' = [held EXCEPT ![s] = <<>>]
     /\ preInitQueue' = [preInitQueue EXCEPT ![s] = <<>>]
     /\ lineBuffer' = [lineBuffer EXCEPT ![s] = held[s]]
     /\ flushTimer' = [flushTimer EXCEPT ![s] = (held[s] # <<>>)]
     /\ \/ /\ content' = [files EXCEPT ![file] = @ \o preInitQueue[s]]
           /\ handle' = [handle EXCEPT ![s] = file]
           /\ UNCHANGED <<disabled, logFaults>>
        \/ /\ preInitQueue[s] # <<>>
           /\ logFaults < MaxLogFaults /\ logFaults' = logFaults + 1
           /\ disabled' = [disabled EXCEPT ![s] = TRUE]
           /\ content' = files
           /\ UNCHANGED handle
     /\ UNCHANGED <<generation, projectKnown, logged, early, rotated, raced>>

LogNext ==
  \E s \in Servers :
    \/ SetProjectRoot(s) \/ LogEvent(s) \/ FlushTimer(s) \/ StatLog(s) \/ RemoveOldest(s)
    \/ RenameGeneration(s) \/ RenameLog(s) \/ OpeningFails(s) \/ OpenLog(s)

LogSpec == LogInit /\ [][LogNext]_logVars
--------------------------------------------------------------------------------
\* The lines of server s in a file are those from `first` to `last`, in order.
Records(file, s, first, last) ==
  /\ {file[i].at : i \in {j \in DOMAIN file : file[j].of = s}} = first..last
  /\ \A i, j \in DOMAIN file : i < j /\ file[i].of = s /\ file[j].of = s => file[i].at < file[j].at

\* Before the destination is known only the newest MaxPreInit lines wait.
FirstKept(s) == IF early[s] > MaxPreInit THEN early[s] - MaxPreInit + 1 ELSE 1

\* The comments of event_log.ts:55-63 and :258-260: a server that can write
\* loses no line but the oldest of those it logged before the destination was
\* known, each line is in the file or waits for an armed timer, and they are
\* in the order in which they were logged, whatever the others rename.
LinesAreKept ==
  \A s \in Servers : ~disabled[s] =>
    LET waiting == preInitQueue[s] \o lineBuffer[s] \o held[s]
        last == logged[s] - Len(waiting)
    IN /\ waiting = [i \in 1..Len(waiting) |-> Line(s, last + i)]
       /\ last >= FirstKept(s) - 1
       /\ IF handle[s] = NoHandle THEN last = FirstKept(s) - 1
                                 ELSE Records(content[handle[s]], s, FirstKept(s), last)
       /\ lineBuffer[s] # <<>> => flushTimer[s]

\* A rotation evicts the oldest generation only (rotateIfNeeded): a file is
\* gone only when more servers have rotated than there were numbers left above
\* it.  Two rotations at once can lose a younger one: the last rename of one
\* lands on the file that the other has just put at path.1.
GenerationsAreKept ==
  \A f \in Generations :
    (\A i \in 0..Keep : path[i] # f) => raced \/ Cardinality(rotated) > Keep + 1 - f

\* Both promises of the log.
LogIsFaithful == LinesAreKept /\ GenerationsAreKept
================================================================================
