------------------------------ MODULE McpProject ------------------------------
(***************************************************************************)
(* The compile cache of one project of the MCP server                      *)
(* (packages/markspec/mcp/project.ts).                                     *)
(*                                                                         *)
(* A compile walks the project, reads markspec.lock and every tracked      *)
(* file, and then notes the modification time and the hash of each file,   *)
(* against which a later call revalidates the cached result.  Every call   *)
(* that needs a compile joins the one in flight.  Each await is a step of  *)
(* its own: calls overlap with each other, with a compile and with changes *)
(* on disk.                                                                *)
(*                                                                         *)
(* A result is what the compile read of each source: the contents of a     *)
(* file stand for what is compiled from it and for its hash.  The profile, *)
(* its delivered documents and the configuration are loaded once and never *)
(* looked at again; they and the subscribers are left out.                 *)
(***************************************************************************)
EXTENDS Integers, FiniteSets

CONSTANTS
  Files,       \* files with a tracked extension below the root
  Lock,        \* markspec.lock
  Contents,
  Callers,     \* tool calls under way at the same time
  Missing,     \* what is read of a file that is not there
  None,        \* null
  Failed,      \* the outcome of a compile that throws
  MaxChanges,  \* bound on the changes on disk and of owners
  MaxCalls,    \* bound on the calls
  MaxFailures  \* bound on the compiles that throw

ASSUME McpProjectAssumption ==
  /\ Lock \notin Files
  /\ Missing \notin Contents
  /\ MaxChanges \in Nat /\ MaxCalls \in Nat /\ MaxFailures \in Nat

Sources == Files \cup {Lock}
Reads == [Sources -> Contents \cup {Missing}]

\* Modification times; 0 stands for that of a file that is not there.
Mtimes == 0..(MaxChanges + 1)

VARIABLES
  \* External.
  disk,         \* source -> its modification time and contents
  owned,        \* the files no nested project owns (ownsFile)
  changes, called, failures,  \* so far
  \* The cache.
  inFlight,     \* the compile that calls join, or None
  cached,       \* a result, or None
  tracked,      \* file -> its snapshot, or None
  lockfileMtime,
  \* What runs.
  compiles,     \* runs of runCompile, more than one only if the gate fails
  calls

external == <<disk, owned, changes>>
bounds == <<called, failures>>
cache == <<inFlight, cached, tracked, lockfileMtime>>
vars == <<external, bounds, cache, compiles, calls>>

\* raced: files that changed after the compile read them and before it noted
\* their modification time and hash; a lockfile that was created between the
\* two (history).
Result == [reads : Reads, raced : SUBSET Sources]
Snapshot == [mtime : Mtimes, hash : Contents \cup {Missing}]

Runs == 1..2

ASSUME NullAssumption == None \notin Runs \cup Snapshot

Nowhere == [s \in Sources |-> Missing]
NotTracked == [f \in Files |-> None]
NoRun == [at |-> "idle", paths |-> {}, todo |-> {}, reads |-> Nowhere, raced |-> {},
          lockMtime |-> 0, file |-> None, snapshot |-> NotTracked]

Tracking == [Files -> Snapshot \cup {None}]
Run == [at : {"idle", "walk", "statLock", "readLock", "read", "stat", "hash", "commit"},
        paths : SUBSET Files, todo : SUBSET Files, reads : Reads,
        raced : SUBSET Sources, lockMtime : Mtimes, file : Files \cup {None},
        snapshot : Tracking]

\* A call: joined, it took a compile that ran before it; since, what each
\* source held since it was made (history).
NoCall == [kind |-> "none", at |-> "idle", run |-> None, joined |-> FALSE,
           todo |-> NotTracked, file |-> None, result |-> None,
           since |-> [s \in Sources |-> {}]]

Call == [kind : {"none", "getCompiled", "forceRefresh"},
         at : {"idle", "lock", "files", "hash", "join", "settle", "force", "answered"},
         run : Runs \cup {None}, joined : BOOLEAN,
         todo : Tracking, file : Files \cup {None},
         result : Result \cup {None, Failed},
         since : [Sources -> SUBSET (Contents \cup {Missing})]]

TypeOK ==
  /\ disk \in [Sources -> [mtime : Mtimes, contents : Contents \cup {Missing}]]
  /\ owned \subseteq Files
  /\ changes \in 0..MaxChanges /\ called \in 0..MaxCalls /\ failures \in 0..MaxFailures
  /\ inFlight \in Runs \cup {None}
  /\ cached \in Result \cup {None}
  /\ tracked \in Tracking
  /\ lockfileMtime \in Mtimes
  /\ compiles \in [Runs -> Run]
  /\ calls \in [Callers -> Call]

Exists(s) == disk[s].contents # Missing

\* The files a walk yields.
Walked == {f \in owned : Exists(f)}

\* What a source holds, for the calls that are made now.
Holds(s) == {disk[s].contents} \cup (IF s \in Files \ owned THEN {Missing} ELSE {})

Running == {r \in Runs : compiles[r].at # "idle"}

-------------------------------------------------------------------------------
\* Only a project that is alone in its workspace compiles at once (eager).
Init ==
  /\ \E contents \in Reads :
       disk = [s \in Sources |-> [mtime |-> IF contents[s] = Missing THEN 0 ELSE 1,
                                  contents |-> contents[s]]]
  /\ owned \in SUBSET Files
  /\ changes = 0 /\ called = 0 /\ failures = 0
  /\ \E eager \in BOOLEAN :
       /\ inFlight = IF eager THEN 1 ELSE None
       /\ compiles = [r \in Runs |-> IF eager /\ r = 1
                                       THEN [NoRun EXCEPT !.at = "walk"] ELSE NoRun]
  /\ cached = None /\ tracked = NotTracked /\ lockfileMtime = 0
  /\ calls = [c \in Callers |-> NoCall]

(***************************************************************************)
(* ensureCompile: the call, as it stands in `call`, waits for the compile  *)
(* in flight, or for one that is started.                                  *)
(***************************************************************************)
EnsureCompile(c, call) ==
  \E r \in Runs :
    /\ IF inFlight # None
         THEN r = inFlight /\ UNCHANGED <<inFlight, compiles>>
         ELSE /\ r = CHOOSE q \in Runs \ Running : TRUE
              /\ inFlight' = r
              /\ compiles' = [compiles EXCEPT ![r] = [NoRun EXCEPT !.at = "walk"]]
    /\ calls' = [calls EXCEPT ![c] = [call EXCEPT !.at = "join", !.run = r,
                                                  !.todo = NotTracked, !.file = None]]

\* A call that is made now.
Made(kind) == [NoCall EXCEPT !.kind = kind, !.since = [s \in Sources |-> Holds(s)]]

MayCall(c) == calls[c].at = "idle" /\ called < MaxCalls /\ called' = called + 1

(***************************************************************************)
(* getCompiled: join a compile in flight, revalidate the cached result, or *)
(* compile.                                                                *)
(***************************************************************************)
GetCompiled(c) ==
  /\ MayCall(c)
  /\ IF inFlight = None /\ cached # None
       THEN /\ calls' = [calls EXCEPT ![c] = [Made("getCompiled") EXCEPT !.at = "lock"]]
            /\ UNCHANGED <<inFlight, compiles>>
       ELSE EnsureCompile(c, [Made("getCompiled") EXCEPT !.joined = inFlight # None])
  /\ UNCHANGED <<external, failures, cached, tracked, lockfileMtime>>

\* Mutants of ForceRefresh: it joins the compile in flight; it does not wait
\* for it.
ForceRefreshJoining(c) ==
  /\ MayCall(c)
  /\ cached' = None
  /\ EnsureCompile(c, Made("forceRefresh"))
  /\ UNCHANGED <<external, failures, tracked, lockfileMtime>>

\* A mutant of ForceRefresh: it compiles without waiting for the compile that runs.
ForceRefreshAtOnce(c) ==
  /\ MayCall(c)
  /\ Runs # Running
  /\ cached' = None
  /\ LET r == CHOOSE q \in Runs \ Running : TRUE
     IN  /\ inFlight' = r
         /\ compiles' = [compiles EXCEPT ![r] = [NoRun EXCEPT !.at = "walk"]]
         /\ calls' = [calls EXCEPT ![c] = [Made("forceRefresh") EXCEPT
                                             !.at = "join", !.run = r]]
  /\ UNCHANGED <<external, failures, tracked, lockfileMtime>>

(***************************************************************************)
(* forceRefresh: a compile in flight settles first; then the cached result *)
(* is dropped.                                                             *)
(***************************************************************************)
ForceRefresh(c) ==
  /\ MayCall(c)
  /\ IF inFlight # None
       THEN /\ calls' = [calls EXCEPT ![c] = [Made("forceRefresh") EXCEPT
                                                !.at = "settle", !.run = inFlight]]
            /\ UNCHANGED <<inFlight, cached, compiles>>
       ELSE cached' = None /\ EnsureCompile(c, Made("forceRefresh"))
  /\ UNCHANGED <<external, failures, tracked, lockfileMtime>>

Forced(c) ==
  /\ calls[c].at = "force"
  /\ cached' = None
  /\ EnsureCompile(c, calls[c])
  /\ UNCHANGED <<external, bounds, tracked, lockfileMtime>>

Answer(c, result) ==
  calls' = [calls EXCEPT ![c].at = "answered", ![c].run = None, ![c].result = result]

\* The caller has its answer.
Return(c) ==
  /\ calls[c].at = "answered"
  /\ calls' = [calls EXCEPT ![c] = NoCall]
  /\ UNCHANGED <<external, bounds, cache, compiles>>

-------------------------------------------------------------------------------
(***************************************************************************)
(* isStale, as getCompiled waits for it: the lockfile, then the files that *)
(* were tracked when it came to them, then the walk.                       *)
(***************************************************************************)
Stale(c) == EnsureCompile(c, calls[c])

\* Nothing is stale: join a compile that was started meanwhile, else whatever
\* is cached by now.
NotStale(c) ==
  IF inFlight # None
    THEN EnsureCompile(c, calls[c])
    ELSE Answer(c, cached) /\ UNCHANGED <<inFlight, compiles>>

CheckLock(c) ==
  /\ calls[c].at = "lock"
  /\ IF disk[Lock].mtime # lockfileMtime
       THEN Stale(c)
       ELSE /\ calls' = [calls EXCEPT ![c].at = "files", ![c].todo = tracked]
            /\ UNCHANGED <<inFlight, compiles>>
  /\ UNCHANGED <<external, bounds, cached, tracked, lockfileMtime>>

\* The fast gate of checkFileStaleness; a file that is gone, belongs to another
\* project by now, or has no hash is stale.
CheckFile(c, f) ==
  LET noted == calls[c].todo[f]
  IN  /\ calls[c].at = "files" /\ noted # None
      /\ IF f \in owned /\ disk[f].mtime = noted.mtime
           THEN /\ calls' = [calls EXCEPT ![c].todo[f] = None]
                /\ UNCHANGED <<inFlight, compiles>>
         ELSE IF f \in owned /\ Exists(f) /\ noted.hash # Missing
           THEN /\ calls' = [calls EXCEPT ![c].at = "hash", ![c].file = f]
                /\ UNCHANGED <<inFlight, compiles>>
         ELSE Stale(c)
      /\ UNCHANGED <<external, bounds, cached, tracked, lockfileMtime>>

\* Its truth gate.
CheckHash(c) ==
  LET f == calls[c].file
  IN  /\ calls[c].at = "hash"
      /\ IF disk[f].contents = calls[c].todo[f].hash
           THEN /\ calls' = [calls EXCEPT ![c].at = "files", ![c].todo[f] = None,
                                          ![c].file = None]
                /\ UNCHANGED <<inFlight, compiles>>
           ELSE Stale(c)
      /\ UNCHANGED <<external, bounds, cached, tracked, lockfileMtime>>

CheckNewFiles(c) ==
  /\ calls[c].at = "files" /\ calls[c].todo = NotTracked
  /\ IF \E f \in Walked : tracked[f] = None THEN Stale(c) ELSE NotStale(c)
  /\ UNCHANGED <<external, bounds, cached, tracked, lockfileMtime>>

-------------------------------------------------------------------------------
(***************************************************************************)
(* runCompile.                                                             *)
(***************************************************************************)
Step(r, run) ==
  /\ compiles' = [compiles EXCEPT ![r] = run]
  /\ UNCHANGED <<external, bounds, cache, calls>>

Walk(r) ==
  /\ compiles[r].at = "walk"
  /\ Step(r, [compiles[r] EXCEPT !.at = "statLock", !.paths = Walked, !.todo = Walked])

\* loadLockedUpstreams takes the modification time before it reads.
StatLock(r) ==
  /\ compiles[r].at = "statLock"
  /\ Step(r, [compiles[r] EXCEPT !.at = "readLock", !.lockMtime = disk[Lock].mtime])

\* A mutant of ReadLock: the modification time counts as seen before the compile
\* is done.
ReadLockCommitting(r) ==
  /\ compiles[r].at = "readLock"
  /\ compiles' = [compiles EXCEPT ![r].at = IF compiles[r].paths = {} THEN "commit" ELSE "read",
                                  ![r].reads[Lock] = disk[Lock].contents]
  /\ lockfileMtime' = compiles[r].lockMtime
  /\ UNCHANGED <<external, bounds, inFlight, cached, tracked, calls>>

ReadLock(r) ==
  LET run == compiles[r]
      created == run.lockMtime = 0 /\ Exists(Lock)
  IN  /\ run.at = "readLock"
      /\ Step(r, [run EXCEPT !.at = IF run.paths = {} THEN "commit" ELSE "read",
                             !.reads[Lock] = disk[Lock].contents,
                             !.raced = IF created THEN {Lock} ELSE {}])

\* compile reads the files, each when a slot is free; one that cannot be read
\* is a diagnostic.
ReadFile(r, f) ==
  LET run == compiles[r]
  IN  /\ run.at = "read" /\ f \in run.todo
      /\ Step(r, [run EXCEPT !.reads[f] = disk[f].contents,
                             !.at = IF run.todo = {f} THEN "stat" ELSE "read",
                             !.todo = IF run.todo = {f} THEN run.paths ELSE @ \ {f}])

\* The snapshot of a file: its modification time, then its hash.  One that is
\* gone is not tracked.
StatFile(r, f) ==
  LET run == compiles[r]
  IN  /\ run.at = "stat" /\ f \in run.todo
      /\ Step(r, IF Exists(f)
                   THEN [run EXCEPT !.at = "hash", !.file = f,
                           !.snapshot[f] = [mtime |-> disk[f].mtime, hash |-> Missing]]
                   ELSE [run EXCEPT !.at = IF run.todo = {f} THEN "commit" ELSE "stat",
                                    !.todo = @ \ {f}])

HashFile(r) ==
  LET run == compiles[r]
  IN  /\ run.at = "hash"
      /\ Step(r, [run EXCEPT !.at = IF run.todo = {run.file} THEN "commit" ELSE "stat",
                             !.todo = @ \ {run.file}, !.file = None,
                             !.snapshot[run.file].hash = disk[run.file].contents])

\* The promise of the compile r settles: the calls that wait for it go on.
Settle(r, result) ==
  /\ compiles' = [compiles EXCEPT ![r] = NoRun]
  /\ calls' = [c \in Callers |->
       IF calls[c].run # r THEN calls[c]
       ELSE IF calls[c].at = "settle" THEN [calls[c] EXCEPT !.at = "force", !.run = None]
       ELSE [calls[c] EXCEPT !.at = "answered", !.run = None, !.result = result]]

\* The compile is done; what it noted is committed with its result.
Commit(r) ==
  LET run == compiles[r]
      result == [reads |-> run.reads, raced |-> run.raced]
  IN  /\ run.at = "commit"
      /\ lockfileMtime' = run.lockMtime
      /\ tracked' = run.snapshot
      /\ cached' = result
      /\ inFlight' = None
      /\ Settle(r, result)
      /\ UNCHANGED <<external, bounds>>

\* Mutants of Fail: only a compile that is done frees the slot; the error is
\* cached.
FailJamming(r) ==
  /\ compiles[r].at \in {"walk", "read"}
  /\ failures < MaxFailures
  /\ failures' = failures + 1
  /\ Settle(r, Failed)
  /\ UNCHANGED <<external, called, inFlight, cached, tracked, lockfileMtime>>

\* The walk, the corpus or the compiler throws; nothing is committed.
Fail(r) ==
  /\ compiles[r].at \in {"walk", "read"}
  /\ failures < MaxFailures
  /\ failures' = failures + 1
  /\ inFlight' = None
  /\ Settle(r, Failed)
  /\ UNCHANGED <<external, called, cached, tracked, lockfileMtime>>

-------------------------------------------------------------------------------
\* The calls under way see what the sources of S hold now.
Seen(S) ==
  calls' = [c \in Callers |->
    IF calls[c].at \in {"idle", "answered"} THEN calls[c]
    ELSE [calls[c] EXCEPT !.since = [s \in Sources |->
            IF s \in S THEN @[s] \cup Holds(s)' ELSE @[s]]]]

\* The files a compile has read and not yet noted.
InWindow(run) ==
  CASE run.at = "read" -> run.paths \ run.todo
    [] run.at \in {"stat", "hash"} -> run.todo
    [] OTHER -> {}

\* A source is written, touched, removed or created.
Change(s) ==
  /\ changes < MaxChanges
  /\ changes' = changes + 1
  /\ \E contents \in Contents \cup {Missing} :
       /\ contents = Missing => Exists(s)
       /\ disk' = [disk EXCEPT ![s] =
            [mtime |-> IF contents = Missing THEN 0 ELSE changes + 2,
             contents |-> contents]]
  /\ compiles' = [r \in Runs |-> [compiles[r] EXCEPT
                    !.raced = @ \cup ({s} \cap InWindow(compiles[r]))]]
  /\ UNCHANGED owned
  /\ Seen({s})
  /\ UNCHANGED <<bounds, cache>>

\* A rediscovery finds a nested project that owns f, or finds it gone.
Reassign(f) ==
  /\ changes < MaxChanges
  /\ changes' = changes + 1
  /\ owned' = IF f \in owned THEN owned \ {f} ELSE owned \cup {f}
  /\ UNCHANGED disk
  /\ Seen({f})
  /\ UNCHANGED <<bounds, cache, compiles>>

-------------------------------------------------------------------------------
CompileStep ==
  \E r \in Runs :
    \/ Walk(r) \/ StatLock(r) \/ ReadLock(r) \/ HashFile(r) \/ Commit(r)
    \/ \E f \in Files : ReadFile(r, f) \/ StatFile(r, f)

CheckStep(c) ==
  \/ Forced(c) \/ CheckLock(c) \/ CheckHash(c) \/ CheckNewFiles(c)
  \/ \E f \in Files : CheckFile(c, f)

Next ==
  \/ CompileStep
  \/ \E r \in Runs : Fail(r)
  \/ \E c \in Callers : CheckStep(c) \/ GetCompiled(c) \/ ForceRefresh(c) \/ Return(c)
  \/ \E s \in Sources : Change(s)
  \/ \E f \in Files : Reassign(f)

Spec == Init /\ [][Next]_vars

-------------------------------------------------------------------------------
\* The answer of c to a call of this kind, when it is a result.
Answered(c, kind) ==
  calls[c].kind = kind /\ calls[c].at = "answered" /\ calls[c].result \notin {None, Failed}

(***************************************************************************)
(* No two compiles run at once, and the slot is taken just while one runs: *)
(* ensureCompile is the single gate, whatever calls, failures and          *)
(* refreshes overlap.                                                      *)
(***************************************************************************)
OneCompile == Running = {inFlight} \ {None}

(***************************************************************************)
(* A call that waits for a compile waits for the one that runs, so it is   *)
(* answered or goes on when that one settles, failed or not: no call is    *)
(* left behind a compile that is over.                                     *)
(***************************************************************************)
NoneStranded ==
  \A c \in Callers : calls[c].at \in {"join", "settle"} => calls[c].run \in Running

\* One compile at a time, and nobody waits for another.
SingleFlight == OneCompile /\ NoneStranded

(***************************************************************************)
(* What forceRefresh guarantees (markspec_refresh): every source of its    *)
(* answer was read after the call was made, so no change that precedes the *)
(* call is missing from it.                                                *)
(***************************************************************************)
RefreshIsFresh ==
  \A c \in Callers : Answered(c, "forceRefresh") =>
    \A s \in Sources : calls[c].result.reads[s] \in calls[c].since[s]

(***************************************************************************)
(* getCompiled revalidates: whatever compiled or failed meanwhile, an      *)
(* answer holds nothing that was out of date when the call was made -- for *)
(* the sources that did not change between a compile's read of them and    *)
(* its note of their time, and for a call that did not join a compile that *)
(* was already in flight.                                                  *)
(***************************************************************************)
AnswersFresh ==
  \A c \in Callers : Answered(c, "getCompiled") /\ ~calls[c].joined =>
    \A s \in Sources \ calls[c].result.raced :
      calls[c].result.reads[s] \in calls[c].since[s]

(***************************************************************************)
(* The same for every tracked file, as the header of the module says: the  *)
(* cache is refreshed when tracked files change.                           *)
(***************************************************************************)
AnswersCurrent ==
  \A c \in Callers : Answered(c, "getCompiled") /\ ~calls[c].joined =>
    \A f \in Files : calls[c].result.reads[f] \in calls[c].since[f]
=============================================================================
