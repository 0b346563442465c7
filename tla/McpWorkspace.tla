------------------------------ MODULE McpWorkspace ------------------------------
(***************************************************************************)
(* The projects of the MCP server (packages/markspec/mcp/workspace.ts) and *)
(* the calls that need them (packages/markspec/mcp/tools/mod.ts).          *)
(*                                                                         *)
(* The server discovers its projects once the transport is connected; a    *)
(* call waits for that attempt, or starts another when it failed.          *)
(* markspec_refresh discovers again, one run after the other, and installs *)
(* the result in two steps: the roots that decide who owns a file, and,    *)
(* when the new projects are open, the projects.                           *)
(*                                                                         *)
(* A project is its root.  What a project compiles is McpProject.          *)
(***************************************************************************)
EXTENDS Integers, Sequences, FiniteSets

CONSTANTS
  Roots,       \* directories that can hold a configuration
  Within,      \* root -> the roots strictly above it
  Candidates,  \* start folders in order, each the roots a scan of it can find
  Callers,
  None,        \* undefined
  MaxChanges,  \* bound on the projects that come and go
  MaxCalls,
  MaxFailures  \* bound on the discoveries that throw

ASSUME McpWorkspaceAssumption ==
  /\ Candidates \in Seq(SUBSET Roots) /\ Candidates # <<>>
  /\ Within \in [Roots -> SUBSET Roots]
  \* of the directories above a file, one is the deepest
  /\ \A r \in Roots : \A above \in SUBSET (Within[r] \cup {r}) :
       above # {} => \E q \in above : above \subseteq Within[q] \cup {q}
  /\ None \notin Callers /\ None \notin Roots
  /\ MaxChanges \in Nat /\ MaxCalls \in Nat /\ MaxFailures \in Nat

VARIABLES
  present,       \* the roots that are on disk (external)
  changes, called, failures,  \* so far
  attempt,       \* the loader: "none", "running" or "ready"
  run,           \* the discovery under way, of the loader or of one refresh
  rediscoverChain,  \* the refreshes that wait for their turn
  currentRoots, opened,
  subscribed,    \* root -> the live subscriptions to the projects opened for it
  calls

workspaceCounters == <<changes, called, failures>>
installed == <<currentRoots, opened, subscribed>>
workspaceVars == <<present, workspaceCounters, attempt, run, rediscoverChain, installed, calls>>

\* next: the roots to install; todo: those left to scan, or to open.
NoRun == [at |-> "idle", by |-> None, candidate |-> 0, todo |-> {}, next |-> {}]

Run == [at : {"idle", "scan", "open"}, by : Callers \cup {None},
        candidate : 0..Len(Candidates), todo : SUBSET Roots, next : SUBSET Roots]

\* since: whether each root was there at some time since the call was made;
\* before: the discoveries that had thrown by then (history).
NoCall == [kind |-> "none", at |-> "idle", answer |-> {},
           since |-> [r \in Roots |-> {}], before |-> 0]

Call == [kind : {"none", "refresh", "read"},
         at : {"idle", "load", "chain", "answered", "failed"},
         answer : SUBSET Roots, since : [Roots -> SUBSET BOOLEAN], before : 0..MaxFailures]

WorkspaceTypeOK ==
  /\ present \subseteq Roots
  /\ changes \in 0..MaxChanges /\ called \in 0..MaxCalls /\ failures \in 0..MaxFailures
  /\ attempt \in {"none", "running", "ready"}
  /\ run \in Run
  /\ rediscoverChain \in Seq(Callers)
  /\ currentRoots \subseteq Roots /\ opened \subseteq Roots
  /\ subscribed \in [Roots -> Nat]
  /\ calls \in [Callers -> Call]

\* The deepest of some roots at or above r (nearestRoot).
NearestRoot(r, roots) ==
  LET above == roots \cap (Within[r] \cup {r})
  IN  IF above = {} THEN None
      ELSE CHOOSE q \in above : above \subseteq Within[q] \cup {q}

\* The project of the files next to root r.
OwnerOf(r) ==
  IF NearestRoot(r, currentRoots) \in opened THEN NearestRoot(r, currentRoots) ELSE None

-------------------------------------------------------------------------------
\* A discovery scans the candidates in order.
Discover(by) ==
  [NoRun EXCEPT !.at = "scan", !.by = by, !.candidate = 1, !.todo = Candidates[1]]

\* The server starts the first attempt itself.
WorkspaceInit ==
  /\ present \in SUBSET Roots
  /\ changes = 0 /\ called = 0 /\ failures = 0
  /\ attempt = "running" /\ run = Discover(None) /\ rediscoverChain = <<>>
  /\ currentRoots = {} /\ opened = {} /\ subscribed = [r \in Roots |-> 0]
  /\ calls = [c \in Callers |-> NoCall]

Made(kind) ==
  [NoCall EXCEPT !.kind = kind, !.before = failures,
     !.since = [r \in Roots |-> {there \in BOOLEAN : there <=> r \in present}]]

\* A mutant of Enter: a refresh joins the one that runs.
EnterJoining(c, call) ==
  IF call.kind = "refresh" /\ run.at = "idle"
    THEN /\ calls' = [calls EXCEPT ![c] = [call EXCEPT !.at = "chain"]]
         /\ run' = Discover(c) /\ UNCHANGED rediscoverChain
    ELSE /\ calls' = [calls EXCEPT ![c] =
                        [call EXCEPT !.at = "answered", !.answer = opened]]
         /\ UNCHANGED <<run, rediscoverChain>>

\* The handler of c has its workspace: a refresh joins the chain, and starts at
\* once when nothing is before it; a read answers from the projects.
Enter(c, call) ==
  IF call.kind = "refresh"
    THEN /\ calls' = [calls EXCEPT ![c] = [call EXCEPT !.at = "chain"]]
         /\ IF run.at = "idle"
              THEN run' = Discover(c) /\ UNCHANGED rediscoverChain
              ELSE rediscoverChain' = Append(rediscoverChain, c) /\ UNCHANGED run
    ELSE /\ calls' = [calls EXCEPT ![c] =
                        [call EXCEPT !.at = "answered", !.answer = opened]]
         /\ UNCHANGED <<run, rediscoverChain>>

\* A tool call arrives (createWorkspaceLoader).
Arrive(c, kind) ==
  /\ calls[c].at = "idle" /\ called < MaxCalls
  /\ called' = called + 1
  /\ IF attempt = "ready"
       THEN Enter(c, Made(kind)) /\ UNCHANGED attempt
       ELSE /\ calls' = [calls EXCEPT ![c] = [Made(kind) EXCEPT !.at = "load"]]
            /\ attempt' = "running"
            /\ run' = IF attempt = "none" THEN Discover(None) ELSE run
            /\ UNCHANGED rediscoverChain
  /\ UNCHANGED <<present, changes, failures, installed>>

\* The workspace is ready: a waiting handler goes on.
Loaded(c) ==
  /\ calls[c].at = "load" /\ attempt = "ready"
  /\ Enter(c, calls[c])
  /\ UNCHANGED <<present, workspaceCounters, attempt, installed>>

Return(c) ==
  /\ calls[c].at \in {"answered", "failed"}
  /\ calls' = [calls EXCEPT ![c] = NoCall]
  /\ UNCHANGED <<present, workspaceCounters, attempt, run, rediscoverChain, installed>>

-------------------------------------------------------------------------------
\* One directory of the scan.
Scan(r) ==
  /\ run.at = "scan" /\ r \in run.todo
  /\ run' = [run EXCEPT !.todo = @ \ {r}, !.next = @ \cup ({r} \cap present)]
  /\ UNCHANGED <<present, workspaceCounters, attempt, rediscoverChain, installed, calls>>

\* The scan of a candidate found nothing and another is left.
NextCandidate ==
  /\ run.at = "scan" /\ run.todo = {} /\ run.next = {}
  /\ run.candidate < Len(Candidates)
  /\ run' = [run EXCEPT !.candidate = @ + 1, !.todo = Candidates[run.candidate + 1]]
  /\ UNCHANGED <<present, workspaceCounters, attempt, rediscoverChain, installed, calls>>

\* apply: files change owner before the new projects are open.
Apply ==
  /\ run.at = "scan" /\ run.todo = {}
  /\ run.next # {} \/ run.candidate = Len(Candidates)
  /\ currentRoots' = run.next
  /\ run' = [run EXCEPT !.at = "open", !.todo = run.next \ opened]
  /\ UNCHANGED <<present, workspaceCounters, attempt, rediscoverChain, opened, subscribed, calls>>

OpenProject(r) ==
  /\ run.at = "open" /\ r \in run.todo
  /\ subscribed' = [subscribed EXCEPT ![r] = @ + 1]
  /\ run' = [run EXCEPT !.todo = @ \ {r}]
  /\ UNCHANGED <<present, workspaceCounters, attempt, rediscoverChain, currentRoots, opened, calls>>

\* The chain moves on.
NextInChain ==
  IF rediscoverChain = <<>>
    THEN run' = NoRun /\ UNCHANGED rediscoverChain
    ELSE run' = Discover(Head(rediscoverChain)) /\ rediscoverChain' = Tail(rediscoverChain)

\* A mutant of Install: the subscriptions of dropped projects stay.
InstallLeaking ==
  /\ run.at = "open" /\ run.todo = {}
  /\ opened' = run.next
  /\ attempt' = "ready"
  /\ calls' = IF run.by = None THEN calls
              ELSE [calls EXCEPT ![run.by].at = "answered", ![run.by].answer = run.next]
  /\ NextInChain
  /\ UNCHANGED <<present, workspaceCounters, currentRoots, subscribed>>

\* The end of apply: the projects that are gone are dropped.
Install ==
  /\ run.at = "open" /\ run.todo = {}
  /\ opened' = run.next
  /\ subscribed' = [r \in Roots |-> IF r \in opened \ run.next
                                      THEN subscribed[r] - 1 ELSE subscribed[r]]
  /\ attempt' = "ready"
  /\ calls' = IF run.by = None THEN calls
              ELSE [calls EXCEPT ![run.by].at = "answered", ![run.by].answer = run.next]
  /\ NextInChain
  /\ UNCHANGED <<present, workspaceCounters, currentRoots>>

\* A mutant of FailDiscovery: the refreshes that wait are forgotten.
FailStopping ==
  /\ run.at = "scan" /\ failures < MaxFailures
  /\ failures' = failures + 1
  /\ run' = NoRun
  /\ attempt' = IF run.by = None THEN "none" ELSE attempt
  /\ calls' = [c \in Callers |->
       IF calls[c].at = "load" \/ run.by = c THEN [calls[c] EXCEPT !.at = "failed"]
       ELSE calls[c]]
  /\ UNCHANGED <<present, changes, called, rediscoverChain, installed>>

\* The discovery throws: the calls that wait for the loader get the error and
\* the next call starts over; a refresh gets its own error, and the chain goes on.
FailDiscovery ==
  /\ run.at = "scan" /\ failures < MaxFailures
  /\ failures' = failures + 1
  /\ attempt' = IF run.by = None THEN "none" ELSE attempt
  /\ calls' = [c \in Callers |->
       IF run.by \in {None, c} /\ calls[c].at \in {"load", "chain"}
         THEN [calls[c] EXCEPT !.at = "failed"] ELSE calls[c]]
  /\ NextInChain
  /\ UNCHANGED <<present, changes, called, installed>>

\* A project is created or removed.
Change(r) ==
  /\ changes < MaxChanges
  /\ changes' = changes + 1
  /\ present' = IF r \in present THEN present \ {r} ELSE present \cup {r}
  /\ calls' = [c \in Callers |-> IF calls[c].at \in {"load", "chain"}
                 THEN [calls[c] EXCEPT !.since[r] = @ \cup {r \notin present}]
                 ELSE calls[c]]
  /\ UNCHANGED <<called, failures, attempt, run, rediscoverChain, installed>>

WorkspaceNext ==
  \/ NextCandidate \/ Apply \/ Install \/ FailDiscovery
  \/ \E r \in Roots : Scan(r) \/ OpenProject(r) \/ Change(r)
  \/ \E c \in Callers : \/ Loaded(c) \/ Return(c)
                        \/ \E kind \in {"refresh", "read"} : Arrive(c, kind)

WorkspaceSpec == WorkspaceInit /\ [][WorkspaceNext]_workspaceVars

\* The runtime goes on with what was started; nobody has to call.
WorkspaceFairSpec ==
  /\ WorkspaceSpec
  /\ WF_workspaceVars(NextCandidate \/ Apply \/ Install)
  /\ \A r \in Roots : WF_workspaceVars(Scan(r)) /\ WF_workspaceVars(OpenProject(r))
  /\ \A c \in Callers : WF_workspaceVars(Loaded(c))

-------------------------------------------------------------------------------
\* A call that fails got the error of a discovery that threw since it was made.
ErrorsAreFresh ==
  \A c \in Callers : calls[c].at = "failed" => failures > calls[c].before

(***************************************************************************)
(* What markspec_refresh promises: the projects it answers for were found  *)
(* after it was called.  Each was there at some time since then; and one   *)
(* that was there all the time is among them, unless an earlier start      *)
(* folder had a project.  And neither the loader nor the chain remembers a *)
(* failure: no call gets the error of an earlier discovery.                *)
(***************************************************************************)
RefreshIsFresh ==
  /\ ErrorsAreFresh
  /\ \A c \in Callers : calls[c].kind = "refresh" /\ calls[c].at = "answered" =>
       /\ \A r \in calls[c].answer : TRUE \in calls[c].since[r]
       /\ \A i \in 1..Len(Candidates) : \A r \in Candidates[i] \ calls[c].answer :
            calls[c].since[r] = {TRUE} =>
              \E j \in 1..(i - 1) : \E q \in Candidates[j] : TRUE \in calls[c].since[q]

(***************************************************************************)
(* Between two discoveries the owner of a file is the deepest project that *)
(* is open above it, and every open project, and no other, reports its     *)
(* changes once -- after any overlap of refreshes and failures.            *)
(***************************************************************************)
OwnersOpen ==
  run.at # "open" =>
    /\ \A r \in Roots : OwnerOf(r) = NearestRoot(r, opened)
    /\ \A r \in Roots : subscribed[r] = IF r \in opened THEN 1 ELSE 0

(***************************************************************************)
(* Every call is answered, or fails.                                       *)
(***************************************************************************)
CallsReturn ==
  \A c \in Callers : calls[c].at \in {"load", "chain"} ~> calls[c].at \in {"answered", "failed"}
=============================================================================
