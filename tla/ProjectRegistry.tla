--------------------------- MODULE ProjectRegistry ----------------------------
(***************************************************************************)
(* The set of projects of one language-server session and the routing of   *)
(* documents to them (packages/markspec/lsp/project_registry.ts, with its  *)
(* callers in server.ts).                                                  *)
(*                                                                         *)
(* Startup, on-demand creation, rebuilds and watched-file reloads are      *)
(* tasks of one serial lane.  A task is cut at its awaits: each action of  *)
(* the lane is what runs between two of them, and job.pc names the await   *)
(* the task is suspended at.  Between two such steps documents open and    *)
(* are edited, handlers read the registry without waiting, the disk        *)
(* changes, and the server may be told to shut down.                       *)
(*                                                                         *)
(* A call of ensureContextFor waits at the startup gate, then either       *)
(* takes the fast path to a known project or queues a task of its own.     *)
(* Opening the gate resumes all of its waiters before the lane's next      *)
(* task starts.  Corpora, profiles and diagnostics are left out (see       *)
(* ProjectContext); a project is its root and the files it has indexed.    *)
(***************************************************************************)
EXTENDS Integers, Sequences, FiniteSets, SequencesExt

CONSTANTS
  Dirs,           \* directories
  Above,          \* directory -> the directories at or above it
  ProjectYaml,    \* directories whose configuration file is a project.yaml;
                  \* in the others it is a .markspec.yaml
  Documents,      \* documents
  DirOf,          \* document -> its directory
  OnDisk,         \* documents that are saved; the walk finds only these
  Watched,        \* directories that the registered watchers cover
  WorkspaceRoots, \* the roots the client can send, NoDir for none
  NoDir,          \* undefined
  Absent,         \* a cache has no entry
  MaxChanges,     \* bound on the changes of configuration files
  MaxEvents       \* bound on the opens and edits of documents

ASSUME RegistryAssumption ==
  /\ Above \in [Dirs -> SUBSET Dirs]
  /\ \A d \in Dirs : d \in Above[d] /\ \A e \in Above[d] : Above[e] \subseteq Above[d]
  \* the directories above one are in a line, and one of them is the deepest
  /\ \A d \in Dirs : \A e \in Above[d] : d \in Above[e] => d = e
  /\ \A d \in Dirs : \A above \in SUBSET Above[d] :
       above # {} => \E r \in above : above \subseteq Above[r]
  /\ ProjectYaml \subseteq Dirs
  /\ DirOf \in [Documents -> Dirs]
  /\ OnDisk \subseteq Documents
  /\ Watched \subseteq Dirs
  /\ NoDir \notin Dirs /\ Absent \notin Dirs \cup {NoDir}
  /\ WorkspaceRoots \subseteq Dirs \cup {NoDir}
  /\ MaxChanges \in Nat /\ MaxEvents \in Nat

VARIABLES
  \* The editor and the disk (external).
  configured,      \* the directories that hold a configuration file
  open,            \* documents open in the editor
  unreported,      \* directories a change of which was never reported (history)
  session,         \* how far onInitialize and onInitialized have got
  changes,         \* changes of configuration files so far
  events,          \* opens and edits so far
  \* The registry.
  ctxs,            \* every context created: root, indexed, disposed, files
  contexts,        \* root -> its context (a position in ctxs), 0 for none
  workspaceRoot,   \* the root the client sent, or NoDir
  primaryRoot,
  ownerCache,      \* directory -> nearest known root, or Absent
  walkUpCache,     \* directory -> its configuration root, or Absent
  startupOpen,     \* FALSE while the gate is armed
  gate,            \* the calls that wait for the gate, in order
  lane,            \* the tasks queued behind the running one, in order
  job,             \* the running task
  pendingChanges,  \* watched changes not classified yet
  timer,           \* the debounced reload is scheduled
  shuttingDown,
  \* The handlers of server.ts.
  got,             \* calls that were answered and parse their document next
  edited,          \* documents whose debounced parse is scheduled
  reindex          \* open documents reindexOpenDocuments has still to route

disk == <<workspaceRoot, configured, unreported, open, changes, events>>
caches == <<ownerCache, walkUpCache>>
watch == <<pendingChanges, timer>>
handlers == <<got, edited, reindex>>
vars == <<disk, session, ctxs, contexts, primaryRoot, caches, startupOpen, gate, lane,
          job, watch, shuttingDown, handlers>>

Call == [by : {"event", "reindex"}, file : Documents]
NoCall == [by |-> "none"]
Kinds == {"init", "indexAll", "create", "reload"}
Task == [kind : Kinds, call : Call \cup {NoCall}]
Awaits == {"idle", "resolve", "load", "discover", "nested", "index",
           "handover", "reload", "end"}
Context == [root : Dirs, indexed : BOOLEAN, disposed : BOOLEAN, files : SUBSET Documents]
Idle == [kind |-> "none", call |-> NoCall, pc |-> "idle", anchor |-> NoDir,
         fallback |-> FALSE, todo |-> {}, evicted |-> {}]

TypeOK ==
  /\ configured \subseteq Dirs /\ unreported \subseteq Dirs /\ open \subseteq Documents
  /\ session \in {"initializing", "indexing", "indexed", "watching"}
  /\ changes \in 0..MaxChanges /\ events \in 0..MaxEvents
  /\ ctxs \in Seq(Context)
  /\ contexts \in [Dirs -> 0..Len(ctxs)]
  /\ workspaceRoot \in WorkspaceRoots /\ primaryRoot \in Dirs \cup {NoDir}
  /\ ownerCache \in [Dirs -> Dirs \cup {NoDir, Absent}]
  /\ walkUpCache \in [Dirs -> Dirs \cup {NoDir, Absent}]
  /\ startupOpen \in BOOLEAN /\ timer \in BOOLEAN /\ shuttingDown \in BOOLEAN
  /\ gate \in Seq(Call) /\ lane \in Seq(Task)
  /\ job.kind \in Kinds \cup {"none"} /\ job.pc \in Awaits
  /\ job.todo \subseteq Dirs /\ job.evicted \subseteq Documents
  /\ pendingChanges \subseteq {"structural", "content"}
  /\ \A g \in got : g.call \in Call /\ g.ctx \in 1..Len(ctxs)
  /\ edited \subseteq Documents /\ reindex \subseteq Documents

-------------------------------------------------------------------------------
\* nearestRoot: the deepest member of S at or above d.
NearestRoot(d, S) ==
  IF S \cap Above[d] = {} THEN NoDir
  ELSE CHOOSE r \in S \cap Above[d] : S \cap Above[d] \subseteq Above[r]

\* resolveConfigRoot: the nearest project.yaml, else the nearest .markspec.yaml.
ConfigRoot(d) ==
  IF configured \cap ProjectYaml \cap Above[d] # {}
    THEN NearestRoot(d, configured \cap ProjectYaml)
    ELSE NearestRoot(d, configured)

\* findNestedProjectRoots: what the configuration files below d resolve to,
\* when that is below d too.
NestedRoots(d) ==
  LET below == {e \in Dirs : d \in Above[e] /\ e # d}
  IN  {ConfigRoot(e) : e \in configured \cap below} \cap below

KnownRoots == {d \in Dirs : contexts[d] # 0}

\* ownerRoot, which looks in the cache first.
OwnerRoot(d) ==
  IF ownerCache[d] # Absent THEN ownerCache[d] ELSE NearestRoot(d, KnownRoots)

\* What reading the owners of the directories D leaves in the cache.
CacheOwners(D) ==
  ownerCache' = [d \in Dirs |-> IF d \in D THEN OwnerRoot(d) ELSE ownerCache[d]]

EmptyCache == [d \in Dirs |-> Absent]

Primary == IF primaryRoot = NoDir THEN 0 ELSE contexts[primaryRoot]

\* contextFor: the context of the nearest known root, else the primary one.
ContextFor(f) ==
  LET owner == OwnerRoot(DirOf[f])
  IN  IF owner = NoDir THEN Primary ELSE contexts[owner]

\* A call takes the fast path of ensureContextFor.
Fast(call) == OwnerRoot(DirOf[call.file]) # NoDir /\ ContextFor(call.file) # 0

-------------------------------------------------------------------------------
(***************************************************************************)
(* The initialize request arrived, with a workspace root (and its gate is  *)
(* armed) or without one (and nothing is queued or watched).               *)
(***************************************************************************)
Init ==
  /\ workspaceRoot \in WorkspaceRoots
  /\ configured \in SUBSET Dirs
  /\ unreported = {}
  /\ session = IF workspaceRoot = NoDir THEN "indexed" ELSE "initializing"
  /\ open = {} /\ changes = 0 /\ events = 0
  /\ ctxs = <<>>
  /\ contexts = [d \in Dirs |-> 0]
  /\ primaryRoot = NoDir
  /\ ownerCache = EmptyCache /\ walkUpCache = EmptyCache
  /\ startupOpen = (workspaceRoot = NoDir)
  /\ gate = <<>>
  /\ lane = IF workspaceRoot = NoDir THEN <<>>
            ELSE << [kind |-> "init", call |-> NoCall] >>
  /\ job = Idle
  /\ pendingChanges = {} /\ timer = FALSE /\ shuttingDown = FALSE
  /\ got = {} /\ edited = {} /\ reindex = {}

(***************************************************************************)
(* ensureContextFor, once the gate is open: the fast path, or a task.      *)
(***************************************************************************)
Answered(calls) == {[call |-> c, ctx |-> ContextFor(c.file)] : c \in calls}

\* A mutant of EnsureContextFor: it does not wait for the gate.
EnsureContextForUngated(call) ==
  /\ CacheOwners({DirOf[call.file]})
  /\ UNCHANGED gate
  /\ IF Fast(call)
       THEN got' = got \cup Answered({call}) /\ UNCHANGED lane
       ELSE lane' = Append(lane, [kind |-> "create", call |-> call]) /\ UNCHANGED got

EnsureContextFor(call) ==
  IF startupOpen
    THEN /\ CacheOwners({DirOf[call.file]})
         /\ UNCHANGED gate
         /\ IF Fast(call)
              THEN got' = got \cup Answered({call}) /\ UNCHANGED lane
              ELSE /\ lane' = Append(lane, [kind |-> "create", call |-> call])
                   /\ UNCHANGED got
    ELSE gate' = Append(gate, call) /\ UNCHANGED <<ownerCache, lane, got>>

\* A document has no call of this kind under way.
NoCallOf(by, f) ==
  LET call == [by |-> by, file |-> f]
  IN  /\ \A g \in got : g.call # call
      /\ ~Contains(gate, call)
      /\ ~Contains(lane, [kind |-> "create", call |-> call])
      /\ job.call # call

\* The places at the gate of the waiters that take no fast path, and the n-th of them.
Slow == {i \in DOMAIN gate : ~Fast(gate[i])}
SlowPlace(n) == CHOOSE i \in Slow : Cardinality({j \in Slow : j < i}) = n - 1

(***************************************************************************)
(* finishStartup: every waiter of the gate is routed, before the next task *)
(* of the lane starts.  `also` is the answer of the task that ends.        *)
(***************************************************************************)
FinishStartup(also) ==
  /\ startupOpen' = TRUE
  /\ gate' = <<>>
  /\ got' = got \cup Answered({c \in ToSet(gate) : Fast(c)}) \cup also
  /\ lane' = lane \o [n \in 1..Cardinality(Slow) |->
                        [kind |-> "create", call |-> gate[SlowPlace(n)]]]
  /\ CacheOwners({DirOf[c.file] : c \in ToSet(gate)})

-------------------------------------------------------------------------------
(***************************************************************************)
(* The lane.  Start(kind) is the synchronous part of a task, up to its     *)
(* first await.                                                            *)
(***************************************************************************)
Start(kind) == job = Idle /\ lane # <<>> /\ Head(lane).kind = kind

Began(pc, anchor) ==
  job' = [Idle EXCEPT !.kind = Head(lane).kind, !.call = Head(lane).call,
                      !.pc = pc, !.anchor = anchor]

\* initInner.
StartInit ==
  /\ Start("init")
  /\ lane' = Tail(lane)
  /\ Began("resolve", NoDir)
  /\ UNCHANGED <<disk, session, ctxs, contexts, primaryRoot, caches,
                 startupOpen, gate, watch, shuttingDown, handlers>>

\* indexAllInner.
StartIndexAll ==
  /\ Start("indexAll")
  /\ lane' = Tail(lane)
  /\ Began(IF shuttingDown \/ Primary = 0 THEN "end" ELSE "discover", primaryRoot)
  /\ UNCHANGED <<disk, session, ctxs, contexts, primaryRoot, caches,
                 startupOpen, gate, watch, shuttingDown, handlers>>

(***************************************************************************)
(* createFor: the owner is looked up again, then the walk-up is taken from *)
(* its cache or started.  Nothing is created after shutdown.               *)
(***************************************************************************)
StartCreate ==
  /\ Start("create")
  /\ LET call == Head(lane).call
         dir == DirOf[call.file]
     IN  /\ CacheOwners(IF shuttingDown THEN {} ELSE {dir})
         /\ IF shuttingDown \/ OwnerRoot(dir) # NoDir
              THEN /\ job' = Idle
                   /\ got' = IF shuttingDown THEN got ELSE got \cup Answered({call})
              ELSE Began("resolve", NoDir) /\ UNCHANGED got
  /\ lane' = Tail(lane)
  /\ UNCHANGED <<disk, session, ctxs, contexts, primaryRoot, walkUpCache,
                 startupOpen, gate, watch, shuttingDown, edited, reindex>>

(***************************************************************************)
(* rebuild: arm the gate, dispose every context and forget all the roots.  *)
(***************************************************************************)
Rebuild ==
  /\ startupOpen' = FALSE
  /\ ctxs' = [i \in DOMAIN ctxs |->
                [ctxs[i] EXCEPT !.disposed = @ \/ i \in {contexts[d] : d \in Dirs}]]
  /\ contexts' = [d \in Dirs |-> 0]
  /\ ownerCache' = EmptyCache
  /\ walkUpCache' = EmptyCache
  /\ primaryRoot' = NoDir
  /\ job' = [Idle EXCEPT !.kind = "reload", !.pc = "resolve"]

(***************************************************************************)
(* runWatchedReload: a configuration file that came or went rebuilds the   *)
(* registry; any other change reloads its project, which is the await      *)
(* "reload".  Without a workspace root there is nothing to rebuild, but    *)
(* reindexOpenDocuments follows all the same.                              *)
(***************************************************************************)
StartReload ==
  /\ Start("reload")
  /\ lane' = Tail(lane)
  /\ pendingChanges' = IF shuttingDown THEN pendingChanges ELSE {}
  /\ \/ /\ ~shuttingDown
        /\ "structural" \in pendingChanges /\ workspaceRoot # NoDir
        /\ Rebuild
     \/ /\ ~shuttingDown
        /\ pendingChanges = {"content"} /\ KnownRoots # {}
        /\ Began("reload", NoDir)
        /\ UNCHANGED <<ctxs, contexts, primaryRoot, caches, startupOpen>>
     \/ /\ \/ shuttingDown
           \/ "structural" \in pendingChanges /\ workspaceRoot = NoDir
           \/ pendingChanges = {"content"} /\ KnownRoots = {}
           \/ pendingChanges = {}
        /\ job' = Idle
        /\ UNCHANGED <<ctxs, contexts, primaryRoot, caches, startupOpen>>
  /\ reindex' = IF ~shuttingDown /\ "structural" \in pendingChanges /\ workspaceRoot = NoDir
                THEN reindex \cup open ELSE reindex
  /\ UNCHANGED <<disk, session, gate, timer, shuttingDown, edited, got>>

\* reloadWatchedFiles is over; a changed exclude: list rebuilds the registry.
Reloaded ==
  /\ job.pc = "reload"
  /\ \/ workspaceRoot # NoDir /\ Rebuild
     \/ job' = Idle /\ UNCHANGED <<ctxs, contexts, primaryRoot, caches,
                                   startupOpen>>
  /\ \/ UNCHANGED reindex
     \/ workspaceRoot = NoDir /\ reindex' = reindex \cup open
  /\ UNCHANGED <<disk, session, gate, lane, watch, shuttingDown, edited, got>>

-------------------------------------------------------------------------------
\* resolveConfigRoot answered initInner: the primary root is known.
ResolvePrimary ==
  /\ job.pc = "resolve" /\ job.kind \in {"init", "reload"}
  /\ LET found == ConfigRoot(workspaceRoot)
         root == IF found = NoDir THEN workspaceRoot ELSE found
     IN  /\ primaryRoot' = root
         /\ job' = [job EXCEPT !.pc = "load", !.anchor = root]
  /\ UNCHANGED <<disk, session, ctxs, contexts, caches, startupOpen, gate,
                 lane, watch, shuttingDown, handlers>>

(***************************************************************************)
(* createFor found a root above the document, or none, on disk or in its   *)
(* cache.  Without one the document falls back to the primary project; a   *)
(* root is created, and its tree added, behind the armed gate.             *)
(***************************************************************************)
ResolveDocument ==
  /\ job.pc = "resolve" /\ job.kind = "create"
  /\ LET dir == DirOf[job.call.file]
         found == IF walkUpCache[dir] # Absent THEN walkUpCache[dir] ELSE ConfigRoot(dir)
         anchor == IF found = NoDir THEN dir ELSE found
     IN  /\ walkUpCache' = [walkUpCache EXCEPT ![dir] = found]
         /\ IF found = NoDir /\ Primary # 0
              THEN /\ got' = got \cup {[call |-> job.call, ctx |-> Primary]}
                   /\ job' = Idle
                   /\ UNCHANGED startupOpen
              ELSE /\ startupOpen' = FALSE
                   /\ job' = [job EXCEPT !.anchor = anchor, !.fallback = found = NoDir,
                                !.pc = IF found # NoDir /\ contexts[found] # 0
                                         THEN "discover" ELSE "load"]
                   /\ UNCHANGED got
  /\ UNCHANGED <<disk, session, ctxs, contexts, primaryRoot, ownerCache, gate,
                 lane, watch, shuttingDown, edited, reindex>>

\* createAndLoad, after the load.
CreateContext(root, indexed) ==
  /\ ctxs' = Append(ctxs, [root |-> root, indexed |-> indexed,
                           disposed |-> shuttingDown, files |-> {}])
  /\ contexts' = [contexts EXCEPT ![root] = Len(ctxs) + 1]
  /\ ownerCache' = EmptyCache

(***************************************************************************)
(* The anchor of the tree is loaded.  A fallback -- the own directory of a *)
(* document that has no configuration root, in a session without one -- is *)
(* the primary project from then on, and its tree is not walked.           *)
(***************************************************************************)
AnchorLoaded ==
  /\ job.pc = "load"
  /\ CreateContext(job.anchor, job.fallback)
  /\ primaryRoot' = IF job.fallback THEN job.anchor ELSE primaryRoot
  /\ job' = [job EXCEPT !.pc = IF job.kind = "init" \/ job.fallback \/ shuttingDown
                                 THEN "end" ELSE "discover"]
  /\ UNCHANGED <<disk, session, walkUpCache, startupOpen, gate, lane, watch,
                 shuttingDown, handlers>>

(***************************************************************************)
(* addTree: the nested roots were found; those that are known, or belong   *)
(* to the tree of another project, are left out.                           *)
(***************************************************************************)
Discovered ==
  /\ job.pc = "discover"
  /\ job' = [job EXCEPT
       !.todo = {n \in NestedRoots(job.anchor) :
                   /\ contexts[n] = 0
                   /\ NearestRoot(n, KnownRoots) \in {job.anchor, NoDir}},
       !.pc = "nested"]
  /\ UNCHANGED <<disk, session, ctxs, contexts, primaryRoot, caches,
                 startupOpen, gate, lane, watch, shuttingDown, handlers>>

NestedLoaded ==
  /\ job.pc = "nested"
  /\ \E n \in job.todo :
       /\ CreateContext(n, FALSE)
       /\ job' = [job EXCEPT !.todo = @ \ {n}]
  /\ UNCHANGED <<disk, session, primaryRoot, walkUpCache, startupOpen, gate,
                 lane, watch, shuttingDown, handlers>>

\* The files below the anchor that the context i holds and does not own.
Foreign(i) ==
  {f \in ctxs[i].files :
     /\ job.anchor \in Above[DirOf[f]]
     /\ LET owner == OwnerRoot(DirOf[f])
        IN  (IF owner = NoDir THEN primaryRoot ELSE owner) # ctxs[i].root}

Mapped == {contexts[d] : d \in KnownRoots}

\* Every root of the tree is known: the files that changed owner are evicted.
EvictForeignFiles ==
  /\ job.pc = "nested" /\ job.todo = {}
  /\ ctxs' = [i \in DOMAIN ctxs |->
                IF i \in Mapped THEN [ctxs[i] EXCEPT !.files = @ \ Foreign(i)]
                ELSE ctxs[i]]
  /\ CacheOwners({DirOf[f] : f \in UNION {ctxs[i].files : i \in Mapped}})
  /\ job' = [job EXCEPT !.pc = "index", !.evicted = UNION {Foreign(i) : i \in Mapped}]
  /\ UNCHANGED <<disk, session, contexts, primaryRoot, walkUpCache,
                 startupOpen, gate, lane, watch, shuttingDown, handlers>>

\* The files the walk of the context i finds and the context owns.
Walked(i) ==
  {f \in OnDisk : ctxs[i].root \in Above[DirOf[f]] /\ OwnerRoot(DirOf[f]) = ctxs[i].root}

\* indexProject of one context that is not indexed yet.
IndexProject ==
  /\ job.pc = "index" /\ ~shuttingDown
  /\ \E i \in Mapped :
       /\ ~ctxs[i].indexed
       /\ ctxs' = [ctxs EXCEPT ![i].indexed = TRUE, ![i].files = @ \cup Walked(i)]
       /\ CacheOwners({DirOf[f] : f \in {g \in OnDisk : ctxs[i].root \in Above[DirOf[g]]}})
  /\ UNCHANGED <<disk, session, contexts, primaryRoot, walkUpCache,
                 startupOpen, gate, lane, job, watch, shuttingDown, handlers>>

(***************************************************************************)
(* All are indexed.  An evicted document that is open and that its new     *)
(* owner's walk did not find is handed over from the buffer.               *)
(***************************************************************************)
HandOver ==
  /\ job.pc = "index"
  /\ shuttingDown \/ \A i \in Mapped : ctxs[i].indexed
  /\ LET moved == IF shuttingDown THEN {} ELSE job.evicted \cap open
     IN  /\ ctxs' = [i \in DOMAIN ctxs |->
              [ctxs[i] EXCEPT !.files = @ \cup {f \in moved : ContextFor(f) = i}]]
         /\ CacheOwners({DirOf[f] : f \in moved})
  /\ job' = [job EXCEPT !.pc = "end"]
  /\ UNCHANGED <<disk, session, contexts, primaryRoot, walkUpCache,
                 startupOpen, gate, lane, watch, shuttingDown, handlers>>

\* A mutant of EndTask: a rebuild does not release the gate.
EndTaskGateLeftArmed ==
  /\ job.pc = "end"
  /\ IF job.kind = "reload"
       THEN UNCHANGED <<startupOpen, gate, got, lane, ownerCache, session>>
       ELSE IF job.kind = "init"
       THEN /\ lane' = Append(lane, [kind |-> "indexAll", call |-> NoCall])
            /\ session' = "indexing"
            /\ UNCHANGED <<startupOpen, gate, got, ownerCache>>
       ELSE /\ session' = "indexed"
            /\ FinishStartup(IF job.kind = "create" /\ ~shuttingDown
                            THEN {[call |-> job.call, ctx |-> contexts[job.anchor]]}
                            ELSE {})
  /\ reindex' = IF job.kind = "reload" THEN reindex \cup open ELSE reindex
  /\ job' = Idle
  /\ UNCHANGED <<disk, ctxs, contexts, primaryRoot, walkUpCache, watch,
                 shuttingDown, edited>>

(***************************************************************************)
(* The task ends.  init leaves the gate armed: the client is answered, and *)
(* onInitialized queues indexAll.  Every other task that comes here        *)
(* releases the gate.  A rebuild is followed by reindexOpenDocuments.      *)
(***************************************************************************)
EndTask ==
  /\ job.pc = "end"
  /\ IF job.kind = "init"
       THEN /\ lane' = Append(lane, [kind |-> "indexAll", call |-> NoCall])
            /\ UNCHANGED <<startupOpen, gate, got, ownerCache>>
       ELSE FinishStartup(IF job.kind = "create" /\ ~shuttingDown
                            THEN {[call |-> job.call, ctx |-> contexts[job.anchor]]}
                            ELSE {})
  /\ reindex' = IF job.kind = "reload" THEN reindex \cup open ELSE reindex
  /\ session' = CASE job.kind = "init" -> "indexing"
                  [] job.kind = "indexAll" -> "indexed"
                  [] OTHER -> session
  /\ job' = Idle
  /\ UNCHANGED <<disk, ctxs, contexts, primaryRoot, walkUpCache, watch,
                 shuttingDown, edited>>

-------------------------------------------------------------------------------
(***************************************************************************)
(* The handlers.  The client is silent until initialize is answered.       *)
(* onDidOpen routes the document at once.                                  *)
(***************************************************************************)
Open(f) ==
  /\ session # "initializing"
  /\ events < MaxEvents
  /\ f \notin open
  /\ NoCallOf("event", f)
  /\ open' = open \cup {f}
  /\ events' = events + 1
  /\ EnsureContextFor([by |-> "event", file |-> f])
  /\ UNCHANGED <<workspaceRoot, configured, unreported, session, changes, ctxs,
                 contexts, primaryRoot, walkUpCache, startupOpen, job, watch,
                 shuttingDown, edited, reindex>>

\* onDidChangeContent asks whose document it is and schedules a parse.
Edit(f) ==
  /\ events < MaxEvents
  /\ f \in open
  /\ events' = events + 1
  /\ CacheOwners({DirOf[f]})
  /\ edited' = edited \cup {f}
  /\ UNCHANGED <<workspaceRoot, configured, unreported, session, open, changes,
                 ctxs, contexts, primaryRoot, walkUpCache, startupOpen, gate,
                 lane, job, watch, shuttingDown, got, reindex>>

\* The debounced parse of scheduleParse fires.
ParseTimer(f) ==
  /\ f \in edited
  /\ NoCallOf("event", f)
  /\ edited' = edited \ {f}
  /\ EnsureContextFor([by |-> "event", file |-> f])
  /\ UNCHANGED <<disk, session, ctxs, contexts, primaryRoot, walkUpCache,
                 startupOpen, job, watch, shuttingDown, reindex>>

\* reindexOpenDocuments routes the next document of its loop.
ReindexNext(f) ==
  /\ f \in reindex
  /\ \A g \in Documents : NoCallOf("reindex", g)
  /\ reindex' = reindex \ {f}
  /\ EnsureContextFor([by |-> "reindex", file |-> f])
  /\ UNCHANGED <<disk, session, ctxs, contexts, primaryRoot, walkUpCache,
                 startupOpen, job, watch, shuttingDown, edited>>

\* A mutant of Parsed: the owner is not asked again after the parse.
ParsedUnchecked(g) ==
  /\ g \in got
  /\ got' = got \ {g}
  /\ ctxs' = [ctxs EXCEPT ![g.ctx].files = @ \cup {g.call.file}]
  /\ UNCHANGED <<disk, session, contexts, primaryRoot, caches, startupOpen,
                 gate, lane, job, watch, shuttingDown, edited, reindex>>

(***************************************************************************)
(* The parse of an answered call is done (the first parse of a source file *)
(* waits for its grammar, so anything may have happened since the answer). *)
(* stillOwnedBy: when another project owns the document by now, the result *)
(* is withdrawn and the document is parsed again into its owner.           *)
(***************************************************************************)
Parsed(g) ==
  LET f == g.call.file
      kept == ctxs[g.ctx].disposed \/ ContextFor(f) = g.ctx
  IN  /\ g \in got
      /\ got' = got \ {g}
      /\ ctxs' = [ctxs EXCEPT ![g.ctx].files = IF kept THEN @ \cup {f} ELSE @ \ {f}]
      /\ edited' = IF kept THEN edited ELSE edited \cup {f}
      /\ IF ctxs[g.ctx].disposed THEN UNCHANGED ownerCache
         ELSE CacheOwners({DirOf[f]})
      /\ UNCHANGED <<disk, session, contexts, primaryRoot, walkUpCache,
                     startupOpen, gate, lane, job, watch, shuttingDown,
                     reindex>>

(***************************************************************************)
(* onInitialized registers the watchers after the startup index.  Without  *)
(* a workspace root it returns before.                                     *)
(***************************************************************************)
RegisterWatchers ==
  /\ session = "indexed" /\ workspaceRoot # NoDir
  /\ session' = "watching"
  /\ UNCHANGED <<disk, ctxs, contexts, primaryRoot, caches, startupOpen, gate,
                 lane, job, watch, shuttingDown, handlers>>

(***************************************************************************)
(* onDidChangeWatchedFiles: the change is recorded (noteWatchedChanges)    *)
(* and the debounced reload is scheduled.  The client reports what the     *)
(* registered watchers cover, and may report more.                         *)
(***************************************************************************)
Note(d, kind) ==
  \E reported \in BOOLEAN :
    /\ session = "watching" /\ d \in Watched => reported
    /\ reported => session # "initializing"
    /\ pendingChanges' = IF reported THEN pendingChanges \cup {kind} ELSE pendingChanges
    /\ timer' = (timer \/ reported)
    /\ unreported' = IF reported THEN unreported ELSE unreported \cup {d}

\* A configuration file comes or goes, or is edited.
ChangeConfig(d) ==
  /\ changes < MaxChanges
  /\ ~shuttingDown
  /\ changes' = changes + 1
  /\ \/ /\ configured' = IF d \in configured THEN configured \ {d}
                         ELSE configured \cup {d}
        /\ Note(d, "structural")
     \/ /\ d \in configured
        /\ Note(d, "content")
        /\ UNCHANGED configured
  /\ UNCHANGED <<workspaceRoot, session, open, events, ctxs, contexts,
                 primaryRoot, caches, startupOpen, gate, lane, job,
                 shuttingDown, handlers>>

\* A mutant of ReloadTimer: nothing is queued behind a reload that runs.
ReloadTimerCoalescing ==
  /\ timer
  /\ timer' = FALSE
  /\ lane' = IF job.kind = "reload" THEN lane
             ELSE Append(lane, [kind |-> "reload", call |-> NoCall])
  /\ UNCHANGED <<disk, session, ctxs, contexts, primaryRoot, caches,
                 startupOpen, gate, job, pendingChanges, shuttingDown,
                 handlers>>

\* enqueueWatchedReload, 500 ms later.
ReloadTimer ==
  /\ timer
  /\ timer' = FALSE
  /\ lane' = Append(lane, [kind |-> "reload", call |-> NoCall])
  /\ UNCHANGED <<disk, session, ctxs, contexts, primaryRoot, caches,
                 startupOpen, gate, job, pendingChanges, shuttingDown,
                 handlers>>

Shutdown ==
  /\ ~shuttingDown /\ session # "initializing"
  /\ shuttingDown' = TRUE
  /\ ctxs' = [i \in DOMAIN ctxs |-> [ctxs[i] EXCEPT !.disposed = @ \/ i \in Mapped]]
  /\ timer' = FALSE
  /\ UNCHANGED <<disk, session, contexts, primaryRoot, caches, startupOpen,
                 gate, lane, job, pendingChanges, handlers>>

-------------------------------------------------------------------------------
LaneStep ==
  \/ StartInit \/ StartIndexAll \/ StartCreate \/ StartReload \/ Reloaded
  \/ ResolvePrimary \/ ResolveDocument \/ AnchorLoaded \/ Discovered
  \/ NestedLoaded \/ EvictForeignFiles \/ IndexProject \/ HandOver \/ EndTask

Next ==
  \/ LaneStep
  \/ \E f \in Documents : Open(f) \/ Edit(f) \/ ParseTimer(f) \/ ReindexNext(f)
  \/ \E g \in got : Parsed(g)
  \/ \E d \in Dirs : ChangeConfig(d)
  \/ RegisterWatchers
  \/ ReloadTimer
  \/ Shutdown

Spec == Init /\ [][Next]_vars

(***************************************************************************)
(* The runtime runs the lane, the parses and the loop of a reindex on.     *)
(* Nothing is owed by the author, the disk or the client.                  *)
(***************************************************************************)
FairSpec ==
  /\ Spec
  /\ WF_vars(LaneStep)
  /\ WF_vars(\E g \in got : Parsed(g))
  /\ WF_vars(\E f \in Documents : ReindexNext(f))
  /\ WF_vars(\E f \in Documents : ParseTimer(f))
  /\ WF_vars(ReloadTimer)

-------------------------------------------------------------------------------
\* A cached owner is the nearest known root (createAndLoad, rebuild).
CacheFresh ==
  \A d \in Dirs : ownerCache[d] \in {Absent, NearestRoot(d, KnownRoots)}

\* A context that may still publish is one the registry can reach.
LiveIsMapped ==
  \A i \in DOMAIN ctxs :
    ~ctxs[i].disposed => contexts[ctxs[i].root] = i /\ ~shuttingDown

(***************************************************************************)
(* At every await the maps of the registry agree: the cached owners are    *)
(* those of the known roots, no root has a second context, and none        *)
(* survives a rebuild or a shutdown that came while it was loading.        *)
(***************************************************************************)
Coherent == CacheFresh /\ LiveIsMapped

Resting == job = Idle /\ gate = <<>> /\ got = {}

\* No file is indexed by two projects.
IndexedOnce ==
  Resting /\ ~shuttingDown =>
    \A i \in Mapped : \A f \in ctxs[i].files : ContextFor(f) = i

Settled == Resting /\ lane = <<>> /\ edited = {} /\ reindex = {} /\ ~shuttingDown

\* No open document goes dark.
OpenIndexed ==
  Settled => \A f \in open : ContextFor(f) # 0 /\ f \in ctxs[ContextFor(f)].files

(***************************************************************************)
(* Once the lane and the parses rest, a file is in no index but its        *)
(* owner's, although nested roots, fallback owners and slow parses let it  *)
(* into others for a while; and once everything scheduled has run, an open *)
(* document is in that one, rebuilds and evictions in between or not.      *)
(***************************************************************************)
IndexedByOwner == IndexedOnce /\ OpenIndexed

\* No reload is scheduled, queued or running.
NoReloadDue ==
  /\ ~timer /\ job.kind # "reload"
  /\ \A i \in DOMAIN lane : lane[i].kind # "reload"

\* Every change above the document was reported.
Reported(f) == Above[DirOf[f]] \cap unreported = {}

\* What the walk up from the document gives on disk, else the primary root.
Owner(f) ==
  IF ConfigRoot(DirOf[f]) = NoDir THEN primaryRoot ELSE ConfigRoot(DirOf[f])

(***************************************************************************)
(* A document is never routed to the wrong project because the projects    *)
(* nested in a tree were not all known yet: unless a reported change is    *)
(* still to be acted on, a call is answered with the project that the      *)
(* nearest configuration file on disk makes the owner.                     *)
(***************************************************************************)
RoutedToOwner ==
  [][\A g \in got' \ got :
       LET f == g.call.file
       IN  Reported(f) /\ NoReloadDue /\ ~shuttingDown
             => ctxs[g.ctx].root = Owner(f) /\ ctxs[g.ctx].indexed]_vars

(***************************************************************************)
(* No reported change is lost, not even one that arrives while a rebuild   *)
(* runs: once everything has run, the owner of every open document is the *)
(* one the configuration files on disk give.                               *)
(***************************************************************************)
NoChangeLost ==
  Settled /\ NoReloadDue /\ workspaceRoot # NoDir =>
    \A f \in open : Reported(f) =>
      ContextFor(f) # 0 /\ ctxs[ContextFor(f)].root = Owner(f)

(***************************************************************************)
(* The registry keeps up: its maps agree at every await, and once all has  *)
(* run it knows the projects that are on disk.                             *)
(***************************************************************************)
RegistryHolds == Coherent /\ NoChangeLost

CallPending == gate # <<>> \/ \E i \in DOMAIN lane : lane[i].kind = "create"

\* Every call of ensureContextFor returns: the gate that is armed is released,
\* and no waiter is stranded behind a gate that was armed twice.
CallsReturn == CallPending ~> ~CallPending
=============================================================================
