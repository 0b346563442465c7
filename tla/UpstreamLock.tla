------------------------------ MODULE UpstreamLock ------------------------------
(***************************************************************************)
(* Locking the upstreams of a project: `markspec lock`                     *)
(* (packages/markspec/cli/commands/lock.ts) with the two acquirers of      *)
(* core/lock/upstream_refs.ts and upstream_deps.ts, the cache they share,  *)
(* and the offline probe of `markspec check` (core/lock/cache_check.ts).   *)
(*                                                                         *)
(* A publication of an upstream is a number, and so is a commit of its     *)
(* repository; intents other than "auto" and the ladder of tags are left   *)
(* out.  The cache of an upstream is two files, the manifest and the data; *)
(* the index of a large snapshot, which no reader checks, is left out.     *)
(* One command runs at a time.                                             *)
(***************************************************************************)
EXTENDS Integers, Sequences, SequencesExt

CONSTANTS
  Upstreams,
  MaxVersion,   \* bound on the publications of an upstream
  MaxTool,      \* bound on the markspec versions, each with a wire format
  MaxRuns,      \* bound on the commands
  Malformed,    \* all that a lockfile holds that does not parse
  Absent

\* A version is of a publication or commit, a format of the markspec that wrote.
LockSnapshot == [version : Nat, format : Nat]

LockRow == [kind : {"reference", "dependency"}, id : Upstreams,
            version : Nat, snapshot : LockSnapshot \cup {Absent}]

LockCommand == [update : SUBSET Upstreams, refs : Seq(Upstreams), deps : Seq(Upstreams),
                existing : SUBSET LockRow, rows : SUBSET LockRow,
                warned : BOOLEAN, faulted : BOOLEAN]

LockItem == [kind : {"reference", "dependency"}, id : Upstreams, mode : {"fresh", "restore"},
             at : {"acquire", "data", "manifest", "cached"},
             manifest : Nat \cup {Absent}, data : LockSnapshot \cup {Absent}]

ASSUME LockAssumption ==
  /\ {Malformed, Absent} \cap Upstreams = {} /\ IsFiniteSet(Upstreams)
  /\ Malformed \notin LockRow
  /\ Absent \notin Nat /\ Absent \notin LockSnapshot
  /\ Absent \notin LockCommand /\ Absent \notin LockItem
  /\ MaxVersion \in Nat \ {0} /\ MaxTool \in Nat \ {0} /\ MaxRuns \in Nat

VARIABLES
  references, dependencies,  \* ids declared in project.yaml
  published,  \* upstream -> its last publication, or commit of its head
  tool,       \* the markspec version that runs
  lockfile,   \* its rows [kind, id, version, snapshot], or Malformed
  cache,      \* upstream -> [manifest, data] of its cache directory
  command,    \* the markspec lock that runs, or Absent
  item,       \* the upstream it acquires, or Absent
  runs,       \* number of commands, for the bound
  result      \* history: how the last command ended, and of what it was free

lockVars == <<references, dependencies, published, tool, lockfile, cache,
              command, item, runs, result>>

LockTypeOK ==
  /\ references \subseteq Upstreams /\ dependencies \subseteq Upstreams
  /\ published \in [Upstreams -> Nat] /\ tool \in Nat
  /\ lockfile \subseteq LockRow \cup {Malformed}
  /\ cache \in [Upstreams -> [manifest : Nat \cup {Absent}, data : LockSnapshot \cup {Absent}]]
  /\ command \in LockCommand \cup {Absent} /\ item \in LockItem \cup {Absent}

\* What a data file is the hash of.
RefSnapshot(version) == [version |-> version, format |-> 0]
DepSnapshot(commit) == [version |-> commit, format |-> tool]

Row(kind, id, version, snapshot) ==
  [kind |-> kind, id |-> id, version |-> version, snapshot |-> snapshot]

Rows == lockfile \ {Malformed}

RowsOf(rows, kind, id) == {r \in rows : r.kind = kind /\ r.id = id}

\* probeCacheSnapshot.
Intact(row) ==
  /\ cache[row.id].manifest # Absent
  /\ row.snapshot # Absent /\ cache[row.id].data = row.snapshot

\* verifyUpstreamCache: rows without a snapshot are not looked at.
CachePasses == \A r \in Rows : r.snapshot = Absent \/ Intact(r)

LockInit ==
  /\ references \in SUBSET Upstreams /\ dependencies \in SUBSET Upstreams
  /\ published = [i \in Upstreams |-> 1] /\ tool = 1
  \* no lockfile, or the pin-only rows of an older markspec
  /\ \E legacy \in {{}, references} : lockfile = {Row("reference", i, 1, Absent) : i \in legacy}
  /\ cache = [i \in Upstreams |-> [manifest |-> Absent, data |-> Absent]]
  /\ command = Absent /\ item = Absent /\ runs = 0
  /\ result = Absent

-------------------------------------------------------------------------------
(***************************************************************************)
(* The command reads the configuration and the lockfile, then acquires the *)
(* references and after them the dependencies, each in order.              *)
(***************************************************************************)
Start(update) ==
  /\ command = Absent /\ runs < MaxRuns
  /\ runs' = runs + 1
  /\ command' = [update |-> update,  \* --update: every id, or one, or none
                 refs |-> SetToSeq(references), deps |-> SetToSeq(dependencies),
                 existing |-> Rows, rows |-> {}, warned |-> FALSE, faulted |-> FALSE]
  /\ result' = Absent
  /\ UNCHANGED <<references, dependencies, published, tool, lockfile, cache, item>>

Working == command # Absent /\ item = Absent

Begin(kind, id, mode) ==
  item' = [kind |-> kind, id |-> id, mode |-> mode, at |-> "acquire", manifest |-> Absent, data |-> Absent]

\* The row of this upstream is settled; the other rows are as they were.
Settle(rows, warns) ==
  /\ command' = [command EXCEPT !.rows = @ \cup rows, !.warned = @ \/ warns]
  /\ item' = Absent

\* An upstream with a pin that is not selected is kept while its cache is intact.
Kept(kind, id) ==
  \E r \in RowsOf(command.existing, kind, id) : id \notin command.update /\ Intact(r)

ModeOf(kind, id) ==
  IF RowsOf(command.existing, kind, id) # {} /\ id \notin command.update
    THEN "restore" ELSE "fresh"

Take(kind, id, rest) ==
  IF Kept(kind, id)
    THEN /\ command' = [rest EXCEPT !.rows = @ \cup RowsOf(command.existing, kind, id)]
         /\ UNCHANGED item
    ELSE command' = rest /\ Begin(kind, id, ModeOf(kind, id))

NextReference ==
  /\ Working /\ command.refs # <<>>
  /\ Take("reference", Head(command.refs), [command EXCEPT !.refs = Tail(@)])
  /\ UNCHANGED <<references, dependencies, published, tool, lockfile, cache, runs, result>>

\* A mutant of NextDependency: the ids of the references are not reserved.
NextDependencyUnreserved ==
  /\ Working /\ command.refs = <<>> /\ command.deps # <<>>
  /\ Take("dependency", Head(command.deps), [command EXCEPT !.deps = Tail(@)])
  /\ UNCHANGED <<references, dependencies, published, tool, lockfile, cache, runs, result>>

\* The id of a reference is skipped with a warning.
NextDependency ==
  /\ Working /\ command.refs = <<>> /\ command.deps # <<>>
  /\ LET id == Head(command.deps)
         rest == [command EXCEPT !.deps = Tail(@)]
     IN  IF id \in references
           THEN command' = [rest EXCEPT !.warned = TRUE] /\ UNCHANGED item
           ELSE Take("dependency", id, rest)
  /\ UNCHANGED <<references, dependencies, published, tool, lockfile, cache, runs, result>>

-------------------------------------------------------------------------------
(***************************************************************************)
(* One upstream.  A request, a git command or a write may fail; the pin    *)
(* that was there is kept.                                                 *)
(***************************************************************************)
Acquiring(at) == item # Absent /\ item.at = at

Pins == RowsOf(command.existing, item.kind, item.id)

Warn ==
  /\ Settle(Pins, TRUE)
  /\ UNCHANGED <<references, dependencies, published, tool, lockfile, cache, runs, result>>

Fail ==
  /\ item # Absent
  /\ command' = [command EXCEPT !.rows = @ \cup Pins, !.warned = TRUE, !.faulted = TRUE]
  /\ item' = Absent
  /\ UNCHANGED <<references, dependencies, published, tool, lockfile, cache, runs, result>>

\* A reference: its manifest; then its data, which may be of a later publication.
FetchManifest ==
  /\ Acquiring("acquire") /\ item.kind = "reference"
  /\ item' = [item EXCEPT !.manifest = published[item.id], !.at = "data"]
  /\ UNCHANGED <<references, dependencies, published, tool, lockfile, cache, command, runs, result>>

\* A dependency: the commit of its head, or of its pin when it is restored.
ResolveIntent ==
  /\ Acquiring("acquire") /\ item.kind = "dependency"
  /\ \E commit \in IF item.mode = "restore" THEN {r.version : r \in Pins} ELSE {published[item.id]} :
       item' = [item EXCEPT !.manifest = commit, !.at = "data"]
  /\ UNCHANGED <<references, dependencies, published, tool, lockfile, cache, command, runs, result>>

Fetched == IF item.kind = "reference" THEN RefSnapshot(published[item.id]) ELSE DepSnapshot(item.manifest)

\* A restore that does not bring back the pinned snapshot.
Differs(data) == item.mode = "restore" /\ \E r \in Pins : r.snapshot \notin {Absent, data}

FetchData ==
  /\ Acquiring("data")
  /\ IF Differs(Fetched)
       THEN Warn
       ELSE /\ item' = [item EXCEPT !.data = Fetched, !.at = "manifest"]
            /\ UNCHANGED <<references, dependencies, published, tool, lockfile, cache,
                           command, runs, result>>

WriteManifest ==
  /\ Acquiring("manifest")
  /\ cache' = [cache EXCEPT ![item.id].manifest = item.manifest]
  /\ item' = [item EXCEPT !.at = "cached"]
  /\ UNCHANGED <<references, dependencies, published, tool, lockfile, command, runs, result>>

NewRow == Row(item.kind, item.id, item.manifest, item.data)

\* A mutant of WriteData: every upstream that was fetched gets a new row.
WriteDataRepinning ==
  /\ Acquiring("cached")
  /\ cache' = [cache EXCEPT ![item.id].data = item.data]
  /\ Settle({NewRow}, FALSE)
  /\ UNCHANGED <<references, dependencies, published, tool, lockfile, runs, result>>

\* A restored pin stays, but one without a snapshot is pinned anew.
WriteData ==
  /\ Acquiring("cached")
  /\ cache' = [cache EXCEPT ![item.id].data = item.data]
  /\ Settle(IF item.mode = "restore" /\ \A r \in Pins : r.snapshot # Absent THEN Pins ELSE {NewRow}, FALSE)
  /\ UNCHANGED <<references, dependencies, published, tool, lockfile, runs, result>>

-------------------------------------------------------------------------------
Acquired == Working /\ command.refs = <<>> /\ command.deps = <<>>

\* The lockfile is rewritten in place: it is first empty.
Truncate ==
  /\ Acquired /\ lockfile # {Malformed}
  /\ lockfile' = {Malformed}
  /\ UNCHANGED <<references, dependencies, published, tool, cache, command, item, runs, result>>

WriteLockfile ==
  /\ Acquired /\ lockfile = {Malformed}
  /\ lockfile' = command.rows
  /\ command' = Absent
  /\ result' = [clean |-> ~command.warned, faulted |-> command.faulted,
                update |-> command.update, existing |-> command.existing]
  /\ UNCHANGED <<references, dependencies, published, tool, cache, item, runs>>

\* The command is killed.
Kill ==
  /\ command # Absent
  /\ command' = Absent /\ item' = Absent /\ result' = Absent
  /\ UNCHANGED <<references, dependencies, published, tool, lockfile, cache, runs>>

(***************************************************************************)
(* Around it: an upstream publishes, the user upgrades markspec, edits     *)
(* project.yaml, checks the project out without the cache.                 *)
(***************************************************************************)
Publish(id) ==
  /\ published[id] < MaxVersion
  /\ published' = [published EXCEPT ![id] = @ + 1]
  /\ UNCHANGED <<references, dependencies, tool, lockfile, cache, command, item, runs, result>>

Upgrade ==
  /\ command = Absent /\ tool < MaxTool
  /\ tool' = tool + 1 /\ result' = Absent
  /\ UNCHANGED <<references, dependencies, published, lockfile, cache, command, item, runs>>

Edit ==
  /\ command = Absent /\ result # Absent
  /\ references' \in SUBSET Upstreams /\ dependencies' \in SUBSET Upstreams
  /\ result' = Absent
  /\ UNCHANGED <<published, tool, lockfile, cache, command, item, runs>>

CleanCheckout ==
  /\ command = Absent
  /\ cache' = [i \in Upstreams |-> [manifest |-> Absent, data |-> Absent]]
  /\ result' = Absent
  /\ UNCHANGED <<references, dependencies, published, tool, lockfile, command, item, runs>>

LockNext ==
  \/ \E update \in {{}, Upstreams} \cup {{i} : i \in Upstreams} : Start(update)
  \/ NextReference \/ NextDependency
  \/ FetchManifest \/ ResolveIntent \/ FetchData \/ WriteManifest \/ WriteData \/ Fail
  \/ Truncate \/ WriteLockfile \/ Kill
  \/ (\E id \in Upstreams : Publish(id)) \/ Upgrade \/ Edit \/ CleanCheckout

LockSpec == LockInit /\ [][LockNext]_lockVars

-------------------------------------------------------------------------------
\* A lock without faults leaves the cache of a dependency intact, unless another
\* markspec compiled its pin.
RepairsCache ==
  result # Absent /\ ~result.faulted =>
    \A r \in Rows : r.kind = "dependency" /\ r.snapshot.format = tool => Intact(r)

(***************************************************************************)
(* After a command that warned of nothing `markspec check` finds the cache *)
(* of every row intact, and every upstream declared has one row, whatever  *)
(* commands were killed or failed in part before it; and what these left   *)
(* in the cache of a dependency is repaired.                               *)
(***************************************************************************)
CleanIsIntact ==
  /\ result # Absent /\ result.clean =>
       /\ CachePasses
       /\ {r.id : r \in Rows} = references \cup dependencies
       /\ \A r, q \in Rows : r.id = q.id => r = q
  /\ RepairsCache

(***************************************************************************)
(* A pin moves only by --update: a lock that is not told to leaves every   *)
(* pinned row of an upstream still declared, restored or not, whatever was *)
(* published meanwhile.  (A lockfile that was cut short holds no pins.)    *)
(***************************************************************************)
PinsStay ==
  result # Absent =>
    \A r \in result.existing :
      /\ r.snapshot # Absent /\ r.id \notin result.update
      /\ r.id \in (IF r.kind = "reference" THEN references ELSE dependencies \ references)
      => r \in Rows

\* What a lock leaves: a cache that `markspec check` finds intact, and pins that
\* moved only when the author asked, whatever lock commands failed, were killed
\* or met an edit before it.
LockHolds == CleanIsIntact /\ PinsStay

=============================================================================
