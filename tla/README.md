# TLA+ models of markspec

markspec compiles traceable requirements written in Markdown and in source
comments. Much of the repository is pure: text goes in, a graph, a diagnostic
or a document comes out, and unit tests reach it. This directory models what
they hardly reach:

* the long-lived processes that keep a graph in memory while the files, the
  editor and the configuration change under it: the language server
  (`packages/markspec/lsp`), the MCP server (`packages/markspec/mcp`), the desk
  server (`packages/markspec/desk`) and the MarkDesk application
  (`apps/markdesk`);
* the commands that change files that outlive them, several times or at the same
  time: `lock`, `fmt`, `lsp install`, `self-upgrade`, and the event log;
* the few pure algorithms whose answer depends on a long combination of inputs:
  who owns a file, what a chain of profiles allows, where the roots of a cyclic
  product tree are.

Each part has a module that is model-checked on small instances, and the central
invariants are proved for every size.

* [The system](#the-system)
* [Modules](#modules)
* [Runs](#runs)
* [Fairness](#fairness)
* [Refinement](#refinement)
* [Proofs](#proofs)
* [Where the code and its comments disagree](#where-the-code-and-its-comments-disagree)
* [Not modelled](#not-modelled)
* [Plan](#plan)

To check: `tlc -config MCCore.cfg MCCore`, and `tlapm ProjectProofs.tla`
(`RegistryProofs.tla` takes a few minutes, every other module less).

## The system

Paths are below `packages/markspec/` unless they start with `apps/` or
`editors/`.

### The language server

JavaScript runs one event handler at a time, and a handler gives way only at
an `await`. Every hazard below is an interleaving at such a point.

| Component | State | Operations | Must hold |
| --- | --- | --- | --- |
| workspace index (`lsp/workspace.ts`) | `fileEntries` (file to entries, in insertion order), `byDisplayId` (ID to entry) | `updateFile`, `removeFile`, queries | An ID resolves exactly when a tracked file declares it, to an entry of the current parse of such a file; a change of one file takes no ID from another |
| project context (`lsp/project_context.ts`) | its index, the profile, the lockfile, `corpusFilePaths`, `upstreamFilePaths`, two pending flags, `indexed`, `disposed` | `load`, `indexProject`, `seedDeliveredCorpus`, `seedUpstreamCorpus`, `reloadWatchedFiles`, `reloadProfile`, `reloadLockfile`, `validateAll`, `dispose` | After a reload the index holds the corpora of the loaded profile and lockfile and no others; a change of a configuration file is followed or stays pending; what the editor shows is of the current texts |
| project registry (`lsp/project_registry.ts`, `lsp/util.ts`) | `contexts` (root to context), `primaryRoot`, two owner caches, the startup gate, a serial lane, pending watched changes | `init`, `indexAll`, `ensureContextFor`, `createFor`, `addTree`, `rebuild`, `runWatchedReload`, `shutdown` | A document is routed to the nearest project; no document goes dark; no call waits for ever |
| document sync (`lsp/server.ts`) | open buffers, `bufferEpochs`, `pendingContent`, parse timers | `onDidOpen`, `onDidChangeContent`, `scheduleParse`, `onDidSave`, `onDidClose`, `reindexOpenDocuments` | The index ends with the latest text of an open buffer; a closed buffer does not come back |
| display-ID reservations (`lsp/id_reservations.ts`) | a table of reserved numbers per (prefix, suffix), with their age | mint, observe, evict | Two scaffold completions never get the same number |
| event log (`lsp/event_log.ts`) | a queue, a buffer with its timer, a handle; on disk a file and its generations | `setProjectRoot`, `logEvent`, flush, rotate | bounded size; the lines of the latest generations are all there, each once |
| request features (`lsp/hover.ts` and others) | none | one answer per request, from one index | pure |

The client sends events to `server.ts`. Its handlers ask the registry for the
project of a document (`ensureContextFor`), parse the text and write the index
of that project. The registry runs everything that changes the set of projects
as tasks of one serial lane; the tasks load contexts, which seed their indexes.
A watched-file event is recorded at once and acted on by a later task. The
reservations are shared by all projects of a session, and the log by all servers
of a project.

### The MCP server

`mcp/project.ts` caches one compile of a project with the modification times it
noted; `getCompiled` revalidates it, `forceRefresh` drops it, and calls join one
compile in flight. `mcp/workspace.ts` keeps the set of projects and discovers it
again on request, one discovery after the other. Must hold: one compile at a
time, an answer as fresh as its call, a failed discovery that is retried.

### The desk server and MarkDesk

| Component | State | Operations | Must hold |
| --- | --- | --- | --- |
| desk API (`desk/api.ts`, `proposals.ts`, `write.ts`) | a chain of applies; on disk the document and a temporary file | read with an entity tag, preview, apply | a proposal replaces the text it was made for and no other, in one step; every request is answered |
| product tree (`desk/api.ts`) | none | the roots of the tree, with the cycles found by Tarjan's pass | every entry hangs below a root; a cycle without a parent has one root, its lowest ID |
| open flow (`useProduct.ts`, `sidecar.rs`, `lib.rs`) | the product shown, the sidecar slot, the processes | open, replace, close, a lost call | what is shown is served by a live sidecar, or marked as lost |
| prompt flow (`usePrompt.ts`, `lib.rs`) | the run number, the phase, the proposal, the guard of the one run | submit, accept, reject, cancel, select, remount | nothing is written that the author has not seen and accepted; a late answer changes nothing |
| assistant settings (`AssistantProvider.tsx`, `lib.rs`, `assistant_settings.rs`) | the settings in the store, a copy in the UI, the statuses | choose, dismiss, test, recheck, each a call to the shell | no choice is lost and no Test forgotten; the UI agrees with the store |
| panes (`Navigator.tsx`, `DocumentPane.tsx`, `SourceDrawer.tsx`, `useHistory.ts`) | the selections, the documents loaded with their tags, what each pane shows | select, back, forward, refresh, reopen; the answers to their requests | once all is answered, the panes show the entry selected as the files hold it |
| assistant run (`assistants.rs`) | a child, its process group, its two pipes | spawn, poll, kill, reap, read | a run ends, and leaves no process of its group at work |

The web UI calls the desk server over HTTP and the shell (`src-tauri`) by
commands; the shell starts and stops the sidecar, which is the desk server, and
the assistant, which proposes the text that the UI sends on.

### The commands and the core

| Component | State | Must hold |
| --- | --- | --- |
| config and discovery (`core/discovery`, `core/collect`, `cli/helpers.ts`) | none; the tree of directories | one owner per file, the same on every surface |
| profile chain (`core/profile`, `core/validator`) | none; the manifests | a child profile never relaxes a check of its parent |
| lockfile and upstreams (`core/lock`, `cli/commands/lock.ts`) | `markspec.lock`, the cache of each upstream | the cache of a clean `check` is what the lockfile pins; a pin moves only when the author asks |
| compiler (`core/compiler`) | none; the files it reads | the graph does not depend on the order of the reads; inverses and reports agree with the entries |
| references (`core/refs`, `core/lock/resolve.ts`, `cli/commands/fmt.ts`, `core/gates`) | the ledger of the edges in the lockfile | a reference follows its entry through renames |
| managed configuration (`cli/install`) | a fenced block in a file of the user, its backup | no line of the user is lost |
| self upgrade (`cli/self_upgrade`) | the binary, `.old`, the temporaries | a binary that runs is there, whatever fails |
| sync log, parser, formatter, lint, typl, uxil, decl, render, book | none that outlives a call, or one append | pure functions |

`PROJECT.json` lists every component with its status, and under `hazards` every
place of the modelled code that is exposed to an interleaving, a stale value, a
partial failure or an order nobody tests.

## Modules

```
WorkspaceIndex            the index as a value: UpdateFile, RemoveFile
  IndexMutations          any sequence of the two       -- ProjectProofs
  ProjectContext          one project: seeding, reloading, disposal -- ProjectProofs
ProjectRegistry           all projects: lane, gate, routing -- RegistryProofs
DocumentSync              one document against the lane and the gate
                                                        -- ViewProofs
Diagnostics               what the editor shows         -- ProjectProofs
IdReservations            display-ID numbers            -- SessionProofs
EventLog                  the log that several servers share -- ToolsProofs

McpProject                the compile cache of the MCP server
                                                        -- McpProjectProofs
McpWorkspace              its projects                  -- SessionProofs

AtomicReplace             what an apply promises
  DeskProposals           the desk server, implements it -- DeskProofs
ProductTree               the roots of the product tree -- DeskProofs
OpenProduct               the open flow and its sidecars -- DeskProofs
PromptFlow                the prompt flow and its run   -- DeskProofs
DeskPanes                 the navigator, the document, the source
                                                        -- ViewProofs
AssistantSettings         the settings and the Test    -- ToolsProofs
AssistantRun              the processes of one run      -- ToolsProofs

ProjectDiscovery          who owns a file               -- CoreProofs
ProfileChain              the walk and the merge of profiles
                                                        -- ProjectProofs
UpstreamLock              lock, its cache, the offline probe
                                                        -- CoreProofs
Compilation               concurrent reads, links, inverses -- CoreProofs
RefHealing                references across fmt and lock -- CoreProofs
ManagedConfig             lsp install                   -- ToolsProofs
SelfUpgrade               self-upgrade                  -- ToolsProofs
```

An `MC...` module gives the constants of a module their values. `MCCore`,
`MCProject`, `MCSession`, `MCViews`, `MCDesk` and `MCTools` each hold several
machines that share no state: `part` is chosen in the initial state, the machine of that part
runs, and the others rest in one of their initial states. TLC so checks each of
them exactly as it would alone.

### WorkspaceIndex, IndexMutations

An index is a record: the IDs each file declares, the order in which the keys
of the map were inserted, the parse the entries of a file come from, and the
entry each ID resolves to. An entry is a pair of a file and a parse, because
`parseFile` makes new objects: an ID that still resolves to an object of an
earlier parse shows stale text. `UpdateFile` and `RemoveFile` translate
`updateFile` and `removeFile`, both with the takeover of an ID by the first
other file that declares it (`Withdrawn`). A file that repeats one of its own
IDs counts once, as in every lookup of `workspace.ts`. `ProjectContext` uses
the same two operators, several of them in one step where the code does.

### ProjectContext

`at` names the await at which the lane is suspended: in `seedDelivered` the
delivered corpus is being loaded, in `seedUpstream` the upstream one, and so
on. What runs between two awaits is one action. `SeedDelivered` therefore
seeds the delivered corpus *and* clears the upstream one, as the code does
before its next await. A load may come back whole, in part or empty; a profile
or a lockfile on disk may be `Broken`. Between two steps of the lane a buffer
is parsed or closed (`ParseBuffer`, `CloseBuffer`), the disk changes, or the
context is disposed of. `InTree` are corpus files below the root of the
project, which the editor can open.

The model does not follow the exclude list (a change of it rebuilds the
registry, see `ProjectRegistry`), the diagnostics (`Diagnostics`) or the
scaffold types.

### ProjectRegistry

Directories are a small tree; a project is its root and the files it has
indexed. `ctxs` lists every context ever created, so that a context that was
disposed of can still be written to by a parse that began before. `job` is the
running task of the lane, `job.pc` the await it is suspended at, `lane` the
tasks behind it. The gate is `startupOpen` and the calls that wait for it, in
order.

| Code | Action |
| --- | --- |
| `init`, `initInner` | `StartInit`, `ResolvePrimary`, `AnchorLoaded`, `EndTask` |
| `indexAll`, `addTree` | `StartIndexAll`, `Discovered`, `NestedLoaded`, `EvictForeignFiles`, `IndexProject`, `HandOver`, `EndTask` |
| `ensureContextFor` | `EnsureContextFor` at once, or `FinishStartup` when the gate opens |
| `createFor` | `StartCreate`, `ResolveDocument`, `AnchorLoaded`, then as `addTree` |
| `noteWatchedChanges`, `enqueueWatchedReload` | `Note`, `ReloadTimer` |
| `runWatchedReload`, `rebuild` | `StartReload`, `Reloaded`, `Rebuild`, then as `init` and `indexAll` |
| `onDidOpen`, `onDidChangeContent`, `scheduleParse`, `stillOwnedBy` | `Open`, `Edit`, `ParseTimer`, `Parsed` |
| `afterRebuild`, `reindexOpenDocuments` | `EndTask`, `ReindexNext` |
| `shutdown` | `Shutdown` |

`resolveConfigRoot` prefers the nearest `project.yaml` to a nearer
`.markspec.yaml`; `ProjectYaml` tells which directories have the former. A
change of a configuration file is reported to the server when the watchers
cover it (`Watched`); others may be reported or not, and `unreported` remembers
those that were not, because the code promises nothing for them. A configuration
file that is edited may change the exclude list (`Reloaded`), which rebuilds.

Without a workspace root a reload rebuilds nothing, but says that it has, so the
open documents are indexed again all the same. Closing a document, and the parse that an
open schedules next to its own, are left to `DocumentSync` and `Diagnostics`.

### DocumentSync

One document against what it sees of the registry: the lane, the gate, whether
a known root owns it. An open, a debounced edit, the walk of an index task and
`reindexOpenDocuments` each start a parse of some text in some context with
some epoch; a text is a number. An open starts a parse at once and schedules another
one, because `TextDocuments` reports the new content as a change too. `NextEvent` says when the event loop takes the
next event: the continuations that are ready run first, in order, and the lane
never rests while a task is queued. A Markdown parse lets no other event in;
the parses of a source file wait for the grammar and then land in order
(`GrammarLoaded`). `Land` writes the index *before* the handler compares the
epoch, as `parseAndUpdateFile` does, and `stillOwnedBy` runs after it.

The document is never saved to disk while the model runs, so the only text that
may be in the index once it is closed is the one on disk.

### IdReservations

One (prefix, suffix) bucket, followed from the answer of a completion (`Mint`)
to the parse that observes the inserted entry (`Parse`). A reservation is an
age; one that is `Ttl` old and none at all are the same to every reader. The
index of a document lags its text by the debounced parse. `Saved` are the
documents whose text outlives their buffer, because `onDidClose` takes them out
of the index all the same.

### McpProject

One project of the MCP server, with several tool calls under way. Each await of
`runCompile`, `getCompiled`, `isStale` and `forceRefresh` is a step of its own:

| Code | Action |
| --- | --- |
| `ensureCompile` | `EnsureCompile`, part of every action that needs a compile |
| `runCompile` | `Walk`, `StatLock`, `ReadLock`, `ReadFile`, `StatFile`, `HashFile`, then `Commit`, or `Fail` when the walk, the corpus or the compiler throws |
| `getCompiled` | `GetCompiled`, `CheckNewFiles` (what it does once nothing is stale) |
| `isStale`, `checkFileStaleness` | `CheckLock`, `CheckFile`, `CheckHash`, `CheckNewFiles` |
| `forceRefresh` | `ForceRefresh`, `Forced` |
| `ownsFile` | `owned`, which `Reassign` changes when a rediscovery moves a nested root |

A result is what was read of each source. A walk is one step; the files of a
compile, and those of a revalidation, are taken in any order. Two history
variables state the properties: `since` is what each source has held since a
call was made, and `raced` are the sources that changed between the read of a
compile and its note of their time, for which the code cannot know better. A
change always takes a new modification time. What is loaded once when the
project opens (configuration, profile, delivered documents) is left out, and so
are the subscribers, which only forward a notification.

### Diagnostics

The editor keeps what it was sent last for a file. A parse publishes what it
found in one file and schedules the validation of the project, which publishes
for every file the project tracks. The model has two projects, the primary one,
which also owns the documents that no project owns, and one that is found late
above some of these. A text is broken, plain, or refers to an entry of another
file; a file may close, be evicted, become read-only corpus, or survive a rebuild.

`unvalidated` is a history variable: a parse that ends in a project that is gone,
or that no longer tracks the file, still publishes, and what it shows is excused
until the next validation. `strays` is another: a parse that began before the late
project was found, and whose buffer has closed or changed since, lands in the index
of the old owner and is not withdrawn. A file of the tree that becomes read-only corpus keeps
what was published for it before. Syntax errors are published by the parse alone
and replaced by the next validation (see `MCProjectSyntax`). At startup every open
document is parsed again, which the code does after a rebuild only: more than the
code does, and harmless to what is checked.

### EventLog

Two servers (two editor windows) at one path. Every call is synchronous, so the
only steps that interleave with another server are the system calls of an
opening: `StatLog`, `RemoveOldest`, one `RenameGeneration` each, `RenameLog`,
`OpenLog`. A file is an identity: an open handle follows it when another server
renames it away. Two rotations at once can lose the newest full generation
(`raced` excuses it), and a server whose last rename finds no file stays silent
for the session. The `.gitignore` next to the log and the switch that turns it
off are left out.

### McpWorkspace

The first discovery starts once the transport is connected; calls wait for it,
and the first call after a failure starts another (`Enter`). `markspec_refresh`
appends a run to the chain: it scans the candidates one by one, installs the
roots, opens the new projects, and installs these. The roots decide who owns a
file before the projects are open. `openProject` reports its problems in its
result and does not throw.

### DeskProposals, AtomicReplace

Each await of `serveProposal` is a step: compile, read, format, read again,
write the temporary file, rename. Applies go through one chain, reads and
previews do not. Another application edits or removes the file at any time,
other entries come and go, a write fails, the server is killed. A text is the
body of one entry and the rest; a tag is what its digest is of. Bodies are
formatted or refused; a formatted body need not be the one that was sent.

### ProductTree

`sourceCycleRoots` step by step: `NextEntry`, `Look`, `Descend`, `Seen`,
`Leave` are the branches of the loop over the stack of frames. The property
compares the roots with a declarative definition: reachability in the graph, as
the smallest set that a link does not lead out of.

### OpenProduct, PromptFlow

`OpenProduct` follows the shell (`BusyInShell`, the slot, the processes) and the
hook (`Open`, `Show`, calls of a client that is named by its sidecar). A
`SidecarEof` is what the shell sees of a death; it may come late.

`PromptFlow` has one flow for each call of the hook, which goes on at each await
with the run number it took (`IsCurrent`). The desk server answers in one step;
the detail is in `DeskProposals`. The shell is assumed to take the commands of the
UI in the order they are sent, and a state update of the UI to be seen at once.

### DeskPanes

What the files have held is `past`; an answer is about any moment since its request
was sent, and answers arrive in any order. `reads` holds every read of the document
pane, also those that were overtaken: they go on, and share `documents` (each with
the view whose tag the next request sends) with the current one. A check of the
navigator or a fetch of the drawer that was overtaken leaves no trace, so only the
last is kept. `Reopen` gives the panes a new client, `Return` mounts them again
after the settings were shown; the history outlives both. The 304 of the tree is
left out: its tag is a digest of the whole answer.

`PanesAreCurrent` rests on `Tag` being a digest of all that the render depends on:
`TagOfText` leaves out the IDs known, and a reference to an entry that was added in
another file never becomes a link.

### AssistantRun

The loop of `run`: poll the child, the cancel flag and the deadline; kill the
group and the child; reap; wait for the two pipes, with a grace period after the
child ended and another after its pipes were left open. The child and its
descendants fork, exit, and leave the group, in any order. Unix only.

### AssistantSettings

The shell takes the synchronous commands in order, on one thread; a Test and a
detection are asynchronous. Each loads the settings and saves all of them, in two
steps. `calls` are the commands the UI has sent and whose answers it has not seen;
`store` computes what it sends from what it shows. `author` is a history variable:
the last choices, and what the last Test of Copilot proved. `spoilt` names the five
orders in which the code loses something, and `SettingsHold` says what holds in all
others:

| In `spoilt` | What happened |
| --- | --- |
| `overlapped` | a save falls between the load and the save of another |
| `crossed` | a choice is made before the last one is answered, and undoes it in the store |
| `halfway` | a save fails after the value was set in memory |
| `unread` | a read fails: the UI shows the defaults, which the next choice stores |
| `late` | of two detections, the older one is shown last |

Each was found by TLC and is needed: the property fails without it.

### ProjectDiscovery

The state is a tree of directories that the user edits. The operators are what
the code computes for it: the root above a file, the nested roots, what a walk
visits under the ignore rules of each level (the last match wins), who owns a
file. One property compares all surfaces: the language server, the MCP server
and a command that starts anywhere.

### ProfileChain

The walk up `extends:`, then the merge from the root down; then what the
validator says of one entry under the merged profile. The property relates the
two: an entry with no error under the whole chain has none under any prefix of
it. A type that is declared again with another `extends:` is refused
(`TypeTightens`). `Excused` names the two gaps of the merge that the run meets (below).

### Compilation

`compile` reads all files through a semaphore, and files change or cannot be read
meanwhile. When all are done, the rest is one step, because nothing awaits in it:
`Graph` is what it makes, by the operators `FirstEntries`, `Generated`, `Merged`,
`AuthoredLinks`, `GeneratedLinks` and `AtInactive`, one for each function of the
code. An entry is a display ID, a ULID, a type, the state its source gives it, and
the values of its attributes. The inverses stand in the order of the profile, because
two attributes may have inverses of one name: the value that both return is returned
once, by the first of them (`ReturnedBefore`). The property says what the graph is, from the files
that were read, without these operators: which entry counts, which inverses are
there, which attribute makes the link back (`WayBack`), which links are reported. Two entries with one ULID (`OneEntryEach`) are an
error that the validator reports, and inverses are not promised then. All entries
are authored ones.

### UpstreamLock

`markspec lock` as a sequence of acquisitions, each with its fetches and its two
writes to the cache, then the write of the lockfile, which may be cut short. A
publication of an upstream is a number; publications, edits of the
configuration, clean checkouts and new versions of the tool come between.
Snapshots have the small layout, with the data inline.

### RefHealing

Three files with one entry each; an entry is stamped by its first `fmt`. `fmt`
builds the index of references once, reads the ledger of the lockfile, and goes
from file to file, while the author edits. `lock` is one step. Rewriting goes by
the current display ID first, by the ledger second.

### ManagedConfig

A text is a sequence of fences, line ends, lines of the user and contents of the
block, so that what `applyLuaBlock` does at a missing last line end is in the
model. A run reads, backs up, opens the staged file, writes it, renames it; the
user types and deletes at any time; a run fails or is killed at each step.
`backups` of the same second have the same name: the copy truncates the earlier one
before it writes, and may stop at any place (`BackupBreaksOff`). The block of the MCP
configuration takes the same steps with the JSON functions.

### SelfUpgrade

Two runs, each with its own temporary files and with the shared pair of the
binary and `.old`. A release may appear at any time; a download is corrupt, a
rename fails, a run is killed (`Mishap`).

## Runs

| Run | Machines and questions | Bounds |
| --- | --- | --- |
| `MCCore` | `IndexMutations`: do the two maps stay in step (`NoStaleEntry`), and does a change of one file take no ID from another (`FirstEntryWins`)? | three files, two IDs, 4 parses: two survivors of a removal, so that the order of the takeover matters |
| | `ProductTree`: is there one root for each cycle (`RootsAreLowest`)? | every graph of four entries and at most four links |
| | `ProjectDiscovery`: do all surfaces agree who owns a file (`SameFilesFromAnywhere`)? | every chain of four directories, any configuration files, one ignore rule |
| | `ProfileChain`: is a check ever relaxed (`NeverRelaxed`)? | three specifications, chains of 3 tiers, with cycles and missing ones |
| | `UpstreamLock`: is the cache of a clean check what is pinned, does a pin move unasked (`LockHolds`)? | two upstreams, 2 publications, 2 tool versions, 2 commands: one that fails or is killed, and its repetition |
| | `Compilation`: is the graph that of the sources, in whatever order they are read (`GraphIsOfSources`)? | three files, two slots, eight contents of at most two entries, one delivered draft, 1 change, three inverses, two of which share a name: superseded by a ULID, by a display ID, by two entries, twice over; a target under both of the attributes, or the second only |
| | `RefHealing`: does a reference keep its entry (`KeepsLinks`), does `check` pass after fmt and lock (`ChecksPass`)? | three entries, one referrer, three names, 2 edits, 2 fmts, 1 lock: a rename and a name that is taken again |
| `MCProject` | `ProjectContext`: does the index follow the configuration (`FollowsConfiguration`), and is the delivered corpus left alone by a lock reload (`LockReloadKeepsDelivered`)? | one delivered file in the tree, one upstream file and one own file that share IDs, 4 parses, 2 changes on disk: a failed reload and its retry |
| | `Diagnostics`: is what is shown about the current texts (`ShownIsCurrent`)? | a file that declares or is broken, one that refers to it, a delivered one that refers too, 2 opens, 1 edit, 1 rebuild, a project found late |
| | `ProjectRegistry`: routing while configuration files come and go (`RegistryHolds`, `RoutedToOwner`) | a workspace with one nested directory, 2 changes, 3 opens and edits: a change that arrives during the rebuild of the first |
| `MCProjectSyntax` | Does a syntax error stay until its text changes? violated (`ParseErrorsStay`) | the diagnostics machine alone |
| `MCSession` | `IdReservations`: are numbers unique within a project (`NoDuplicateMint`, `OffersReserved`)? | two documents, 3 completions, numbers up to 4, TTL of 3 ticks |
| | `McpWorkspace`: is a refresh fresh (`RefreshIsFresh`), does a file go to an open project (`OwnersOpen`), does every call return (`CallsReturn`)? | three nested roots, two callers and 3 calls, 2 changes, 1 failure |
| `MCIdReservationsShared` | Are numbers unique between projects? violated (`NoDuplicateMint`) | two projects |
| `MCProjectRegistryLive` | Is every call answered (`CallsReturn`), with every open file in the index of its owner only (`IndexedByOwner`)? | a workspace or none, and two directories outside of it, one below the other, a saved and an unsaved document, 1 change, 3 events |
| `MCViews` | `DocumentSync`: which text wins, does a document go dark, does a closed one come back (`IndexFollowsBuffer`)? | all eight kinds of document (inside or outside, saved or not, with a grammar or not), 1 edit, 2 opens, 2 tasks: a rebuild behind a creation, and two parses by the timer, for an open schedules one too |
| | `DeskPanes`: do the panes show the product as it is (`PanesAreCurrent`)? | two entries, in one document, in a document and a source file, or one from outside and one missing; 1 change on disk, 3 events and faults: two reads that overlap, and a third |
| `MCDocumentSyncClosed` | Does a closed source buffer stay away? violated (`AnyClosedIsGone`) | one open, one edit |
| `MCMcpProject` | Is there one compile at a time, that every waiting call waits for (`SingleFlight`), and is an answer as fresh as its call (`RefreshIsFresh`, `AnswersFresh`)? | a file and the lockfile with two contents, two callers and 3 calls, 2 changes, 1 compile that throws: a refresh and a revalidation that overlap with a compile and with each other |
| `MCMcpProjectCurrent` | Is an answer current for every tracked file? violated (`AnswersCurrent`) | the same |
| `MCDesk` | `DeskProposals`: one replacement at a time, of the text it was made for (`ReplacesAtomically`), with a tag that is current (`TagIsCurrent`), and an answer to every request (`RequestsEnd`) | two handlers, three bodies, 4 requests, 1 edit, 1 fault |
| | `OpenProduct`: is a live sidecar behind what is shown, and is "lost" true (`ScreenIsTrue`)? | three sidecars, 3 calls: an open that replaces one that crashes |
| | `PromptFlow`: is only written what the author saw and accepted (`AuthorDecides`), are writes shown (`WritesAreShown`), does a cancel hit its run only (`CancelHitsNoLater`), does the box come back (`BoxComesBack`)? | two entries, 5 runs, 3 versions of the file |
| `MCTools` | `SelfUpgrade`: is there always a binary (`KeepsABinary`)? | two upgrades, 3 releases, 2 mishaps |
| | `EventLog`: are the latest lines there, once and in order (`LogIsFaithful`)? | two servers, lines of up to 4, a threshold of 2, 2 generations, 1 fault |
| | `ManagedConfig`: is no line of the user lost, and only one region owned (`InstallIsSafe`)? | one line, two block contents, 3 installs, 2 edits, all within 2 seconds |
| | `AssistantSettings`: is no choice lost and no Test forgotten (`SettingsHold`)? | two assistants, 3 events: choices, Tests, detections and faults |
| | `AssistantRun`: does a run end (`RunEnds`) and leave nothing at work (`NoneLeftAtWork`)? | a child and two grandchildren |

Some properties are conjunctions of named parts:

| Property | Parts |
| --- | --- |
| `FollowsConfiguration` | `CorpusMatchesLoaded`, `NoReloadLost` |
| `RegistryHolds` | `Coherent` (the caches, the map of projects and the open documents agree), `NoChangeLost` |
| `IndexFollowsBuffer` | `OpenIsIndexed`, `LatestWins`, `ClosedIsGone` |
| `LockHolds` | `CleanIsIntact`, `PinsStay` |
| `PanesAreCurrent` | `DocumentIsCurrent`, `TreeIsCurrent`, `SourceIsCurrent` |
| `SingleFlight` | `OneCompile`, `NoneStranded` |
| `ScreenIsTrue` | `ShownIsLive`, `LostIsTrue` |
| `GraphIsOfSources` | `SlotsHold`, `FirstCounts`, `InversesAgree`, `InactiveReported`, `UnreadReported` |
| `SettingsHold` | `ChoicesAreKept`, `ProofIsKept`, `ScreenAgrees`, `StatusAgrees` |
| `AuthorDecides` | `ProposalIsCurrent`, `WrittenAsSeen` |
| `LogIsFaithful` | `LinesAreKept`, `GenerationsAreKept` |
| `InstallIsSafe` | `NoLineLost`, `OwnsOneRegion` |

The bounds that count events (`MaxParses`, `MaxDiskChanges`, `MaxChanges`,
`MaxEvents`, `MaxMints`, `MaxTasks`, `MaxEdits`, `MaxOpens`, `MaxCalls`,
`MaxFailures`, `MaxRequests`, `MaxFaults`, `MaxRuns`, `MaxMishaps` and so on) are
guards of the actions of the environment, never of the program's own steps,
except for `MaxParses`, which also stops `WalkFile`. A machine with no event
left comes to rest, so the runs turn the deadlock check off; that nothing waits
for ever is what `CallsReturn`, `RequestsEnd`, `BoxComesBack` and `RunEnds`
check instead. In `McpProject` the question is answered by two invariants: a
call waits only for a compile that runs (`NoneStranded`), and that one is the
only one (`OneCompile`); every step of a compile leads to its end.

Every property has a mutant, an operator next to the definition it replaces,
which is the bug the property is there for: `EndTaskGateLeftArmed` strands the
waiters of a gate, `ParsedUnchecked` is a parse that does not ask again who
owns the document, `ReloadProfileFailsSilently` is the bug of issue #797,
`RereadUnchecked` an apply that trusts the text of before the format,
`RenameInUnrolled` an upgrade that leaves no binary when its second rename fails.

`Quiet` in `DocumentSync` and `Settled` in `ProjectRegistry` say that nothing is
under way. The invariants that hold only then say where every run of events
ends, and the code does not promise more: between an edit and its debounced
parse the index lags.

## Fairness

Nothing is owed by the author, the client, another application or the disk: no
fairness is asked of an edit, an open, a cancel, a crash or a failure. Asked is
weak fairness, which is enough because a step of the program stays enabled until
it is taken:

* `MCProjectRegistryLive` (`FairSpec`): of the lane, of a parse that was started,
  of the loop of `reindexOpenDocuments` and of the timers. The lane is a chain of
  promises and each await is a file operation that ends; a timer that is set
  fires.
* `MCSession` (`WorkspaceFairSpec`): of the discovery and of each call that has
  what it waits for.
* `MCDesk` (`ServerFairSpec`, `PromptFairSpec`): of each handler of the server and
  each flow of the hook. The server may be killed, which answers nothing; a run
  of the assistant ends because of its deadline (`AssistantRun`).
* `MCTools` (`AssistantFairSpec`): of the thread of the run, each of whose waits
  has a deadline. Nothing is asked of the child.

## Refinement

`AtomicReplace` is what the comments of the desk server promise of one file: a
proposal replaces the text it was made for and no other, in one step, one after
the other. `DeskProposals` implements it (`Replacing`, an `INSTANCE`): the value
is the text on disk, and a claim is an apply that has read the text again and
has not yet renamed. Compiling, formatting, the temporary file and every
rejected proposal are stutters. `ReplacesAtomically` is checked by `MCDesk` and
proved for every size.

## Proofs

TLAPS checks these for every value of the constants.

`ProjectProofs`: `IndexConsistent` of `IndexMutations` proves that `IndexComplete` and
`NoStaleEntry` are invariants, `FirstEntryStays` that `FirstEntryWins` holds of
every step. Neither invariant is inductive. That an ID is taken over by the
*right* entry depends on a tracked file never having a parse number of a later
parse, on untracked files declaring nothing, and on the insertion numbers being
distinct, so that the first survivor is well defined. The strengthening
`IndexInv` adds these facts. The proof goes through `Withdrawn`: a lemma says
what an ID resolves to after the entries of one file are withdrawn, and
`UpdateFile` and `RemoveFile` are cases of it. The assumptions are those of
`WorkspaceIndex`: `NoEntry` is no entry, `MaxParses` a number.

`ConfigurationIsFollowed` is `FollowsConfiguration` of `ProjectContext`, and that the
index stays consistent under the seeders; `LockReloadIsApart` is `LockReloadKeepsDelivered`.
A seeder drops or seeds a set of files in one step, as a fold. `FoldExists` shows that the
recursion behind `FoldSet` has a solution, for a finite set, and `NoDescent` replaces the
induction over its subsets: a set of counterexamples in which each has a smaller one is
empty. `DropAllDrops` and `SeedAllSeeds` then say what both folds do, in whatever order: the
files of the set are gone, or have their entries, and neither another file nor an ID that
resolves to one is touched. `ContextInv` says what holds at each await of the lane:
`CorporaFit`, which seeder has cleared what and that no file of a corpus lingers outside the
sets, but one that the editor has open; `CorporaLoaded`, when the sets are those of the
loaded profile and lockfile; `ProfileOwed` and `LockOwed`, that a change that the lane has
taken is loaded, is being loaded, or is owed. The assumptions are that a file is of one
corpus or the project's own, and that the corpora are finite.

`ChainsNeverRelax` is `NeverRelaxed` of `ProfileChain`, for any manifests, specifiers,
values and depth. `Stands(a, d)` is the relation that the merge keeps: whatever profile `a`
forbids of an entry, declaration by declaration, `d` forbids too. A tier without a
diagnostic puts its merge with what came before in that relation (`TierTightens`); the
relation is transitive, so a chain without a diagnostic has it from each ancestor to the
leaf (`ChainTightens`, along `EffectiveStep`: the fold goes tier by tier); and the errors of
an entry follow it, except where `Excused` says (`ErrorsStand`): a declaration in an inner
scope hides the ancestor's, and a rule with a shape for a target is no bound on the types
below it. The assumption on the manifests is that they are manifests (`Profile`), over
finitely many values, and that no upper bound is above `Unbounded`, which is what `N` is.

`RegistryProofs` (`ProjectRegistry`) proves three properties from one invariant,
`RegistryInv`. `RegistryKeepsUp` is `RegistryHolds`, `OwnersIndexTheirs` is
`IndexedByOwner`, `AnswersAreOwners` the action property `RoutedToOwner`. What is
promised holds when the registry is at rest; the invariant says what each await of a
task leaves in order on the way there:

* `JobFits` and `LaneFits` say where a task may be and with what in hand, and when
  the gate is open, `PrimaryFits` that the primary project is loaded except while a
  task loads it. Without them no step could tell which tasks may still come.
* `Coherent` and `MapsMatch`: the maps and the caches agree, and hold live contexts of
  the roots they are held under.
* `AllIndexed`: while the gate is open, every project that answers is indexed. It
  is what lets `ensureContextFor` answer from the cache without a task.
* `FilesFit`: a file of an index belongs to it, except below a tree that is being
  added and whose foreign files are not evicted yet. `OpenFit`: an open document is
  asked for, edited, being parsed, evicted and about to be handed over, or in the index
  of a reachable context. The two make `IndexedByOwner` once nothing is under way.
* `ChangesDue`: a recorded change has a timer or a queued reload to come, so nothing
  scheduled means nothing recorded.
* `RootsFit`, `TreesFit` and `RoutedFit` relate the maps to the disk, for
  directories whose changes were all reported: a known root is one that a walk up finds,
  a cached walk is what a walk finds now, below a known root every root is known unless
  its tree is being added, and an open document has a known root above it or a cached
  walk that found none.

The lemma `RoutesRight` joins the last three: with every tree complete, the nearest
known root is the root that the walk finds on disk. `RoutedToOwner` is then a matter
of one step, which is why it is an action property and no strengthening of the
invariant. `AnswersAreOwners` assumes a workspace root (`NoDir \notin WorkspaceRoots`),
and is false without: the directory of the first document becomes a project that
goes on to own what is configured below it. About the tree of
directories it is assumed that no two directories are above each other, and that those above a
directory are in a line (any set of them has a deepest); nothing about its size.

`SessionProofs` is about the two sessions, that of the language server and that of the
MCP server. `MintsAreUnique` and `OffersStayReserved` prove
`NoDuplicateMint` and `OffersReserved` of `IdReservations`, from two assumptions besides
those on the constants. `OneProjectOnly`: all documents belong to one project, without
which the property is false (`MCIdReservationsShared`). `NothingSaved`: no
document leaves its text behind when it closes, without which it is false too
(see below). The invariant `ReservationInv` adds `TextExplained`: a number
that is in the text of a document and not in its index is there because an offer
was accepted. It is what makes a parse release only the reservations of offers
it ends: a number it observes is either in the index, where no offer is, or
accepted in this very document, and then `NoDuplicateMint` says whose it is.
`RefreshesFindAnew` and `OwnersAreOpen` prove `RefreshIsFresh` and `OwnersOpen` of
`McpWorkspace`. `WorkspaceInv` ties the discovery that runs to the call it runs
for (`RunsForItsCall`, `OneAttempt`): the refreshes that have begun and not ended are
the one that runs and those in the chain, each once. `Scanned` then says what half a
scan knows: what it has passed over was missing at some time since its call, what it has
kept was there. `Installing` says how far an apply has got with the subscriptions.

`McpProjectProofs`: `TypeCorrect`, `CompilesAreSerial`, `RefreshesAreFresh` and
`CompiledIsFresh` prove `TypeOK`, `SingleFlight`, `RefreshIsFresh` and
`AnswersFresh`, for any files, contents, callers and bounds. The assumptions are
those on the constants: the lockfile is no tracked file, and null is neither a
compile nor a snapshot. The first two come from `FlightInv`, which adds that a call forgets
its compile when it stops waiting, and that the file that is hashed is one whose
time was noted. The gate is one lemma (`Gate`) that all calls share: with nothing
in flight nothing runs, so a compile that starts is alone. `RefreshIsFresh` needs
`FreshInv`: `Final` are the sources a compile will not read any more, and
whatever a compile has read of them was read since the call, for every refresh
that waits for that compile *or may still join it*. The last part is what makes
it inductive: a refresh that waited for an older compile joins whatever has been
started when it goes on, which need not be a compile of its own. `AnswersFresh`
adds two invariants. `NotesInv` says what a noted modification time `Vouches` for:
the source holds what was read of it while it keeps that time, because no change
gives a time twice; between the read of a file and its note this holds only if
the file does not change, which is what `raced` records and what
`MCMcpProjectCurrent` shows to fail. `AnswerInv` follows a call through its
checks (`Checked`): a file it has gone past was read since the call, also when the
cached result is replaced under it, because whatever commits then was started
after the call.

`DiagnosticsAreCurrent`, in the same module, proves `ShownIsCurrent` of `Diagnostics`.
`DiagInv` says of *every* project that is live, has no validation due and is not
busy with a task that what it published of its files stands, and that nothing is
published of a file without one; besides, that the projects divide the tree while
parses of a file that changed hands are under way. The exceptions are the history
variables of the property, no more.

`DeskProofs` is about the desk server, the application and the product tree.

* `ScreenStaysTrue` proves `ScreenIsTrue` of `OpenProduct`. `IInv` adds that the slot
  holds the sidecar of the product unless an
  open is under way (`SlotIsProduct`), that opens run in order and alone
  (`OpensInOrder`, `OneRuns`), that a sidecar that was not started serves nobody
  (`NewIsUnused`), and that the one whose loss was noticed is dead (`LostIsDead`).
* `ServerReplacesAtomically` proves that `DeskProposals`
  implements `AtomicReplace`, from the invariant of `ServerInvariant`. `ServerInv` says
  which handlers may be in an apply (`OnlyApplies`, `OneWrites`: one is past its second
  read, because the chain lets one run at a time), and what their texts are (`Grounded`,
  `Spliced`: the text to be written is the text read the second time with the body
  replaced).
* `TagsAreCurrent` proves `TagIsCurrent` of `DeskProposals`, by `CurrentInv`: while
  nothing has changed on disk the graph in a handler's hand is the one a compile would
  make now. The tag of an apply is made before its write, from a graph that no longer
  stands after it; that it is right all the same is a fact about the text written.
  `NoSuchText`, an assumption of the module, says that the two answers a read
  can give in place of a text are no texts.
* `AuthorAlwaysDecides`, `WritesComeBack` and `CancelStopsItsRun` prove
  `AuthorDecides`, `WritesAreShown` and `CancelHitsNoLater` of `PromptFlow`, from `PromptInv`. `TagBeforeEntry`
  is the part that carries the first: the tag is read before the entry, so what passes
  the check of the tag was made from the version the tag is of, or the check fails.
  `OneFlowPerRun` and `BoxWaitsForFlow` tie the box to the one flow it waits for,
  `UnseenIsAnswered` is what `WritesAreShown` needs while the box is not idle.
* `RootsAreThose` proves `RootsAreLowest` of `ProductTree` for any entries and links and
  any order of the children. It is the correctness of Tarjan's pass with an explicit stack,
  by `TreeInv`: the entries on the stack are above each other in the order they were met,
  and each is above an entry of a frame that was met no later (`StackIsAbove`); `low` is
  the number of an entry that the frame leads to, and no link looked at so far, from the
  entries of its part of the stack (`InSegment`), leads to a lower one (`LowIsLowest`). A
  frame that ends with a lower `low` therefore has a frame before it, and hands its part of
  the stack to that (`LeaveOpenKeeps`); one that ends with its own number takes off
  entries that lead only to themselves and to closed ones (`LeaveClosedKeeps`), so
  components are cycles (`ClosedAreCycles`). A stack that is empty at the end makes this
  hold of all entries, and the roots follow (`RootsAre`). The assumption is that the IDs
  are finitely many positive numbers (`TreeAssumption`): they stand for the order of the
  display IDs, and 0 for no component.

`ToolsProofs` is about the command that replaces itself, the command that edits a
user's configuration, the assistant of MarkDesk, and the log of the servers.

* `BinaryIsKept` proves `KeepsABinary` for any number of runs.
  `UpgradeInv` adds that only verified files reach the swap (`Verified`), and that the
  path is empty only between the two renames of some run (`EmptyOnlyInSwap`); a run
  that is alone (`Alone`) can put the old file back.
* `InstallStaysSafe` proves `InstallIsSafe`, for any lines, blocks, runs, edits and
  times. For `NoLineLost`, `InstallInv` adds that the backup covers the text the pending
  one was computed from (`BackupCovers`); it rests on lemmas on the lines of a
  concatenation and of a subsequence. For `OwnsOneRegion`: the first fence is the
  minimum of a set, which exists by well-founded induction (`WFMin`); a text splits at a
  region when no fence precedes it (`SplitsAtRegion`), so that what was written is found
  again where it was put, a second write changes nothing, and what is outside of it is
  what was outside before. The module assumes that the contents of a block are no fence
  (`InstallAssumption`), as the code's constant block is none.
* `RunsLeaveNothing` proves `NoneLeftAtWork` for any processes. The
  parts of `RunInv` are that a killed group has no process at work (`KilledGroup`), that
  the outcome fits the reason (`EndFits`), that a pipe that is closed stays closed
  (`ClosedStaysClosed`) and that nobody holds it (`NoHolder`).
* `SettingsAreKept` proves `SettingsHold` of `AssistantSettings` for any assistants and
  any number of choices, Tests, detections and faults. `SettingsInv` has the order of the
  calls and which of them there can be (`CallsOK`), and, as long as no save overlaps
  another: what was loaded is still what is stored (`Copies`); what the last Test proved
  is in the store, or on its way there (`Proved`), and while the web view has not read
  it (`Telling`) a detection may still show the old status (`Detections`); and the
  author, the store, the change that is sent and the web view agree on the last choice,
  each from the moment it has it (`LastChoices`, `Screen`). Each part stands under the
  excuse it needs, and no step takes one excuse for another.
* `LogStaysFaithful` proves `LogIsFaithful` of `EventLog` for any servers, generations,
  lines and failures. For the lines, `Channels` says of every server that can write where
  they are: before it has opened the file, the newest of its early lines are in the
  queue and none is in any file (`Unopened`); afterwards all but those of the buffer are in
  the file that its handle follows, in order, and a buffer that is not empty has a timer
  (`Opened`). A rename moves a path and leaves what a file holds, so it disturbs neither.
  For the generations, `Rotations` says that a server rotates once, and alone unless two
  did at the same time (`RotatesOnce`); that the number its next rename goes to is free
  (`HoleAbove`); and that a file has moved up by no more than the number of servers that have
  rotated, by one less while it waits for the rename of the rotation that runs
  (`MovedUp`). The assumption is that the mark of a closed handle is neither a server nor a
  file (`LogAssumption`).

`ViewProofs` is about what a reader sees: the panes of MarkDesk, and what the index
says of a document of the editor.

* `PanesStayCurrent` proves `PanesAreCurrent` of `DeskPanes` for any entries, files,
  writes and events. A view that is shown was computed from a moment that no variable
  names any more, so `PanesInv` says of every read, also of one that was overtaken,
  that its entry is of a moment since it began (`EntryRead`), that its request was sent
  no earlier (`ReadFits`), and that the read whose load it waits for, or revalidates,
  has one (`HasLoad`, `LoadsFit`). A document that is revalidated may have been loaded
  before the read began; two views with one tag are one view (`TagIsView`), so what is
  shown after a 304 is what a full answer would have brought. That a moment once
  reached stays in the time of a read (`PastGrows`) carries it over a write.
* `IndexFollows` proves `IndexFollowsBuffer` of `DocumentSync` for any documents and any
  number of tasks, edits and opens. For `OpenIsIndexed`, `Owed` lists what may still be on its way when the index
  has lost an open document: the timer, a call with the epoch of the buffer, a parse that will
  land, the reindex of a rebuild, or the walk of the task that evicted it. For
  `LatestWins`, the calls of a steady document stand in one queue, those at the gate before
  those that are ready, whose order no task changes; `Wins` says of that queue and the index
  that the last answer is the buffer, at whatever place of the queue that begins to hold. A
  file that was read while the document was closed may land after it is open again, but
  then the call of that open is still in the queue. For `ClosedIsGone`, every call carries
  an epoch from before the close (`CallsFit`).

`CoreProofs`:

* `LocksHold` proves `LockHolds` for any finite set of upstreams. `LockInv` follows a command through its upstreams: `RowsAreSettled` says
  which rows it has made so far, `RowsAreIntact` when the cache holds what they pin,
  `PinsAreKept` that a pinned row that is settled is the row there was unless it is
  updated, and `ItemIsSound` what the acquisition of one upstream has at each place. A cache
  that a kill or a fault left half done is mended by the next lock that comes to the
  upstream, which is why the intactness of a dependency depends only on the faults of
  this command.
* `ChecksStayPassing` and `LinksStay` prove `ChecksPass` and `KeepsLinks` of
  `RefHealing` from one invariant, `HealInv`. A file that fmt has done has nothing left
  to rewrite, for what fmt writes is a display ID of the index, and such a name is
  never rewritten (`CanonicalIs`). The gate builds its own index afterwards, and it may
  have more rows than the one of fmt: those of the entries stamped since. Nothing points
  at them, for a ULID shows only once it is stamped and the ledger has no row of an entry that
  had none (`UnstampedIsUnknown`), so they heal nothing. A lock leaves a ledger whose
  targets are what the tokens resolve to now, and a token that resolves by name is in the index.
  For `KeepsLinks` the same facts say that a reference that is left alone resolves as before, and one that is
  rewritten had no other reading: by ULID it names one entry (`CorpusFits`), and by the ledger
  one target (`LedgerFits`). The assumptions are that no display ID is a ULID, which
  `rewriteToken` tells apart by their form, and that the bound leaves room for the entries
  there are to begin with (`RefHealingAssumption`).
* `FilesAreSame` proves `SameFilesFromAnywhere` of `ProjectDiscovery` for any tree and any
  number of rules, in every state in which no home directory is configured
  (`HomeIsNoProject`): a project there takes the rules of its `.gitignore` down to the
  projects below it, but none of these climbs to it. `ClimbEnds` is the core: the recursion behind
  `OutermostFrom` has one solution, which for every directory of a project is the configured
  directory with no other above it (`IsTop`). Every surface thus starts from the same
  place, the roots it finds are the same set, and by `OwnerIs` the nearest of them
  is the owner; `NearestBelow` says that a run further down, which sees only the roots below
  its own, names no other. The assumption is that the paths are those of a tree
  (`ProjectDiscoveryAssumption`).
* `GraphIsFaithful` proves `GraphIsOfSources` of `Compilation` for any files, any content,
  any profile and any number of slots. `AllFoundIs` is the core: the recursion behind
  `AllFound` has a solution (`JoinsExist`, a least counterexample instead of an
  induction), which has every display ID that was read, first with the entry of the
  place that `SourceOf` names. `GraphIs` goes through what is made of it: with one
  entry for each ULID, `ById` finds that entry, so that what is generated for an
  attribute is what the entries answer (`WritesIs`, `ReturnedIs`, `LinksBack`); an entry
then comes to a value once, so what was returned before it was returned by an earlier
inverse of the name (`BeforeIs`, `WayIs`), whatever attributes share one; and
  reports are told apart by their code (`ReportedIs`). The invariant (`CompileInv`) says
  that the files without a slot are those in the queue, once each, that slots in use
  and free ones add up, and that a file past its reading has content: the slots for the claim
  that the compilation never stops short, the content for the graph. The assumptions are that the paths are
  distinct, that there is a slot, that files and the delivered corpus are sequences of
  entries, and the profile one of inverses, and that a content is not mistaken for
  `NoText` or `Unread` (`CompilationAssumption`); nothing is asked of the inverses.

Only model-checked are `CallsReturn`, `RequestsEnd`, `BoxComesBack` and `RunEnds`: they are
liveness properties, and the prover does not reach fairness.

## Where the code and its comments disagree

Runs that TLC must find violated, each with the quoted comment under `findings`
in `PROJECT.json`:

* `MCIdReservationsShared`: a number handed out in one project is released by a
  parse in another, and is handed out again. The comment expects a skipped
  number at most.
* `MCDocumentSyncClosed`: a source buffer that closes while its grammar loads
  is written to the index after the close, because `parseAndUpdateFile` writes
  before its caller compares the epoch.
* `MCMcpProjectCurrent`: a file that changes or disappears after a compile has
  read it, and before the compile notes its modification time and hash, stays out
  of date in the cache: the note is newer than the result it stands for.
* `MCProjectSyntax`: the parse of a buffer publishes its syntax errors and
  schedules the validation of the project, which replaces them by what the
  validator says, although the text has not changed.

Listed under `findings` too, with the line of the document they contradict, and
excused or excluded in the models by a named definition:

* The patterns of `exclude:` are put before the rules of every `.gitignore` the
  walk meets, so a negated rule re-includes what they leave out
  (`core/discovery/mod.ts:149`).
* A type name as a child's target is covered by any shape of the parent
  (`core/profile/merge.ts:788`; `Excused`).
* An entry that is not stamped yet is not in the index of references, so a
  reference by its current display ID may be rewritten to an entry that had that
  name before (`core/refs/mod.ts:51`; excused in `KeepsLinks`).
* With the opening fence deleted, every install appends one more block
  (`cli/install/managed_block.ts:43`; `Fenced`).
* A profile whose sparse checkout fails after the clone stays unloadable, because
  the clone directory is the cache directory (`core/profile/resolver.ts:109`).

* Inverses are generated for values that are ULIDs, and links resolve display IDs
  only, so a relation by display ID never gets the reverse edge that the
  documentation shows (`core/compiler/inverses.ts:60`).
* Of two attributes whose inverses share a name, which neither the parser nor the
  merge refuses, the second generates no link back to a target that the first names too
  (`core/compiler/inverses.ts:103`; `WayBack`).
* A choice made before the last one is answered is stored without it, and a failed
  save stays in memory (`AssistantProvider.tsx:122`; `crossed`, `halfway`).

Met while modelling, in no run of their own:

* Without a workspace root, the directory of the first document becomes the root
  of a fallback project, which then owns documents of configured projects below
  it: with `WorkspaceRoots = {NoDir}`, TLC finds `RoutedToOwner` violated.
* The comment of `stillOwnedBy` (`server.ts:414-421`) has a parse that lands in a
  project that no longer owns the document withdrawn. Its two callers return before
  they ask when the buffer has closed, or was edited, during the parse
  (`server.ts:450`, `765`): the entries stay in the index of the old owner, for good if the
  buffer stays closed (`strays`).
* An edit takes its content along before it waits on the lane, and may be
  written after a newer one: for a document outside the workspace, TLC finds
  `LatestWins` violated.
* A refresh clears the cache before its compile is done. When that compile throws
  while `getCompiled` revalidates, that call finds nothing stale and nothing in
  flight, and returns `null` as a `CompileResult`.
* A lockfile that is created between the two reads of `loadLockedUpstreams`, and
  removed again after the compile, is noted as absent: the upstream entries stay.
* A re-seed adds the corpus after the project files, so a project file that
  repeats an ID of the corpus keeps it; the comments of both seeders
  (`project_context.ts:274-277`, `321-324`) give it to the corpus.
* `onDidClose` removes a saved file from the index although it is still part of
  the project. Its highest number may be handed out again: with a document in
  `Saved`, TLC finds `OffersReserved` violated.
* `reindexOpenDocuments` iterates a snapshot of the open documents; one that
  closes while the loop waits at an earlier one is indexed again. With a
  rebuild among the `Tasks`, TLC finds `ClosedIsGone` violated.
* The comment of `onInitialize` (`server.ts:515-517`) has `.markspec.yaml` come
  first; `resolveConfigRoot` takes a `project.yaml` first.
* A profile that fails on the *first* load leaves no change pending, so a later
  lock event does not retry it as it does after a failed reload.
* Discovery treats the home directory as no root when it looks upwards from a
  command, and not when a server looks for the outermost root: with the home
  directory in the tree, TLC finds `SameFilesFromAnywhere` violated
  (`cli/helpers.ts:585`, `620-621`; `core/discovery/projects.ts:220-224`).
* Of the merge of profiles: an attribute in an inner scope replaces the ancestor's
  one of an outer scope unchecked (`Excused`), and so does an explicit declaration
  of what a link rule would give; a redeclared type without `enforcement` reads as
  "off", and is refused as a relaxation; `required: true` of an attribute is not
  enforced by the checks of an entry.
* A publication between the fetch of the manifest and that of the data makes a
  row of the lockfile that mixes the two. A `lock` that is killed while it writes
  leaves a lockfile that does not parse, and the next one pins everything anew. A
  failed update overwrites the cache while the old pin stays.
* `checkDrift` never looks at the rows of dependencies; an edit of `url:` or
  `version:` keeps the old pin.
* `fmt` overwrites what is saved between its read and its write of a file. Two
  renames with an `fmt` and no `lock` between them lose the link, because the
  ledger knows the reference by the name of the last lock.
* An apply overwrites an edit that falls between its second read and its rename,
  which no comparison of tags can see; `AtomicReplace` says so. A kill before the
  rename leaves the temporary file (`desk/write.ts:31-33` documents it).
* Two upgrades at once: one removes the `.old` the other would roll back to, and
  one that chose its release earlier may put an older one over a newer.
* Two installs at once share `<path>.tmp`, and two backups within one second one
  name. An edit between the backup and the rename is overwritten, and a line that
  is deleted there comes back; the models have one run at a time.
* A process that leaves its group survives the end of an assistant run, and so
  does one that holds no pipe when the run ends by itself.

## Not modelled

Request handlers that only read; the parsers, the validator, the formatter of a
text (a parse is a set of IDs, or a text); wording, formatting and layout; the
syntax of globs and of YAML; the editor extension; authentication and the shape
of requests of the desk API. They keep no state across calls, or their state is
a function of what is modelled, and what they compute is reached by unit,
property and golden tests. This is most of the repository by size: the map of
`PROJECT.json` covers less than a tenth of its lines.

The TTL of a reservation is assumed to outlast what it waits for (the guard of
`Tick`): nothing in the code enforces it, and `hazards` says so. Processes on
Windows, the caches of git and npm profiles (one of their failures is among the
findings), and two commands at once on one lockfile are not modelled either.

## Plan

What is left, in order:

1. `ProfileCache`: two processes that resolve the same git profile, with a kill
   between the clone and the checkout.
2. `SyncLog`: the status derived from an append-only log, as a function against a
   reference definition.
3. `DocumentSync` as a refinement of a specification of one eventually current
   index; `ProjectRegistry` as one of a routing table that is always right for
   the disk it was last told of, from `RegistryInv`.
