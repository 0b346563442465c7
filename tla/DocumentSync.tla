----------------------------- MODULE DocumentSync -----------------------------
(***************************************************************************)
(* One document of the editor and the index of the project that owns it    *)
(* (document sync in packages/markspec/lsp/server.ts).                     *)
(*                                                                         *)
(* An open, an edit and a rebuild each start a handler that waits for the  *)
(* project of the document (ensureContextFor), parses a text and writes    *)
(* the index.  The handlers of one document overlap, and the buffer may be *)
(* edited, closed and opened again at each of their awaits.  The parse of  *)
(* a Markdown file awaits nothing that lets another event in; the parses   *)
(* of a source file wait until its grammar is loaded, and go on in order.  *)
(*                                                                         *)
(* The registry (see ProjectRegistry) is cut down to what one document     *)
(* sees of it: the lane, the gate and who owns the document.  A text is a  *)
(* number: 0 is the text on disk, each edit makes a new one.  The document *)
(* is never saved, so no other text is legitimate once it is closed.       *)
(* Diagnostics and corpus files are left out.                              *)
(***************************************************************************)
EXTENDS Integers, Sequences, FiniteSetsExt

CONSTANTS
  Kinds,       \* the documents followed, a set of records: is it a source file,
               \* is it below the primary root, is it saved (and found by the
               \* walk of its project), and the tasks of the lane besides
               \* startup: "rebuild", "reload" (of one project), "create" (for
               \* another document)
  MaxTasks, MaxEdits, MaxOpens  \* bounds on the tasks, the edits, the opens

ASSUME DocumentAssumption ==
  /\ Kinds \subseteq [source : BOOLEAN, inWorkspace : BOOLEAN, onDisk : BOOLEAN,
                      tasks : SUBSET {"rebuild", "reload", "create"}]
  /\ MaxTasks \in Nat /\ MaxEdits \in Nat /\ MaxOpens \in Nat \ {0}

Absent == -1
Texts == 0..MaxEdits
Docs == 1..MaxOpens

VARIABLES
  document,  \* which of Kinds this behaviour is about
  \* The editor: each open makes a document object, which keeps its last text.
  opens, isOpen, texts, edits,
  pending,   \* pendingContent, or Absent
  timer,     \* the debounced parse is scheduled
  \* The registry.
  ready,     \* calls that go on before any other event, in order
  lane,      \* queued tasks and calls, in order
  gate,      \* calls that wait for the gate, in order
  job,       \* the running task: its kind, its await, the call it answers
  armed,     \* the gate is armed
  known,     \* a known root is at or above the document
  unowned,   \* walkUpCache has it that no configuration is above the document
  ctx,       \* the context the document belongs to, numbered by creation
  disposed,  \* discarded contexts
  evicted,   \* the running task took the document from another index
  tasks,     \* tasks queued so far
  rebuilt,   \* afterRebuild is under way
  reindex,   \* document objects reindexOpenDocuments has still to parse
  \* The parser and the index.
  loaded,    \* the grammar is loaded
  parsing,   \* parses that wait for the grammar, in order
  index      \* the text the index of ctx holds, or Absent

editor == <<document, opens, isOpen, texts, edits>>
debounced == <<pending, timer>>
routing == <<ready, lane, gate>>
registry == <<job, armed, known, unowned, ctx, disposed, evicted>>
after == <<rebuilt, reindex>>
vars == <<editor, debounced, routing, registry, tasks, after, loaded, parsing, index>>

\* bufferEpoch: each open and each close adds one.
Epoch == IF isOpen THEN 2 * opens - 1 ELSE 2 * opens

NoCall == [by |-> "none"]
Call == [by : {"open", "edit", "reindex"}, epoch : 0..(2 * MaxOpens),
         doc : Docs, text : Texts \cup {Absent}]
Parse == [by : {"open", "edit", "reindex", "walk"}, epoch : 0..(2 * MaxOpens),
          ctx : Nat, text : Texts]
Idle == [kind |-> "none", at |-> "idle", call |-> NoCall]

Job == [kind : {"none", "startup", "rebuild", "reload", "create"},
        at : {"idle", "busy", "walk", "read", "parse"}, call : Call \cup {NoCall}]

TypeOK ==
  /\ document \in Kinds
  /\ opens \in 0..MaxOpens /\ isOpen \in BOOLEAN /\ (isOpen => opens # 0) /\ edits \in Texts
  /\ texts \in [Docs -> Texts]
  /\ pending \in Texts \cup {Absent} /\ timer \in BOOLEAN
  /\ lane \in Seq(Call \cup [by : document.tasks])
  /\ gate \in Seq(Call) /\ ready \in Seq(Call)
  /\ job \in Job
  /\ armed \in BOOLEAN /\ known \in BOOLEAN /\ unowned \in BOOLEAN /\ evicted \in BOOLEAN
  /\ ctx \in Nat \ {0} /\ disposed \subseteq 1..(ctx - 1)
  /\ tasks \in 0..MaxTasks
  /\ rebuilt \in BOOLEAN /\ reindex \subseteq Docs
  /\ loaded \in BOOLEAN /\ parsing \in Seq(Parse)
  /\ index \in Texts \cup {Absent}

Buffer == texts[opens]

\* The event loop takes the next event: no call goes on at once, and the lane,
\* which never rests while a task is queued, is suspended or idle.
NextEvent == ready = <<>> /\ (job = Idle => lane = <<>>)

-------------------------------------------------------------------------------
\* The startup index is about to walk; the document may be opened meanwhile.
Init ==
  /\ document \in Kinds
  /\ opens = 0 /\ isOpen = FALSE /\ edits = 0
  /\ texts = [d \in Docs |-> 0]
  /\ pending = Absent /\ timer = FALSE
  /\ ready = <<>> /\ lane = <<>> /\ gate = <<>>
  /\ job = [Idle EXCEPT !.kind = "startup", !.at = "walk"]
  /\ armed = TRUE /\ known = document.inWorkspace /\ unowned = FALSE
  /\ ctx = 1 /\ disposed = {}
  /\ evicted = FALSE /\ tasks = 0
  /\ rebuilt = FALSE /\ reindex = {}
  /\ loaded = FALSE /\ parsing = <<>> /\ index = Absent

(***************************************************************************)
(* The parses `ps` are done, in order: updateFile writes the index of each *)
(* parse's context, and only then does its handler look at the epoch.      *)
(* stillOwnedBy: a handler of the buffer as it is, whose context is alive  *)
(* but lost the document, takes its result back and schedules a parse.     *)
(***************************************************************************)
Land(ps) ==
  LET mine  == {i \in DOMAIN ps : ps[i].ctx = ctx}
      moved == \E i \in DOMAIN ps :
                 /\ ps[i].by # "walk" /\ ps[i].epoch = Epoch
                 /\ ps[i].ctx # ctx /\ ps[i].ctx \notin disposed
  IN  /\ index' = IF mine = {} THEN index ELSE ps[Max(mine)].text
      /\ pending' = IF moved /\ isOpen THEN Buffer ELSE pending
      /\ timer' = (timer \/ (moved /\ isOpen))

\* parseAndUpdateFile for the context the document belongs to now.
StartParse(by, epoch, text) ==
  LET p == [by |-> by, epoch |-> epoch, ctx |-> ctx, text |-> text]
  IN  IF document.source /\ ~loaded
        THEN parsing' = Append(parsing, p) /\ UNCHANGED <<index, debounced>>
        ELSE Land(<<p>>) /\ UNCHANGED parsing

\* What a call parses: an edit its content, an open or a reindex what the
\* document object holds by now.
TextOf(call) == IF call.by = "edit" THEN call.text ELSE texts[call.doc]

(***************************************************************************)
(* ensureContextFor returned.  A handler whose buffer was closed meanwhile *)
(* stops here; reindexOpenDocuments does not look.                         *)
(***************************************************************************)
Answer(call) ==
  IF call.by # "reindex" /\ call.epoch # Epoch
    THEN UNCHANGED <<parsing, index, debounced>>
    ELSE StartParse(call.by, call.epoch, TextOf(call))

\* ensureContextFor: the gate, the fast path, or a task of the lane.
Resume ==
  /\ ready # <<>>
  /\ ready' = Tail(ready)
  /\ IF armed
       THEN gate' = Append(gate, Head(ready)) /\ UNCHANGED <<lane, parsing,
                                                             index, debounced>>
       ELSE IF known
       THEN Answer(Head(ready)) /\ UNCHANGED <<lane, gate>>
       ELSE lane' = Append(lane, Head(ready)) /\ UNCHANGED <<gate, parsing,
                                                             index, debounced>>
  /\ UNCHANGED <<editor, registry, tasks, after, loaded>>

-------------------------------------------------------------------------------
\* onDidOpen; TextDocuments then fires onDidChangeContent too, which schedules
\* a parse of the text that was opened.
Open ==
  /\ NextEvent
  /\ ~isOpen /\ opens < MaxOpens
  /\ opens' = opens + 1 /\ isOpen' = TRUE
  /\ pending' = texts[opens + 1] /\ timer' = TRUE
  /\ ready' = << [by |-> "open", epoch |-> 2 * opens + 1, doc |-> opens + 1,
                  text |-> Absent] >>
  /\ UNCHANGED <<document, texts, edits, lane, gate, registry,
                 tasks, after, loaded, parsing, index>>

\* onDidChangeContent and scheduleParse.
Edit ==
  /\ NextEvent
  /\ isOpen /\ edits < MaxEdits
  /\ edits' = edits + 1
  /\ texts' = [texts EXCEPT ![opens] = edits + 1]
  /\ pending' = edits + 1 /\ timer' = TRUE
  /\ UNCHANGED <<document, opens, isOpen, routing, registry, tasks, after,
                 loaded, parsing, index>>

\* 50 ms of quiet: the handler takes the pending content and the epoch along.
ParseTimer ==
  /\ NextEvent
  /\ timer
  /\ timer' = FALSE
  /\ ready' = << [by |-> "edit", epoch |-> Epoch, doc |-> opens, text |-> pending] >>
  /\ UNCHANGED <<editor, pending, lane, gate, registry, tasks, after, loaded,
                 parsing, index>>

\* Mutants of Close: the scheduled parse is not cancelled, and keeps its content
\* or does not.
CloseKeepingParse ==
  /\ NextEvent
  /\ isOpen
  /\ isOpen' = FALSE
  /\ index' = Absent
  /\ UNCHANGED <<document, opens, texts, edits, debounced, routing, registry,
                 tasks, after, loaded, parsing>>

\* onDidClose.
Close ==
  /\ NextEvent
  /\ isOpen
  /\ isOpen' = FALSE
  /\ pending' = Absent /\ timer' = FALSE
  /\ index' = Absent
  /\ UNCHANGED <<document, opens, texts, edits, routing, registry, tasks,
                 after, loaded, parsing>>

\* The grammar is there: the parses that wait for it go on.
GrammarLoaded ==
  /\ NextEvent
  /\ parsing # <<>>
  /\ loaded' = TRUE
  /\ parsing' = <<>>
  /\ Land(parsing)
  /\ UNCHANGED <<editor, routing, registry, tasks, after>>

-------------------------------------------------------------------------------
(***************************************************************************)
(* The lane.  A task is queued: a watched-file reload of one project, one  *)
(* that rebuilds the registry, or the creation of a project for another    *)
(* document.                                                               *)
(***************************************************************************)
QueueTask(kind) ==
  /\ NextEvent
  /\ tasks < MaxTasks
  /\ tasks' = tasks + 1
  /\ lane' = Append(lane, [by |-> kind])
  /\ UNCHANGED <<editor, debounced, ready, gate, registry, after, loaded,
                 parsing, index>>

StartTask(kind) ==
  /\ ready = <<>> /\ job = Idle
  /\ lane # <<>> /\ Head(lane).by = kind
  /\ lane' = Tail(lane)

\* The reload of one project keeps the lane busy and the gate open.
StartReload ==
  /\ StartTask("reload")
  /\ job' = [Idle EXCEPT !.kind = "reload", !.at = "busy"]
  /\ UNCHANGED <<editor, debounced, ready, gate, armed, known, unowned, ctx,
                 disposed, evicted, tasks, after, loaded, parsing, index>>

\* rebuild: new contexts; one created on demand is forgotten.
StartRebuild ==
  /\ StartTask("rebuild")
  /\ job' = [Idle EXCEPT !.kind = "rebuild", !.at = "walk"]
  /\ armed' = TRUE
  /\ disposed' = disposed \cup {ctx} /\ ctx' = ctx + 1
  /\ known' = document.inWorkspace /\ unowned' = FALSE /\ evicted' = FALSE
  /\ index' = Absent
  /\ UNCHANGED <<editor, debounced, ready, gate, tasks, after, loaded,
                 parsing>>

\* createFor: a root at or above the document is created (createAndLoad), and
\* the document is evicted from the context that held it so far.
Created(call) ==
  /\ job' = [kind |-> "create", at |-> "walk", call |-> call]
  /\ armed' = TRUE
  /\ ctx' = ctx + 1 /\ known' = TRUE
  /\ evicted' = (index # Absent)
  /\ index' = Absent
  /\ UNCHANGED <<unowned, disposed>>

\* For another document; its tree may leave this one alone.
StartCreate ==
  /\ StartTask("create")
  /\ \/ ~known /\ Created(NoCall)
     \/ /\ job' = [Idle EXCEPT !.kind = "create", !.at = "busy"]
        /\ armed' = TRUE
        /\ UNCHANGED <<known, unowned, ctx, disposed, evicted, index>>
  /\ UNCHANGED <<editor, debounced, ready, gate, tasks, after, loaded,
                 parsing>>

\* For this document: its owner is known by now, or found by the walk up, or it
\* falls back to the primary context.
StartCall ==
  /\ ready = <<>> /\ job = Idle
  /\ lane # <<>> /\ Head(lane).by \in {"open", "edit", "reindex"}
  /\ lane' = Tail(lane)
  /\ \/ /\ Answer(Head(lane))
        /\ unowned' = (unowned \/ ~known)
        /\ UNCHANGED <<job, armed, known, ctx, disposed, evicted>>
     \/ /\ ~known /\ ~unowned
        /\ Created(Head(lane))
        /\ UNCHANGED <<parsing, debounced>>
  /\ UNCHANGED <<editor, ready, gate, tasks, after, loaded>>

(***************************************************************************)
(* indexProject takes the buffer of an open document, else reads the file. *)
(***************************************************************************)
WalkBuffer ==
  /\ ready = <<>> /\ job.at = "walk"
  /\ known /\ document.onDisk /\ isOpen
  /\ StartParse("walk", Epoch, Buffer)
  /\ job' = [job EXCEPT !.at = "parse"]
  /\ UNCHANGED <<editor, routing, armed, known, unowned, ctx, disposed,
                 evicted, tasks, after, loaded>>

WalkRead ==
  /\ ready = <<>> /\ job.at = "walk"
  /\ known /\ document.onDisk /\ ~isOpen
  /\ job' = [job EXCEPT !.at = "read"]
  /\ UNCHANGED <<editor, debounced, routing, armed, known, unowned, ctx,
                 disposed, evicted, tasks, after, loaded, parsing, index>>

WalkFile ==
  /\ ready = <<>> /\ job.at = "read"
  /\ StartParse("walk", Epoch, 0)
  /\ job' = [job EXCEPT !.at = "parse"]
  /\ UNCHANGED <<editor, routing, armed, known, unowned, ctx, disposed,
                 evicted, tasks, after, loaded>>

\* The walk does not find the document: an open one that was evicted is handed
\* over from its buffer.
WalkNothing ==
  /\ ready = <<>> /\ job.at = "walk"
  /\ ~(known /\ document.onDisk)
  /\ IF evicted /\ isOpen /\ index = Absent
       THEN StartParse("walk", Epoch, Buffer)
       ELSE UNCHANGED <<parsing, index, debounced>>
  /\ job' = [job EXCEPT !.at = "parse"]
  /\ UNCHANGED <<editor, routing, armed, known, unowned, ctx, disposed,
                 evicted, tasks, after, loaded>>

\* The task is over: the calls at the gate go on, before the lane does.
EndTask ==
  /\ ready = <<>>
  /\ \/ job.at = "busy"
     \/ job.at = "parse" /\ \A i \in DOMAIN parsing : parsing[i].by # "walk"
  /\ job' = Idle
  /\ armed' = FALSE
  /\ ready' = gate \o (IF job.call = NoCall THEN <<>> ELSE <<job.call>>)
  /\ gate' = <<>>
  /\ rebuilt' = (rebuilt \/ job.kind = "rebuild")
  /\ evicted' = FALSE
  /\ UNCHANGED <<editor, debounced, lane, known, unowned, ctx, disposed, tasks,
                 reindex, loaded, parsing, index>>

-------------------------------------------------------------------------------
\* afterRebuild comes to reindexOpenDocuments, which takes the documents that
\* are open.
ReindexOpenDocuments ==
  /\ NextEvent
  /\ rebuilt
  /\ rebuilt' = FALSE
  /\ reindex' = IF isOpen THEN reindex \cup {opens} ELSE reindex
  /\ UNCHANGED <<editor, debounced, routing, registry, tasks, loaded, parsing,
                 index>>

\* Its loop comes to this document, after those before it.
ReindexDocument(d) ==
  /\ NextEvent
  /\ d \in reindex
  /\ reindex' = reindex \ {d}
  /\ ready' = << [by |-> "reindex", epoch |-> Epoch, doc |-> d, text |-> Absent] >>
  /\ UNCHANGED <<editor, debounced, lane, gate, registry, tasks, rebuilt,
                 loaded, parsing, index>>

Next ==
  \/ Resume
  \/ Open \/ Edit \/ ParseTimer \/ Close \/ GrammarLoaded
  \/ \E kind \in document.tasks : QueueTask(kind)
  \/ StartReload \/ StartRebuild \/ StartCreate \/ StartCall
  \/ WalkBuffer \/ WalkRead \/ WalkFile \/ WalkNothing \/ EndTask
  \/ ReindexOpenDocuments
  \/ \E d \in Docs : ReindexDocument(d)

Spec == Init /\ [][Next]_vars

-------------------------------------------------------------------------------
\* Everything that was started is over.
Quiet ==
  /\ ready = <<>> /\ lane = <<>> /\ job = Idle
  /\ parsing = <<>> /\ ~timer /\ ~rebuilt /\ reindex = {}

(***************************************************************************)
(* No open document goes dark: once every handler is over, the index of    *)
(* the project that owns it holds an entry list for it, whatever rebuilds, *)
(* evictions, closes and late parses came in between.                      *)
(***************************************************************************)
OpenIsIndexed == Quiet /\ isOpen => index # Absent

\* No await keeps a text from the index: a Markdown document (no grammar to
\* load) whose project neither changes nor has to be created.
Steady ==
  /\ ~document.source /\ document.inWorkspace
  /\ "rebuild" \notin document.tasks

(***************************************************************************)
(* The latest text wins (the comment of scheduleParse): once every handler *)
(* is over, the index holds the text of the buffer of a steady document.   *)
(***************************************************************************)
LatestWins == Steady /\ Quiet /\ isOpen => index = Buffer

(***************************************************************************)
(* A closed buffer never comes back (the comments of bufferEpochs and      *)
(* onDidClose): once every handler is over, the index holds no text of a   *)
(* closed steady document other than the one on disk.                      *)
(***************************************************************************)
ClosedIsGone == Steady /\ Quiet /\ ~isOpen => index \in {Absent, 0}

(***************************************************************************)
(* The three together: whatever came in between, the index ends with what  *)
(* the editor shows.                                                       *)
(***************************************************************************)
IndexFollowsBuffer == OpenIsIndexed /\ LatestWins /\ ClosedIsGone

(***************************************************************************)
(* What the comments of bufferEpochs and onDidClose promise of any         *)
(* document.  It does not hold: see the README.                            *)
(***************************************************************************)
AnyClosedIsGone == Quiet /\ ~isOpen => index \in {Absent, 0}
=============================================================================
