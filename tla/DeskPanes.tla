------------------------------- MODULE DeskPanes -------------------------------
(***************************************************************************)
(* The panes of MarkDesk: the navigator (navigator/Navigator.tsx), the     *)
(* document (document/DocumentPane.tsx) and the source drawer              *)
(* (SourceDrawer.tsx), which read what they show from the desk server      *)
(* whenever the selection (useHistory.ts), the refresh counter             *)
(* (app/refresh.tsx) or the client changes.                                *)
(*                                                                         *)
(* The answers arrive in any order, and say what the files have held at    *)
(* some moment since the request was sent.  An effect that runs again      *)
(* forgets the answer to the last one.  A read of the document pane goes   *)
(* on all the same, because it shares the documents loaded, and their      *)
(* tags, with the next one; the other panes share nothing.  How fresh the  *)
(* graph of the server is, is the question of McpProject.                  *)
(***************************************************************************)
EXTENDS Naturals, Sequences

CONSTANTS
  Ids,        \* the entries
  Documents,  \* the Markdown files, by path
  Sources,    \* the other files with entries
  Elsewhere,  \* the place of an entry from outside the product
  Gone,       \* the place of one that there is not
  None,
  Placements, \* where the entries may be when the product opens
  MaxWrites,  \* a bound on the changes on disk
  MaxEvents   \* a bound on the events and the faults together

Paths == Documents \cup Sources

Places == Paths \cup {Elsewhere, Gone}

\* What the files hold, and the views of it.
Disks == [place : [Ids -> Places], text : [Paths -> Nat]]

EntryViews == [place : Places, text : Nat]

HtmlViews == [entry : EntryViews, known : SUBSET Ids]

DocumentViews == [own : SUBSET Ids, known : SUBSET Ids, text : Nat]

\* What the document pane shows.
Pages == [id : Ids, is : {"reading", "gone", "failed"}, entry : EntryViews \cup {None},
          html : HtmlViews \cup DocumentViews \cup {None}, source : Paths \cup {None}]

ASSUME PanesAssumption ==
  /\ Placements \subseteq [Ids -> Places]
  /\ {MaxWrites, MaxEvents} \subseteq Nat
  /\ {Elsewhere, Gone, None} \cap (Paths \cup Ids) = {} /\ Elsewhere # Gone
  /\ None \notin {Elsewhere, Gone} /\ Documents \cap Sources = {}
  /\ None \notin Pages

VARIABLES
  past,       \* what the files have held; the last is what they hold
  serving,      \* whether the server answers
  history,    \* the selections, and the place of the current one
  documents,  \* for each path, the read that loads or has loaded it, or None
  reads,      \* the reads of the document pane; the last one is current
  page,       \* what the last of them has shown (`loaded`), or None
  tree,       \* the navigator, with its check
  drawer,     \* the source drawer, with its request
  sourceOpen,
  events, faults

panesVars == <<past, serving, history, documents, reads, page, tree, drawer, sourceOpen,
               events, faults>>

Now == Len(past)
Disk == past[Now]

-------------------------------------------------------------------------------
\* What the server makes of the files: an entry is where it is and what its
\* file says there.
EntryView(d, id) ==
  [place |-> d.place[id], text |-> IF d.place[id] \in Paths THEN d.text[d.place[id]] ELSE 0]

KnownIds(d) == {id \in Ids : d.place[id] # Gone}

IdsIn(d, p) == {id \in Ids : d.place[id] = p}

HtmlView(d, id) == [entry |-> EntryView(d, id), known |-> KnownIds(d)]

\* The render of a document takes the entries from the graph and the text from
\* the file.  Its tag is a digest of just these.
DocumentView(graph, d, p) ==
  [own |-> IdsIn(graph, p), known |-> KnownIds(graph), text |-> d.text[p]]

TreeView(d) == [id \in Ids |-> EntryView(d, id)]

\* An answer: a view, none for what is not there, or a failure.
Ok(view) == [is |-> "ok", view |-> view]
NotFound == [is |-> "notFound", view |-> None]
Failed == [is |-> "failed", view |-> None]
Network == [is |-> "network", view |-> None]
Loading == [is |-> "loading", view |-> None]  \* not yet one

(***************************************************************************)
(* What arrives in answer to a request that was sent when the files were   *)
(* as in past[sent].  The server takes the graph, and after it the text,   *)
(* from some moment since then.                                            *)
(***************************************************************************)
GraphsSince(sent) == {past[n] : n \in sent..Now}

EntryAnswers(sent, id) ==
  {IF g.place[id] = Gone THEN NotFound ELSE Ok(EntryView(g, id)) : g \in GraphsSince(sent)}

HtmlAnswers(sent, id) ==
  {IF g.place[id] = Gone THEN NotFound ELSE Ok(HtmlView(g, id)) : g \in GraphsSince(sent)}

DocumentAnswers(sent, p) ==
  UNION {{IF IdsIn(past[m], p) = {} THEN NotFound ELSE Ok(DocumentView(past[m], past[n], p)) :
            n \in m..Now} : m \in sent..Now}

FileAnswers(sent, p) ==
  UNION {{IF IdsIn(past[m], p) = {} THEN NotFound ELSE Ok(past[n].text[p]) : n \in m..Now} :
           m \in sent..Now}

TreeAnswers(sent) == {Ok(TreeView(g)) : g \in GraphsSince(sent)}

\* Or the server fails; or it is not there, and what it said before is on its way.
Arrives(got, answers) ==
  \/ got \in answers /\ UNCHANGED faults
  \/ serving /\ got = Failed /\ events + faults < MaxEvents /\ faults' = faults + 1
  \/ ~serving /\ got = Network /\ UNCHANGED faults

Possible(answers) == answers \cup {Failed, Network}

-------------------------------------------------------------------------------
NoSelection == [entries |-> <<>>, index |-> 0]

Selected(h) == IF h.index = 0 THEN None ELSE h.entries[h.index]

\* A read of the document pane: `since` is when it began, `sent` when its
\* request was sent; it waits for the read `before`; `cached` is the view whose
\* tag it sends; `load` is what has become of its document.
Read(id) ==
  [id |-> id, at |-> "entry", since |-> Now, sent |-> Now, entry |-> None,
   before |-> 0, cached |-> None, load |-> None]

Check(view) == [view |-> view, failed |-> FALSE, at |-> "sent", since |-> Now]

Closed == [path |-> None, at |-> "closed", since |-> 0, text |-> None]

Fetch(p) == [path |-> p, at |-> "sent", since |-> Now, text |-> None]

\* What has become of the document of a read.
LoadStates == [is : {"ok"}, view : DocumentViews] \cup {Loading, Failed}

Reads == [id : Ids, at : {"entry", "previous", "document", "html", "shown", "lost"},
          since : Nat, sent : Nat, entry : EntryViews \cup {None}, before : Nat,
          cached : DocumentViews \cup {None}, load : LoadStates \cup {None}]

Trees == [view : [Ids -> EntryViews] \cup {None}, failed : BOOLEAN,
          at : {"sent", "current", "kept"}, since : Nat]

Drawers ==
  {Closed} \cup [path : Paths, at : {"sent", "shown", "lost"}, since : Nat, text : Nat \cup {None}]

PanesTypeOK ==
  /\ past \in Seq(Disks) /\ Now \in 1..(MaxWrites + 1)
  /\ serving \in BOOLEAN /\ sourceOpen \in BOOLEAN
  /\ history \in [entries : Seq(Ids), index : Nat] /\ history.index <= Len(history.entries)
  /\ documents \in [Documents -> 0..Len(reads)]
  /\ reads \in Seq(Reads) /\ page \in Pages \cup {None} /\ tree \in Trees /\ drawer \in Drawers
  /\ events \in 0..MaxEvents /\ faults \in 0..MaxEvents

\* The product has opened; nothing is selected.
PanesInit ==
  /\ \E places \in Placements :
       past = <<[place |-> places, text |-> [p \in Paths |-> 0]]>>
  /\ serving = TRUE /\ history = NoSelection /\ documents = [p \in Documents |-> 0]
  /\ reads = <<>> /\ page = None /\ tree = Check(None)
  /\ drawer = Closed /\ sourceOpen = FALSE /\ events = 0 /\ faults = 0

\* Another application writes: an entry moves, comes or goes, or text changes.
WriteFile ==
  /\ Now <= MaxWrites
  /\ \/ \E id \in Ids, to \in Paths \cup {Gone} :
          /\ Disk.place[id] \notin {to, Elsewhere}
          /\ past' = Append(past,
               [place |-> [Disk.place EXCEPT ![id] = to],
                text |-> [p \in Paths |->
                            IF p \in {to, Disk.place[id]} THEN Now ELSE Disk.text[p]]])
     \/ \E p \in Paths : past' = Append(past, [Disk EXCEPT !.text[p] = Now])
  /\ UNCHANGED <<serving, history, documents, reads, page, tree, drawer, sourceOpen, events, faults>>

\* The server dies.
Die ==
  /\ serving /\ events + faults < MaxEvents
  /\ serving' = FALSE /\ faults' = faults + 1
  /\ UNCHANGED <<past, history, documents, reads, page, tree, drawer, sourceOpen, events>>

-------------------------------------------------------------------------------
Event == events + faults < MaxEvents /\ events' = events + 1

\* The file whose source the drawer shows: that of the reading that is shown.
Showing(shown, id, open) ==
  IF open /\ shown # None /\ shown.id = id /\ shown.is = "reading" THEN shown.source ELSE None

\* The drawer opens, closes, and fetches when its file or the counter changes.
DrawerFor(p, revised) ==
  IF p = None THEN Closed ELSE IF p = drawer.path /\ ~revised THEN drawer ELSE Fetch(p)

\* Another entry is current: it is read.
GoTo(h) ==
  /\ history' = h
  /\ IF Selected(h) = Selected(history) THEN UNCHANGED <<reads, drawer>>
     ELSE /\ reads' = Append(reads, Read(Selected(h)))
          /\ drawer' = DrawerFor(Showing(page, Selected(h), sourceOpen), FALSE)
  /\ UNCHANGED <<past, serving, documents, page, tree, sourceOpen, faults>>

Select(id) ==
  /\ Event /\ id # Selected(history)
  /\ GoTo([entries |-> Append(SubSeq(history.entries, 1, history.index), id),
           index |-> history.index + 1])

Back == Event /\ history.index > 1 /\ GoTo([history EXCEPT !.index = @ - 1])

Forward ==
  Event /\ history.index < Len(history.entries) /\ GoTo([history EXCEPT !.index = @ + 1])

\* The window gets the focus, or a proposal was written: the counter is bumped.
Refresh ==
  /\ Event
  /\ reads' = IF Selected(history) = None THEN reads ELSE Append(reads, Read(Selected(history)))
  /\ tree' = [Check(tree.view) EXCEPT !.failed = tree.failed /\ tree.view # None]
  /\ drawer' = DrawerFor(Showing(page, Selected(history), sourceOpen), TRUE)
  /\ UNCHANGED <<past, serving, history, documents, page, sourceOpen, faults>>

\* The panes begin anew; nobody sees what is answered to those before.
BeginAnew ==
  /\ reads' = IF Selected(history) = None THEN <<>> ELSE <<Read(Selected(history))>>
  /\ documents' = [p \in Documents |-> 0] /\ page' = None
  /\ tree' = Check(None) /\ drawer' = Closed
  /\ UNCHANGED <<past, history, faults>>

\* The product is opened again: another server, and another client.
Reopen == Event /\ serving' = TRUE /\ UNCHANGED sourceOpen /\ BeginAnew

\* The author has been at the settings, in the place of the panes.
Return == Event /\ sourceOpen' = FALSE /\ UNCHANGED serving /\ BeginAnew

ToggleSource ==
  /\ Event /\ page # None /\ Showing(page, Selected(history), TRUE) # None
  /\ sourceOpen' = ~sourceOpen
  /\ drawer' = DrawerFor(Showing(page, Selected(history), ~sourceOpen), FALSE)
  /\ UNCHANGED <<past, serving, history, documents, reads, page, tree, faults>>

-------------------------------------------------------------------------------
\* A mutant of Tag: it does not say which entries are known.
TagOfText(view) == <<view.own, view.text>>

\* documentEtag.
Tag(view) == <<view.own, view.known, view.text>>

\* A request with the tag of a cached view is answered 304 if that is the tag.
Conditional(answer, cached) ==
  IF answer.is = "ok" /\ cached # None /\ Tag(cached) = Tag(answer.view)
    THEN [is |-> "notModified", view |-> None] ELSE answer

Current(n) == n = Len(reads)

\* What a read that has ended shows, if it is still the current one.
Shows(n, what) ==
  /\ page' = IF Current(n) THEN what ELSE page
  /\ drawer' = DrawerFor(Showing(page', Selected(history), sourceOpen), FALSE)

ShowsReading(n, html, source) ==
  Shows(n, [id |-> reads[n].id, is |-> "reading", entry |-> reads[n].entry, html |-> html,
            source |-> source])

\* A read that ends with no reading: the entry is gone, the server has failed,
\* or it is not there, which shows nothing.
EndsWithout(n, got, load) ==
  /\ reads' = [reads EXCEPT ![n] = [@ EXCEPT !.at = IF got = Network THEN "lost" ELSE "shown",
                                             !.load = load]]
  /\ IF got = Network THEN UNCHANGED <<page, drawer>>
     ELSE Shows(n, [id |-> reads[n].id, is |-> IF got = NotFound THEN "gone" ELSE "failed",
                    entry |-> None, html |-> None, source |-> None])

AsksFor(n, at) == [reads[n] EXCEPT !.at = at, !.sent = Now]

Loads(n, entry, cached) ==
  /\ reads' = [reads EXCEPT ![n] =
       [AsksFor(n, "document") EXCEPT !.entry = entry, !.cached = cached, !.load = Loading]]
  /\ documents' = [documents EXCEPT ![entry.place] = n]

EntryArrives(n, got) ==
  /\ reads[n].at = "entry" /\ Arrives(got, EntryAnswers(reads[n].sent, reads[n].id))
  /\ IF got.is # "ok" THEN EndsWithout(n, got, None) /\ UNCHANGED documents
     ELSE /\ IF got.view.place \notin Documents
               THEN /\ reads' = [reads EXCEPT ![n] = [AsksFor(n, "html") EXCEPT !.entry = got.view]]
                    /\ UNCHANGED documents
             ELSE IF documents[got.view.place] = 0 THEN Loads(n, got.view, None)
             ELSE /\ reads' = [reads EXCEPT ![n] =
                       [@ EXCEPT !.at = "previous", !.entry = got.view,
                                 !.before = documents[got.view.place]]]
                  /\ UNCHANGED documents
          /\ UNCHANGED <<page, drawer>>
  /\ UNCHANGED <<past, serving, history, tree, sourceOpen, events>>

\* The load before this one has ended: its view is checked, if it has one.
PreviousEnds(n) ==
  LET previous == reads[reads[n].before].load IN
  /\ reads[n].at = "previous" /\ previous # Loading
  /\ Loads(n, reads[n].entry, previous.view)
  /\ UNCHANGED <<past, serving, history, page, tree, drawer, sourceOpen, events, faults>>

DocumentArrives(n, got) ==
  LET path == reads[n].entry.place
      answer == Conditional(got, reads[n].cached)
      view == IF answer.is = "notModified" THEN reads[n].cached ELSE answer.view
  IN
  /\ reads[n].at = "document" /\ Arrives(got, DocumentAnswers(reads[n].sent, path))
  /\ IF got.is = "ok"
       THEN /\ reads' = [reads EXCEPT ![n] =
                 [@ EXCEPT !.at = "shown", !.before = 0, !.cached = None, !.load = Ok(view)]]
            /\ ShowsReading(n, view, path) /\ UNCHANGED documents
       ELSE /\ documents' = [documents EXCEPT ![path] = IF @ = n THEN 0 ELSE @]
            /\ IF got = Network THEN EndsWithout(n, got, Failed)
               ELSE /\ reads' = [reads EXCEPT ![n] = [AsksFor(n, "html") EXCEPT !.load = Failed]]
                    /\ UNCHANGED <<page, drawer>>
  /\ UNCHANGED <<past, serving, history, tree, sourceOpen, events>>

HtmlArrives(n, got) ==
  /\ reads[n].at = "html" /\ Arrives(got, HtmlAnswers(reads[n].sent, reads[n].id))
  /\ IF got.is # "ok" THEN EndsWithout(n, got, reads[n].load)
     ELSE /\ reads' = [reads EXCEPT ![n].at = "shown"]
          /\ ShowsReading(n, got.view,
               IF reads[n].entry.place \in Sources THEN reads[n].entry.place ELSE None)
  /\ UNCHANGED <<past, serving, history, documents, tree, sourceOpen, events>>

-------------------------------------------------------------------------------
\* A check that fails keeps the tree shown.
TreeArrives(got) ==
  /\ tree.at = "sent" /\ Arrives(got, TreeAnswers(tree.since))
  /\ tree' = IF got.is = "ok"
               THEN [tree EXCEPT !.at = "current", !.view = got.view, !.failed = FALSE]
             ELSE [tree EXCEPT !.at = "kept", !.failed = @ \/ (got = Failed /\ tree.view = None)]
  /\ UNCHANGED <<past, serving, history, documents, reads, page, drawer, sourceOpen, events>>

SourceArrives(got) ==
  /\ drawer.at = "sent" /\ Arrives(got, FileAnswers(drawer.since, drawer.path))
  /\ drawer' = IF got.is = "ok" THEN [drawer EXCEPT !.at = "shown", !.text = got.view]
               ELSE [drawer EXCEPT !.at = "lost"]
  /\ UNCHANGED <<past, serving, history, documents, reads, page, tree, sourceOpen, events>>

PanesNext ==
  \/ WriteFile \/ Die
  \/ \E id \in Ids : Select(id)
  \/ Back \/ Forward \/ Refresh \/ Reopen \/ Return \/ ToggleSource
  \/ \E n \in DOMAIN reads :
       \/ \E got \in Possible(EntryAnswers(reads[n].sent, reads[n].id)) : EntryArrives(n, got)
       \/ \E got \in Possible(HtmlAnswers(reads[n].sent, reads[n].id)) : HtmlArrives(n, got)
       \/ /\ reads[n].at = "document"
          /\ \E got \in Possible(DocumentAnswers(reads[n].sent, reads[n].entry.place)) :
               DocumentArrives(n, got)
       \/ PreviousEnds(n)
  \/ \E got \in Possible(TreeAnswers(tree.since)) : TreeArrives(got)
  \/ /\ drawer.at = "sent"
     /\ \E got \in Possible(FileAnswers(drawer.since, drawer.path)) : SourceArrives(got)

PanesSpec == PanesInit /\ [][PanesNext]_panesVars

-------------------------------------------------------------------------------
(***************************************************************************)
(* The panes show the product: when the last read of the document pane has *)
(* ended, it shows the entry that is selected, as it and its document were *)
(* at moments since that read began, or says that it is gone, and it was;  *)
(* the tree that the last check has brought is one of since then; and the  *)
(* drawer shows what the file of the reading has held since the last       *)
(* refresh or since it opened.  So with no change on disk since the window *)
(* has got the focus, once all answers are there, the panes agree.         *)
(*                                                                         *)
(* Excused is what the panes themselves report, or keep: a failure of the  *)
(* server, and one that is not there.                                      *)
(***************************************************************************)
SinceThen(since) == {past[n] : n \in since..Now}

DocumentIsCurrent ==
  LET r == reads[Len(reads)]
      then == SinceThen(r.since)
  IN reads # <<>> =>
       /\ r.id = Selected(history)
       /\ r.at = "shown" =>
            /\ page # None /\ page.id = Selected(history)
            /\ page.is = "failed" => faults > 0
            /\ page.is = "gone" => \E d \in then : d.place[r.id] = Gone
            /\ page.is = "reading" =>
                 /\ \E d \in then : page.entry = EntryView(d, r.id)
                 /\ IF page.source \in Documents
                      THEN \E d, g \in then : page.html = DocumentView(g, d, page.source)
                      ELSE \E d \in then : page.html = HtmlView(d, r.id)

TreeIsCurrent ==
  /\ tree.at = "current" => \E d \in SinceThen(tree.since) : tree.view = TreeView(d)
  /\ tree.failed => faults > 0

SourceIsCurrent ==
  /\ drawer.path = Showing(page, Selected(history), sourceOpen)
  /\ drawer.at = "shown" => \E d \in SinceThen(drawer.since) : drawer.text = d.text[drawer.path]

PanesAreCurrent == DocumentIsCurrent /\ TreeIsCurrent /\ SourceIsCurrent
================================================================================
