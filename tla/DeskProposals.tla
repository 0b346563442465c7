----------------------------- MODULE DeskProposals -----------------------------
(***************************************************************************)
(* The desk server and one Markdown file (packages/markspec/desk): reads   *)
(* of the document with its entity tag, previews, and applies, which       *)
(* replace the body of one entry (serveProposal in api.ts, checkProposal   *)
(* in proposals.ts, writeTextFileAtomic in write.ts).                      *)
(*                                                                         *)
(* Every await of a handler is a step.  Meanwhile another application may  *)
(* save or remove the file, entries may come and go elsewhere, a write may *)
(* fail, and the server may be killed.  A text is the body of the entry    *)
(* and the rest; a tag is what its digest is of.  Authentication, the      *)
(* shape and size of requests, paths and encodings are left out.           *)
(***************************************************************************)
EXTENDS Integers, Sequences, FiniteSets

CONSTANTS
  Handlers,     \* requests served at a time
  Bodies,       \* bodies of the entry, as proposed and as formatted
  Rests,        \* the rest of the file
  FormattedAs,  \* what the formatter makes of a proposed body, or Refused
  Refused, Gone, Missing, Null,
  MaxRequests, MaxEdits, MaxFaults  \* bounds

ASSUME DeskAssumption ==
  /\ FormattedAs \in [Bodies -> Bodies \cup {Refused}]
  /\ Refused \notin Bodies /\ Gone \notin Bodies
  /\ MaxRequests \in Nat /\ MaxEdits \in Nat /\ MaxFaults \in Nat

\* The entry may be gone from the file.
Text == [body : Bodies \cup {Gone}, rest : Rests]

ASSUME NoSuchText == Missing \notin Text /\ Refused \notin Text

\* A graph: is the entry in the file, and which version of the other entries.
Graph == [here : BOOLEAN, others : 0..MaxEdits]

\* documentEtag: a digest of the IDs of the graph and the text.
Tag == [graph : Graph, text : Text]

Kinds == {"document", "preview", "apply"}

VARIABLES
  disk,      \* the file: a Text, or Missing
  others,    \* version of the entries of other files
  serialized,  \* the applies in the order they came; the first one runs
  handlers,  \* each request
  issued,    \* the tags that clients were given
  requests, edits, faults  \* counted for the bounds

bounds == <<requests, edits, faults>>
serverVars == <<disk, others, serialized, handlers, issued, bounds>>

Places == {"idle", "compile", "read", "format", "reread", "write", "rename", "done"}
Statuses == {0, 200, 404, 412, 422, 500}
OrNull(S) == S \cup {Null}

\* at: where the handler stands; ifMatch, body: of the request; graph, bytes,
\* next: of the handler; steady: nothing changed on disk since it took the graph.
Handler ==
  [at : Places, kind : Kinds, ifMatch : OrNull(Tag), body : OrNull(Bodies),
   graph : OrNull(Graph), bytes : OrNull(Text), next : OrNull(Text),
   steady : BOOLEAN, status : Statuses, etag : OrNull(Tag)]

NoHandler ==
  [at |-> "idle", kind |-> "document", ifMatch |-> Null, body |-> Null,
   graph |-> Null, bytes |-> Null, next |-> Null,
   steady |-> FALSE, status |-> 0, etag |-> Null]

ServerTypeOK ==
  /\ disk \in Text \cup {Missing} /\ others \in 0..MaxEdits
  /\ serialized \in Seq(Handlers)
  /\ handlers \in [Handlers -> Handler]
  /\ issued \subseteq Tag
  /\ requests \in 0..MaxRequests /\ edits \in 0..MaxEdits /\ faults \in 0..MaxFaults

\* getCompiled: the graph of what is on disk (see McpProject).
Compiled == [here |-> disk # Missing /\ disk.body # Gone, others |-> others]

TagOf(graph, text) == [graph |-> graph, text |-> text]

\* checkProposal: the formatted body in place of the old one, or a refusal.
Splice(text, body) ==
  IF text.body = Gone \/ FormattedAs[body] = Refused THEN Refused
  ELSE [text EXCEPT !.body = FormattedAs[body]]

ServerInit ==
  /\ disk \in {t \in Text : t.body # Gone} /\ others = 0
  /\ serialized = <<>>
  /\ handlers = [h \in Handlers |-> NoHandler]
  /\ issued = {}
  /\ requests = 0 /\ edits = 0 /\ faults = 0

-------------------------------------------------------------------------------
\* The turn of a handler: only applies wait.
Turn(h) == handlers[h].kind = "apply" => Head(serialized) = h

\* A step of h.  What it renames changes the disk under the others.
Step(h, from, to) ==
  /\ handlers[h].at = from /\ Turn(h)
  /\ handlers' = [g \in Handlers |->
       IF g = h THEN to
       ELSE [handlers[g] EXCEPT !.steady = @ /\ (from = "rename" => to.status # 200)]]

\* A mutant of Answer: only a success lets the next apply go on.
AnswerJamming(h, from, status, etag) ==
  /\ Step(h, from, [NoHandler EXCEPT !.at = "done", !.steady = handlers[h].steady,
                                      !.status = status, !.etag = etag])
  /\ serialized' = IF handlers[h].kind = "apply" /\ status = 200
                     THEN Tail(serialized) ELSE serialized
  /\ issued' = issued \cup ({etag} \ {Null})

\* The answer; the next apply takes its turn.
Answer(h, from, status, etag) ==
  /\ Step(h, from, [NoHandler EXCEPT !.at = "done", !.steady = handlers[h].steady,
                                      !.status = status, !.etag = etag])
  /\ serialized' = IF handlers[h].kind = "apply" THEN Tail(serialized) ELSE serialized
  /\ issued' = issued \cup ({etag} \ {Null})

-------------------------------------------------------------------------------
Arrive(h, request) ==
  /\ requests < MaxRequests /\ handlers[h].at = "idle"
  /\ requests' = requests + 1
  /\ handlers' = [handlers EXCEPT ![h] = request]
  /\ serialized' = IF request.kind = "apply" THEN Append(serialized, h) ELSE serialized
  /\ UNCHANGED <<disk, others, issued, edits, faults>>

GetDocument(h) == Arrive(h, [NoHandler EXCEPT !.at = "compile"])

Propose(h, kind, tag, body) ==
  /\ kind # "document"
  /\ Arrive(h, [NoHandler EXCEPT !.at = "compile", !.kind = kind,
                                 !.ifMatch = tag, !.body = body])

Compile(h) ==
  /\ IF Compiled.here
       THEN /\ Step(h, "compile", [handlers[h] EXCEPT !.at = "read", !.graph = Compiled,
                                                      !.steady = TRUE])
            /\ UNCHANGED <<serialized, issued>>
       ELSE Answer(h, "compile", 404, Null)
  /\ UNCHANGED <<disk, others, bounds>>

\* The read, and the check of If-Match.
Read(h) ==
  /\ LET graph == handlers[h].graph
     IN  IF disk = Missing THEN Answer(h, "read", 404, Null)
         ELSE IF handlers[h].kind = "document"
           THEN Answer(h, "read", 200, TagOf(graph, disk))
         ELSE IF TagOf(graph, disk) # handlers[h].ifMatch
           THEN Answer(h, "read", 412, Null)
         ELSE /\ Step(h, "read", [handlers[h] EXCEPT !.at = "format", !.bytes = disk])
              /\ UNCHANGED <<serialized, issued>>
  /\ UNCHANGED <<disk, others, bounds>>

\* previewBody and applyBody: the same pipeline.
Format(h) ==
  /\ handlers[h].at = "format"
  /\ LET next == Splice(handlers[h].bytes, handlers[h].body)
     IN  IF next = Refused THEN Answer(h, "format", 422, Null)
         ELSE IF handlers[h].kind = "preview" THEN Answer(h, "format", 200, Null)
         ELSE /\ Step(h, "format", [handlers[h] EXCEPT !.at = "reread", !.next = next])
              /\ UNCHANGED <<serialized, issued>>
  /\ UNCHANGED <<disk, others, bounds>>

\* A mutant of Reread: the write trusts the first read.
RereadUnchecked(h) ==
  /\ Step(h, "reread", [handlers[h] EXCEPT !.at = "write"])
  /\ UNCHANGED <<disk, others, serialized, issued, bounds>>

\* The second read, just before the write.
Reread(h) ==
  /\ IF disk = handlers[h].bytes
       THEN /\ Step(h, "reread", [handlers[h] EXCEPT !.at = "write"])
            /\ UNCHANGED <<serialized, issued>>
       ELSE Answer(h, "reread", 412, Null)
  /\ UNCHANGED <<disk, others, bounds>>

WriteTemp(h) ==
  /\ Step(h, "write", [handlers[h] EXCEPT !.at = "rename"])
  /\ UNCHANGED <<disk, others, serialized, issued, bounds>>

\* A mutant of Rename: the tag of the text before.
RenameOldTag(h) ==
  /\ Answer(h, "rename", 200, TagOf(handlers[h].graph, handlers[h].bytes))
  /\ disk' = handlers[h].next
  /\ UNCHANGED <<others, bounds>>

\* The rename; the new tag is of the graph before and the text after.
Rename(h) ==
  /\ Answer(h, "rename", 200, TagOf(handlers[h].graph, handlers[h].next))
  /\ disk' = handlers[h].next
  /\ UNCHANGED <<others, bounds>>

\* A read-only file, a full disk.
FailWrite(h) ==
  /\ faults < MaxFaults
  /\ faults' = faults + 1
  /\ \E from \in {"write", "rename"} : Answer(h, from, 500, Null)
  /\ UNCHANGED <<disk, others, requests, edits>>

\* The client has the answer.
Done(h) ==
  /\ handlers[h].at = "done"
  /\ handlers' = [handlers EXCEPT ![h] = NoHandler]
  /\ UNCHANGED <<disk, others, serialized, issued, bounds>>

-------------------------------------------------------------------------------
Unsteady == [h \in Handlers |-> [handlers[h] EXCEPT !.steady = FALSE]]

\* Another application saves or removes the file.
Edit(text) ==
  /\ edits < MaxEdits /\ text # disk
  /\ edits' = edits + 1
  /\ disk' = text
  /\ handlers' = Unsteady
  /\ UNCHANGED <<others, serialized, issued, requests, faults>>

\* An entry is added to another file, or removed.
EditElsewhere ==
  /\ edits < MaxEdits
  /\ edits' = edits + 1
  /\ others' = others + 1
  /\ handlers' = Unsteady
  /\ UNCHANGED <<disk, serialized, issued, requests, faults>>

\* The server is killed and starts again; the tags of before stay good.
Kill ==
  /\ faults < MaxFaults
  /\ faults' = faults + 1
  /\ handlers' = [h \in Handlers |-> NoHandler]
  /\ serialized' = <<>>
  /\ UNCHANGED <<disk, others, issued, requests, edits>>

Serve(h) ==
  Compile(h) \/ Read(h) \/ Format(h) \/ Reread(h) \/ WriteTemp(h) \/ Rename(h)

ServerNext ==
  \/ \E h \in Handlers :
       \/ Serve(h) \/ FailWrite(h) \/ Done(h) \/ GetDocument(h)
       \/ \E kind \in Kinds, tag \in issued, body \in Bodies : Propose(h, kind, tag, body)
  \/ \E text \in Text \cup {Missing} : Edit(text)
  \/ EditElsewhere \/ Kill

ServerSpec == ServerInit /\ [][ServerNext]_serverVars

\* The runtime goes on with every request that was made.
ServerFairSpec == ServerSpec /\ \A h \in Handlers : WF_serverVars(Serve(h))

-------------------------------------------------------------------------------
(***************************************************************************)
(* The detailed specification implements the abstract one: every write is  *)
(* one checked replacement, whatever applies, edits, failures and kills    *)
(* come in between.                                                        *)
(***************************************************************************)
Writing(h) == handlers[h].at \in {"write", "rename"}

Replacing == INSTANCE AtomicReplace WITH
  value <- disk,
  claims <- {handlers[h].next : h \in {g \in Handlers : Writing(g)}},
  Values <- Text \cup {Missing},
  Changes <- {<<t, Splice(t, b)>> : t \in Text, b \in Bodies}

ReplacesAtomically == Replacing!Spec

(***************************************************************************)
(* The tag of an answer is the tag a new read gives, unless something      *)
(* changed on disk since the handler took the graph: after an apply the    *)
(* client may go on with the tag it got, although it was made from the     *)
(* graph before the write.                                                 *)
(***************************************************************************)
TagIsCurrent ==
  \A h \in Handlers :
    handlers[h].at = "done" /\ handlers[h].etag # Null /\ handlers[h].steady =>
      handlers[h].etag = TagOf(Compiled, disk)

(***************************************************************************)
(* Every request is answered, or dies with the server: a failed apply does *)
(* not hold up those behind it.                                            *)
(***************************************************************************)
RequestsEnd ==
  \A h \in Handlers : handlers[h].at = "compile" ~> handlers[h].at \in {"done", "idle"}
=============================================================================
