------------------------------ MODULE DeskProofs -------------------------------
(***************************************************************************)
(* MarkDesk: the server that applies proposals, the product that the shell *)
(* opens, the prompt flow of the page, and the roots of the product tree.  *)
(* Each of the four has its invariant, its steps and its theorems in a     *)
(* part of its own.                                                        *)
(***************************************************************************)
EXTENDS DeskProposals, OpenProduct, PromptFlow, ProductTree,
        FiniteSetTheorems, SequenceTheorems, WellFoundedInduction, TLAPS

-------------------------------------------------------------------------------
(***************************************************************************)
(* The desk server implements AtomicReplace, for any number of handlers,   *)
(* any texts and any formatter: every write of the file is one replacement *)
(* of the very text that the proposal was checked against.                 *)
(*                                                                         *)
(* The invariant says which apply may write: one that was not answered is  *)
(* in the order of arrival, and the one that writes is its head.           *)
(***************************************************************************)

Typed == ServerTypeOK /\ others <= edits

\* An apply that was not answered waits in the order of arrival, or runs.
Queued == \A h \in Handlers :
  handlers[h].kind = "apply" => \E i \in 1..Len(serialized) : serialized[i] = h

\* Only applies get past the formatting.
OnlyApplies == \A h \in Handlers :
  handlers[h].at \in {"reread", "write", "rename"} => handlers[h].kind = "apply"

\* A proposal has the body of its request, and a text once it was read.
Requested == \A h \in Handlers :
  /\ handlers[h].kind # "document" => handlers[h].body \in Bodies
  /\ handlers[h].at = "format" => handlers[h].bytes \in Text /\ handlers[h].kind # "document"

\* What is written next is made of the text that was read.
Spliced == \A h \in Handlers :
  handlers[h].at \in {"reread", "write", "rename"} =>
    /\ handlers[h].bytes \in Text
    /\ handlers[h].next = Splice(handlers[h].bytes, handlers[h].body)
    /\ handlers[h].next \in Text

\* The apply that writes is the one whose turn it is.
OneWrites == \A h \in Handlers : Writing(h) => Head(serialized) = h

\* A handler that reads has taken the graph.
Grounded == \A h \in Handlers :
  handlers[h].at \in {"read", "format", "reread", "write", "rename"} =>
    handlers[h].graph \in Graph

ServerInv ==
  Typed /\ Queued /\ OnlyApplies /\ Requested /\ Grounded /\ Spliced /\ OneWrites

-------------------------------------------------------------------------------
(***************************************************************************)
(* Records.                                                                *)
(***************************************************************************)
LEMMA NoHandlerIsHandler ==
  NoHandler \in Handler /\ NoHandler.kind = "document" /\ NoHandler.at = "idle"
BY DEF NoHandler, Handler, Kinds, Places, Statuses, OrNull

LEMMA SpliceIsText ==
  ASSUME NEW text \in Text, NEW body \in Bodies, Splice(text, body) # Refused
  PROVE  Splice(text, body) \in Text
<1>1. FormattedAs[body] \in Bodies
  BY DeskAssumption DEF Splice
<1> QED
  BY <1>1 DEF Splice, Text

LEMMA CompiledIsGraph == ASSUME Typed PROVE Compiled \in Graph
<1>1. others \in 0..MaxEdits
  BY DEF Typed, ServerTypeOK
<1>2. (disk # Missing /\ disk.body # Gone) \in BOOLEAN
  OBVIOUS
<1> QED
  BY <1>1, <1>2 DEF Compiled, Graph

LEMMA TagIsTag == ASSUME NEW graph \in Graph, NEW text \in Text PROVE TagOf(graph, text) \in Tag
BY DEF TagOf, Tag

-------------------------------------------------------------------------------
(***************************************************************************)
(* What a step of h does to the others.                                    *)
(***************************************************************************)
LEMMA StepOthers ==
  ASSUME Typed, NEW h \in Handlers, NEW from, NEW to \in Handler, Step(h, from, to)
  PROVE  /\ handlers' \in [Handlers -> Handler]
         /\ handlers'[h] = to
         /\ \A g \in Handlers \ {h} :
              /\ handlers'[g].at = handlers[g].at /\ handlers'[g].kind = handlers[g].kind
              /\ handlers'[g].body = handlers[g].body /\ handlers'[g].bytes = handlers[g].bytes
              /\ handlers'[g].next = handlers[g].next /\ handlers'[g].graph = handlers[g].graph
<1> DEFINE stays(g) == handlers[g].steady /\ (from = "rename" => to.status # 200)
           after(g) == [handlers[g] EXCEPT !.steady = stays(g)]
<1>1. \A g \in Handlers : handlers[g] \in Handler
  BY DEF Typed, ServerTypeOK
<1>2. \A g \in Handlers :
        /\ after(g) \in Handler
        /\ after(g).at = handlers[g].at /\ after(g).kind = handlers[g].kind
        /\ after(g).body = handlers[g].body /\ after(g).bytes = handlers[g].bytes
        /\ after(g).next = handlers[g].next /\ after(g).graph = handlers[g].graph
  <2> TAKE g \in Handlers
  <2>1. stays(g) \in BOOLEAN
    OBVIOUS
  <2> HIDE DEF stays
  <2> QED
    BY <1>1, <2>1 DEF Handler
<1>3. handlers' = [g \in Handlers |-> IF g = h THEN to ELSE after(g)]
  BY DEF Step
<1> QED
  BY <1>2, <1>3

(***************************************************************************)
(* A step that answers nothing keeps the invariant, when its own handler   *)
(* is as it says, and starts no write.                                     *)
(***************************************************************************)
LEMMA GoesOn ==
  ASSUME ServerInv, NEW h \in Handlers, NEW from, NEW to \in Handler, Step(h, from, to),
         UNCHANGED <<disk, others, serialized, issued, bounds>>,
         to.kind = handlers[h].kind, to.body = handlers[h].body,
         to.at \in {"reread", "write", "rename"} =>
           /\ to.kind = "apply" /\ to.bytes \in Text /\ to.next \in Text
           /\ to.next = Splice(to.bytes, to.body),
         to.at = "format" => to.bytes \in Text /\ to.kind # "document",
         to.graph \in Graph
  PROVE  /\ ServerInv'
         /\ \A g \in Handlers \ {h} :
              (Writing(g)' <=> Writing(g)) /\ handlers'[g].next = handlers[g].next
         /\ handlers'[h] = to
<1>1. Typed
  BY DEF ServerInv
<1>2. /\ handlers' \in [Handlers -> Handler] /\ handlers'[h] = to
      /\ \A g \in Handlers \ {h} :
           /\ handlers'[g].at = handlers[g].at /\ handlers'[g].kind = handlers[g].kind
           /\ handlers'[g].body = handlers[g].body /\ handlers'[g].bytes = handlers[g].bytes
           /\ handlers'[g].next = handlers[g].next /\ handlers'[g].graph = handlers[g].graph
  BY <1>1, StepOthers
<1>3. Typed'
  BY <1>1, <1>2 DEF Typed, ServerTypeOK, bounds
<1>4. Queued' /\ OnlyApplies' /\ Requested' /\ Grounded'
  BY <1>2 DEF ServerInv, Queued, OnlyApplies, Requested, Grounded
<1>5. Spliced'
  BY <1>2 DEF ServerInv, Spliced, Splice
<1>6. to.at \in {"write", "rename"} => Head(serialized) = h
  BY DEF Step, Turn
<1>7. OneWrites'
  BY <1>2, <1>6 DEF ServerInv, OneWrites, Writing
<1> QED
  BY <1>2, <1>3, <1>4, <1>5, <1>7 DEF ServerInv, Writing

(***************************************************************************)
(* The answer to h: its apply was the first in the order, and leaves it.   *)
(***************************************************************************)
LEMMA Answered ==
  ASSUME ServerInv, NEW h \in Handlers, NEW from, NEW status \in Statuses,
         NEW etag \in OrNull(Tag), Answer(h, from, status, etag),
         disk' \in Text \cup {Missing}, UNCHANGED <<others, requests, edits>>,
         faults' \in 0..MaxFaults
  PROVE  /\ ServerInv'
         /\ \A g \in Handlers : Writing(g)' <=> Writing(g) /\ g # h
         /\ \A g \in Handlers \ {h} : handlers'[g].next = handlers[g].next
         /\ Writing(h) => \A g \in Handlers \ {h} : ~Writing(g)
<1> DEFINE to == [NoHandler EXCEPT !.at = "done", !.steady = handlers[h].steady,
                                   !.status = status, !.etag = etag]
<1>1. Typed /\ handlers[h] \in Handler
  BY DEF ServerInv, Typed, ServerTypeOK
<1>2. to \in Handler /\ to.at = "done" /\ to.kind = "document"
  <2>1. ASSUME NEW b \in BOOLEAN, NEW r \in Handler, r.kind = "document"
        PROVE  LET q == [r EXCEPT !.at = "done", !.steady = b, !.status = status, !.etag = etag]
               IN  q \in Handler /\ q.at = "done" /\ q.kind = "document"
    <3>1. "done" \in Places
      BY DEF Places
    <3> QED
      BY <2>1, <3>1 DEF Handler
  <2>2. handlers[h].steady \in BOOLEAN
    BY <1>1 DEF Handler
  <2> QED
    BY <2>1, <2>2, NoHandlerIsHandler
<1>3. Step(h, from, to)
  BY DEF Answer
<1> HIDE DEF to
<1>4. /\ handlers' \in [Handlers -> Handler]
      /\ handlers'[h] = to
      /\ \A g \in Handlers \ {h} :
           /\ handlers'[g].at = handlers[g].at /\ handlers'[g].kind = handlers[g].kind
           /\ handlers'[g].body = handlers[g].body /\ handlers'[g].bytes = handlers[g].bytes
           /\ handlers'[g].next = handlers[g].next /\ handlers'[g].graph = handlers[g].graph
  BY <1>1, <1>2, <1>3, StepOthers
<1>5. ASSUME handlers[h].kind = "apply"
      PROVE  /\ Queued' /\ OneWrites' /\ serialized' \in Seq(Handlers)
             /\ \A g \in Handlers \ {h} : ~Writing(g)
  <2>1. Head(serialized) = h /\ serialized' = Tail(serialized)
    BY <1>3, <1>5 DEF Answer, Step, Turn
  <2>2. serialized \in Seq(Handlers) /\ \E i \in 1..Len(serialized) : serialized[i] = h
    BY <1>5 DEF ServerInv, Typed, ServerTypeOK, Queued
  <2>3. serialized # <<>>
    BY <2>2
  <2>4. /\ serialized' \in Seq(Handlers) /\ Len(serialized') = Len(serialized) - 1
        /\ \A i \in 1..Len(serialized') : serialized'[i] = serialized[i + 1]
    BY <2>1, <2>2, <2>3
  <2>5. serialized[1] = h
    BY <2>1, <2>2, <2>3
  <2>6. ASSUME NEW g \in Handlers \ {h}, handlers[g].kind = "apply"
        PROVE  \E i \in 1..Len(serialized') : serialized'[i] = g
    <3>1. PICK i \in 1..Len(serialized) : serialized[i] = g
      BY <2>6 DEF ServerInv, Queued
    <3>2. i # 1 /\ i \in Nat /\ Len(serialized) \in Nat
      BY <3>1, <2>5, <2>6, <2>2
    <3>3. i - 1 \in 1..Len(serialized') /\ serialized'[i - 1] = serialized[i]
      BY <3>1, <3>2, <2>4
    <3> QED
      BY <3>1, <3>3
  <2>7. Queued'
    BY <1>2, <1>4, <2>6 DEF Queued
  <2>8. \A g \in Handlers \ {h} : ~Writing(g)
    BY <2>1 DEF ServerInv, OneWrites
  <2>9. OneWrites'
    BY <1>2, <1>4, <2>8 DEF OneWrites, Writing
  <2> QED
    BY <2>4, <2>7, <2>8, <2>9
<1>6. ASSUME handlers[h].kind # "apply"
      PROVE  Queued' /\ OneWrites' /\ serialized' \in Seq(Handlers) /\ ~Writing(h)
  <2>1. serialized' = serialized
    BY <1>6 DEF Answer
  <2>2. Queued' /\ OneWrites'
    BY <1>2, <1>4, <2>1 DEF ServerInv, Queued, OneWrites, Writing
  <2>3. ~Writing(h)
    BY <1>6 DEF ServerInv, OnlyApplies, Writing
  <2> QED
    BY <2>1, <2>2, <2>3 DEF ServerInv, Typed, ServerTypeOK
<1>7. OnlyApplies' /\ Requested' /\ Grounded'
  BY <1>2, <1>4 DEF ServerInv, OnlyApplies, Requested, Grounded
<1>8. Spliced'
  BY <1>2, <1>4 DEF ServerInv, Spliced, Splice
<1>9. Typed'
  <2>1. issued' \subseteq Tag
    BY DEF Answer, ServerInv, Typed, ServerTypeOK, OrNull
  <2> QED
    BY <1>1, <1>4, <1>5, <1>6, <2>1 DEF Typed, ServerTypeOK
<1>10. \A g \in Handlers : Writing(g)' <=> Writing(g) /\ g # h
  BY <1>2, <1>4 DEF Writing
<1> QED
  BY <1>4, <1>5, <1>6, <1>7, <1>8, <1>9, <1>10 DEF ServerInv

-------------------------------------------------------------------------------
(***************************************************************************)
(* Each action keeps the invariant, and is a step of AtomicReplace or      *)
(* leaves its variables alone.                                             *)
(***************************************************************************)
Claims == {handlers[h].next : h \in {g \in Handlers : Writing(g)}}

Replaces == Replacing!Next \/ (disk' = disk /\ Claims' = Claims)

LEMMA ClaimsStay ==
  ASSUME \A g \in Handlers : Writing(g)' <=> Writing(g),
         \A g \in Handlers : Writing(g) => handlers'[g].next = handlers[g].next
  PROVE  Claims' = Claims
BY DEF Claims

\* An answer drops what its handler was about to write.
LEMMA AnswerDrops ==
  ASSUME ServerInv, NEW h \in Handlers,
         \A g \in Handlers : Writing(g)' <=> Writing(g) /\ g # h,
         \A g \in Handlers \ {h} : handlers'[g].next = handlers[g].next,
         Writing(h) => \A g \in Handlers \ {h} : ~Writing(g),
         disk' = disk
  PROVE  Replaces
<1>1. CASE Writing(h)
  <2>1. Claims' = {}
    BY <1>1 DEF Claims
  <2> QED
    BY <2>1 DEF Replaces, Claims, Replacing!Next, Replacing!Drop
<1>2. CASE ~Writing(h)
  <2>1. Claims' = Claims
    BY <1>2, ClaimsStay
  <2> QED
    BY <2>1 DEF Replaces
<1> QED
  BY <1>1, <1>2

LEMMA AnswerKeeps ==
  ASSUME ServerInv, NEW h \in Handlers, NEW from, NEW status \in Statuses,
         NEW etag \in OrNull(Tag), Answer(h, from, status, etag),
         disk' = disk, UNCHANGED <<others, requests, edits>>, faults' \in 0..MaxFaults
  PROVE  ServerInv' /\ Replaces
<1>1. disk' \in Text \cup {Missing}
  BY DEF ServerInv, Typed, ServerTypeOK
<1>2. /\ ServerInv'
      /\ \A g \in Handlers : Writing(g)' <=> Writing(g) /\ g # h
      /\ \A g \in Handlers \ {h} : handlers'[g].next = handlers[g].next
      /\ Writing(h) => \A g \in Handlers \ {h} : ~Writing(g)
  BY <1>1, Answered
<1> QED
  BY <1>2, AnswerDrops

LEMMA NullAnswerKeeps ==
  ASSUME ServerInv, NEW h \in Handlers, NEW from, NEW status \in {200, 404, 412, 422, 500},
         Answer(h, from, status, Null), UNCHANGED <<disk, others, requests, edits>>,
         faults' \in 0..MaxFaults
  PROVE  ServerInv' /\ Replaces
<1>1. status \in Statuses /\ Null \in OrNull(Tag)
  BY DEF Statuses, OrNull
<1> QED
  BY <1>1, AnswerKeeps

LEMMA FaultsStay == ASSUME ServerInv, UNCHANGED bounds PROVE UNCHANGED <<requests, edits>> /\ faults' \in 0..MaxFaults
BY DEF ServerInv, Typed, ServerTypeOK, bounds

LEMMA CompileKeeps == ASSUME ServerInv, NEW h \in Handlers, Compile(h) PROVE ServerInv' /\ Replaces
<1>1. handlers[h] \in Handler /\ Compiled \in Graph
  BY CompiledIsGraph DEF ServerInv, Typed, ServerTypeOK
<1>2. CASE Compiled.here
  <2> DEFINE to == [handlers[h] EXCEPT !.at = "read", !.graph = Compiled, !.steady = TRUE]
  <2>1. to \in Handler /\ to.at = "read" /\ to.kind = handlers[h].kind /\ to.body = handlers[h].body
       /\ to.graph \in Graph
    <3>1. "read" \in Places /\ Compiled \in OrNull(Graph) /\ TRUE \in BOOLEAN
      BY <1>1 DEF Places, OrNull
    <3> QED
      BY <1>1, <3>1 DEF Handler
  <2>2. Step(h, "compile", to) /\ UNCHANGED <<disk, others, serialized, issued, bounds>>
    BY <1>2 DEF Compile
  <2>3. ~Writing(h)
    BY <2>2 DEF Step, Writing
  <2> HIDE DEF to
  <2>4. /\ ServerInv'
        /\ \A g \in Handlers \ {h} : (Writing(g)' <=> Writing(g)) /\ handlers'[g].next = handlers[g].next
        /\ handlers'[h] = to
    BY <2>1, <2>2, GoesOn
  <2>5. Claims' = Claims
    BY <2>1, <2>3, <2>4, ClaimsStay DEF Writing
  <2> QED
    BY <2>2, <2>4, <2>5 DEF Replaces
<1>3. CASE ~Compiled.here
  <2>1. Answer(h, "compile", 404, Null) /\ UNCHANGED <<disk, others, bounds>>
    BY <1>3 DEF Compile
  <2> QED
    BY <2>1, FaultsStay, NullAnswerKeeps
<1> QED
  BY <1>2, <1>3

LEMMA ReadKeeps == ASSUME ServerInv, NEW h \in Handlers, Read(h) PROVE ServerInv' /\ Replaces
<1>1. handlers[h] \in Handler /\ UNCHANGED <<disk, others, bounds>>
  BY DEF ServerInv, Typed, ServerTypeOK, Read
<1>2. ASSUME NEW status \in {404, 412}, Answer(h, "read", status, Null) PROVE ServerInv' /\ Replaces
  BY <1>1, <1>2, FaultsStay, NullAnswerKeeps
<1>3. CASE disk = Missing
  BY <1>2, <1>3 DEF Read
<1>4. CASE disk # Missing /\ handlers[h].kind = "document"
  <2>1. Answer(h, "read", 200, TagOf(handlers[h].graph, disk)) /\ handlers[h].at = "read"
    BY <1>4 DEF Read, Answer, Step
  <2>2. disk \in Text /\ handlers[h].graph \in Graph
    BY <1>4, <2>1 DEF ServerInv, Typed, ServerTypeOK, Grounded
  <2>3. TagOf(handlers[h].graph, disk) \in OrNull(Tag) /\ 200 \in Statuses
    BY <2>2, TagIsTag DEF OrNull, Statuses
  <2> QED
    BY <1>1, <2>1, <2>3, FaultsStay, AnswerKeeps
<1>5. CASE /\ disk # Missing /\ handlers[h].kind # "document"
           /\ TagOf(handlers[h].graph, disk) # handlers[h].ifMatch
  BY <1>2, <1>5 DEF Read
<1>6. CASE /\ disk # Missing /\ handlers[h].kind # "document"
           /\ TagOf(handlers[h].graph, disk) = handlers[h].ifMatch
  <2> DEFINE to == [handlers[h] EXCEPT !.at = "format", !.bytes = disk]
  <2>1. Step(h, "read", to) /\ UNCHANGED <<disk, others, serialized, issued, bounds>>
    BY <1>6 DEF Read
  <2>2. handlers[h].at = "read" /\ ~Writing(h) /\ disk \in Text /\ handlers[h].graph \in Graph
    BY <1>6, <2>1 DEF Step, Writing, ServerInv, Typed, ServerTypeOK, Grounded
  <2>3. /\ to \in Handler /\ to.at = "format" /\ to.kind = handlers[h].kind
        /\ to.body = handlers[h].body /\ to.bytes = disk /\ to.graph = handlers[h].graph
    <3>1. "format" \in Places /\ disk \in OrNull(Text)
      BY <2>2 DEF Places, OrNull
    <3> QED
      BY <1>1, <3>1 DEF Handler
  <2> HIDE DEF to
  <2>4. /\ ServerInv'
        /\ \A g \in Handlers \ {h} : (Writing(g)' <=> Writing(g)) /\ handlers'[g].next = handlers[g].next
        /\ handlers'[h] = to
    BY <1>6, <2>1, <2>2, <2>3, GoesOn
  <2>5. Claims' = Claims
    BY <2>2, <2>3, <2>4, ClaimsStay DEF Writing
  <2> QED
    BY <1>1, <2>4, <2>5 DEF Replaces
<1> QED
  BY <1>3, <1>4, <1>5, <1>6

LEMMA FormatKeeps == ASSUME ServerInv, NEW h \in Handlers, Format(h) PROVE ServerInv' /\ Replaces
<1> DEFINE next == Splice(handlers[h].bytes, handlers[h].body)
<1>1. handlers[h] \in Handler /\ UNCHANGED <<disk, others, bounds>>
  BY DEF ServerInv, Typed, ServerTypeOK, Format
<1>2. /\ handlers[h].at = "format" /\ handlers[h].bytes \in Text /\ handlers[h].body \in Bodies
      /\ handlers[h].kind # "document" /\ handlers[h].graph \in Graph
  BY DEF Format, ServerInv, Requested, Grounded
<1>3. CASE next = Refused
  <2>1. Answer(h, "format", 422, Null)
    BY <1>3 DEF Format
  <2> QED
    BY <1>1, <2>1, FaultsStay, NullAnswerKeeps
<1>4. CASE next # Refused /\ handlers[h].kind = "preview"
  <2>1. Answer(h, "format", 200, Null)
    BY <1>4 DEF Format
  <2> QED
    BY <1>1, <2>1, FaultsStay, NullAnswerKeeps
<1>5. CASE next # Refused /\ handlers[h].kind # "preview"
  <2>1. next \in Text
    BY <1>2, <1>5, SpliceIsText
  <2>2. handlers[h].kind = "apply"
    BY <1>1, <1>2, <1>5 DEF Handler, Kinds
  <2> HIDE DEF next
  <2> DEFINE to == [handlers[h] EXCEPT !.at = "reread", !.next = next]
  <2>3. Step(h, "format", to) /\ UNCHANGED <<disk, others, serialized, issued, bounds>>
    BY <1>5 DEF Format, next
  <2>4. /\ to \in Handler /\ to.at = "reread" /\ to.kind = handlers[h].kind
        /\ to.body = handlers[h].body /\ to.bytes = handlers[h].bytes /\ to.next = next
        /\ to.graph = handlers[h].graph
    <3>1. "reread" \in Places /\ next \in OrNull(Text)
      BY <2>1 DEF Places, OrNull
    <3> QED
      BY <1>1, <3>1 DEF Handler
  <2> HIDE DEF to
  <2>5. to.next = Splice(to.bytes, to.body)
    BY <2>4 DEF next
  <2>6. /\ ServerInv'
        /\ \A g \in Handlers \ {h} : (Writing(g)' <=> Writing(g)) /\ handlers'[g].next = handlers[g].next
        /\ handlers'[h] = to
    BY <1>2, <2>1, <2>2, <2>3, <2>4, <2>5, GoesOn
  <2>7. Claims' = Claims
    BY <1>2, <2>4, <2>6, ClaimsStay DEF Writing
  <2> QED
    BY <1>1, <2>6, <2>7 DEF Replaces
<1> QED
  BY <1>3, <1>4, <1>5

(***************************************************************************)
(* The second read is the check of AtomicReplace: no other apply is about  *)
(* to write, because this one has the turn.                                *)
(***************************************************************************)
LEMMA RereadKeeps == ASSUME ServerInv, NEW h \in Handlers, Reread(h) PROVE ServerInv' /\ Replaces
<1>1. handlers[h] \in Handler /\ UNCHANGED <<disk, others, bounds>>
  BY DEF ServerInv, Typed, ServerTypeOK, Reread
<1>2. CASE disk # handlers[h].bytes
  <2>1. Answer(h, "reread", 412, Null)
    BY <1>2 DEF Reread
  <2> QED
    BY <1>1, <2>1, FaultsStay, NullAnswerKeeps
<1>3. CASE disk = handlers[h].bytes
  <2> DEFINE to == [handlers[h] EXCEPT !.at = "write"]
  <2>1. Step(h, "reread", to) /\ UNCHANGED <<disk, others, serialized, issued, bounds>>
    BY <1>3 DEF Reread
  <2>2. handlers[h].at = "reread" /\ (handlers[h].kind = "apply" => Head(serialized) = h)
    BY <2>1 DEF Step, Turn
  <2>3. /\ handlers[h].kind = "apply" /\ handlers[h].body \in Bodies
        /\ handlers[h].bytes \in Text /\ handlers[h].next \in Text
        /\ handlers[h].next = Splice(handlers[h].bytes, handlers[h].body)
        /\ handlers[h].graph \in Graph
    BY <2>2 DEF ServerInv, OnlyApplies, Requested, Spliced, Grounded
  <2>4. /\ to \in Handler /\ to.at = "write" /\ to.kind = handlers[h].kind
        /\ to.body = handlers[h].body /\ to.bytes = handlers[h].bytes
        /\ to.next = handlers[h].next /\ to.graph = handlers[h].graph
    <3>1. "write" \in Places
      BY DEF Places
    <3> QED
      BY <1>1, <3>1 DEF Handler
  <2> HIDE DEF to
  <2>5. /\ ServerInv'
        /\ \A g \in Handlers \ {h} : (Writing(g)' <=> Writing(g)) /\ handlers'[g].next = handlers[g].next
        /\ handlers'[h] = to
    <3>1. to.next = Splice(to.bytes, to.body) /\ to.next \in Text /\ to.bytes \in Text
      BY <2>3, <2>4
    <3> QED
      BY <2>1, <2>3, <2>4, <3>1, GoesOn
  <2>6. \A g \in Handlers : ~Writing(g)
    BY <2>2, <2>3 DEF ServerInv, OneWrites, Writing
  <2>7. Claims = {} /\ Claims' = {handlers[h].next}
    BY <2>4, <2>5, <2>6 DEF Claims, Writing
  <2>8. <<disk, handlers[h].next>> \in {<<t, Splice(t, b)>> : t \in Text, b \in Bodies}
    BY <1>3, <2>3
  <2>9. Replacing!Check
    BY <1>1, <2>3, <2>7, <2>8 DEF Replacing!Check, Claims
  <2> QED
    BY <2>5, <2>9 DEF Replaces, Replacing!Next
<1> QED
  BY <1>2, <1>3

LEMMA WriteTempKeeps == ASSUME ServerInv, NEW h \in Handlers, WriteTemp(h) PROVE ServerInv' /\ Replaces
<1> DEFINE to == [handlers[h] EXCEPT !.at = "rename"]
<1>1. handlers[h] \in Handler
  BY DEF ServerInv, Typed, ServerTypeOK
<1>2. Step(h, "write", to) /\ UNCHANGED <<disk, others, serialized, issued, bounds>>
  BY DEF WriteTemp
<1>3. handlers[h].at = "write"
  BY <1>2 DEF Step
<1>4. /\ handlers[h].kind = "apply" /\ handlers[h].body \in Bodies
      /\ handlers[h].bytes \in Text /\ handlers[h].next \in Text
      /\ handlers[h].next = Splice(handlers[h].bytes, handlers[h].body)
      /\ handlers[h].graph \in Graph
  BY <1>3 DEF ServerInv, OnlyApplies, Requested, Spliced, Grounded
<1>5. /\ to \in Handler /\ to.at = "rename" /\ to.kind = handlers[h].kind
      /\ to.body = handlers[h].body /\ to.bytes = handlers[h].bytes
      /\ to.next = handlers[h].next /\ to.graph = handlers[h].graph
  <2>1. "rename" \in Places
    BY DEF Places
  <2> QED
    BY <1>1, <2>1 DEF Handler
<1> HIDE DEF to
<1>6. /\ ServerInv'
      /\ \A g \in Handlers \ {h} : (Writing(g)' <=> Writing(g)) /\ handlers'[g].next = handlers[g].next
      /\ handlers'[h] = to
  <2>1. to.next = Splice(to.bytes, to.body) /\ to.next \in Text /\ to.bytes \in Text
    BY <1>4, <1>5
  <2> QED
    BY <1>2, <1>4, <1>5, <2>1, GoesOn
<1>7. Claims' = Claims
  BY <1>3, <1>5, <1>6, ClaimsStay DEF Writing
<1> QED
  BY <1>2, <1>6, <1>7 DEF Replaces

\* The one that writes takes its claim along.
LEMMA RenameKeeps == ASSUME ServerInv, NEW h \in Handlers, Rename(h) PROVE ServerInv' /\ Replaces
<1> DEFINE tag == TagOf(handlers[h].graph, handlers[h].next)
<1>1. Answer(h, "rename", 200, tag) /\ disk' = handlers[h].next /\ UNCHANGED <<others, bounds>>
  BY DEF Rename
<1>2. handlers[h].at = "rename"
  BY <1>1 DEF Answer, Step
<1>3. Writing(h) /\ handlers[h].next \in Text /\ handlers[h].graph \in Graph
  BY <1>2 DEF Writing, ServerInv, Spliced, Grounded
<1>4. tag \in OrNull(Tag) /\ 200 \in Statuses
  BY <1>3, TagIsTag DEF OrNull, Statuses
<1> HIDE DEF tag
<1>5. disk' \in Text \cup {Missing} /\ UNCHANGED <<others, requests, edits>> /\ faults' \in 0..MaxFaults
  BY <1>1, <1>3, FaultsStay
<1>6. /\ ServerInv'
      /\ \A g \in Handlers : Writing(g)' <=> Writing(g) /\ g # h
      /\ Writing(h) => \A g \in Handlers \ {h} : ~Writing(g)
  BY <1>1, <1>4, <1>5, Answered
<1>7. handlers[h].next \in Claims /\ Claims' = {}
  BY <1>3, <1>6 DEF Claims
<1>8. Replacing!Replace
  BY <1>1, <1>7 DEF Replacing!Replace, Claims
<1> QED
  BY <1>6, <1>8 DEF Replaces, Replacing!Next

LEMMA FailWriteKeeps == ASSUME ServerInv, NEW h \in Handlers, FailWrite(h) PROVE ServerInv' /\ Replaces
<1>1. PICK from \in {"write", "rename"} : Answer(h, from, 500, Null)
  BY DEF FailWrite
<1>2. UNCHANGED <<disk, others, requests, edits>> /\ faults' \in 0..MaxFaults
  BY DeskAssumption DEF FailWrite, ServerInv, Typed, ServerTypeOK
<1> QED
  BY <1>1, <1>2, NullAnswerKeeps

\* What takes a handler back to rest, or sends it off.
LEMMA DoneKeeps == ASSUME ServerInv, NEW h \in Handlers, Done(h) PROVE ServerInv' /\ Replaces
<1>1. handlers' = [handlers EXCEPT ![h] = NoHandler] /\ handlers[h].at = "done"
  BY DEF Done
<1>2. UNCHANGED <<disk, others, serialized, issued, requests, edits, faults>>
  BY DEF Done, bounds
<1>3. Typed'
  BY <1>1, <1>2, NoHandlerIsHandler DEF ServerInv, Typed, ServerTypeOK
<1>4. handlers'[h] = NoHandler /\ \A g \in Handlers \ {h} : handlers'[g] = handlers[g]
  BY <1>1 DEF ServerInv, Typed, ServerTypeOK
<1>5. ServerInv'
  BY <1>2, <1>3, <1>4, NoHandlerIsHandler
    DEF ServerInv, Queued, OnlyApplies, Requested, Grounded, Spliced, Splice, OneWrites, Writing
<1>6. Claims' = Claims
  BY <1>1, <1>4, ClaimsStay, NoHandlerIsHandler DEF Writing
<1> QED
  BY <1>2, <1>5, <1>6 DEF Replaces

LEMMA ArriveKeeps ==
  ASSUME ServerInv, NEW h \in Handlers, NEW request \in Handler, Arrive(h, request),
         request.at = "compile", request.kind # "document" => request.body \in Bodies
  PROVE  ServerInv' /\ Replaces
<1>1. handlers' = [handlers EXCEPT ![h] = request] /\ handlers[h].at = "idle"
  BY DEF Arrive
<1>2. UNCHANGED <<disk, others, issued, edits, faults>>
  BY DEF Arrive
<1>3. serialized \in Seq(Handlers)
  BY DEF ServerInv, Typed, ServerTypeOK
<1>4. /\ serialized' \in Seq(Handlers) /\ Len(serialized') >= Len(serialized)
      /\ \A i \in 1..Len(serialized) : serialized'[i] = serialized[i]
      /\ request.kind = "apply" => \E i \in 1..Len(serialized') : serialized'[i] = h
  <2>1. CASE request.kind = "apply"
    <3>1. serialized' = Append(serialized, h)
      BY <2>1 DEF Arrive
    <3>2. Len(serialized) + 1 \in 1..Len(serialized') /\ serialized'[Len(serialized) + 1] = h
      BY <1>3, <3>1
    <3> QED
      BY <1>3, <3>1, <3>2
  <2>2. CASE request.kind # "apply"
    BY <1>3, <2>2 DEF Arrive
  <2> QED
    BY <2>1, <2>2
<1>5. requests' \in 0..MaxRequests
  BY DeskAssumption DEF Arrive, ServerInv, Typed, ServerTypeOK
<1>6. Typed'
  BY <1>1, <1>2, <1>4, <1>5 DEF ServerInv, Typed, ServerTypeOK
<1>7. handlers'[h] = request /\ \A g \in Handlers \ {h} : handlers'[g] = handlers[g]
  BY <1>1 DEF ServerInv, Typed, ServerTypeOK
<1>8. Queued'
  <2>1. \A i \in 1..Len(serialized) : i \in 1..Len(serialized')
    BY <1>3, <1>4
  <2> QED
    BY <1>4, <1>7, <2>1 DEF ServerInv, Queued
<1>9. OnlyApplies' /\ Requested' /\ Grounded'
  BY <1>7 DEF ServerInv, OnlyApplies, Requested, Grounded
<1>10. Spliced'
  BY <1>7 DEF ServerInv, Spliced, Splice
<1>11. OneWrites'
  <2>1. ASSUME NEW g \in Handlers, Writing(g)' PROVE Head(serialized') = g
    <3>1. g # h /\ Writing(g)
      BY <1>7, <2>1 DEF Writing
    <3>2. Head(serialized) = g /\ handlers[g].kind = "apply"
      BY <3>1 DEF ServerInv, OneWrites, OnlyApplies, Writing
    <3>3. Len(serialized) >= 1
      BY <3>2, <1>3 DEF ServerInv, Queued
    <3> QED
      BY <1>3, <1>4, <3>2, <3>3
  <2> QED
    BY <2>1 DEF OneWrites
<1>12. Claims' = Claims
  BY <1>1, <1>7, ClaimsStay DEF Writing
<1> QED
  BY <1>2, <1>6, <1>8, <1>9, <1>10, <1>11, <1>12 DEF ServerInv, Replaces

LEMMA GetDocumentKeeps == ASSUME ServerInv, NEW h \in Handlers, GetDocument(h) PROVE ServerInv' /\ Replaces
<1> DEFINE request == [NoHandler EXCEPT !.at = "compile"]
<1>1. request \in Handler /\ request.at = "compile" /\ request.kind = "document"
  <2>1. "compile" \in Places
    BY DEF Places
  <2> QED
    BY <2>1, NoHandlerIsHandler DEF Handler
<1>2. Arrive(h, request)
  BY DEF GetDocument
<1> QED
  BY <1>1, <1>2, ArriveKeeps

LEMMA ProposeKeeps ==
  ASSUME ServerInv, NEW h \in Handlers, NEW kind \in Kinds, NEW tag \in issued,
         NEW body \in Bodies, Propose(h, kind, tag, body)
  PROVE  ServerInv' /\ Replaces
<1> DEFINE request == [NoHandler EXCEPT !.at = "compile", !.kind = kind, !.ifMatch = tag, !.body = body]
<1>1. request \in Handler /\ request.at = "compile" /\ request.body = body
  <2>1. "compile" \in Places /\ tag \in OrNull(Tag) /\ body \in OrNull(Bodies)
    BY DEF Places, OrNull, ServerInv, Typed, ServerTypeOK
  <2> QED
    BY <2>1, NoHandlerIsHandler DEF Handler
<1>2. Arrive(h, request)
  BY DEF Propose
<1> QED
  BY <1>1, <1>2, ArriveKeeps

-------------------------------------------------------------------------------
(***************************************************************************)
(* Around the server.                                                      *)
(***************************************************************************)
LEMMA UnsteadyKeeps ==
  ASSUME ServerInv, handlers' = Unsteady, UNCHANGED <<serialized, issued, requests, faults>>,
         disk' \in Text \cup {Missing}, edits' = edits + 1, edits < MaxEdits,
         others' \in {others, others + 1}
  PROVE  ServerInv' /\ Claims' = Claims
<1>1. \A g \in Handlers : handlers[g] \in Handler
  BY DEF ServerInv, Typed, ServerTypeOK
<1>2. /\ handlers' \in [Handlers -> Handler]
      /\ \A g \in Handlers :
           /\ handlers'[g].at = handlers[g].at /\ handlers'[g].kind = handlers[g].kind
           /\ handlers'[g].body = handlers[g].body /\ handlers'[g].bytes = handlers[g].bytes
           /\ handlers'[g].next = handlers[g].next /\ handlers'[g].graph = handlers[g].graph
  BY <1>1 DEF Unsteady, Handler
<1>3. others' \in 0..MaxEdits /\ edits' \in 0..MaxEdits /\ others' <= edits'
  BY DeskAssumption DEF ServerInv, Typed, ServerTypeOK
<1>4. Typed'
  BY <1>2, <1>3 DEF ServerInv, Typed, ServerTypeOK
<1>5. Queued' /\ OnlyApplies' /\ Requested' /\ Grounded'
  BY <1>2 DEF ServerInv, Queued, OnlyApplies, Requested, Grounded
<1>6. Spliced' /\ OneWrites'
  BY <1>2 DEF ServerInv, Spliced, Splice, OneWrites, Writing
<1>7. Claims' = Claims
  BY <1>2, ClaimsStay DEF Writing
<1> QED
  BY <1>4, <1>5, <1>6, <1>7 DEF ServerInv

LEMMA EditKeeps ==
  ASSUME ServerInv, NEW text \in Text \cup {Missing}, Edit(text) PROVE ServerInv' /\ Replaces
<1>1. ServerInv' /\ Claims' = Claims
  BY UnsteadyKeeps DEF Edit
<1>2. Replacing!Edit
  BY <1>1 DEF Edit, Replacing!Edit, Claims
<1> QED
  BY <1>1, <1>2 DEF Replaces, Replacing!Next

LEMMA EditElsewhereKeeps == ASSUME ServerInv, EditElsewhere PROVE ServerInv' /\ Replaces
<1>1. disk' \in Text \cup {Missing}
  BY DEF EditElsewhere, ServerInv, Typed, ServerTypeOK
<1>2. ServerInv' /\ Claims' = Claims
  BY <1>1, UnsteadyKeeps DEF EditElsewhere
<1> QED
  BY <1>2 DEF Replaces, EditElsewhere

LEMMA KillKeeps == ASSUME ServerInv, Kill PROVE ServerInv' /\ Replaces
<1>1. \A g \in Handlers : handlers'[g] = NoHandler
  BY DEF Kill
<1>2. Typed'
  BY DeskAssumption, NoHandlerIsHandler DEF Kill, ServerInv, Typed, ServerTypeOK
<1>3. ServerInv'
  BY <1>1, <1>2, NoHandlerIsHandler
    DEF ServerInv, Queued, OnlyApplies, Requested, Grounded, Spliced, OneWrites, Writing
<1>4. Claims' = {}
  BY <1>1, NoHandlerIsHandler DEF Claims, Writing
<1>5. Replacing!Drop
  BY <1>4 DEF Kill, Replacing!Drop, Claims
<1> QED
  BY <1>3, <1>5 DEF Replaces, Replacing!Next

LEMMA InitKeeps == ASSUME ServerInit PROVE ServerInv /\ Replacing!Init
<1>1. \A g \in Handlers : handlers[g] = NoHandler
  BY DEF ServerInit
<1>2. Typed
  BY DeskAssumption, NoHandlerIsHandler DEF ServerInit, Typed, ServerTypeOK
<1>3. ServerInv
  BY <1>1, <1>2, NoHandlerIsHandler
    DEF ServerInv, Queued, OnlyApplies, Requested, Grounded, Spliced, OneWrites, Writing
<1>4. {h \in Handlers : Writing(h)} = {}
  BY <1>1, NoHandlerIsHandler DEF Writing
<1>5. Replacing!Init
  BY <1>4 DEF ServerInit, Replacing!Init
<1> QED
  BY <1>3, <1>5

LEMMA NextKeeps == ASSUME ServerInv, [ServerNext]_serverVars PROVE ServerInv' /\ Replaces
<1>1. CASE ServerNext
  <2>1. ASSUME NEW h \in Handlers, Serve(h) PROVE ServerInv' /\ Replaces
    BY <2>1, CompileKeeps, ReadKeeps, FormatKeeps, RereadKeeps, WriteTempKeeps, RenameKeeps DEF Serve
  <2> QED
    BY <1>1, <2>1, FailWriteKeeps, DoneKeeps, GetDocumentKeeps, ProposeKeeps, EditKeeps,
       EditElsewhereKeeps, KillKeeps DEF ServerNext
<1>2. CASE UNCHANGED serverVars
  <2>1. UNCHANGED <<disk, others, serialized, handlers, issued, requests, edits, faults>>
    BY <1>2 DEF serverVars, bounds
  <2>2. ServerInv'
    BY <2>1 DEF ServerInv, Typed, ServerTypeOK, Queued, OnlyApplies, Requested, Grounded,
                Spliced, Splice, OneWrites, Writing
  <2>3. Claims' = Claims
    BY <2>1, ClaimsStay DEF Writing
  <2> QED
    BY <2>1, <2>2, <2>3 DEF Replaces
<1> QED
  BY <1>1, <1>2

(***************************************************************************)
(* An apply that was not answered has its turn to come, and the text to be *)
(* written is what the checked body makes of the text that was read.       *)
(***************************************************************************)
THEOREM ServerInvariant == ServerSpec => []ServerInv
<1>1. ServerInit => ServerInv
  BY InitKeeps
<1>2. ServerInv /\ [ServerNext]_serverVars => ServerInv'
  BY NextKeeps
<1> QED
  BY <1>1, <1>2, PTL DEF ServerSpec

(***************************************************************************)
(* serveProposal implements AtomicReplace: a proposal replaces the text it *)
(* was made for in one step, one proposal after the other, whatever edits, *)
(* failed writes and kills come in between.                                *)
(***************************************************************************)
THEOREM ServerReplacesAtomically == ServerSpec => ReplacesAtomically
<1>1. ServerInit => Replacing!Init
  BY InitKeeps
<1>2. ServerInv /\ [ServerNext]_serverVars => [Replacing!Next]_Replacing!vars
  BY NextKeeps DEF Replaces, Claims, Replacing!vars
<1> QED
  BY <1>1, <1>2, ServerInvariant, PTL DEF ServerSpec, ReplacesAtomically, Replacing!Spec

-------------------------------------------------------------------------------
(***************************************************************************)
(* The tags.  A handler under which nothing changed on disk holds the      *)
(* graph of what is on disk, and the entry is there.                       *)
(***************************************************************************)
Holding == {"read", "format", "reread", "write", "rename"}

\* What is true of a handler when graph and text are on disk.
TagStands(handler, graph, text) ==
  handler.steady =>
    /\ handler.at \in Holding => handler.graph = graph /\ graph.here
    /\ handler.at = "done" /\ handler.etag # Null => handler.etag = TagOf(graph, text)

CurrentInv == \A h \in Handlers : TagStands(handlers[h], Compiled, disk)

\* Only the rename changes what is on disk, and then the others do not count.
LEMMA StepIsCurrent ==
  ASSUME Typed, CurrentInv, NEW h \in Handlers, NEW from, NEW to \in Handler, Step(h, from, to),
         from # "rename" \/ to.status # 200 => UNCHANGED <<disk, others>>,
         TagStands(to, Compiled', disk')
  PROVE  CurrentInv'
<1> DEFINE stays(g) == handlers[g].steady /\ (from = "rename" => to.status # 200)
           after(g) == [handlers[g] EXCEPT !.steady = stays(g)]
<1>1. \A g \in Handlers : handlers[g] \in Handler
  BY DEF Typed, ServerTypeOK
<1>2. ASSUME NEW g \in Handlers
      PROVE  /\ after(g).at = handlers[g].at /\ after(g).graph = handlers[g].graph
             /\ after(g).etag = handlers[g].etag
             /\ after(g).steady => handlers[g].steady /\ UNCHANGED <<disk, others>>
  <2>1. stays(g) => handlers[g].steady /\ UNCHANGED <<disk, others>>
    OBVIOUS
  <2> HIDE DEF stays
  <2> QED
    BY <1>1, <2>1 DEF Handler
<1>3. handlers' = [g \in Handlers |-> IF g = h THEN to ELSE after(g)]
  BY DEF Step
<1> HIDE DEF after, stays
<1>4. ASSUME NEW g \in Handlers \ {h}, handlers'[g].steady
      PROVE  TagStands(handlers'[g], Compiled', disk')
  <2>1. handlers'[g] = after(g)
    BY <1>3
  <2>2. handlers[g].steady /\ UNCHANGED <<disk, others>>
    BY <1>2, <1>4, <2>1
  <2>3. Compiled' = Compiled /\ disk' = disk
    BY <2>2 DEF Compiled
  <2>4. TagStands(handlers[g], Compiled, disk)
    BY DEF CurrentInv
  <2> QED
    BY <1>2, <2>1, <2>2, <2>3, <2>4 DEF TagStands
<1>5. ASSUME NEW g \in Handlers \ {h} PROVE TagStands(handlers'[g], Compiled', disk')
  BY <1>4 DEF TagStands
<1>6. handlers'[h] = to
  BY <1>3
<1> QED
  BY <1>5, <1>6 DEF CurrentInv

\* An answer is as current as its tag.
LEMMA AnswerIsCurrent ==
  ASSUME Typed, CurrentInv, NEW h \in Handlers, NEW from, NEW status \in Statuses,
         NEW etag \in OrNull(Tag), Answer(h, from, status, etag),
         from # "rename" \/ status # 200 => UNCHANGED <<disk, others>>,
         handlers[h].steady /\ etag # Null => etag = TagOf(Compiled', disk')
  PROVE  CurrentInv'
<1> DEFINE to == [NoHandler EXCEPT !.at = "done", !.steady = handlers[h].steady,
                                   !.status = status, !.etag = etag]
<1>1. handlers[h].steady \in BOOLEAN
  BY DEF Typed, ServerTypeOK, Handler
<1>2. /\ to \in Handler /\ to.at = "done" /\ to.steady = handlers[h].steady
      /\ to.status = status /\ to.etag = etag
  <2>1. ASSUME NEW b \in BOOLEAN, NEW r \in Handler
        PROVE  LET q == [r EXCEPT !.at = "done", !.steady = b, !.status = status, !.etag = etag]
               IN  q \in Handler /\ q.at = "done" /\ q.steady = b /\ q.status = status /\ q.etag = etag
    <3>1. "done" \in Places
      BY DEF Places
    <3> QED
      BY <2>1, <3>1 DEF Handler
  <2> QED
    BY <1>1, <2>1, NoHandlerIsHandler
<1>3. Step(h, from, to)
  BY DEF Answer
<1> HIDE DEF to
<1>4. TagStands(to, Compiled', disk')
  BY <1>2 DEF TagStands, Holding
<1> QED
  BY <1>2, <1>3, <1>4, StepIsCurrent

LEMMA NullAnswerIsCurrent ==
  ASSUME Typed, CurrentInv, NEW h \in Handlers, NEW from, NEW status \in {200, 404, 412, 422, 500},
         Answer(h, from, status, Null), UNCHANGED <<disk, others>>
  PROVE  CurrentInv'
<1>1. status \in Statuses /\ Null \in OrNull(Tag)
  BY DEF Statuses, OrNull
<1> QED
  BY <1>1, AnswerIsCurrent

\* A handler that goes on takes its graph along.
LEMMA GoesOnCurrent ==
  ASSUME Typed, CurrentInv, NEW h \in Handlers, NEW from \in Holding, NEW to \in Handler,
         Step(h, from, to), UNCHANGED <<disk, others>>,
         to.at \in Holding, to.graph = handlers[h].graph, to.steady = handlers[h].steady
  PROVE  CurrentInv'
<1>1. handlers[h].at \in Holding /\ Compiled' = Compiled
  BY DEF Step, Compiled
<1>2. TagStands(to, Compiled', disk')
  BY <1>1 DEF CurrentInv, TagStands, Holding
<1> QED
  BY <1>2, StepIsCurrent

LEMMA CompileIsCurrent ==
  ASSUME ServerInv, CurrentInv, NEW h \in Handlers, Compile(h) PROVE CurrentInv'
<1>1. handlers[h] \in Handler /\ Compiled \in Graph /\ UNCHANGED <<disk, others>> /\ Typed
  BY CompiledIsGraph DEF ServerInv, Typed, ServerTypeOK, Compile
<1>2. CASE Compiled.here
  <2> DEFINE to == [handlers[h] EXCEPT !.at = "read", !.graph = Compiled, !.steady = TRUE]
  <2>1. to \in Handler /\ to.at = "read" /\ to.graph = Compiled
    <3>1. "read" \in Places /\ Compiled \in OrNull(Graph) /\ TRUE \in BOOLEAN
      BY <1>1 DEF Places, OrNull
    <3> QED
      BY <1>1, <3>1 DEF Handler
  <2>2. Step(h, "compile", to)
    BY <1>2 DEF Compile
  <2> HIDE DEF to
  <2>3. Compiled' = Compiled
    BY <1>1 DEF Compiled
  <2>4. TagStands(to, Compiled', disk')
    BY <1>2, <2>1, <2>3 DEF TagStands
  <2> QED
    BY <1>1, <2>1, <2>2, <2>4, StepIsCurrent
<1>3. CASE ~Compiled.here
  BY <1>1, <1>3, NullAnswerIsCurrent DEF Compile
<1> QED
  BY <1>2, <1>3

LEMMA ReadIsCurrent ==
  ASSUME ServerInv, CurrentInv, NEW h \in Handlers, Read(h) PROVE CurrentInv'
<1>1. handlers[h] \in Handler /\ UNCHANGED <<disk, others>> /\ Typed
  BY DEF ServerInv, Typed, ServerTypeOK, Read
<1>2. CASE \E status \in {404, 412} : Answer(h, "read", status, Null)
  BY <1>1, <1>2, NullAnswerIsCurrent
<1>3. CASE disk # Missing /\ Answer(h, "read", 200, TagOf(handlers[h].graph, disk))
  <2>1. handlers[h].at = "read"
    BY <1>3 DEF Answer, Step
  <2>2. handlers[h].graph \in Graph /\ disk \in Text
    BY <1>3, <2>1 DEF ServerInv, Grounded, Typed, ServerTypeOK
  <2>3. TagOf(handlers[h].graph, disk) \in OrNull(Tag) /\ 200 \in Statuses
    BY <2>2, TagIsTag DEF OrNull, Statuses
  <2>4. handlers[h].steady => handlers[h].graph = Compiled
    BY <2>1 DEF CurrentInv, TagStands, Holding
  <2>5. Compiled' = Compiled
    BY <1>1 DEF Compiled
  <2>6. handlers[h].steady => TagOf(handlers[h].graph, disk) = TagOf(Compiled', disk')
    BY <1>1, <2>4, <2>5
  <2> QED
    BY <1>1, <1>3, <2>3, <2>6, AnswerIsCurrent
<1>4. CASE Step(h, "read", [handlers[h] EXCEPT !.at = "format", !.bytes = disk]) /\ disk # Missing
  <2> DEFINE to == [handlers[h] EXCEPT !.at = "format", !.bytes = disk]
  <2>1. /\ to \in Handler /\ to.at = "format" /\ to.graph = handlers[h].graph
        /\ to.steady = handlers[h].steady
    <3>1. "format" \in Places /\ disk \in OrNull(Text)
      BY <1>4 DEF Places, OrNull, ServerInv, Typed, ServerTypeOK
    <3> QED
      BY <1>1, <3>1 DEF Handler
  <2>2. Step(h, "read", to)
    BY <1>4
  <2> HIDE DEF to
  <2>3. to.at \in Holding /\ "read" \in Holding
    BY <2>1 DEF Holding
  <2> QED
    BY <1>1, <2>1, <2>2, <2>3, GoesOnCurrent
<1> QED
  BY <1>2, <1>3, <1>4 DEF Read

LEMMA FormatIsCurrent ==
  ASSUME ServerInv, CurrentInv, NEW h \in Handlers, Format(h) PROVE CurrentInv'
<1> DEFINE next == Splice(handlers[h].bytes, handlers[h].body)
           to == [handlers[h] EXCEPT !.at = "reread", !.next = next]
<1>1. /\ handlers[h] \in Handler /\ UNCHANGED <<disk, others>> /\ Typed
      /\ handlers[h].at = "format"
  BY DEF ServerInv, Typed, ServerTypeOK, Format
<1>2. CASE \E status \in {200, 422} : Answer(h, "format", status, Null)
  BY <1>1, <1>2, NullAnswerIsCurrent
<1>3. CASE Step(h, "format", to) /\ next # Refused
  <2>1. next \in Text
    BY <1>1, <1>3, SpliceIsText DEF ServerInv, Requested
  <2>2. /\ to \in Handler /\ to.at = "reread" /\ to.graph = handlers[h].graph
        /\ to.steady = handlers[h].steady
    <3>1. "reread" \in Places /\ next \in OrNull(Text)
      BY <2>1 DEF Places, OrNull
    <3> HIDE DEF next
    <3> QED
      BY <1>1, <3>1 DEF Handler
  <2>3. Step(h, "format", to)
    BY <1>3
  <2> HIDE DEF to
  <2>4. to.at \in Holding /\ "format" \in Holding
    BY <2>2 DEF Holding
  <2> QED
    BY <1>1, <2>2, <2>3, <2>4, GoesOnCurrent
<1> QED
  BY <1>2, <1>3 DEF Format

LEMMA RereadIsCurrent ==
  ASSUME ServerInv, CurrentInv, NEW h \in Handlers, Reread(h) \/ WriteTemp(h) PROVE CurrentInv'
<1>1. handlers[h] \in Handler /\ UNCHANGED <<disk, others>> /\ Typed
  BY DEF ServerInv, Typed, ServerTypeOK, Reread, WriteTemp
<1>2. CASE Answer(h, "reread", 412, Null)
  BY <1>1, <1>2, NullAnswerIsCurrent
<1>3. ASSUME NEW from \in Holding, NEW place \in Holding,
             Step(h, from, [handlers[h] EXCEPT !.at = place])
      PROVE  CurrentInv'
  <2> DEFINE to == [handlers[h] EXCEPT !.at = place]
  <2>1. /\ to \in Handler /\ to.at = place /\ to.graph = handlers[h].graph
        /\ to.steady = handlers[h].steady
    <3>1. place \in Places
      BY DEF Holding, Places
    <3> QED
      BY <1>1, <3>1 DEF Handler
  <2>2. Step(h, from, to)
    BY <1>3
  <2> HIDE DEF to
  <2> QED
    BY <1>1, <2>1, <2>2, GoesOnCurrent
<1>4. "reread" \in Holding /\ "write" \in Holding /\ "rename" \in Holding
  BY DEF Holding
<1> QED
  BY <1>2, <1>3, <1>4 DEF Reread, WriteTemp

\* The tag of an apply is of the graph before, which is the graph after.
LEMMA RenameIsCurrent ==
  ASSUME ServerInv, CurrentInv, NEW h \in Handlers, Rename(h) PROVE CurrentInv'
<1> DEFINE tag == TagOf(handlers[h].graph, handlers[h].next)
<1>1. Answer(h, "rename", 200, tag) /\ disk' = handlers[h].next /\ others' = others /\ Typed
  BY DEF Rename, ServerInv
<1>2. handlers[h].at = "rename"
  BY <1>1 DEF Answer, Step
<1>3. /\ handlers[h].next \in Text /\ handlers[h].graph \in Graph /\ handlers[h].body \in Bodies
      /\ handlers[h].next = Splice(handlers[h].bytes, handlers[h].body)
      /\ handlers[h].bytes \in Text
  BY <1>2 DEF ServerInv, Spliced, Grounded, OnlyApplies, Requested
<1>4. handlers[h].next # Missing /\ handlers[h].next # Refused
  BY <1>3, NoSuchText
<1>5. handlers[h].next.body # Gone
  <2>1. FormattedAs[handlers[h].body] \in Bodies
    BY <1>3, <1>4, DeskAssumption DEF Splice
  <2>2. handlers[h].next.body = FormattedAs[handlers[h].body]
    BY <1>3, <1>4 DEF Splice, Text
  <2> QED
    BY <2>1, <2>2, DeskAssumption
<1>6. Compiled' = [here |-> TRUE, others |-> others]
  <2>1. (disk' # Missing /\ disk'.body # Gone) = TRUE
    BY <1>1, <1>4, <1>5
  <2> QED
    BY <1>1, <2>1 DEF Compiled
<1>7. handlers[h].steady => handlers[h].graph = Compiled'
  <2>1. Compiled.here => Compiled = [here |-> TRUE, others |-> others]
    BY DEF Compiled
  <2> QED
    BY <1>2, <1>6, <2>1 DEF CurrentInv, TagStands, Holding
<1>8. tag \in OrNull(Tag) /\ 200 \in Statuses
  BY <1>3, TagIsTag DEF OrNull, Statuses
<1>9. handlers[h].steady => tag = TagOf(Compiled', disk')
  BY <1>1, <1>7
<1> HIDE DEF tag
<1> QED
  BY <1>1, <1>8, <1>9, AnswerIsCurrent

\* A handler that starts or rests holds nothing.
LEMMA FreshIsCurrent ==
  ASSUME Typed, CurrentInv, NEW h \in Handlers, NEW to, handlers' = [handlers EXCEPT ![h] = to],
         to.at \notin Holding \cup {"done"}, UNCHANGED <<disk, others>>
  PROVE  CurrentInv'
<1>1. handlers'[h] = to /\ \A g \in Handlers \ {h} : handlers'[g] = handlers[g]
  BY DEF Typed, ServerTypeOK
<1>2. Compiled' = Compiled /\ disk' = disk
  BY DEF Compiled
<1> QED
  BY <1>1, <1>2 DEF CurrentInv, TagStands

LEMMA ArriveIsCurrent ==
  ASSUME ServerInv, CurrentInv, NEW h \in Handlers,
         \/ Done(h) \/ GetDocument(h)
         \/ \E kind \in Kinds, tag \in issued, body \in Bodies : Propose(h, kind, tag, body)
  PROVE  CurrentInv'
<1>1. "idle" \notin Holding \cup {"done"} /\ "compile" \notin Holding \cup {"done"}
  BY DEF Holding
<1>2. Typed
  BY DEF ServerInv
<1>3. CASE Done(h)
  BY <1>1, <1>2, <1>3, FreshIsCurrent, NoHandlerIsHandler DEF Done
<1>4. CASE GetDocument(h)
  <2>1. [NoHandler EXCEPT !.at = "compile"].at = "compile"
    BY DEF NoHandler
  <2> QED
    BY <1>1, <1>2, <1>4, <2>1, FreshIsCurrent DEF GetDocument, Arrive
<1>5. ASSUME NEW kind \in Kinds, NEW tag \in issued, NEW body \in Bodies, Propose(h, kind, tag, body)
      PROVE  CurrentInv'
  <2> DEFINE request == [NoHandler EXCEPT !.at = "compile", !.kind = kind, !.ifMatch = tag, !.body = body]
  <2>1. request.at = "compile"
    BY DEF NoHandler
  <2>2. handlers' = [handlers EXCEPT ![h] = request] /\ UNCHANGED <<disk, others>>
    BY <1>5 DEF Propose, Arrive
  <2> HIDE DEF request
  <2> QED
    BY <1>1, <1>2, <2>1, <2>2, FreshIsCurrent
<1> QED
  BY <1>3, <1>4, <1>5

LEMMA EditIsCurrent ==
  ASSUME ServerInv, handlers' = Unsteady \/ Kill PROVE CurrentInv'
<1>1. \A g \in Handlers : handlers[g] \in Handler
  BY DEF ServerInv, Typed, ServerTypeOK
<1>2. \A g \in Handlers : ~handlers'[g].steady
  BY <1>1 DEF Unsteady, Handler, Kill, NoHandler
<1> QED
  BY <1>2 DEF CurrentInv, TagStands

LEMMA NextIsCurrent == ASSUME ServerInv, CurrentInv, [ServerNext]_serverVars PROVE CurrentInv'
<1>1. ASSUME NEW h \in Handlers, Serve(h) PROVE CurrentInv'
  BY <1>1, CompileIsCurrent, ReadIsCurrent, FormatIsCurrent, RereadIsCurrent, RenameIsCurrent DEF Serve
<1>2. ASSUME NEW h \in Handlers, FailWrite(h) PROVE CurrentInv'
  BY <1>2, NullAnswerIsCurrent DEF FailWrite, ServerInv
<1>3. CASE EditElsewhere \/ Kill \/ \E text \in Text \cup {Missing} : Edit(text)
  BY <1>3, EditIsCurrent DEF Edit, EditElsewhere
<1>4. CASE UNCHANGED serverVars
  BY <1>4 DEF CurrentInv, TagStands, Compiled, serverVars
<1> QED
  BY <1>1, <1>2, <1>3, <1>4, ArriveIsCurrent DEF ServerNext

(***************************************************************************)
(* Nothing changed on disk since the handler took the graph: then the tag  *)
(* of its answer is the tag of what is there, also of an apply, which      *)
(* makes the tag of the graph before its write.                            *)
(***************************************************************************)
THEOREM TagsAreCurrent == ServerSpec => []TagIsCurrent
<1>1. ServerInit => CurrentInv
  BY DEF ServerInit, CurrentInv, TagStands, NoHandler
<1>2. ServerInv /\ CurrentInv /\ [ServerNext]_serverVars => CurrentInv'
  BY NextIsCurrent
<1>3. CurrentInv => TagIsCurrent
  BY DEF CurrentInv, TagStands, TagIsCurrent
<1> QED
  BY <1>1, <1>2, <1>3, ServerInvariant, PTL DEF ServerSpec

-------------------------------------------------------------------------------
(***************************************************************************)
(* For any number of sidecars and requests: the product shown is the live  *)
(* one, no sidecar runs outside the slot, and no late answer says that the *)
(* connection is lost.  The invariant adds what holds while an open is in  *)
(* progress: there is one, its sidecar is in the slot from the answer of   *)
(* the shell on, and the product of before is then dead.                   *)
(***************************************************************************)

Opening(s, at) == [sidecar |-> s, at |-> at]

\* How far an open is.
OpensInOrder ==
  \A o \in opens :
    /\ opens = {o}
    /\ o.at = "start" => process[o.sidecar] = "starting" \/ shell = "ended"
    /\ o.at = "start" => product # o.sidecar /\ slot # o.sidecar
    /\ o.at = "opened" /\ shell = "window" => slot = o.sidecar
    /\ o.at = "shown" /\ shell = "window" => slot = o.sidecar /\ product = o.sidecar

\* Between two opens, and while a sidecar starts, the product is the live one.
SlotIsProduct ==
  shell = "window" =>
    /\ (\A o \in opens : o.at = "start") => product = slot
    /\ product # NoSidecar /\ product # slot => process[product] = "dead"

OneRuns ==
  shell # "ended" => \A s \in Sidecars : process[s] = "serving" => s = slot

\* What was not started is neither shown nor live.
NewIsUnused ==
  \A s \in Sidecars : process[s] = "new" => slot # s /\ product # s

LostIsDead == lost => product # NoSidecar /\ process[product] = "dead"

IInv ==
  /\ TypeOK
  /\ OpensInOrder
  /\ SlotIsProduct
  /\ OneRuns
  /\ NewIsUnused
  /\ LostIsDead

(***************************************************************************)
(* Every step keeps the invariant.                                         *)
(***************************************************************************)
LEMMA InitIInv == Init => IInv
<1> SUFFICES ASSUME Init PROVE IInv
  OBVIOUS
<1>1. TypeOK
  <2>1. process \in [Sidecars -> {"new", "starting", "serving", "dead"}]
    BY DEF Init
  <2>2. made \in 0..MaxCalls
    BY OpenAssumption DEF Init
  <2>3. opens \subseteq [sidecar : Sidecars, at : {"start", "opened", "shown"}]
    BY DEF Init
  <2> QED
    BY <2>1, <2>2, <2>3 DEF Init, TypeOK
<1>2. OpensInOrder /\ SlotIsProduct /\ LostIsDead
  BY DEF Init, OpensInOrder, SlotIsProduct, LostIsDead
<1>3. OneRuns /\ NewIsUnused
  BY OpenAssumption DEF Init, OneRuns, NewIsUnused
<1> QED
  BY <1>1, <1>2, <1>3 DEF IInv

LEMMA OpenKeeps == ASSUME IInv, NEW s \in Sidecars, Open(s) PROVE IInv'
<1>1. opens = {} /\ opens' = {Begin(s)}
  BY DEF Open, Busy
<1>2. Begin(s) \in [sidecar : Sidecars, at : {"start", "opened", "shown"}]
  BY DEF Begin
<1>3. Begin(s).at = "start" /\ Begin(s).sidecar = s
  BY DEF Begin
<1>4. TypeOK'
  BY <1>1, <1>2 DEF IInv, TypeOK, Open
<1>5. slot # s /\ product # s
  BY DEF IInv, NewIsUnused, Open
<1>6. OpensInOrder'
  BY <1>1, <1>3, <1>5 DEF IInv, TypeOK, OpensInOrder, Open
<1>7. SlotIsProduct' /\ OneRuns'
  BY <1>1, <1>3, <1>5 DEF IInv, TypeOK, SlotIsProduct, OneRuns, Open
<1>8. NewIsUnused' /\ LostIsDead'
  BY <1>5 DEF IInv, TypeOK, NewIsUnused, LostIsDead, Open
<1> QED
  BY <1>4, <1>6, <1>7, <1>8 DEF IInv

LEMMA StartFailsKeeps == ASSUME IInv, NEW s \in Sidecars, StartFails(s) PROVE IInv'
<1>1. opens = {Begin(s)} /\ opens' = {}
  BY DEF IInv, OpensInOrder, StartFails
<1>2. Begin(s).at = "start" /\ Begin(s).sidecar = s
  BY DEF Begin
<1>3. slot # s /\ product # s
  BY <1>1, <1>2 DEF IInv, OpensInOrder, StartFails
<1>4. TypeOK' /\ OpensInOrder'
  BY <1>1 DEF IInv, TypeOK, OpensInOrder, StartFails
<1>5. SlotIsProduct' /\ OneRuns' /\ NewIsUnused' /\ LostIsDead'
  BY <1>1, <1>2, <1>3
  DEF IInv, TypeOK, SlotIsProduct, OneRuns, NewIsUnused, LostIsDead, StartFails
<1> QED
  BY <1>4, <1>5 DEF IInv

LEMMA ReplaceKeeps == ASSUME IInv, NEW s \in Sidecars, Replace(s) PROVE IInv'
<1> DEFINE o == [sidecar |-> s, at |-> "opened"]
<1>1. opens = {Begin(s)} /\ opens' = {o}
  BY DEF IInv, OpensInOrder, Replace
<1>2. Begin(s).at = "start" /\ Begin(s).sidecar = s /\ o.at = "opened" /\ o.sidecar = s
  BY DEF Begin
<1>3. o \in [sidecar : Sidecars, at : {"start", "opened", "shown"}]
  OBVIOUS
<1>4. slot # s /\ product # s
  BY <1>1, <1>2 DEF IInv, OpensInOrder, Replace
<1> HIDE DEF o
<1>5. TypeOK'
  BY <1>1, <1>3 DEF IInv, TypeOK, Replace
<1>6. OpensInOrder'
  BY <1>1, <1>2 DEF OpensInOrder, Replace
<1>7. SlotIsProduct' /\ OneRuns'
  BY <1>1, <1>2, <1>4 DEF IInv, TypeOK, SlotIsProduct, OneRuns, Replace
<1>8. NewIsUnused' /\ LostIsDead'
  BY <1>4 DEF IInv, TypeOK, NewIsUnused, LostIsDead, Replace
<1> QED
  BY <1>5, <1>6, <1>7, <1>8 DEF IInv

LEMMA ShowKeeps == ASSUME IInv, NEW s \in Sidecars, Show(s) PROVE IInv'
<1> DEFINE o == [sidecar |-> s, at |-> "opened"]
           p == [sidecar |-> s, at |-> "shown"]
<1>1. o \in opens /\ shell = "window" /\ product' = s /\ lost' = FALSE
      /\ opens' = (opens \ {o}) \cup {p}
      /\ UNCHANGED <<process, slot, calls, made, shell>>
  BY DEF Show
<1>2. o.at = "opened" /\ o.sidecar = s /\ p.at = "shown" /\ p.sidecar = s
      /\ p \in [sidecar : Sidecars, at : {"start", "opened", "shown"}]
  OBVIOUS
<1> HIDE DEF o, p
<1>3. opens' = {p} /\ slot = s
  BY <1>1, <1>2 DEF IInv, OpensInOrder
<1>4. TypeOK' /\ OpensInOrder'
  BY <1>1, <1>2, <1>3 DEF IInv, TypeOK, OpensInOrder
<1>5. process[s] # "new"
  BY <1>3 DEF IInv, NewIsUnused
<1>6. SlotIsProduct' /\ OneRuns' /\ NewIsUnused' /\ LostIsDead'
  BY <1>1, <1>2, <1>3, <1>5 DEF IInv, TypeOK, SlotIsProduct, OneRuns, NewIsUnused, LostIsDead
<1> QED
  BY <1>4, <1>6 DEF IInv

LEMMA EndOpenKeeps == ASSUME IInv, NEW s \in Sidecars, EndOpen(s) PROVE IInv'
<1> DEFINE o == [sidecar |-> s, at |-> "shown"]
<1>1. o \in opens /\ shell = "window" /\ opens' = opens \ {o}
      /\ UNCHANGED <<process, slot, product, lost, calls, made, shell>>
  BY DEF EndOpen
<1>2. o.at = "shown" /\ o.sidecar = s
  OBVIOUS
<1> HIDE DEF o
<1>3. opens' = {} /\ slot = s /\ product = s
  BY <1>1, <1>2 DEF IInv, OpensInOrder
<1> QED
  BY <1>1, <1>3
  DEF IInv, TypeOK, OpensInOrder, SlotIsProduct, OneRuns, NewIsUnused, LostIsDead

LEMMA CallLostKeeps == ASSUME IInv, NEW s \in Sidecars, CallLost(s) PROVE IInv'
<1>1. TypeOK' /\ OpensInOrder' /\ SlotIsProduct' /\ OneRuns' /\ NewIsUnused'
  BY DEF IInv, TypeOK, OpensInOrder, SlotIsProduct, OneRuns, NewIsUnused, CallLost
<1>2. LostIsDead'
  BY OpenAssumption DEF IInv, TypeOK, LostIsDead, CallLost
<1> QED
  BY <1>1, <1>2 DEF IInv

LEMMA CrashKeeps == ASSUME IInv, NEW s \in Sidecars, Crash(s) PROVE IInv'
<1>1. TypeOK'
  BY DEF IInv, TypeOK, Crash
<1>2. OpensInOrder'
  BY DEF IInv, TypeOK, OpensInOrder, Crash
<1>3. SlotIsProduct' /\ OneRuns' /\ NewIsUnused' /\ LostIsDead'
  BY DEF IInv, TypeOK, SlotIsProduct, OneRuns, NewIsUnused, LostIsDead, Crash
<1> QED
  BY <1>1, <1>2, <1>3 DEF IInv

LEMMA CloseKeeps == ASSUME IInv, Close PROVE IInv'
<1>1. TypeOK' /\ shell' # "window"
  BY DEF IInv, TypeOK, Close
<1>2. OpensInOrder'
  BY <1>1, OpenAssumption DEF IInv, TypeOK, OpensInOrder, Close
<1>3. SlotIsProduct' /\ OneRuns' /\ NewIsUnused' /\ LostIsDead'
  BY <1>1, OpenAssumption
  DEF IInv, TypeOK, SlotIsProduct, OneRuns, NewIsUnused, LostIsDead, Close
<1> QED
  BY <1>1, <1>2, <1>3 DEF IInv

LEMMA EndKeeps ==
  ASSUME IInv, Die \/ \E s \in Sidecars : SidecarEof(s) PROVE IInv'
<1>1. TypeOK' /\ shell' = "ended"
  BY DEF IInv, TypeOK, Die, SidecarEof
<1>2. OpensInOrder'
  BY <1>1 DEF IInv, TypeOK, OpensInOrder, Die, SidecarEof
<1>3. SlotIsProduct' /\ OneRuns' /\ NewIsUnused' /\ LostIsDead'
  BY <1>1 DEF IInv, TypeOK, SlotIsProduct, OneRuns, NewIsUnused, LostIsDead, Die, SidecarEof
<1> QED
  BY <1>1, <1>2, <1>3 DEF IInv

LEMMA CallKeeps ==
  ASSUME IInv, Call \/ (\E s \in Sidecars : CallAnswered(s)) \/ UNCHANGED vars PROVE IInv'
<1>1. UNCHANGED <<process, slot, opens, product, lost, shell>>
  BY DEF Call, CallAnswered, vars
<1>2. made' \in 0..MaxCalls
  BY OpenAssumption DEF IInv, TypeOK, Call, CallAnswered, vars
<1>3. calls' \subseteq Sidecars
  BY DEF IInv, TypeOK, Call, CallAnswered, vars
<1>4. TypeOK'
  BY <1>1, <1>2, <1>3 DEF IInv, TypeOK
<1> QED
  BY <1>1, <1>4 DEF IInv, OpensInOrder, SlotIsProduct, OneRuns, NewIsUnused, LostIsDead

LEMMA NextIInv == IInv /\ [Next]_vars => IInv'
<1> SUFFICES ASSUME IInv, [Next]_vars PROVE IInv'
  OBVIOUS
<1>1. CASE \E s \in Sidecars :
         Open(s) \/ StartFails(s) \/ Replace(s) \/ Show(s) \/ EndOpen(s)
         \/ CallLost(s) \/ Crash(s)
  BY <1>1, OpenKeeps, StartFailsKeeps, ReplaceKeeps, ShowKeeps, EndOpenKeeps,
     CallLostKeeps, CrashKeeps
<1>2. CASE Close
  BY <1>2, CloseKeeps
<1>3. CASE Die \/ \E s \in Sidecars : SidecarEof(s)
  BY <1>3, EndKeeps
<1>4. CASE Call \/ (\E s \in Sidecars : CallAnswered(s)) \/ UNCHANGED vars
  BY <1>4, CallKeeps
<1> QED
  BY <1>1, <1>2, <1>3, <1>4 DEF Next

LEMMA SpecIInv == Spec => []IInv
BY InitIInv, NextIInv, PTL DEF Spec

(***************************************************************************)
(* The product on the screen is the live one, no other sidecar runs, and   *)
(* the connection is said to be lost only when it is.                      *)
(***************************************************************************)
THEOREM ScreenStaysTrue == Spec => []ScreenIsTrue
<1>1. IInv => ShownIsLive
  BY DEF IInv, SlotIsProduct, OneRuns, ShownIsLive
<1>2. IInv => LostIsTrue
  BY DEF IInv, LostIsDead, LostIsTrue
<1>3. IInv => ScreenIsTrue
  BY <1>1, <1>2 DEF ScreenIsTrue
<1> QED
  BY <1>3, SpecIInv, PTL

-------------------------------------------------------------------------------
(***************************************************************************)
(* The prompt flow of MarkDesk, for any entries and any number of runs and *)
(* versions.                                                               *)
(***************************************************************************)

RunPlaces == {"tag", "entry", "shell", "ran", "preview"}
ApplyPlaces == {"apply", "applied"}

\* A run number belongs to one flow, and is not ahead of the last one.
OneFlowPerRun ==
  /\ \A f \in flows : f.run <= run
  /\ \A f, g \in flows : f.run = g.run => f = g
  /\ running <= run

\* The box waits for the current flow, if there is one, and shows its entry.
BoxWaitsForFlow ==
  \A f \in flows : IsCurrent(f) =>
    \/ phase.kind = "running" /\ f.at \in RunPlaces /\ f.body.entry = selected
    \/ phase.kind = "applying" /\ f.at \in ApplyPlaces

\* The tag was read before the entry: what passes the check of the tag was made
\* from this version.
MadeFrom(etag, body) == body.read = etag /\ body.formatted = 0

TagBeforeEntry ==
  \A f \in flows :
    /\ f.body.formatted = 0
    /\ f.at = "entry" => f.etag <= version
    /\ f.at \in {"shell", "ran", "preview"} => f.etag <= f.body.read /\ f.body.read <= version
    /\ f.at \in ApplyPlaces => MadeFrom(f.etag, f.body)

ShownAsMade ==
  phase.kind \in {"proposal", "applying"} => run # 0 /\ MadeFrom(phase.etag, phase.raw)

ProposalOfSelected == phase.kind = "proposal" => phase.raw.entry = selected

\* A write that was not read again has its answer on the way.
UnseenIsAnswered == unseen => \E f \in flows : f.at = "applied" /\ f.end = "ok"

PromptInv ==
  /\ PromptTypeOK
  /\ OneFlowPerRun
  /\ BoxWaitsForFlow
  /\ TagBeforeEntry
  /\ ShownAsMade
  /\ ProposalOfSelected
  /\ WrittenAsSeen
  /\ UnseenIsAnswered
  /\ CancelHitsNoLater

(***************************************************************************)
(* Every step keeps the types.                                             *)
(***************************************************************************)
LEMMA InitPromptInv == PromptInit => PromptInv
<1> SUFFICES ASSUME PromptInit PROVE PromptInv
  OBVIOUS
<1> USE PromptAssumption DEF PromptInit
<1>1. PromptTypeOK
  <2>1. phase \in Phase /\ cancel \in BOOLEAN /\ unseen \in BOOLEAN
    BY DEF Phase
  <2>2. version \in 0..MaxVersions /\ run \in 0..MaxRuns /\ running \in 0..MaxRuns
    OBVIOUS
  <2> QED
    BY <2>1, <2>2 DEF PromptTypeOK
<1>2. OneFlowPerRun /\ BoxWaitsForFlow /\ TagBeforeEntry
  BY DEF OneFlowPerRun, BoxWaitsForFlow, TagBeforeEntry
<1>3. phase.kind = "idle"
  BY DEF Idle
<1>4. ShownAsMade /\ ProposalOfSelected /\ WrittenAsSeen
  BY <1>3 DEF ShownAsMade, ProposalOfSelected, WrittenAsSeen
<1>5. UnseenIsAnswered /\ CancelHitsNoLater
  BY DEF UnseenIsAnswered, CancelHitsNoLater
<1> QED
  BY <1>1, <1>2, <1>4, <1>5 DEF PromptInv

LEMMA StepTypeOK == PromptInv /\ [PromptNext]_promptVars => PromptTypeOK'
<1> SUFFICES ASSUME PromptInv, [PromptNext]_promptVars PROVE PromptTypeOK'
  OBVIOUS
<1> USE PromptAssumption DEF PromptInv, PromptTypeOK
<1>1. ASSUME NEW f \in flows, Advance(f) PROVE PromptTypeOK'
  <2> f \in Flow /\ f.body \in Body
    BY DEF Flow
  <2>1. CASE ReadTag(f)
    BY <2>1 DEF ReadTag, GoOn, Flow, shellVars, fileVars
  <2>2. CASE ReadEntry(f)
    <3>1. [f EXCEPT !.at = "shell", !.body.read = version] \in Flow
      BY DEF Flow, Body
    <3> QED
      BY <2>2, <3>1 DEF ReadEntry, GoOn, shellVars, fileVars
  <2>3. CASE GiveUp(f)
    BY <2>3 DEF GiveUp, End, Phase, shellVars, fileVars
  <2>4. CASE StartRun(f)
    <3>1. [f EXCEPT !.at = "ran", !.end = "failed"] \in Flow
      BY DEF Flow
    <3>2. f.run \in 0..MaxRuns
      BY DEF Flow
    <3>3. flows' \subseteq Flow
      BY <2>4, <3>1 DEF StartRun, GoOn
    <3>4. running' \in 0..MaxRuns /\ cancel' \in BOOLEAN
      BY <2>4, <3>2 DEF StartRun, shellVars
    <3> QED
      BY <2>4, <3>3, <3>4 DEF StartRun, fileVars
  <2>5. CASE EndRun(f)
    <3>1. PICK end \in {"ok", "failed", "cancelled"} : GoOn(f, [f EXCEPT !.at = "ran", !.end = end])
      BY <2>5 DEF EndRun
    <3>2. flows' \subseteq Flow
      BY <3>1 DEF GoOn, Flow
    <3> QED
      BY <2>5, <3>2 DEF EndRun, fileVars
  <2>6. CASE Outcome(f)
    <3>1. [f EXCEPT !.at = "preview"] \in Flow
      BY DEF Flow
    <3>2. flows' \subseteq Flow
      BY <2>6, <3>1 DEF Outcome, GoOn, End
    <3>3. phase' \in Phase
      BY <2>6 DEF Outcome, End, Phase
    <3> QED
      BY <2>6, <3>2, <3>3 DEF Outcome, shellVars, fileVars
  <2>7. CASE Preview(f)
    <3>1. FormatBody(f.body) \in Body
      BY DEF FormatBody, TagBeforeEntry, Body
    <3>2. f.etag \in 0..MaxVersions
      BY DEF Flow
    <3>3. Shown(f) \in Phase
      BY <3>1, <3>2 DEF Shown, Phase
    <3>4. phase' \in Phase /\ flows' \subseteq Flow
      BY <2>7, <3>3 DEF Preview, End, Phase
    <3> QED
      BY <2>7, <3>4 DEF Preview, shellVars, fileVars
  <2>8. CASE ServeApply(f)
    <3>1. \A end \in {"ok", "failed"} : [f EXCEPT !.at = "applied", !.end = end] \in Flow
      BY DEF Flow
    <3>2. flows' \subseteq Flow
      BY <2>8, <3>1 DEF ServeApply, GoOn
    <3>3. [body |-> FormatBody(f.body), over |-> version] \in [body : Body, over : 0..MaxVersions]
      BY DEF FormatBody, TagBeforeEntry, Body
    <3>4. version' \in 0..MaxVersions /\ replaced' \subseteq [body : Body, over : 0..MaxVersions]
      BY <2>8, <3>3 DEF ServeApply, fileVars
    <3>5. unseen' \in BOOLEAN
      BY <2>8 DEF ServeApply, fileVars
    <3> QED
      BY <2>8, <3>2, <3>4, <3>5 DEF ServeApply, shellVars
  <2>9. CASE ApplyEnds(f)
    <3>1. phase' \in Phase /\ flows' \subseteq Flow
      BY <2>9 DEF ApplyEnds, End, Phase
    <3>2. unseen' \in BOOLEAN
      BY <2>9 DEF ApplyEnds
    <3> QED
      BY <2>9, <3>1, <3>2 DEF ApplyEnds, shellVars
  <2> QED
    BY <1>1, <2>1, <2>2, <2>3, <2>4, <2>5, <2>6, <2>7, <2>8, <2>9 DEF Advance
<1>2. CASE Submit
  BY <1>2 DEF Submit, Running, Phase, Flow, Body, shellVars, fileVars
<1>3. CASE Accept
  <2>1. phase \in [kind : {"proposal", "applying"}, etag : 0..MaxVersions, proposed : Body, raw : Body]
    BY <1>3 DEF Accept, Phase, Idle, Error, Running
  <2>2. phase' \in Phase
    BY <1>3, <2>1 DEF Accept, Phase
  <2>3. run \in 1..MaxRuns
    BY <1>3 DEF Accept, ShownAsMade
  <2>4. phase.raw \in Body /\ phase.raw.entry \in Entries /\ phase.etag \in 0..MaxVersions
    BY <2>1 DEF Body
  <2>5. flows' \subseteq Flow
    BY <1>3, <2>3, <2>4 DEF Accept, Sent, Flow
  <2> QED
    BY <1>3, <2>2, <2>5 DEF Accept, shellVars, fileVars
<1>4. ASSUME Withdraw, selected' \in Entries \cup {None} PROVE PromptTypeOK'
  BY <1>4 DEF Withdraw, Phase, fileVars
<1>5. CASE Reject
  BY <1>5 DEF Reject, Phase, shellVars, fileVars
<1>6. ASSUME NEW e \in Entries \cup {None}, Select(e) PROVE PromptTypeOK'
  BY <1>4, <1>6 DEF Select, shellVars, fileVars
<1>7. CASE EditOutside
  BY <1>7 DEF EditOutside, shellVars
<1>8. CASE Focus
  BY <1>8 DEF Focus, shellVars
<1>9. CASE UNCHANGED promptVars
  BY <1>9 DEF promptVars
<1> QED
  BY <1>1, <1>2, <1>3, <1>4, <1>5, <1>6, <1>7, <1>8, <1>9 DEF PromptNext, Cancel, Remount

(***************************************************************************)
(* The numbers of the flows.                                               *)
(***************************************************************************)
LEMMA GoOnKeepsRuns ==
  ASSUME OneFlowPerRun, NEW f \in flows, NEW g, g.run = f.run, GoOn(f, g), run' = run,
         running' \in {0, running, f.run}, run \in Nat
  PROVE  OneFlowPerRun'
BY DEF OneFlowPerRun, GoOn

LEMMA EndKeepsRuns ==
  ASSUME OneFlowPerRun, NEW f \in flows, NEW shown, End(f, shown), run' = run, running' = running
  PROVE  OneFlowPerRun'
BY DEF OneFlowPerRun, End

\* The box of a flow that goes on.
LEMMA GoOnKeepsBox ==
  ASSUME BoxWaitsForFlow, NEW f \in flows, NEW g, g.run = f.run, g.body.entry = f.body.entry,
         \/ f.at \in RunPlaces /\ g.at \in RunPlaces
         \/ f.at \in ApplyPlaces /\ g.at \in ApplyPlaces,
         GoOn(f, g), UNCHANGED <<run, phase, selected>>
  PROVE  BoxWaitsForFlow'
BY DEF BoxWaitsForFlow, GoOn, IsCurrent, RunPlaces, ApplyPlaces

\* When a flow ends, no flow is current, or the box is as it was.
LEMMA EndKeepsBox ==
  ASSUME OneFlowPerRun, BoxWaitsForFlow, NEW f \in flows, NEW shown, End(f, shown),
         UNCHANGED <<run, selected>>
  PROVE  BoxWaitsForFlow'
<1>1. CASE IsCurrent(f)
  <2>1. \A g \in flows' : g.run # run
    BY <1>1 DEF End, IsCurrent, OneFlowPerRun
  <2> QED
    BY <2>1 DEF BoxWaitsForFlow, IsCurrent
<1>2. CASE ~IsCurrent(f)
  BY <1>2 DEF BoxWaitsForFlow, End, IsCurrent
<1> QED
  BY <1>1, <1>2

LEMMA StepFlows == PromptInv /\ [PromptNext]_promptVars => OneFlowPerRun' /\ BoxWaitsForFlow'
<1> SUFFICES ASSUME PromptInv, [PromptNext]_promptVars
             PROVE  OneFlowPerRun' /\ BoxWaitsForFlow'
  OBVIOUS
<1> OneFlowPerRun /\ BoxWaitsForFlow /\ run \in Nat /\ running \in Nat
  BY PromptAssumption DEF PromptInv, PromptTypeOK
<1> \A f \in flows : f.run \in Nat
  BY PromptAssumption DEF PromptInv, PromptTypeOK, Flow
<1>1. ASSUME NEW f \in flows, Advance(f) PROVE OneFlowPerRun' /\ BoxWaitsForFlow'
  <2> f \in Flow /\ f.body \in Body
    BY DEF Flow, PromptInv, PromptTypeOK
  <2>1. CASE ReadTag(f)
    <3> DEFINE g == [f EXCEPT !.at = "entry", !.etag = version]
    <3>1. g.run = f.run /\ g.body = f.body /\ g.at = "entry"
      BY DEF Flow
    <3>2. GoOn(f, g) /\ UNCHANGED <<run, running, phase, selected>> /\ f.at = "tag"
      BY <2>1 DEF ReadTag, shellVars
    <3> QED
      BY <3>1, <3>2, GoOnKeepsRuns, GoOnKeepsBox DEF RunPlaces
  <2>2. CASE ReadEntry(f)
    <3> DEFINE g == [f EXCEPT !.at = "shell", !.body.read = version]
    <3>1. g.run = f.run /\ g.body.entry = f.body.entry /\ g.at = "shell"
      BY DEF Flow, Body
    <3>2. GoOn(f, g) /\ UNCHANGED <<run, running, phase, selected>> /\ f.at = "entry"
      BY <2>2 DEF ReadEntry, shellVars
    <3> QED
      BY <3>1, <3>2, GoOnKeepsRuns, GoOnKeepsBox DEF RunPlaces
  <2>3. CASE GiveUp(f)
    BY <2>3, EndKeepsRuns, EndKeepsBox DEF GiveUp, shellVars
  <2>4. CASE StartRun(f)
    <3> DEFINE g == [f EXCEPT !.at = "ran", !.end = "failed"]
    <3>1. g.run = f.run /\ g.body = f.body /\ g.at = "ran"
      BY DEF Flow
    <3>2. UNCHANGED <<run, phase, selected>> /\ f.at = "shell"
      BY <2>4 DEF StartRun
    <3>3. CASE running = 0
      <4>1. running' = f.run /\ flows' = flows
        BY <2>4, <3>3 DEF StartRun
      <4> QED
        BY <3>2, <4>1 DEF OneFlowPerRun, BoxWaitsForFlow, IsCurrent
    <3>4. CASE running # 0
      <4>1. GoOn(f, g) /\ running' = running
        BY <2>4, <3>4 DEF StartRun, shellVars
      <4> QED
        BY <3>1, <3>2, <4>1, GoOnKeepsRuns, GoOnKeepsBox DEF RunPlaces
    <3> QED
      BY <3>3, <3>4
  <2>5. CASE EndRun(f)
    <3>1. PICK end \in {"ok", "failed", "cancelled"} : GoOn(f, [f EXCEPT !.at = "ran", !.end = end])
      BY <2>5 DEF EndRun
    <3> DEFINE g == [f EXCEPT !.at = "ran", !.end = end]
    <3>2. g.run = f.run /\ g.body = f.body /\ g.at = "ran"
      BY DEF Flow
    <3>3. UNCHANGED <<run, phase, selected>> /\ f.at = "shell" /\ running' = 0
      BY <2>5 DEF EndRun
    <3> QED
      BY <3>1, <3>2, <3>3, GoOnKeepsRuns, GoOnKeepsBox DEF RunPlaces
  <2>6. CASE Outcome(f)
    <3> DEFINE g == [f EXCEPT !.at = "preview"]
    <3>1. g.run = f.run /\ g.body = f.body /\ g.at = "preview"
      BY DEF Flow
    <3>2. UNCHANGED <<run, running, selected>> /\ f.at = "ran"
      BY <2>6 DEF Outcome, shellVars
    <3>3. CASE GoOn(f, g) /\ UNCHANGED phase
      BY <3>1, <3>2, <3>3, GoOnKeepsRuns, GoOnKeepsBox DEF RunPlaces
    <3>4. ASSUME NEW shown, End(f, shown) PROVE OneFlowPerRun' /\ BoxWaitsForFlow'
      BY <3>2, <3>4, EndKeepsRuns, EndKeepsBox
    <3> QED
      BY <2>6, <3>3, <3>4 DEF Outcome
  <2>7. CASE Preview(f)
    BY <2>7, EndKeepsRuns, EndKeepsBox DEF Preview, shellVars
  <2>8. CASE ServeApply(f)
    <3>1. PICK end \in {"ok", "failed"} : GoOn(f, [f EXCEPT !.at = "applied", !.end = end])
      BY <2>8 DEF ServeApply
    <3> DEFINE g == [f EXCEPT !.at = "applied", !.end = end]
    <3>2. g.run = f.run /\ g.body = f.body /\ g.at = "applied"
      BY DEF Flow
    <3>3. UNCHANGED <<run, running, phase, selected>> /\ f.at = "apply"
      BY <2>8 DEF ServeApply, shellVars
    <3> QED
      BY <3>1, <3>2, <3>3, GoOnKeepsRuns, GoOnKeepsBox DEF ApplyPlaces
  <2>9. CASE ApplyEnds(f)
    BY <2>9, EndKeepsRuns, EndKeepsBox DEF ApplyEnds, shellVars
  <2> QED
    BY <1>1, <2>1, <2>2, <2>3, <2>4, <2>5, <2>6, <2>7, <2>8, <2>9 DEF Advance
<1>2. CASE Submit
  <2>1. PICK g : g.run = run + 1 /\ g.at = "tag" /\ g.body.entry = selected /\ flows' = flows \cup {g}
    BY <1>2 DEF Submit
  <2>2. phase'.kind = "running" /\ run' = run + 1 /\ UNCHANGED <<running, selected>>
    BY <1>2 DEF Submit, Running, shellVars
  <2> QED
    BY <2>1, <2>2 DEF OneFlowPerRun, BoxWaitsForFlow, IsCurrent, RunPlaces
<1>3. CASE Accept
  <2>1. phase.kind = "proposal"
    BY <1>3 DEF Accept
  <2>2. \A g \in flows : g.run # run
    BY <2>1 DEF BoxWaitsForFlow, IsCurrent
  <2>3. PICK g : g.run = run /\ g.at = "apply" /\ flows' = flows \cup {g}
    BY <1>3 DEF Accept
  <2>4. phase'.kind = "applying"
    BY <1>3, <2>1 DEF Accept, PromptInv, PromptTypeOK, Phase, Idle, Error, Running
  <2>5. UNCHANGED <<run, running>>
    BY <1>3 DEF Accept, shellVars
  <2> QED
    BY <2>2, <2>3, <2>4, <2>5 DEF OneFlowPerRun, BoxWaitsForFlow, IsCurrent, ApplyPlaces
<1>4. CASE Withdraw
  BY <1>4 DEF Withdraw, OneFlowPerRun, BoxWaitsForFlow, IsCurrent
<1>5. CASE Reject
  BY <1>5 DEF Reject, OneFlowPerRun, BoxWaitsForFlow, IsCurrent, shellVars
<1>6. ASSUME NEW e \in Entries \cup {None}, Select(e) PROVE OneFlowPerRun' /\ BoxWaitsForFlow'
  BY <1>4, <1>6 DEF Select, shellVars, OneFlowPerRun, BoxWaitsForFlow, IsCurrent
<1>7. CASE EditOutside \/ Focus \/ UNCHANGED promptVars
  BY <1>7 DEF EditOutside, Focus, promptVars, shellVars, OneFlowPerRun, BoxWaitsForFlow, IsCurrent
<1> QED
  BY <1>1, <1>2, <1>3, <1>4, <1>5, <1>6, <1>7 DEF PromptNext, Cancel, Remount

(***************************************************************************)
(* What is proposed, and what is written.                                  *)
(***************************************************************************)
LEMMA StepShown ==
  PromptInv /\ [PromptNext]_promptVars => TagBeforeEntry' /\ ShownAsMade' /\ ProposalOfSelected'
<1> SUFFICES ASSUME PromptInv, [PromptNext]_promptVars
             PROVE  TagBeforeEntry' /\ ShownAsMade' /\ ProposalOfSelected'
  OBVIOUS
<1> version \in Nat /\ run \in Nat /\ flows \subseteq Flow
  BY PromptAssumption DEF PromptInv, PromptTypeOK
<1> TagBeforeEntry /\ ShownAsMade /\ ProposalOfSelected /\ BoxWaitsForFlow
  BY DEF PromptInv
<1>1. ASSUME NEW f \in flows, Advance(f)
      PROVE  TagBeforeEntry' /\ ShownAsMade' /\ ProposalOfSelected'
  <2> f \in Flow /\ f.body \in Body /\ f.etag \in Nat /\ f.body.read \in Nat
    BY PromptAssumption DEF Flow, Body
  \* A flow that ends, and the box shows no proposal of it.
  <2>1. ASSUME NEW shown \in {Idle, Error}, End(f, shown), UNCHANGED <<run, selected>>,
               version' = version
        PROVE  TagBeforeEntry' /\ ShownAsMade' /\ ProposalOfSelected'
    <3>1. phase'.kind \in {"idle", "error"} \/ phase' = phase
      BY <2>1 DEF End, Idle, Error
    <3> QED
      BY <2>1, <3>1 DEF End, TagBeforeEntry, ShownAsMade, ProposalOfSelected
  \* One that goes on.
  <2>2. ASSUME NEW g, GoOn(f, g), UNCHANGED <<run, selected, phase>>, version' \in Nat, version' >= version,
               g.etag \in Nat, g.body.read \in Nat, g.body.formatted = 0, g.at = "entry" => g.etag <= version,
               g.at \in {"shell", "ran", "preview"} => g.etag <= g.body.read /\ g.body.read <= version,
               g.at \in ApplyPlaces => MadeFrom(g.etag, g.body)
        PROVE  TagBeforeEntry' /\ ShownAsMade' /\ ProposalOfSelected'
    <3>1. \A x \in flows : x.etag \in Nat /\ x.body.read \in Nat
      BY PromptAssumption DEF Flow, Body
    <3>2. TagBeforeEntry'
      <4> SUFFICES ASSUME NEW x \in flows'
                   PROVE  /\ x.body.formatted = 0
                          /\ x.at = "entry" => x.etag <= version'
                          /\ x.at \in {"shell", "ran", "preview"} =>
                               x.etag <= x.body.read /\ x.body.read <= version'
                          /\ x.at \in ApplyPlaces => MadeFrom(x.etag, x.body)
        BY DEF TagBeforeEntry
      <4>1. CASE x = g
        BY <2>2, <4>1, <3>1
      <4>2. CASE x \in flows
        BY <2>2, <4>2, <3>1 DEF TagBeforeEntry
      <4> QED
        BY <2>2, <4>1, <4>2 DEF GoOn
    <3> QED
      BY <2>2, <3>2 DEF ShownAsMade, ProposalOfSelected
  <2>3. CASE ReadTag(f)
    <3> DEFINE g == [f EXCEPT !.at = "entry", !.etag = version]
    <3>1. g.at = "entry" /\ g.body = f.body /\ g.body.formatted = 0 /\ g.etag = version
      BY DEF Flow, TagBeforeEntry
    <3>2. GoOn(f, g) /\ UNCHANGED <<run, selected, phase>> /\ version' \in Nat /\ version' >= version
      BY <2>3 DEF ReadTag, fileVars
    <3> HIDE DEF g
    <3> QED
      BY <2>2, <3>1, <3>2 DEF ApplyPlaces
  <2>4. CASE ReadEntry(f)
    <3> DEFINE g == [f EXCEPT !.at = "shell", !.body.read = version]
    <3>1. g.at = "shell" /\ g.etag = f.etag /\ g.body.read = version /\ g.body.formatted = 0
      BY DEF Flow, Body, TagBeforeEntry
    <3>2. GoOn(f, g) /\ UNCHANGED <<run, selected, phase>> /\ version' \in Nat /\ version' >= version
      BY <2>4 DEF ReadEntry, fileVars
    <3>3. g.etag <= g.body.read /\ g.body.read <= version
      BY <2>4, <3>1 DEF ReadEntry, TagBeforeEntry
    <3> HIDE DEF g
    <3> QED
      BY <2>2, <3>1, <3>2, <3>3 DEF ApplyPlaces
  <2>5. CASE GiveUp(f)
    BY <2>1, <2>5 DEF GiveUp, fileVars
  <2>6. CASE StartRun(f) \/ EndRun(f)
    <3> DEFINE g(end) == [f EXCEPT !.at = "ran", !.end = end]
    <3>1. \A end : g(end).at = "ran" /\ g(end).etag = f.etag /\ g(end).body = f.body
      BY DEF Flow
    <3>2. ASSUME NEW end, GoOn(f, g(end)), UNCHANGED <<run, selected, phase, version>>, f.at = "shell"
          PROVE  TagBeforeEntry' /\ ShownAsMade' /\ ProposalOfSelected'
      <4>1. version' \in Nat /\ version' >= version
        BY <3>2
      <4>2. f.body.formatted = 0 /\ f.etag <= f.body.read /\ f.body.read <= version
        BY <3>2 DEF TagBeforeEntry
      <4> HIDE DEF g
      <4> QED
        BY <2>2, <3>1, <3>2, <4>1, <4>2 DEF ApplyPlaces
    <3>3. CASE flows' = flows
      BY <2>6, <3>3 DEF StartRun, EndRun, fileVars, TagBeforeEntry, ShownAsMade, ProposalOfSelected
    <3> QED
      BY <2>6, <3>2, <3>3 DEF StartRun, EndRun, fileVars
  <2>7. CASE Outcome(f)
    <3> DEFINE g == [f EXCEPT !.at = "preview"]
    <3>1. g.at = "preview" /\ g.etag = f.etag /\ g.body = f.body
      BY DEF Flow
    <3>2. f.at = "ran" /\ UNCHANGED <<run, selected, version>>
      BY <2>7 DEF Outcome, fileVars
    <3>3. CASE GoOn(f, g) /\ UNCHANGED phase
      <4>1. version' \in Nat /\ version' >= version
        BY <3>2
      <4>2. f.body.formatted = 0 /\ f.etag <= f.body.read /\ f.body.read <= version
        BY <3>2 DEF TagBeforeEntry
      <4> HIDE DEF g
      <4> QED
        BY <2>2, <3>1, <3>2, <3>3, <4>1, <4>2 DEF ApplyPlaces
    <3> QED
      BY <2>1, <2>7, <3>2, <3>3 DEF Outcome
  <2>8. CASE Preview(f)
    <3>1. f.at = "preview" /\ UNCHANGED <<run, selected, version>>
      BY <2>8 DEF Preview, fileVars
    <3>2. ASSUME f.etag = version, End(f, Shown(f))
          PROVE  TagBeforeEntry' /\ ShownAsMade' /\ ProposalOfSelected'
      <4>1. f.etag \in Nat /\ f.body.read \in Nat /\ f.run # 0
        BY PromptAssumption DEF Flow, Body
      <4>2. MadeFrom(f.etag, f.body)
        BY <3>1, <3>2, <4>1 DEF TagBeforeEntry, MadeFrom
      <4>3. TagBeforeEntry'
        BY <3>1, <3>2 DEF End, TagBeforeEntry
      <4>4. CASE IsCurrent(f)
        <5>1. phase'.raw = f.body /\ phase'.etag = f.etag
          BY <3>2, <4>4 DEF End, Shown
        <5>2. f.body.entry = selected
          BY <3>1, <4>4 DEF BoxWaitsForFlow, ApplyPlaces
        <5> QED
          BY <3>1, <4>1, <4>2, <4>3, <4>4, <5>1, <5>2 DEF ShownAsMade, ProposalOfSelected, IsCurrent
      <4>5. CASE ~IsCurrent(f)
        BY <3>1, <3>2, <4>3, <4>5 DEF End, ShownAsMade, ProposalOfSelected
      <4> QED
        BY <4>4, <4>5
    <3> QED
      BY <2>1, <2>8, <3>1, <3>2 DEF Preview
  <2>9. CASE ServeApply(f)
    <3> DEFINE g(end) == [f EXCEPT !.at = "applied", !.end = end]
    <3>1. PICK end \in {"ok", "failed"} : GoOn(f, g(end))
      BY <2>9 DEF ServeApply
    <3>2. g(end).at = "applied" /\ g(end).etag = f.etag /\ g(end).body = f.body
      BY DEF Flow
    <3>3. version' \in Nat /\ version' >= version /\ UNCHANGED <<run, selected, phase>> /\ f.at = "apply"
      BY <2>9 DEF ServeApply, fileVars
    <3> QED
      BY <2>2, <3>1, <3>2, <3>3 DEF ApplyPlaces, TagBeforeEntry
  <2>10. CASE ApplyEnds(f)
    BY <2>1, <2>10 DEF ApplyEnds
  <2> QED
    BY <1>1, <2>3, <2>4, <2>5, <2>6, <2>7, <2>8, <2>9, <2>10 DEF Advance
<1>2. CASE Submit
  <2>1. PICK g : g.at = "tag" /\ g.body.formatted = 0 /\ flows' = flows \cup {g}
    BY <1>2 DEF Submit
  <2>2. phase'.kind = "running" /\ version' = version
    BY <1>2 DEF Submit, Running, fileVars
  <2> QED
    BY <2>1, <2>2 DEF TagBeforeEntry, ShownAsMade, ProposalOfSelected, ApplyPlaces
<1>3. CASE Accept
  <2>1. phase.kind = "proposal"
    BY <1>3 DEF Accept
  <2>2. PICK g : g.at = "apply" /\ g.etag = phase.etag /\ g.body = phase.raw /\ flows' = flows \cup {g}
    BY <1>3 DEF Accept, Sent
  <2>3. phase'.kind = "applying" /\ phase'.raw = phase.raw /\ phase'.etag = phase.etag
    BY <1>3, <2>1 DEF Accept, PromptInv, PromptTypeOK, Phase, Idle, Error, Running
  <2>4. UNCHANGED <<run, version>>
    BY <1>3 DEF Accept, fileVars
  <2> QED
    BY <2>1, <2>2, <2>3, <2>4 DEF TagBeforeEntry, ShownAsMade, ProposalOfSelected, MadeFrom
<1>4. ASSUME phase'.kind = "idle" \/ (UNCHANGED <<phase, run>> /\ (selected' = selected \/ phase.kind = "applying")),
             flows' = flows, version' \in Nat, version' >= version
      PROVE  TagBeforeEntry' /\ ShownAsMade' /\ ProposalOfSelected'
  <2>1. \A x \in flows : x.etag \in Nat /\ x.body.read \in Nat
    BY PromptAssumption DEF Flow, Body
  <2>2. TagBeforeEntry'
    BY <1>4, <2>1 DEF TagBeforeEntry
  <2> QED
    BY <1>4, <2>2 DEF ShownAsMade, ProposalOfSelected
<1>5. CASE Withdraw \/ Reject
  BY <1>4, <1>5 DEF Withdraw, Reject, Idle, fileVars
<1>6. ASSUME NEW e \in Entries \cup {None}, Select(e)
      PROVE  TagBeforeEntry' /\ ShownAsMade' /\ ProposalOfSelected'
  BY <1>4, <1>5, <1>6 DEF Select, fileVars
<1>7. CASE EditOutside \/ Focus \/ UNCHANGED promptVars
  BY <1>4, <1>7 DEF EditOutside, Focus, promptVars
<1> QED
  BY <1>1, <1>2, <1>3, <1>5, <1>6, <1>7 DEF PromptNext, Cancel, Remount

LEMMA StepWritten == PromptInv /\ [PromptNext]_promptVars => WrittenAsSeen'
<1> SUFFICES ASSUME PromptInv, [PromptNext]_promptVars, replaced' # replaced PROVE WrittenAsSeen'
  BY DEF PromptInv, WrittenAsSeen
<1>1. PICK f \in flows : ServeApply(f)
  BY DEF PromptNext, Advance, ReadTag, ReadEntry, GiveUp, StartRun, EndRun, Outcome, Preview, ApplyEnds,
    Submit, Accept, Cancel, Reject, Select, Remount, Withdraw, EditOutside, Focus, promptVars, fileVars
<1>2. f.at = "apply" /\ f.etag = version
      /\ replaced' = replaced \cup {[body |-> FormatBody(f.body), over |-> version]}
  BY <1>1 DEF ServeApply, fileVars
<1>3. f.body \in Body /\ f.body.read = version /\ f.body.formatted = 0
  BY <1>2 DEF PromptInv, PromptTypeOK, Flow, TagBeforeEntry, MadeFrom, ApplyPlaces
<1>4. FormatBody(f.body).read = version /\ FormatBody(f.body).formatted = 1
  BY <1>3 DEF FormatBody, Body
<1> QED
  BY <1>2, <1>4 DEF PromptInv, WrittenAsSeen

\* The answer of a write goes on until it has been read again.
LEMMA StepUnseen == PromptInv /\ [PromptNext]_promptVars => UnseenIsAnswered'
<1> SUFFICES ASSUME PromptInv, [PromptNext]_promptVars, unseen'
             PROVE  \E f \in flows' : f.at = "applied" /\ f.end = "ok"
  BY DEF UnseenIsAnswered
<1>1. ASSUME NEW f \in flows, ServeApply(f), unseen' # unseen
      PROVE  \E g \in flows' : g.at = "applied" /\ g.end = "ok"
  <2> DEFINE g == [f EXCEPT !.at = "applied", !.end = "ok"]
  <2>1. g \in flows'
    BY <1>1 DEF ServeApply, GoOn, fileVars
  <2>2. g.at = "applied" /\ g.end = "ok"
    BY DEF PromptInv, PromptTypeOK, Flow
  <2> QED
    BY <2>1, <2>2
<1>2. CASE unseen' # unseen
  <2>1. \E f \in flows : ServeApply(f)
    BY <1>2 DEF PromptNext, Advance, ReadTag, ReadEntry, GiveUp, StartRun, EndRun, Outcome, Preview, ApplyEnds,
      Submit, Accept, Cancel, Reject, Select, Remount, Withdraw, EditOutside, Focus, promptVars, fileVars,
      PromptInv, PromptTypeOK
  <2> QED
    BY <1>1, <1>2, <2>1
<1>3. CASE unseen' = unseen
  <2>1. PICK w \in flows : w.at = "applied" /\ w.end = "ok"
    BY <1>3 DEF PromptInv, UnseenIsAnswered
  <2>2. ASSUME NEW f \in flows, Advance(f), f.at # "applied" PROVE w \in flows'
    BY <2>1, <2>2 DEF Advance, ReadTag, ReadEntry, GiveUp, StartRun, EndRun, Outcome, Preview, ServeApply,
      ApplyEnds, GoOn, End
  <2>3. ASSUME NEW f \in flows, Advance(f), f.at = "applied" PROVE w \in flows'
    <3>1. ApplyEnds(f)
      BY <2>3 DEF Advance, ReadTag, ReadEntry, GiveUp, StartRun, EndRun, Outcome, Preview, ServeApply
    <3>2. f.end # "ok"
      BY <3>1 DEF ApplyEnds
    <3> QED
      BY <2>1, <3>1, <3>2 DEF ApplyEnds, End
  <2>4. ASSUME ~\E f \in flows : Advance(f) PROVE w \in flows'
    <3>1. CASE Submit \/ Accept
      BY <2>1, <3>1 DEF Submit, Accept
    <3>2. CASE Withdraw \/ Reject \/ EditOutside \/ Focus \/ UNCHANGED promptVars
      BY <2>1, <3>2 DEF Withdraw, Reject, EditOutside, Focus, promptVars
    <3>3. ASSUME NEW e \in Entries \cup {None}, Select(e) PROVE w \in flows'
      BY <2>1, <3>2, <3>3 DEF Select
    <3> QED
      BY <2>4, <3>1, <3>2, <3>3 DEF PromptNext, Cancel, Remount
  <2> QED
    BY <2>1, <2>2, <2>3, <2>4
<1> QED
  BY <1>2, <1>3

LEMMA StepCancel == PromptInv /\ [PromptNext]_promptVars => CancelHitsNoLater'
<1> SUFFICES ASSUME PromptInv, [PromptNext]_promptVars PROVE CancelHitsNoLater'
  OBVIOUS
<1> run \in Nat /\ running \in Nat /\ running <= run /\ CancelHitsNoLater
  BY PromptAssumption DEF PromptInv, PromptTypeOK, OneFlowPerRun
<1>1. CASE Withdraw \/ Submit
  <2>1. running' = running /\ run' = run + 1
    BY <1>1 DEF Withdraw, Submit, shellVars
  <2> QED
    BY <2>1 DEF CancelHitsNoLater
<1>2. ASSUME run' = run, cancel' = cancel, running' \in {0, running} PROVE CancelHitsNoLater'
  BY <1>2 DEF CancelHitsNoLater
<1>3. ASSUME NEW f \in flows, Advance(f) PROVE CancelHitsNoLater'
  <2>1. CASE StartRun(f)
    BY <1>2, <2>1 DEF StartRun, shellVars, CancelHitsNoLater
  <2>2. CASE EndRun(f)
    BY <1>2, <2>2 DEF EndRun
  <2> QED
    BY <1>2, <1>3, <2>1, <2>2 DEF Advance, ReadTag, ReadEntry, GiveUp, Outcome, Preview, ServeApply,
      ApplyEnds, shellVars
<1> QED
  BY <1>1, <1>2, <1>3 DEF PromptNext, Accept, Cancel, Reject, Select, Remount, EditOutside, Focus, promptVars,
    shellVars

LEMMA StepPromptInv == PromptInv /\ [PromptNext]_promptVars => PromptInv'
BY StepTypeOK, StepFlows, StepShown, StepWritten, StepUnseen, StepCancel DEF PromptInv

-------------------------------------------------------------------------------
LEMMA PromptInvariant == PromptSpec => []PromptInv
BY InitPromptInv, StepPromptInv, PTL DEF PromptSpec

(***************************************************************************)
(* usePrompt.  The author decides: what can be accepted is a proposal for  *)
(* the entry selected, of the last submit, and what was written is what    *)
(* was shown, over the version the assistant was given.                    *)
(***************************************************************************)
THEOREM AuthorAlwaysDecides == PromptSpec => []AuthorDecides
<1>1. PromptInv => AuthorDecides
  BY DEF PromptInv, AuthorDecides, ProposalIsCurrent, ProposalOfSelected, BoxWaitsForFlow
<1> QED
  BY <1>1, PromptInvariant, PTL

(***************************************************************************)
(* A write that the panes have not read has its answer on the way, which   *)
(* makes them read.                                                        *)
(***************************************************************************)
THEOREM WritesComeBack == PromptSpec => []WritesAreShown
<1>1. PromptInv => WritesAreShown
  BY DEF PromptInv, UnseenIsAnswered, WritesAreShown
<1> QED
  BY <1>1, PromptInvariant, PTL

(***************************************************************************)
(* The cancel of one run never stops the run of a later submit.            *)
(***************************************************************************)
THEOREM CancelStopsItsRun == PromptSpec => []CancelHitsNoLater
<1>1. PromptInv => CancelHitsNoLater
  BY DEF PromptInv
<1> QED
  BY <1>1, PromptInvariant, PTL

-------------------------------------------------------------------------------
(***************************************************************************)
(* The product tree, for any entries and links and whichever child the     *)
(* walk looks at next: when it ends, the components are the link cycles,   *)
(* and the roots are those that RootsAreLowest calls for.                  *)
(*                                                                         *)
(* The invariant is that of Tarjan's pass.  The entries on the stack are   *)
(* above each other in the order in which they were met, and each is above *)
(* the entry of a frame that was met no later (StackIsAbove).  low is the  *)
(* number of an entry that the frame leads to, and no link that was looked *)
(* at leads to a lower one on the stack (LowIsLowest).  So the entries     *)
(* that a frame takes off the stack lead to themselves and to closed ones  *)
(* only, which are below each other just if they have one component        *)
(* (ClosedAreCycles).                                                      *)
(***************************************************************************)
Left(s) == {s[i] : i \in 1..Len(s)}

Gray == {frames[k].id : k \in 1..Len(frames)}
Closed == {i \in entries : component[i] # 0}

\* The entries from that of frame k to that of the next.
InSegment(k, v) ==
  /\ number[frames[k].id] <= number[v]
  /\ k < Len(frames) => number[v] < number[frames[k + 1].id]

TreeTyped ==
  /\ entries \in SUBSET DisplayIds /\ links \in SUBSET (DisplayIds \X DisplayIds)
  /\ number \in [DisplayIds -> Nat] /\ low \in [DisplayIds -> Nat] /\ component \in [DisplayIds -> Nat]
  /\ stack \in Seq(entries) /\ frames \in Seq([id : entries, todo : SUBSET entries])

InOrder ==
  /\ \A i \in Met : number[i] <= Cardinality(Met)
  /\ \A i, j \in Met : number[i] = number[j] => i = j
  /\ \A m, n \in 1..Len(stack) : m < n => number[stack[m]] < number[stack[n]]
  /\ \A m, n \in 1..Len(frames) : m < n => number[frames[m].id] < number[frames[n].id]

\* The stack has the entries met whose cycle is not known, those of the frames among them.
StackIsOpen ==
  /\ Left(stack) = Met \ Closed /\ Closed \subseteq Met /\ Gray \subseteq Left(stack)

ChildrenAreMet ==
  /\ \A v \in Met \ Gray : ChildrenOf(v) \subseteq Met
  /\ \A k \in 1..Len(frames) :
       /\ frames[k].todo \subseteq ChildrenOf(frames[k].id)
       /\ ChildrenOf(frames[k].id) \ frames[k].todo \subseteq Met

\* What is below a closed cycle is closed, and entries have one component exactly
\* if they are above each other.
ClosedAreCycles ==
  /\ \A v \in Closed : ChildrenOf(v) \subseteq Closed /\ component[v] \in Closed
  /\ \A i, j \in Closed : component[i] = component[j] <=> i \in Ancestors(j) /\ j \in Ancestors(i)

\* Earlier entries on the stack are above later ones, and each is above that of a
\* frame which was met no later.
StackIsAbove ==
  /\ \A u, v \in Left(stack) : number[u] <= number[v] => u \in Ancestors(v)
  /\ \A v \in Left(stack) : \E g \in Gray : number[g] <= number[v] /\ v \in Ancestors(g)

\* low is the number of an entry on the stack below that of the frame, and none
\* that a link from its segment leads to has a lower one.
LowIsLowest ==
  /\ \A g \in Gray : low[g] <= number[g] /\ \E w \in Left(stack) : number[w] = low[g] /\ g \in Ancestors(w)
  /\ \A k \in 1..Len(frames), v \in Left(stack) : InSegment(k, v) =>
       \A c \in ChildrenOf(v) \cap Left(stack) :
         (v = frames[k].id => c \notin frames[k].todo) => low[frames[k].id] <= number[c]

TreeInv ==
  /\ TreeTyped /\ InOrder /\ StackIsOpen /\ ChildrenAreMet /\ ClosedAreCycles
  /\ StackIsAbove /\ LowIsLowest

-------------------------------------------------------------------------------
LEMMA EdgeIs ==
  ASSUME TreeTyped
  PROVE  /\ \A e \in Edges : e[1] \in entries /\ e[2] \in entries /\ e[1] # e[2] /\ e[1] \in ChildrenOf(e[2])
         /\ \A p \in entries : \A c \in ChildrenOf(p) : c \in entries /\ c # p /\ <<c, p>> \in Edges
<1>1. ASSUME NEW e \in Edges
      PROVE  e[1] \in entries /\ e[2] \in entries /\ e[1] # e[2] /\ e[1] \in ChildrenOf(e[2])
  <2>1. e \in DisplayIds \X DisplayIds /\ e[1] \in entries /\ e[2] \in entries /\ e[1] # e[2]
    BY DEF Edges, TreeTyped
  <2>2. e = <<e[1], e[2]>>
    BY <2>1
  <2> QED
    BY <2>1, <2>2 DEF ChildrenOf
<1>2. ASSUME NEW p \in entries, NEW c \in ChildrenOf(p)
      PROVE  c \in entries /\ c # p /\ <<c, p>> \in Edges
  <2>1. c \in entries /\ <<c, p>> \in Edges
    BY DEF ChildrenOf
  <2>2. <<c, p>>[1] # <<c, p>>[2]
    BY <2>1 DEF Edges
  <2> QED
    BY <2>1, <2>2
<1> QED
  BY <1>1, <1>2

LEMMA AncestorsAre ==
  ASSUME TreeTyped
  PROVE  /\ \A i \in entries : i \in Ancestors(i)
         /\ \A i, j, k : j \in Ancestors(i) /\ k \in Ancestors(j) => k \in Ancestors(i)
         /\ \A p \in entries : \A c \in ChildrenOf(p) : p \in Ancestors(c)
<1>1. ASSUME NEW i, NEW j \in Ancestors(i), NEW k \in Ancestors(j) PROVE k \in Ancestors(i)
  BY DEF Ancestors
<1>2. ASSUME NEW p \in entries, NEW c \in ChildrenOf(p) PROVE p \in Ancestors(c)
  <2>1. <<c, p>> \in Edges
    BY EdgeIs
  <2>2. ASSUME NEW S \in SUBSET entries, c \in S, \A e \in Edges : e[1] \in S => e[2] \in S PROVE p \in S
    <3>1. <<c, p>>[1] = c /\ <<c, p>>[2] = p
      OBVIOUS
    <3> QED
      BY <2>1, <2>2, <3>1
  <2> QED
    BY <2>2 DEF Ancestors
<1>3. \A i \in entries : i \in Ancestors(i)
  BY DEF Ancestors
<1> QED
  BY <1>1, <1>2, <1>3

\* What is below a set that has the children of its members is in the set.
LEMMA BelowStays ==
  ASSUME TreeTyped, NEW G \in SUBSET entries, \A v \in G : ChildrenOf(v) \subseteq G,
         NEW y \in G, NEW x \in entries, y \in Ancestors(x)
  PROVE  x \in G
<1> DEFINE S == entries \ G
<1> SUFFICES ASSUME x \notin G PROVE FALSE
  OBVIOUS
<1>1. ASSUME NEW e \in Edges, e[1] \in S PROVE e[2] \in S
  BY <1>1, EdgeIs
<1>2. x \in S /\ S \in SUBSET entries
  OBVIOUS
<1>3. y \in S
  <2> HIDE DEF S
  <2> QED
    BY <1>1, <1>2 DEF Ancestors
<1> QED
  BY <1>3

LEMMA EntriesStay ==
  ASSUME UNCHANGED <<entries, links>>
  PROVE  /\ Edges' = Edges /\ (\A p : ChildrenOf(p)' = ChildrenOf(p))
         /\ \A i : Ancestors(i)' = Ancestors(i)
<1>1. Edges' = Edges
  BY DEF Edges
<1>2. \A p : ChildrenOf(p)' = ChildrenOf(p)
  BY <1>1 DEF ChildrenOf
<1>3. \A i : Ancestors(i)' = Ancestors(i)
  BY <1>1 DEF Ancestors
<1> QED
  BY <1>1, <1>2, <1>3

LEMMA MetIsFinite ==
  ASSUME TreeTyped
  PROVE  IsFiniteSet(Met) /\ Cardinality(Met) \in Nat /\ Met \subseteq entries
<1>1. Met \in SUBSET DisplayIds /\ Met \subseteq entries
  BY DEF Met, TreeTyped
<1>2. IsFiniteSet(Met)
  BY <1>1, FS_Subset, TreeAssumption
<1> QED
  BY <1>1, <1>2, FS_CardinalityType

\* The frames that are left when an entry is met: the last one has looked at it.
Below(below, i) ==
  /\ below \in Seq([id : entries, todo : SUBSET entries]) /\ Len(below) = Len(frames)
  /\ \A k \in 1..Len(frames) :
       /\ below[k].id = frames[k].id
       /\ below[k].todo = IF k = Len(frames) THEN frames[k].todo \ {i} ELSE frames[k].todo
  /\ frames # <<>> => i \in ChildrenOf(frames[Len(frames)].id)

LEMMA MeetMoves ==
  ASSUME TreeInv, NEW i \in entries \ Met, NEW below, Below(below, i), Meet(i, below)
  PROVE  /\ entries' = entries /\ links' = links /\ component' = component
         /\ Met' = Met \cup {i} /\ Cardinality(Met') = Cardinality(Met) + 1
         /\ number' \in [DisplayIds -> Nat] /\ number'[i] = Cardinality(Met) + 1
         /\ \A j \in Met : number'[j] = number[j] /\ low'[j] = low[j]
         /\ low' \in [DisplayIds -> Nat] /\ low'[i] = Cardinality(Met) + 1
         /\ stack' \in Seq(entries) /\ Len(stack') = Len(stack) + 1 /\ stack'[Len(stack) + 1] = i
         /\ \A m \in 1..Len(stack) : stack'[m] = stack[m]
         /\ frames' \in Seq([id : entries, todo : SUBSET entries]) /\ Len(frames') = Len(frames) + 1
         /\ \A k \in 1..Len(frames) :
              /\ frames'[k].id = frames[k].id
              /\ frames'[k].todo = IF k = Len(frames) THEN frames[k].todo \ {i} ELSE frames[k].todo
         /\ frames'[Len(frames) + 1].id = i /\ frames'[Len(frames) + 1].todo = ChildrenOf(i)
<1> DEFINE n == Cardinality(Met) + 1
<1>1. TreeTyped /\ n \in Nat /\ n # 0 /\ i \in DisplayIds /\ Met \subseteq entries /\ entries \subseteq DisplayIds
  BY MetIsFinite DEF TreeInv, TreeTyped
<1>2. /\ frames' = Append(below, [id |-> i, todo |-> ChildrenOf(i)])
      /\ number' = [number EXCEPT ![i] = n] /\ low' = [low EXCEPT ![i] = n] /\ stack' = Append(stack, i)
      /\ entries' = entries /\ links' = links /\ component' = component
  BY DEF Meet
<1> HIDE DEF n
<1>3. /\ number' \in [DisplayIds -> Nat] /\ number'[i] = n
      /\ low' \in [DisplayIds -> Nat] /\ low'[i] = n
      /\ \A j \in DisplayIds \ {i} : number'[j] = number[j] /\ low'[j] = low[j]
  BY <1>1, <1>2 DEF TreeTyped
<1>4. Met' = Met \cup {i}
  BY <1>1, <1>2, <1>3 DEF Met
<1>5. Cardinality(Met') = n
  BY <1>1, <1>4, MetIsFinite, FS_AddElement DEF n
<1>6. /\ stack' \in Seq(entries) /\ Len(stack') = Len(stack) + 1 /\ stack'[Len(stack) + 1] = i
      /\ \A m \in 1..Len(stack) : stack'[m] = stack[m]
  BY <1>1, <1>2 DEF TreeTyped
<1> DEFINE frame == [id |-> i, todo |-> ChildrenOf(i)]
<1>7. frame \in [id : entries, todo : SUBSET entries] /\ frame.id = i /\ frame.todo = ChildrenOf(i)
  BY DEF ChildrenOf
<1>8. PICK R : R = [id : entries, todo : SUBSET entries]
  OBVIOUS
<1>9. below \in Seq(R) /\ frame \in R /\ Len(below) = Len(frames)
  BY <1>7, <1>8, Zenon DEF Below
<1> HIDE DEF frame
<1>10. /\ frames' \in Seq(R) /\ Len(frames') = Len(frames) + 1 /\ frames'[Len(frames) + 1] = frame
       /\ \A k \in 1..Len(frames) : frames'[k] = below[k]
  BY <1>2, <1>9 DEF frame
<1>11. \A k \in 1..Len(frames) :
         /\ frames'[k].id = frames[k].id
         /\ frames'[k].todo = IF k = Len(frames) THEN frames[k].todo \ {i} ELSE frames[k].todo
  BY <1>10 DEF Below
<1>12. frames' \in Seq([id : entries, todo : SUBSET entries])
  BY <1>8, <1>10, Zenon
<1>13. \A j \in Met : number'[j] = number[j] /\ low'[j] = low[j]
  BY <1>1, <1>3
<1>14. frames'[Len(frames) + 1].id = i /\ frames'[Len(frames) + 1].todo = ChildrenOf(i)
  BY <1>7, <1>10
<1> QED
  BY <1>2, <1>3, <1>4, <1>5, <1>6, <1>10, <1>11, <1>12, <1>13, <1>14 DEF n

LEMMA MeetKeeps ==
  ASSUME TreeInv, NEW i \in entries \ Met, NEW below, Below(below, i), Meet(i, below)
  PROVE  TreeInv'
<1> DEFINE n == Cardinality(Met) + 1
           L == Len(frames)
           K == Len(stack)
           t == frames[L].id
<1>1. TreeTyped /\ InOrder /\ StackIsOpen /\ ChildrenAreMet /\ ClosedAreCycles /\ StackIsAbove /\ LowIsLowest
  BY DEF TreeInv
<1>2. /\ n \in Nat /\ K \in Nat /\ L \in Nat /\ Met \subseteq entries /\ i \in entries /\ i \notin Met
      /\ \A j \in Met : number[j] \in Nat /\ number[j] < n
      /\ \A g \in Gray : g \in Met /\ low[g] \in Nat
  BY <1>1, MetIsFinite DEF TreeTyped, InOrder, StackIsOpen
<1>3. /\ entries' = entries /\ links' = links /\ component' = component
      /\ Met' = Met \cup {i} /\ Cardinality(Met') = n
      /\ number' \in [DisplayIds -> Nat] /\ number'[i] = n
      /\ \A j \in Met : number'[j] = number[j] /\ low'[j] = low[j]
      /\ low' \in [DisplayIds -> Nat] /\ low'[i] = n
      /\ stack' \in Seq(entries) /\ Len(stack') = K + 1 /\ stack'[K + 1] = i
      /\ \A m \in 1..K : stack'[m] = stack[m]
      /\ frames' \in Seq([id : entries, todo : SUBSET entries]) /\ Len(frames') = L + 1
      /\ \A k \in 1..L :
           /\ frames'[k].id = frames[k].id
           /\ frames'[k].todo = IF k = L THEN frames[k].todo \ {i} ELSE frames[k].todo
      /\ frames'[L + 1].id = i /\ frames'[L + 1].todo = ChildrenOf(i)
  BY MeetMoves
<1>4. TreeTyped'
  BY <1>1, <1>3 DEF TreeTyped
<1>5. \A k \in 1..L : frames[k].id \in Gray
  BY DEF Gray
<1>6. L # 0 => L \in 1..L /\ i \in ChildrenOf(t) /\ t \in Gray /\ \A g \in Gray : number[g] <= number[t]
  <2>1. SUFFICES ASSUME L # 0 PROVE L \in 1..L /\ i \in ChildrenOf(t) /\ t \in Gray /\ \A g \in Gray : number[g] <= number[t]
    OBVIOUS
  <2>2. L \in 1..L /\ frames # <<>>
    BY <1>2, <2>1
  <2>3. ASSUME NEW k \in 1..L PROVE number[frames[k].id] <= number[t]
    <3>1. k = L \/ k < L
      BY <1>2
    <3> QED
      BY <1>1, <1>2, <1>5, <2>2, <3>1 DEF InOrder
  <2> QED
    BY <2>2, <2>3 DEF Below, Gray
<1> HIDE DEF n, L, K, t
<1>7. Left(stack') = Left(stack) \cup {i}
  <2>1. ASSUME NEW m \in 1..(K + 1) PROVE stack'[m] \in Left(stack) \cup {i}
    <3>1. m \in 1..K \/ m = K + 1
      BY <1>2
    <3>2. m \in 1..K => stack'[m] = stack[m] /\ stack[m] \in Left(stack)
      BY <1>3 DEF Left, K
    <3> QED
      BY <1>3, <3>1, <3>2
  <2>2. ASSUME NEW m \in 1..K PROVE stack[m] \in Left(stack')
    BY <1>2, <1>3 DEF Left
  <2>3. i \in Left(stack')
    BY <1>2, <1>3 DEF Left
  <2> QED
    BY <1>3, <2>1, <2>2, <2>3 DEF Left, K
<1>8. Gray' = Gray \cup {i}
  <2>1. ASSUME NEW k \in 1..(L + 1) PROVE frames'[k].id \in Gray \cup {i}
    <3>1. k \in 1..L \/ k = L + 1
      BY <1>2
    <3> QED
      BY <1>3, <1>5, <3>1
  <2>2. Gray' = {frames'[k].id : k \in 1..(L + 1)}
    BY <1>3 DEF Gray
  <2>3. ASSUME NEW k \in 1..L PROVE frames[k].id \in Gray'
    <3>1. k \in 1..(L + 1)
      BY <1>2
    <3> QED
      BY <1>3, <2>2, <3>1
  <2>4. i \in Gray'
    <3>1. L + 1 \in 1..(L + 1)
      BY <1>2
    <3> QED
      BY <1>3, <2>2, <3>1
  <2>5. Gray = {frames[k].id : k \in 1..L}
    BY DEF Gray, L
  <2> QED
    BY <2>1, <2>2, <2>3, <2>4, <2>5
<1>9. InOrder'
  <2>1. \A m \in 1..K : stack[m] \in Met
    BY <1>1 DEF StackIsOpen, Left, K
  <2>2. ASSUME NEW m \in 1..(K + 1), NEW o \in 1..(K + 1), m < o
        PROVE  number'[stack'[m]] < number'[stack'[o]]
    <3>1. m \in 1..K /\ (o \in 1..K \/ o = K + 1)
      BY <1>2, <2>2
    <3>2. stack'[m] = stack[m] /\ number'[stack[m]] = number[stack[m]] /\ number[stack[m]] < n
      BY <1>2, <1>3, <2>1, <3>1
    <3>3. CASE o \in 1..K
      <4>1. number[stack[m]] < number[stack[o]]
        BY <1>1, <2>2, <3>1, <3>3 DEF InOrder, K
      <4> QED
        BY <1>3, <2>1, <3>2, <3>3, <4>1
    <3>4. CASE o = K + 1
      BY <1>3, <3>2, <3>4
    <3> QED
      BY <3>1, <3>3, <3>4
  <2>3. ASSUME NEW m \in 1..(L + 1), NEW o \in 1..(L + 1), m < o
        PROVE  number'[frames'[m].id] < number'[frames'[o].id]
    <3>1. m \in 1..L /\ (o \in 1..L \/ o = L + 1)
      BY <1>2, <2>3
    <3>2. \A k \in 1..L : frames[k].id \in Met /\ number'[frames[k].id] = number[frames[k].id]
      BY <1>2, <1>3, <1>5
    <3>3. frames'[m].id = frames[m].id /\ number[frames[m].id] < n
      BY <1>2, <1>3, <3>1, <3>2
    <3>4. CASE o \in 1..L
      <4>1. number[frames[m].id] < number[frames[o].id]
        BY <1>1, <2>3, <3>1, <3>4 DEF InOrder, L
      <4>2. frames'[o].id = frames[o].id
        BY <1>3, <3>4
      <4>3. number'[frames[m].id] = number[frames[m].id] /\ number'[frames[o].id] = number[frames[o].id]
        BY <3>1, <3>2, <3>4
      <4> QED
        BY <3>3, <4>1, <4>2, <4>3
    <3>5. CASE o = L + 1
      BY <1>3, <3>1, <3>2, <3>3, <3>5
    <3> QED
      BY <3>1, <3>4, <3>5
  <2>4. \A j \in Met' : number'[j] <= Cardinality(Met')
    BY <1>2, <1>3
  <2>5. \A j, k \in Met' : number'[j] = number'[k] => j = k
    <3>1. \A j, k \in Met : number[j] = number[k] => j = k
      BY <1>1 DEF InOrder
    <3>2. \A j \in Met : number'[j] = number[j] /\ number[j] # n
      BY <1>2, <1>3
    <3> QED
      BY <1>3, <3>1, <3>2
  <2> QED
    BY <1>3, <2>2, <2>3, <2>4, <2>5 DEF InOrder
<1>10. Closed' = Closed /\ i \notin Closed /\ i \notin Left(stack)
  BY <1>1, <1>2, <1>3 DEF Closed, StackIsOpen
<1>11. StackIsOpen'
  BY <1>1, <1>3, <1>7, <1>8, <1>10 DEF StackIsOpen
<1>12. /\ \A p : ChildrenOf(p)' = ChildrenOf(p)
       /\ \A j : Ancestors(j)' = Ancestors(j)
  BY <1>3, EntriesStay
<1>13. ChildrenAreMet'
  <2>1. ASSUME NEW v \in Met' \ Gray' PROVE ChildrenOf(v) \subseteq Met'
    BY <1>1, <1>3, <1>8 DEF ChildrenAreMet
  <2>2. ASSUME NEW k \in 1..(L + 1)
        PROVE  /\ frames'[k].todo \subseteq ChildrenOf(frames'[k].id)
               /\ ChildrenOf(frames'[k].id) \ frames'[k].todo \subseteq Met'
    <3>1. CASE k = L + 1
      BY <1>3, <3>1
    <3>2. CASE k \in 1..L
      <4>1. /\ frames[k].todo \subseteq ChildrenOf(frames[k].id)
            /\ ChildrenOf(frames[k].id) \ frames[k].todo \subseteq Met
        BY <1>1, <3>2 DEF ChildrenAreMet, L
      <4> QED
        BY <1>3, <3>2, <4>1
    <3> QED
      BY <1>2, <3>1, <3>2
  <2> QED
    BY <1>3, <1>12, <2>1, <2>2 DEF ChildrenAreMet
<1>14. ClosedAreCycles'
  BY <1>1, <1>3, <1>10, <1>12 DEF ClosedAreCycles
<1>15. i \in Ancestors(i) /\ \A j, k, x : j \in Ancestors(x) /\ k \in Ancestors(j) => k \in Ancestors(x)
  BY <1>1, <1>2, AncestorsAre
<1>16. \A v \in Left(stack) : v \in Met
  BY <1>1 DEF StackIsOpen
<1>17. ASSUME NEW u \in Left(stack) PROVE u \in Ancestors(i)
  <2>1. PICK g \in Gray : number[g] <= number[u] /\ u \in Ancestors(g)
    BY <1>1 DEF StackIsAbove
  <2>2. L # 0
    BY <1>2, <2>1 DEF Gray, L
  <2>3. number[g] <= number[t] /\ g \in Left(stack) /\ t \in Left(stack)
    BY <1>1, <1>6, <2>2 DEF StackIsOpen
  <2>4. g \in Ancestors(t)
    BY <1>1, <2>3 DEF StackIsAbove
  <2>5. t \in Ancestors(i)
    <3>1. t \in entries /\ i \in ChildrenOf(t)
      BY <1>2, <1>6, <1>16, <2>2, <2>3
    <3> QED
      BY <1>1, <3>1, AncestorsAre
  <2> QED
    BY <1>15, <2>1, <2>4, <2>5
<1>18. StackIsAbove'
  <2>1. ASSUME NEW u \in Left(stack'), NEW v \in Left(stack'), number'[u] <= number'[v]
        PROVE  u \in Ancestors(v)
    <3>1. CASE v = i
      BY <1>7, <1>15, <1>17, <3>1
    <3>2. CASE v # i
      <4>1. v \in Left(stack) /\ u # i
        BY <1>2, <1>3, <1>7, <1>16, <2>1, <3>2
      <4> QED
        BY <1>1, <1>3, <1>7, <1>16, <2>1, <4>1 DEF StackIsAbove
    <3> QED
      BY <3>1, <3>2
  <2>2. ASSUME NEW v \in Left(stack')
        PROVE  \E g \in Gray' : number'[g] <= number'[v] /\ v \in Ancestors(g)
    <3>1. CASE v = i
      BY <1>2, <1>3, <1>8, <1>15, <3>1
    <3>2. CASE v # i
      <4>1. PICK g \in Gray : number[g] <= number[v] /\ v \in Ancestors(g)
        BY <1>1, <1>7, <3>2 DEF StackIsAbove
      <4> QED
        BY <1>2, <1>3, <1>7, <1>8, <1>16, <3>2, <4>1
    <3> QED
      BY <3>1, <3>2
  <2> QED
    BY <1>12, <2>1, <2>2 DEF StackIsAbove
<1>19. LowIsLowest'
  <2>1. ASSUME NEW g \in Gray'
        PROVE  low'[g] <= number'[g] /\ \E w \in Left(stack') : number'[w] = low'[g] /\ g \in Ancestors(w)
    <3>1. CASE g = i
      BY <1>2, <1>3, <1>7, <1>15, <3>1
    <3>2. CASE g # i
      <4>1. g \in Gray /\ low[g] <= number[g]
        BY <1>1, <1>8, <3>2 DEF LowIsLowest
      <4>2. PICK w \in Left(stack) : number[w] = low[g] /\ g \in Ancestors(w)
        BY <1>1, <4>1 DEF LowIsLowest
      <4> QED
        BY <1>2, <1>3, <1>7, <1>16, <4>1, <4>2
    <3> QED
      BY <3>1, <3>2
  <2>2. ASSUME NEW k \in 1..(L + 1), NEW v \in Left(stack'), InSegment(k, v)', NEW c \in ChildrenOf(v) \cap Left(stack'),
               v = frames'[k].id => c \notin frames'[k].todo
        PROVE  low'[frames'[k].id] <= number'[c]
    <3>0. number'[frames'[k].id] <= number'[v] /\ (k < L + 1 => number'[v] < number'[frames'[k + 1].id])
      BY <1>3, <2>2 DEF InSegment
    <3>1. CASE k = L + 1
      <4>1. v = i
        BY <1>2, <1>3, <1>7, <1>16, <3>0, <3>1
      <4> QED
        BY <1>3, <2>2, <3>1, <4>1
    <3>2. CASE k \in 1..L
      <4>1. frames'[k].id = frames[k].id /\ frames[k].id \in Met /\ low'[frames[k].id] = low[frames[k].id]
        BY <1>2, <1>3, <1>5, <3>2
      <4>2. v # i
        <5>1. k + 1 \in 1..(L + 1) /\ k < L + 1
          BY <1>2, <3>2
        <5>2. frames'[k + 1].id \in Met'
          <6>1. k + 1 \in 1..L \/ k + 1 = L + 1
            BY <1>2, <5>1
          <6> QED
            BY <1>2, <1>3, <1>5, <6>1
        <5>3. number'[frames'[k + 1].id] <= n /\ number'[frames'[k + 1].id] \in Nat
          <6>1. \A j \in Met' : number'[j] <= n /\ number'[j] \in Nat
            BY <1>2, <1>3
          <6> QED
            BY <5>2, <6>1
        <5>4. number'[v] < number'[frames'[k + 1].id]
          BY <3>0, <5>1
        <5> QED
          BY <1>2, <1>3, <5>3, <5>4
      <4>3. v \in Left(stack) /\ number[frames[k].id] <= number[v]
        BY <1>3, <1>7, <1>16, <3>0, <4>1, <4>2
      <4>4. InSegment(k, v)
        <5>1. ASSUME k < L PROVE number[v] < number[frames[k + 1].id]
          <6>1. k + 1 \in 1..L /\ k < L + 1
            BY <1>2, <3>2, <5>1
          <6> QED
            BY <1>2, <1>3, <1>5, <1>16, <3>0, <4>3, <6>1
        <5> QED
          BY <4>3, <5>1 DEF InSegment, L
      <4>5. CASE c = i
        <5>1. low[frames[k].id] <= number[frames[k].id] /\ number[frames[k].id] < n /\ low[frames[k].id] \in Nat
              /\ number[frames[k].id] \in Nat
          BY <1>1, <1>2, <1>5, <3>2, <4>1 DEF LowIsLowest
        <5> QED
          BY <1>2, <1>3, <4>1, <4>5, <5>1
      <4>6. CASE c # i
        <5>1. c \in ChildrenOf(v) \cap Left(stack)
          BY <1>7, <4>6
        <5>2. v = frames[k].id => c \notin frames[k].todo
          BY <1>3, <2>2, <3>2, <4>1, <4>6
        <5>3. low[frames[k].id] <= number[c]
          BY <1>1, <3>2, <4>3, <4>4, <5>1, <5>2 DEF LowIsLowest, L
        <5> QED
          BY <1>3, <1>16, <4>1, <5>1, <5>3
      <4> QED
        BY <4>5, <4>6
    <3> QED
      BY <1>2, <3>1, <3>2
  <2> QED
    BY <1>3, <1>12, <2>1, <2>2 DEF LowIsLowest
<1> QED
  BY <1>4, <1>9, <1>11, <1>13, <1>14, <1>18, <1>19 DEF TreeInv

LEMMA MinOfTwo ==
  ASSUME NEW a \in Nat, NEW b \in Nat
  PROVE  Min({a, b}) \in {a, b} /\ Min({a, b}) <= a /\ Min({a, b}) <= b /\ Min({a, b}) \in Nat
<1>1. \E x \in {a, b} : \A y \in {a, b} : x <= y
  <2>1. CASE a <= b
    BY <2>1
  <2>2. CASE ~(a <= b)
    BY <2>2
  <2> QED
    BY <2>1, <2>2
<1>2. Min({a, b}) \in {a, b} /\ \A y \in {a, b} : Min({a, b}) <= y
  BY <1>1 DEF Min
<1> QED
  BY <1>2

LEMMA FrontIs ==
  ASSUME NEW R, NEW s \in Seq(R), s # <<>>
  PROVE  /\ Front(s) \in Seq(R) /\ Len(Front(s)) = Len(s) - 1
         /\ \A k \in 1..(Len(s) - 1) : Front(s)[k] = s[k]
<1> DEFINE L == Len(s)
           front == Front(s)
<1>1. L \in Nat /\ L \in 1..L /\ L - 1 \in Nat /\ \A k \in 1..(L - 1) : s[k] \in R
  OBVIOUS
<1>2. front = [k \in 1..(L - 1) |-> s[k]]
  <2>1. SubSeq(s, 1, L - 1) = [k \in 1..((L - 1) - 1 + 1) |-> s[k + 1 - 1]]
    BY <1>1
  <2>2. (L - 1) - 1 + 1 = L - 1 /\ \A k \in 1..(L - 1) : k + 1 - 1 = k
    BY <1>1
  <2> QED
    BY <2>1, <2>2 DEF Front
<1> HIDE DEF front
<1>3. front \in Seq(R) /\ Len(front) = L - 1 /\ \A k \in 1..(L - 1) : front[k] = s[k]
  BY <1>1, <1>2
<1> QED
  BY <1>3 DEF front

LEMMA LookedIs ==
  ASSUME TreeTyped, frames # <<>>, NEW child
  PROVE  /\ Len(frames) \in 1..Len(frames) /\ Len(frames) \in Nat /\ Top = frames[Len(frames)]
         /\ Top \in [id : entries, todo : SUBSET entries]
         /\ Looked(child) \in Seq([id : entries, todo : SUBSET entries]) /\ Len(Looked(child)) = Len(frames)
         /\ \A k \in 1..Len(frames) :
              /\ Looked(child)[k].id = frames[k].id
              /\ Looked(child)[k].todo = IF k = Len(frames) THEN frames[k].todo \ {child} ELSE frames[k].todo
<1> DEFINE L == Len(frames)
           f == [Top EXCEPT !.todo = @ \ {child}]
<1>1. PICK R : R = [id : entries, todo : SUBSET entries]
  OBVIOUS
<1>2. frames \in Seq(R)
  BY <1>1, Zenon DEF TreeTyped
<1>3. L \in Nat /\ L \in 1..L
  BY <1>2
<1>4. Top = frames[L] /\ Top \in R
  BY <1>2, <1>3 DEF Top, Last
<1>5. f \in R /\ f.id = Top.id /\ f.todo = Top.todo \ {child}
  BY <1>1, <1>4
<1> DEFINE front == Front(frames)
<1> HIDE DEF f
<1>6. front \in Seq(R) /\ Len(front) = L - 1 /\ \A k \in 1..(L - 1) : front[k] = frames[k]
  BY <1>2, FrontIs
<1> HIDE DEF front, L
<1>7. /\ Append(front, f) \in Seq(R) /\ Len(Append(front, f)) = L
      /\ \A k \in 1..(L - 1) : Append(front, f)[k] = frames[k]
      /\ Append(front, f)[L] = f
  BY <1>3, <1>5, <1>6
<1>8. Looked(child) = Append(front, f)
  BY DEF Looked, f, front
<1>9. ASSUME NEW k \in 1..L
      PROVE  /\ Looked(child)[k].id = frames[k].id
             /\ Looked(child)[k].todo = IF k = L THEN frames[k].todo \ {child} ELSE frames[k].todo
  <2>1. k = L \/ (k # L /\ k \in 1..(L - 1))
    BY <1>3
  <2> QED
    BY <1>4, <1>5, <1>7, <1>8, <2>1
<1>10. Looked(child) \in Seq([id : entries, todo : SUBSET entries])
  BY <1>1, <1>7, <1>8, Zenon
<1>11. Top \in [id : entries, todo : SUBSET entries]
  BY <1>1, <1>4, Zenon
<1> QED
  BY <1>3, <1>4, <1>7, <1>8, <1>9, <1>10, <1>11 DEF L

LEMMA SeenKeeps ==
  ASSUME TreeInv, frames # <<>>, NEW child \in Top.todo, Seen(child)
  PROVE  TreeInv'
<1> DEFINE L == Len(frames)
           t == frames[L].id
<1>1. TreeTyped /\ InOrder /\ StackIsOpen /\ ChildrenAreMet /\ ClosedAreCycles /\ StackIsAbove /\ LowIsLowest
  BY DEF TreeInv
<1>2. /\ entries' = entries /\ links' = links /\ component' = component /\ number' = number /\ stack' = stack
      /\ frames' = Looked(child) /\ number[child] # 0
      /\ low' = IF Contains(stack, child) THEN [low EXCEPT ![Top.id] = Min({@, number[child]})] ELSE low
  BY DEF Seen
<1>3. /\ L \in 1..L /\ L \in Nat /\ Top = frames[L] /\ t \in entries /\ Top.id = t
      /\ frames' \in Seq([id : entries, todo : SUBSET entries]) /\ Len(frames') = L
      /\ \A k \in 1..L :
           /\ frames'[k].id = frames[k].id
           /\ frames'[k].todo = IF k = L THEN frames[k].todo \ {child} ELSE frames[k].todo
  BY <1>1, <1>2, LookedIs
<1>4. child \in ChildrenOf(t) /\ child \in frames[L].todo
  BY <1>1, <1>3 DEF ChildrenAreMet
<1>5. \A k \in 1..L : frames[k].id \in Gray
  BY DEF Gray
<1> HIDE DEF L, t
<1>6. Gray' = Gray
  BY <1>3 DEF Gray, L
<1>7. /\ child \in entries /\ child \in Met /\ Met \subseteq entries /\ entries \subseteq DisplayIds
      /\ \A j \in entries : number[j] \in Nat /\ low[j] \in Nat
  BY <1>1, <1>2, <1>4, MetIsFinite DEF ChildrenOf, Met, TreeTyped
<1>8. /\ low' \in [DisplayIds -> Nat] /\ (\A j \in DisplayIds \ {t} : low'[j] = low[j]) /\ low'[t] <= low[t]
      /\ low'[t] # low[t] => child \in Left(stack) /\ low'[t] = number[child]
      /\ child \in Left(stack) => low'[t] <= number[child]
  <2>1. Contains(stack, child) <=> child \in Left(stack)
    BY DEF Contains, Left
  <2>2. low \in [DisplayIds -> Nat] /\ t \in DisplayIds
    BY <1>1, <1>3 DEF TreeTyped
  <2>3. CASE child \in Left(stack)
    <3> DEFINE m == Min({low[t], number[child]})
    <3>1. m \in {low[t], number[child]} /\ m <= low[t] /\ m <= number[child] /\ m \in Nat
      BY <1>3, <1>7, MinOfTwo
    <3> HIDE DEF m
    <3>2. low' = [low EXCEPT ![t] = m]
      BY <1>2, <1>3, <2>1, <2>3 DEF m
    <3> QED
      BY <2>2, <2>3, <3>1, <3>2
  <2>4. CASE child \notin Left(stack)
    <3>1. low' = low
      BY <1>2, <2>1, <2>4
    <3> QED
      BY <1>3, <1>7, <2>2, <2>4, <3>1
  <2> QED
    BY <2>3, <2>4
<1>9. TreeTyped'
  BY <1>1, <1>2, <1>3, <1>8 DEF TreeTyped
<1>10. Met' = Met /\ Closed' = Closed
  BY <1>2 DEF Met, Closed
<1>11. InOrder'
  BY <1>1, <1>2, <1>3, <1>10 DEF InOrder, L
<1>12. StackIsOpen'
  BY <1>1, <1>2, <1>6, <1>10 DEF StackIsOpen
<1>13. /\ \A p : ChildrenOf(p)' = ChildrenOf(p)
       /\ \A j : Ancestors(j)' = Ancestors(j)
  BY <1>2, EntriesStay
<1>14. ChildrenAreMet'
  <2>1. ASSUME NEW k \in 1..L
        PROVE  /\ frames'[k].todo \subseteq ChildrenOf(frames'[k].id)
               /\ ChildrenOf(frames'[k].id) \ frames'[k].todo \subseteq Met
    <3>1. /\ frames[k].todo \subseteq ChildrenOf(frames[k].id)
          /\ ChildrenOf(frames[k].id) \ frames[k].todo \subseteq Met
      BY <1>1 DEF ChildrenAreMet, L
    <3> QED
      BY <1>3, <1>7, <3>1
  <2>2. \A v \in Met \ Gray : ChildrenOf(v) \subseteq Met
    BY <1>1 DEF ChildrenAreMet
  <2> QED
    BY <1>3, <1>6, <1>10, <1>13, <2>1, <2>2 DEF ChildrenAreMet
<1>15. ClosedAreCycles'
  BY <1>1, <1>2, <1>10, <1>13 DEF ClosedAreCycles
<1>16. StackIsAbove'
  BY <1>1, <1>2, <1>6, <1>13 DEF StackIsAbove
<1>17. \A g \in Gray : g \in entries /\ g \in DisplayIds
  BY <1>1, <1>7 DEF StackIsOpen
<1>18. LowIsLowest'
  <2>1. ASSUME NEW g \in Gray
        PROVE  low'[g] <= number[g] /\ \E w \in Left(stack) : number[w] = low'[g] /\ g \in Ancestors(w)
    <3>1. low[g] <= number[g] /\ \E w \in Left(stack) : number[w] = low[g] /\ g \in Ancestors(w)
      BY <1>1 DEF LowIsLowest
    <3>2. CASE g # t \/ low'[t] = low[t]
      BY <1>8, <1>17, <3>1, <3>2
    <3>3. CASE g = t /\ low'[t] # low[t]
      <4>1. child \in Left(stack) /\ low'[t] = number[child] /\ g \in Ancestors(child)
        BY <1>1, <1>3, <1>4, <1>8, <3>3, AncestorsAre
      <4>2. low'[g] <= number[g]
        BY <1>7, <1>8, <1>17, <3>1, <3>3, <4>1
      <4> QED
        BY <3>3, <4>1, <4>2
    <3> QED
      BY <3>2, <3>3
  <2>2. ASSUME NEW k \in 1..L, NEW v \in Left(stack), InSegment(k, v)', NEW c \in ChildrenOf(v) \cap Left(stack),
               v = frames'[k].id => c \notin frames'[k].todo
        PROVE  low'[frames'[k].id] <= number[c]
    <3>1. InSegment(k, v)
      <4>1. k < L => k + 1 \in 1..L
        BY <1>3
      <4> QED
        BY <1>2, <1>3, <2>2, <4>1 DEF InSegment, L
    <3>2. /\ frames'[k].id = frames[k].id /\ frames[k].id \in Gray /\ frames[k].id \in entries
          /\ low'[frames[k].id] <= low[frames[k].id] /\ low'[frames[k].id] \in Nat /\ low[frames[k].id] \in Nat
          /\ number[c] \in Nat
      <4>1. frames'[k].id = frames[k].id /\ frames[k].id \in Gray /\ frames[k].id \in entries
        BY <1>3, <1>5, <1>17
      <4>2. c \in entries
        BY DEF ChildrenOf
      <4>3. low'[frames[k].id] \in Nat /\ low[frames[k].id] \in Nat /\ number[c] \in Nat
        BY <1>7, <1>8, <4>1, <4>2
      <4>4. low'[frames[k].id] <= low[frames[k].id]
        BY <1>7, <1>8, <4>1, <4>3
      <4> QED
        BY <4>1, <4>3, <4>4
    <3>3. CASE v = frames[k].id => c \notin frames[k].todo
      <4>1. low[frames[k].id] <= number[c]
        BY <1>1, <2>2, <3>1, <3>3 DEF LowIsLowest, L
      <4> QED
        BY <3>2, <4>1
    <3>4. CASE v = frames[k].id /\ c \in frames[k].todo
      <4>1. k = L /\ c = child
        BY <1>3, <2>2, <3>2, <3>4
      <4> QED
        BY <1>8, <2>2, <3>2, <4>1 DEF t
    <3> QED
      BY <3>3, <3>4
  <2>3. \A g \in Gray' : low'[g] <= number'[g] /\ \E w \in Left(stack') : number'[w] = low'[g] /\ (g \in Ancestors(w))'
    BY <1>2, <1>6, <1>13, <2>1
  <2>4. \A k \in 1..Len(frames'), v \in Left(stack') : InSegment(k, v)' =>
          \A c \in ChildrenOf(v)' \cap Left(stack') :
            (v = frames'[k].id => c \notin frames'[k].todo) => low'[frames'[k].id] <= number'[c]
    BY <1>2, <1>3, <1>13, <2>2
  <2> QED
    BY <1>13, <2>3, <2>4 DEF LowIsLowest
<1> QED
  BY <1>9, <1>11, <1>12, <1>14, <1>15, <1>16, <1>18 DEF TreeInv

LEMMA LeaveMoves ==
  ASSUME TreeInv, Leave
  PROVE  /\ entries' = entries /\ links' = links /\ number' = number
         /\ Met' = Met /\ Gray' = Gray \ {Top.id}
         /\ Len(frames) \in 1..Len(frames) /\ Len(frames) \in Nat /\ Top = frames[Len(frames)]
         /\ Top.id \in Gray /\ Top.todo = {} /\ \A g \in Gray \ {Top.id} : number[g] < number[Top.id]
         /\ frames' \in Seq([id : entries, todo : SUBSET entries]) /\ Len(frames') = Len(frames) - 1
         /\ \A k \in 1..(Len(frames) - 1) : frames'[k] = frames[k]
         /\ \A v \in Met \ Gray' : ChildrenOf(v) \subseteq Met
         /\ ChildrenAreMet'
<1> DEFINE L == Len(frames)
           t == Top.id
<1>1. TreeTyped /\ InOrder /\ StackIsOpen /\ ChildrenAreMet
  BY DEF TreeInv
<1>2. /\ frames # <<>> /\ Top.todo = {} /\ frames' = Front(frames)
      /\ entries' = entries /\ links' = links /\ number' = number
  BY DEF Leave
<1>3. L \in 1..L /\ L \in Nat /\ Top = frames[L]
  BY <1>1, <1>2, LookedIs
<1>4. PICK R : R = [id : entries, todo : SUBSET entries]
  OBVIOUS
<1>5. frames \in Seq(R)
  BY <1>1, <1>4, Zenon DEF TreeTyped
<1>6. frames' \in Seq(R) /\ Len(frames') = L - 1 /\ \A k \in 1..(L - 1) : frames'[k] = frames[k]
  BY <1>2, <1>5, FrontIs
<1>7. frames' \in Seq([id : entries, todo : SUBSET entries])
  BY <1>4, <1>6, Zenon
<1>8. t \in Gray /\ t = frames[L].id
  BY <1>3 DEF Gray
<1> HIDE DEF L, t
<1>9. \A k \in 1..(L - 1) : k \in 1..L /\ k < L
  BY <1>3
<1>10. \A k \in 1..(L - 1) : number[frames[k].id] < number[t]
  BY <1>1, <1>3, <1>8, <1>9 DEF InOrder, L
<1>11. \A g \in Gray : g = t \/ \E k \in 1..(L - 1) : g = frames[k].id
  <2>1. ASSUME NEW k \in 1..L PROVE k = L \/ k \in 1..(L - 1)
    BY <1>3
  <2> QED
    BY <1>8, <2>1 DEF Gray, L
<1>12. \A g \in Gray \ {t} : number[g] < number[t]
  BY <1>10, <1>11
<1>13. Gray' = Gray \ {t}
  <2>1. Gray' = {frames'[k].id : k \in 1..(L - 1)}
    BY <1>6 DEF Gray
  <2>2. \A k \in 1..(L - 1) : frames'[k].id = frames[k].id /\ frames[k].id \in Gray /\ frames[k].id # t
    <3>1. ASSUME NEW k \in 1..(L - 1) PROVE frames[k].id # t
      <4>1. number[frames[k].id] < number[t] /\ number[t] \in Nat
        BY <1>1, <1>8, <1>10 DEF TreeTyped, StackIsOpen, Met
      <4> QED
        BY <4>1
    <3>2. \A k \in 1..(L - 1) : frames[k].id \in Gray
      BY <1>9 DEF Gray, L
    <3> QED
      BY <1>6, <3>1, <3>2
  <2> QED
    BY <1>11, <2>1, <2>2
<1>14. Met' = Met
  BY <1>2 DEF Met
<1>15. \A p : ChildrenOf(p)' = ChildrenOf(p)
  BY <1>2, EntriesStay
<1>16. \A k \in 1..L : /\ frames[k].todo \subseteq ChildrenOf(frames[k].id)
                       /\ ChildrenOf(frames[k].id) \ frames[k].todo \subseteq Met
  BY <1>1 DEF ChildrenAreMet, L
<1>17. ChildrenOf(t) \subseteq Met
  BY <1>2, <1>3, <1>8, <1>16
<1>18. \A v \in Met \ Gray' : ChildrenOf(v) \subseteq Met
  BY <1>1, <1>13, <1>17 DEF ChildrenAreMet
<1>19. \A k \in 1..(L - 1) : /\ frames'[k].todo \subseteq ChildrenOf(frames'[k].id)
                             /\ ChildrenOf(frames'[k].id) \ frames'[k].todo \subseteq Met
  BY <1>6, <1>9, <1>16
<1>20. ChildrenAreMet'
  BY <1>6, <1>14, <1>15, <1>18, <1>19 DEF ChildrenAreMet
<1> QED
  BY <1>2, <1>3, <1>6, <1>7, <1>8, <1>12, <1>13, <1>14, <1>18, <1>20 DEF L, t

\* The frame ends and its cycle is open still: one of an earlier frame leads into it.
LEMMA LeaveOpenKeeps ==
  ASSUME TreeInv, Leave, low[Top.id] # number[Top.id]
  PROVE  TreeInv'
<1> DEFINE L == Len(frames)
           t == Top.id
           p == frames[L - 1].id
<1>1. TreeTyped /\ InOrder /\ StackIsOpen /\ ChildrenAreMet /\ ClosedAreCycles /\ StackIsAbove /\ LowIsLowest
  BY DEF TreeInv
<1>2. /\ entries' = entries /\ links' = links /\ number' = number
      /\ Met' = Met /\ Gray' = Gray \ {t}
      /\ L \in 1..L /\ L \in Nat /\ t = frames[L].id
      /\ t \in Gray /\ frames[L].todo = {} /\ \A g \in Gray \ {t} : number[g] < number[t]
      /\ frames' \in Seq([id : entries, todo : SUBSET entries]) /\ Len(frames') = L - 1
      /\ \A k \in 1..(L - 1) : frames'[k] = frames[k]
      /\ ChildrenAreMet'
  BY LeaveMoves
<1>3. /\ stack' = stack /\ component' = component
      /\ low' = IF L = 1 THEN low ELSE [low EXCEPT ![p] = Min({@, low[t]})]
  BY DEF Leave
<1>4. \A k \in 1..L : frames[k].id \in Gray
  BY DEF Gray
<1> HIDE DEF L, t, p
<1>5. /\ \A g \in Gray : g \in Left(stack) /\ g \in entries /\ g \in DisplayIds /\ number[g] \in Nat /\ low[g] \in Nat
      /\ \A v \in Left(stack) : v \in entries /\ v \in Met /\ number[v] \in Nat
  BY <1>1 DEF StackIsOpen, TreeTyped, Met
<1>6. PICK w \in Left(stack) : number[w] = low[t] /\ t \in Ancestors(w)
  BY <1>1, <1>2 DEF LowIsLowest
<1>7. low[t] < number[t] /\ number[w] < number[t]
  <2>1. low[t] <= number[t] /\ low[t] # number[t]
    BY <1>1, <1>2 DEF LowIsLowest, t
  <2> QED
    BY <1>2, <1>5, <1>6, <2>1
<1>8. PICK h \in Gray : number[h] <= number[w] /\ w \in Ancestors(h)
  BY <1>1 DEF StackIsAbove
<1>9. h \in Gray \ {t} /\ number[h] < number[t]
  BY <1>2, <1>5, <1>7, <1>8
<1>10. L # 1 /\ L - 1 \in 1..L /\ L - 1 \in 1..(L - 1) /\ p \in Gray \ {t} /\ number[p] < number[t]
  <2>1. PICK k \in 1..L : h = frames[k].id
    BY DEF Gray, L
  <2>2. k # L
    BY <1>2, <1>9, <2>1
  <2>3. L # 1 /\ L - 1 \in 1..L /\ L - 1 \in 1..(L - 1) /\ L - 1 < L
    BY <1>2, <2>2
  <2>4. number[p] < number[t]
    BY <1>1, <1>2, <2>3 DEF InOrder, L, p
  <2>5. p \in Gray
    BY <1>4, <2>3 DEF p
  <2> QED
    BY <1>5, <2>3, <2>4, <2>5
<1>11. /\ low' \in [DisplayIds -> Nat] /\ (\A g \in DisplayIds \ {p} : low'[g] = low[g])
       /\ low'[p] <= low[p] /\ low'[p] <= low[t] /\ (low'[p] = low[p] \/ low'[p] = low[t])
  <2> DEFINE m == Min({low[p], low[t]})
  <2>1. m \in {low[p], low[t]} /\ m <= low[p] /\ m <= low[t] /\ m \in Nat
    BY <1>2, <1>5, <1>10, MinOfTwo
  <2> HIDE DEF m
  <2>2. low' = [low EXCEPT ![p] = m]
    BY <1>3, <1>10 DEF m
  <2>3. low \in [DisplayIds -> Nat] /\ p \in DisplayIds
    BY <1>1, <1>5, <1>10 DEF TreeTyped
  <2> QED
    BY <2>1, <2>2, <2>3
<1>12. TreeTyped'
  BY <1>1, <1>2, <1>3, <1>11 DEF TreeTyped
<1>13. \A k \in 1..(L - 1) : k \in 1..L /\ k < L
  BY <1>2
<1>14. InOrder'
  <2>1. \A m, n \in 1..(L - 1) : m < n => number'[frames'[m].id] < number'[frames'[n].id]
    BY <1>1, <1>2, <1>13 DEF InOrder, L
  <2> QED
    BY <1>1, <1>2, <1>3, <2>1 DEF InOrder
<1>15. Closed' = Closed
  BY <1>2, <1>3 DEF Closed
<1>16. StackIsOpen'
  BY <1>1, <1>2, <1>3, <1>15 DEF StackIsOpen
<1>17. /\ \A x : ChildrenOf(x)' = ChildrenOf(x)
       /\ \A j : Ancestors(j)' = Ancestors(j)
  BY <1>2, EntriesStay
<1>18. ClosedAreCycles'
  BY <1>1, <1>2, <1>3, <1>15, <1>17 DEF ClosedAreCycles
<1>19. \A i, j, k : j \in Ancestors(i) /\ k \in Ancestors(j) => k \in Ancestors(i)
  BY <1>1, AncestorsAre
<1>20. StackIsAbove'
  <2>1. ASSUME NEW v \in Left(stack)
        PROVE  \E g \in Gray' : number[g] <= number[v] /\ v \in Ancestors(g)
    <3>1. PICK g \in Gray : number[g] <= number[v] /\ v \in Ancestors(g)
      BY <1>1 DEF StackIsAbove
    <3>2. CASE g # t
      BY <1>2, <3>1, <3>2
    <3>3. CASE g = t
      <4>1. v \in Ancestors(h)
        BY <1>6, <1>8, <1>19, <3>1, <3>3
      <4>2. number[h] <= number[v]
        BY <1>5, <1>9, <3>1, <3>3
      <4> QED
        BY <1>2, <1>9, <4>1, <4>2
    <3> QED
      BY <3>2, <3>3
  <2>2. \A u, v \in Left(stack) : number[u] <= number[v] => u \in Ancestors(v)
    BY <1>1 DEF StackIsAbove
  <2> QED
    BY <1>2, <1>3, <1>17, <2>1, <2>2 DEF StackIsAbove
<1>21. LowIsLowest'
  <2>1. ASSUME NEW g \in Gray'
        PROVE  low'[g] <= number[g] /\ \E x \in Left(stack) : number[x] = low'[g] /\ g \in Ancestors(x)
    <3>1. g \in Gray /\ low[g] <= number[g] /\ \E x \in Left(stack) : number[x] = low[g] /\ g \in Ancestors(x)
      BY <1>1, <1>2 DEF LowIsLowest
    <3>2. CASE low'[g] = low[g]
      BY <3>1, <3>2
    <3>3. CASE low'[g] # low[g]
      <4>1. g = p /\ low'[g] = number[w]
        BY <1>5, <1>6, <1>11, <3>1, <3>3
      <4>2. p \in Ancestors(w)
        <5>1. p \in Left(stack) /\ t \in Left(stack) /\ number[p] <= number[t]
          BY <1>2, <1>5, <1>10
        <5>2. p \in Ancestors(t)
          BY <1>1, <5>1 DEF StackIsAbove
        <5> QED
          BY <1>6, <1>19, <5>2
      <4>3. low'[g] <= number[g]
        BY <1>5, <1>10, <1>11, <3>1, <4>1
      <4> QED
        BY <4>1, <4>2, <4>3
    <3> QED
      BY <3>2, <3>3
  <2>2. ASSUME NEW k \in 1..(L - 1), NEW v \in Left(stack), InSegment(k, v)', NEW c \in ChildrenOf(v) \cap Left(stack),
               v = frames[k].id => c \notin frames[k].todo
        PROVE  low'[frames[k].id] <= number[c]
    <3> DEFINE f == frames[k].id
    <3>1. k \in 1..L /\ k < L /\ f \in Gray /\ number[c] \in Nat /\ low'[f] \in Nat /\ low[f] \in Nat
      BY <1>4, <1>5, <1>11, <1>13
    <3>2. number[f] <= number[v] /\ (k < L - 1 => number[v] < number[frames[k + 1].id])
      <4>1. k < L - 1 => k + 1 \in 1..(L - 1)
        BY <1>2
      <4> QED
        BY <1>2, <2>2, <4>1 DEF InSegment
    <3>3. low'[f] <= low[f]
      BY <1>5, <1>11, <3>1
    <3> HIDE DEF f
    <3>4. CASE k < L - 1 \/ number[v] < number[t]
      <4>1. k < L - 1 \/ k = L - 1
        BY <1>2, <3>1
      <4>2. number[v] < number[frames[k + 1].id]
        <5>1. CASE k < L - 1
          BY <3>2, <5>1
        <5>2. CASE k = L - 1
          <6>1. ~(k < L - 1) /\ k + 1 = L
            BY <1>2, <5>2
          <6> QED
            BY <1>2, <3>4, <6>1
        <5> QED
          BY <4>1, <5>1, <5>2
      <4>3. InSegment(k, v)
        BY <3>2, <4>2 DEF InSegment, f
      <4>4. low[f] <= number[c]
        BY <1>1, <2>2, <3>1, <4>3 DEF LowIsLowest, L, f
      <4> QED
        BY <3>1, <3>3, <4>4 DEF f
    <3>5. CASE ~(k < L - 1) /\ ~(number[v] < number[t])
      <4>1. k = L - 1 /\ f = p /\ number[t] <= number[v]
        BY <1>2, <1>5, <3>1, <3>5 DEF f, p
      <4>2. InSegment(L, v)
        BY <1>2, <4>1 DEF InSegment, L
      <4>3. low[t] <= number[c]
        BY <1>1, <1>2, <2>2, <4>2 DEF LowIsLowest, L
      <4> QED
        BY <1>2, <1>5, <1>11, <3>1, <4>1, <4>3 DEF f
    <3> QED
      BY <3>4, <3>5
  <2>3. \A g \in Gray' : low'[g] <= number'[g] /\ \E x \in Left(stack') : number'[x] = low'[g] /\ (g \in Ancestors(x))'
    BY <1>2, <1>3, <1>17, <2>1
  <2>4. \A k \in 1..Len(frames'), v \in Left(stack') : InSegment(k, v)' =>
          \A c \in ChildrenOf(v)' \cap Left(stack') :
            (v = frames'[k].id => c \notin frames'[k].todo) => low'[frames'[k].id] <= number'[c]
    BY <1>2, <1>3, <1>17, <2>2
  <2> QED
    BY <1>17, <2>3, <2>4 DEF LowIsLowest
<1> QED
  BY <1>2, <1>12, <1>14, <1>16, <1>18, <1>20, <1>21 DEF TreeInv

\* The entries of the cycle that ends are those on the stack from its first one on.
LEMMA GroupIs ==
  ASSUME TreeInv, Leave, low[Top.id] = number[Top.id]
  PROVE  /\ low' = low /\ stack' \in Seq(entries)
         /\ Len(stack') <= Len(stack) /\ (\A m \in 1..Len(stack') : stack'[m] = stack[m])
         /\ Left(stack') = {v \in Left(stack) : number[v] < number[Top.id]}
         /\ component' = [i \in DisplayIds |-> IF i \in Left(stack) /\ number[Top.id] <= number[i]
                                                THEN Top.id ELSE component[i]]
<1> DEFINE L == Len(frames)
           K == Len(stack)
           t == Top.id
           p == frames[L - 1].id
           at == CHOOSE k \in 1..K : stack[k] = t
           group == {stack[k] : k \in at..K}
<1>1. TreeTyped /\ InOrder /\ StackIsOpen /\ LowIsLowest
  BY DEF TreeInv
<1>2. t \in Gray /\ L \in 1..L /\ L \in Nat /\ t = frames[L].id /\ \A g \in Gray \ {t} : number[g] < number[t]
  BY LeaveMoves
<1>3. /\ stack' = SubSeq(stack, 1, at - 1)
      /\ component' = [i \in DisplayIds |-> IF i \in group THEN t ELSE component[i]]
      /\ low' = IF L = 1 THEN low ELSE [low EXCEPT ![p] = Min({@, low[t]})]
  BY DEF Leave
<1>4. t \in Left(stack) /\ \A v \in Left(stack) : v \in entries /\ v \in Met /\ number[v] \in Nat
  BY <1>1, <1>2 DEF StackIsOpen, TreeTyped, Met
<1>5. at \in 1..K /\ stack[at] = t /\ K \in Nat
  <2>1. \E k \in 1..K : stack[k] = t
    BY <1>4 DEF Left
  <2>2. K \in Nat
    BY <1>1 DEF TreeTyped
  <2> QED
    BY <2>1, <2>2
<1>6. low' = low
  <2>1. CASE L = 1
    BY <1>3, <2>1
  <2>2. CASE L # 1
    <3>1. L - 1 \in 1..L /\ L - 1 < L
      <4>1. L \in 1..L /\ L \in Nat
        BY <1>2
      <4> HIDE DEF L
      <4> QED
        BY <2>2, <4>1
    <3>2. p \in Gray /\ number[p] < number[t]
      BY <1>1, <1>2, <3>1 DEF Gray, InOrder
    <3>3. p \in Left(stack) /\ low[p] <= number[p]
      BY <1>1, <3>2 DEF StackIsOpen, LowIsLowest
    <3>4. low[p] \in Nat /\ number[p] \in Nat /\ low[t] = number[t] /\ low[t] \in Nat /\ low \in [DisplayIds -> Nat]
      BY <1>1, <1>4, <3>3 DEF TreeTyped
    <3> HIDE DEF t, p, L
    <3> DEFINE m == Min({low[p], low[t]})
    <3>5. m \in {low[p], low[t]} /\ m <= low[p] /\ m <= low[t]
      BY <3>4, MinOfTwo
    <3>6. low' = [low EXCEPT ![p] = m]
      BY <1>3, <2>2
    <3> HIDE DEF m
    <3>7. m = low[p]
      BY <3>2, <3>3, <3>4, <3>5
    <3> QED
      BY <3>4, <3>6, <3>7
  <2> QED
    BY <2>1, <2>2
<1> HIDE DEF at, K, t, L, p
<1>7. /\ stack' \in Seq(entries) /\ Len(stack') = at - 1
      /\ \A m \in 1..(at - 1) : stack'[m] = stack[m]
  <2>1. \A m \in 1..(at - 1) : stack[m] \in entries
    BY <1>1, <1>5 DEF TreeTyped, K
  <2>2. stack' = [m \in 1..(at - 1) |-> stack[m]]
    <3>1. SubSeq(stack, 1, at - 1) = [m \in 1..((at - 1) - 1 + 1) |-> stack[m + 1 - 1]]
      BY <1>5
    <3>2. (at - 1) - 1 + 1 = at - 1 /\ \A m \in 1..(at - 1) : m + 1 - 1 = m
      BY <1>5
    <3> QED
      BY <1>3, <3>1, <3>2
  <2> QED
    BY <1>5, <2>1, <2>2
<1>8. ASSUME NEW m \in 1..K PROVE stack[m] \in Left(stack) /\ (m < at <=> number[stack[m]] < number[t])
  <2>1. stack[m] \in Left(stack) /\ number[stack[m]] \in Nat /\ number[t] \in Nat
    BY <1>4 DEF Left, K
  <2>2. m < at => number[stack[m]] < number[t]
    BY <1>1, <1>5 DEF InOrder, K
  <2>3. at < m => number[t] < number[stack[m]]
    BY <1>1, <1>5 DEF InOrder, K
  <2>4. m < at \/ m = at \/ at < m
    BY <1>5
  <2> QED
    BY <1>5, <2>1, <2>2, <2>3, <2>4
<1>9. Left(stack') = {v \in Left(stack) : number[v] < number[t]}
  <2>1. \A m \in 1..(at - 1) : m \in 1..K /\ m < at
    BY <1>5
  <2>2. ASSUME NEW v \in Left(stack), number[v] < number[t] PROVE \E m \in 1..(at - 1) : v = stack[m]
    <3>1. PICK m \in 1..K : v = stack[m]
      BY DEF Left, K
    <3>2. m < at
      BY <1>8, <2>2, <3>1
    <3> QED
      BY <1>5, <3>1, <3>2
  <2>3. Left(stack') = {stack[m] : m \in 1..(at - 1)}
    BY <1>7 DEF Left
  <2> QED
    BY <1>8, <2>1, <2>2, <2>3
<1>10. \A i : i \in group <=> i \in Left(stack) /\ number[t] <= number[i]
  <2>1. ASSUME NEW m \in at..K PROVE stack[m] \in Left(stack) /\ number[t] <= number[stack[m]]
    <3>1. m \in 1..K /\ ~(m < at)
      BY <1>5
    <3> QED
      BY <1>4, <1>8, <3>1
  <2>2. ASSUME NEW i \in Left(stack), number[t] <= number[i] PROVE i \in group
    <3>1. PICK m \in 1..K : i = stack[m]
      BY DEF Left, K
    <3>2. ~(m < at)
      BY <1>4, <1>8, <2>2, <3>1
    <3> QED
      BY <1>5, <3>1, <3>2
  <2> QED
    BY <2>1, <2>2
<1> HIDE DEF group
<1>11. component' = [i \in DisplayIds |-> IF i \in Left(stack) /\ number[t] <= number[i] THEN t ELSE component[i]]
  BY <1>3, <1>10
<1>12. Len(stack') <= Len(stack)
  BY <1>5, <1>7 DEF K
<1> QED
  BY <1>6, <1>7, <1>9, <1>11, <1>12 DEF t

\* The frame ends and with it the cycle of its entry: nothing below that leads out of it.
LEMMA LeaveClosedKeeps ==
  ASSUME TreeInv, Leave, low[Top.id] = number[Top.id]
  PROVE  TreeInv'
<1> DEFINE L == Len(frames)
           t == Top.id
           group == {v \in Left(stack) : number[t] <= number[v]}
<1>1. TreeTyped /\ InOrder /\ StackIsOpen /\ ChildrenAreMet /\ ClosedAreCycles /\ StackIsAbove /\ LowIsLowest
  BY DEF TreeInv
<1>2. /\ entries' = entries /\ links' = links /\ number' = number
      /\ Met' = Met /\ Gray' = Gray \ {t}
      /\ L \in 1..L /\ L \in Nat /\ t = frames[L].id
      /\ t \in Gray /\ frames[L].todo = {} /\ \A g \in Gray \ {t} : number[g] < number[t]
      /\ frames' \in Seq([id : entries, todo : SUBSET entries]) /\ Len(frames') = L - 1
      /\ \A k \in 1..(L - 1) : frames'[k] = frames[k]
      /\ \A v \in Met \ Gray' : ChildrenOf(v) \subseteq Met
      /\ ChildrenAreMet'
  BY LeaveMoves
<1>3. /\ low' = low /\ stack' \in Seq(entries)
      /\ Len(stack') <= Len(stack) /\ (\A m \in 1..Len(stack') : stack'[m] = stack[m])
      /\ Left(stack') = {v \in Left(stack) : number[v] < number[t]}
      /\ component' = [i \in DisplayIds |-> IF i \in Left(stack) /\ number[t] <= number[i] THEN t ELSE component[i]]
  BY GroupIs
<1>4. \A k \in 1..L : frames[k].id \in Gray
  BY DEF Gray
<1> HIDE DEF L, t
<1>5. /\ \A g \in Gray : g \in Left(stack)
      /\ \A v \in Left(stack) : v \in entries /\ v \in Met /\ v \in DisplayIds /\ number[v] \in Nat /\ v \notin Closed
      /\ entries \subseteq DisplayIds /\ t # 0
  BY <1>1, <1>2, TreeAssumption DEF StackIsOpen, TreeTyped, Met
<1>6. /\ group \subseteq entries /\ group \cap Closed = {} /\ t \in group
      /\ \A v \in group : number[t] <= number[v] /\ v \in Left(stack)
  BY <1>2, <1>5
<1>7. Left(stack') = Left(stack) \ group
  BY <1>2, <1>3, <1>5
<1>8. component' \in [DisplayIds -> Nat] /\ \A i \in entries : component'[i] = IF i \in group THEN t ELSE component[i]
  <2>1. component \in [DisplayIds -> Nat] /\ t \in Nat
    BY <1>1, <1>2, <1>5, TreeAssumption DEF TreeTyped
  <2> QED
    BY <1>3, <1>5, <2>1
<1>9. TreeTyped'
  BY <1>1, <1>2, <1>3, <1>8 DEF TreeTyped
<1>10. Closed' = Closed \cup group
  BY <1>2, <1>5, <1>6, <1>8 DEF Closed
<1>11. \A v \in group : ChildrenOf(v) \subseteq Closed \cup group
  <2>1. ASSUME NEW v \in group, NEW c \in ChildrenOf(v), c \notin Closed PROVE c \in group
    <3>1. v \in Met \ Gray'
      BY <1>2, <1>5, <1>6
    <3>2. c \in Left(stack)
      BY <1>1, <1>2, <2>1, <3>1 DEF StackIsOpen
    <3>3. InSegment(L, v)
      BY <1>2, <1>6 DEF InSegment, L
    <3>4. low[t] <= number[c]
      BY <1>1, <1>2, <1>6, <3>2, <3>3 DEF LowIsLowest, L
    <3> QED
      BY <3>2, <3>4 DEF t
  <2> QED
    BY <2>1
<1>12. /\ \A x : ChildrenOf(x)' = ChildrenOf(x)
       /\ \A j : Ancestors(j)' = Ancestors(j)
  BY <1>2, EntriesStay
<1> HIDE DEF group
<1>13. \A i \in group : t \in Ancestors(i)
  BY <1>1, <1>2, <1>5, <1>6 DEF StackIsAbove
<1>14. ASSUME NEW i \in group PROVE i \in Ancestors(t)
  <2>1. PICK g \in Gray : number[g] <= number[i] /\ i \in Ancestors(g)
    BY <1>1, <1>6 DEF StackIsAbove
  <2> DEFINE G == Closed \cup group
  <2>2. G \in SUBSET entries /\ g \in entries /\ i \in G /\ \A v \in G : ChildrenOf(v) \subseteq G
    BY <1>1, <1>5, <1>6, <1>11 DEF Closed, ClosedAreCycles
  <2> HIDE DEF G
  <2>3. g \in G
    BY <1>1, <2>1, <2>2, BelowStays
  <2>4. g \in group
    BY <1>5, <2>3 DEF G
  <2>5. g = t
    BY <1>2, <1>5, <1>6, <2>4
  <2> QED
    BY <2>1, <2>5
<1>15. \A i, j, k : j \in Ancestors(i) /\ k \in Ancestors(j) => k \in Ancestors(i)
  BY <1>1, AncestorsAre
<1>16. ClosedAreCycles'
  <2>1. ASSUME NEW v \in Closed \cup group
        PROVE  ChildrenOf(v) \subseteq Closed \cup group /\ component'[v] \in Closed \cup group
    <3>1. CASE v \in group
      BY <1>6, <1>8, <1>11, <3>1
    <3>2. CASE v \in Closed
      <4>1. ChildrenOf(v) \subseteq Closed /\ component[v] \in Closed /\ v \in entries /\ v \notin group
        BY <1>1, <1>6, <3>2 DEF ClosedAreCycles, Closed
      <4> QED
        BY <1>8, <4>1
    <3> QED
      BY <3>1, <3>2
  <2>2. ASSUME NEW i \in Closed, NEW j \in group PROVE component'[i] # component'[j] /\ i \notin Ancestors(j)
    <3>1. component[i] \in Closed /\ component'[i] = component[i] /\ component'[j] = t /\ t \notin Closed
      BY <1>1, <1>6, <1>8 DEF ClosedAreCycles, Closed
    <3>2. ASSUME i \in Ancestors(j) PROVE FALSE
      <4>1. Closed \in SUBSET entries /\ j \in entries /\ \A v \in Closed : ChildrenOf(v) \subseteq Closed
        BY <1>1, <1>6 DEF Closed, ClosedAreCycles
      <4>2. j \in Closed
        BY <1>1, <3>2, <4>1, BelowStays
      <4> QED
        BY <1>6, <4>2
    <3> QED
      BY <3>1, <3>2
  <2>3. ASSUME NEW i \in Closed \cup group, NEW j \in Closed \cup group
        PROVE  component'[i] = component'[j] <=> i \in Ancestors(j) /\ j \in Ancestors(i)
    <3>1. CASE i \in Closed /\ j \in Closed
      <4>1. component'[i] = component[i] /\ component'[j] = component[j]
        BY <1>6, <1>8, <3>1 DEF Closed
      <4> QED
        BY <1>1, <3>1, <4>1 DEF ClosedAreCycles
    <3>2. CASE i \in group /\ j \in group
      BY <1>6, <1>8, <1>13, <1>14, <1>15, <3>2
    <3>3. CASE i \in Closed /\ j \in group
      BY <2>2, <3>3
    <3>4. CASE i \in group /\ j \in Closed
      BY <2>2, <3>4
    <3> QED
      BY <3>1, <3>2, <3>3, <3>4
  <2> QED
    BY <1>10, <1>12, <2>1, <2>3 DEF ClosedAreCycles
<1>17. StackIsOpen'
  <2>1. \A g \in Gray \ {t} : g \in Left(stack) \ group
    BY <1>2, <1>5, <1>6
  <2> QED
    BY <1>1, <1>2, <1>5, <1>6, <1>7, <1>10, <2>1 DEF StackIsOpen
<1>18. InOrder'
  <2>1. \A m, n \in 1..Len(stack') : m < n => number'[stack'[m]] < number'[stack'[n]]
    <3>1. \A m \in 1..Len(stack') : m \in 1..Len(stack)
      BY <1>1, <1>3, <1>9 DEF TreeTyped
    <3> QED
      BY <1>1, <1>2, <1>3, <3>1 DEF InOrder
  <2>2. \A m, n \in 1..(L - 1) : m < n => number'[frames'[m].id] < number'[frames'[n].id]
    <3>1. \A k \in 1..(L - 1) : k \in 1..L
      BY <1>2
    <3> QED
      BY <1>1, <1>2, <3>1 DEF InOrder, L
  <2> QED
    BY <1>1, <1>2, <2>1, <2>2 DEF InOrder
<1>19. \A v \in Left(stack') : v \in Left(stack) /\ number[v] < number[t]
  BY <1>3
<1>20. StackIsAbove'
  <2>1. ASSUME NEW v \in Left(stack')
        PROVE  \E g \in Gray' : number[g] <= number[v] /\ v \in Ancestors(g)
    <3>1. PICK g \in Gray : number[g] <= number[v] /\ v \in Ancestors(g)
      BY <1>1, <1>19 DEF StackIsAbove
    <3>2. g # t
      BY <1>2, <1>5, <1>19, <3>1
    <3> QED
      BY <1>2, <3>1, <3>2
  <2>2. \A u, v \in Left(stack') : number[u] <= number[v] => u \in Ancestors(v)
    BY <1>1, <1>19 DEF StackIsAbove
  <2> QED
    BY <1>2, <1>12, <2>1, <2>2 DEF StackIsAbove
<1>21. LowIsLowest'
  <2>1. ASSUME NEW g \in Gray'
        PROVE  low[g] <= number[g] /\ \E x \in Left(stack') : number[x] = low[g] /\ g \in Ancestors(x)
    <3>1. g \in Gray /\ number[g] < number[t] /\ low[g] <= number[g] /\ number[g] \in Nat /\ number[t] \in Nat
      BY <1>1, <1>2, <1>5 DEF LowIsLowest
    <3>2. PICK x \in Left(stack) : number[x] = low[g] /\ g \in Ancestors(x)
      BY <1>1, <3>1 DEF LowIsLowest
    <3>3. x \in Left(stack')
      BY <1>3, <1>5, <3>1, <3>2
    <3> QED
      BY <3>1, <3>2, <3>3
  <2>2. ASSUME NEW k \in 1..(L - 1), NEW v \in Left(stack'), InSegment(k, v)', NEW c \in ChildrenOf(v) \cap Left(stack'),
               v = frames[k].id => c \notin frames[k].todo
        PROVE  low[frames[k].id] <= number[c]
    <3>1. k \in 1..L /\ k < L /\ (k < L - 1 \/ k = L - 1) /\ v \in Left(stack) /\ c \in Left(stack)
      BY <1>2, <1>19
    <3>2. number[frames[k].id] <= number[v] /\ (k < L - 1 => number[v] < number[frames[k + 1].id])
      <4>1. k < L - 1 => k + 1 \in 1..(L - 1)
        BY <1>2
      <4> QED
        BY <1>2, <2>2, <4>1 DEF InSegment
    <3>3. number[v] < number[frames[k + 1].id]
      <4>1. CASE k < L - 1
        BY <3>2, <4>1
      <4>2. CASE k = L - 1
        <5>1. k + 1 = L
          BY <1>2, <4>2
        <5> QED
          BY <1>2, <1>19, <5>1
      <4> QED
        BY <3>1, <4>1, <4>2
    <3>4. InSegment(k, v)
      BY <3>2, <3>3 DEF InSegment
    <3> QED
      BY <1>1, <2>2, <3>1, <3>4 DEF LowIsLowest, L
  <2>3. \A g \in Gray' : low'[g] <= number'[g] /\ \E x \in Left(stack') : number'[x] = low'[g] /\ (g \in Ancestors(x))'
    BY <1>2, <1>3, <1>12, <2>1
  <2>4. \A k \in 1..Len(frames'), v \in Left(stack') : InSegment(k, v)' =>
          \A c \in ChildrenOf(v)' \cap Left(stack') :
            (v = frames'[k].id => c \notin frames'[k].todo) => low'[frames'[k].id] <= number'[c]
    BY <1>2, <1>3, <1>12, <2>2
  <2> QED
    BY <1>12, <2>3, <2>4 DEF LowIsLowest
<1> QED
  BY <1>2, <1>9, <1>16, <1>17, <1>18, <1>20, <1>21 DEF TreeInv

LEMMA LeastOf ==
  ASSUME NEW S \in SUBSET Nat, S # {}
  PROVE  \E n \in S : \A m \in S : n <= m
<1>1. IsWellFoundedOn(OpToRel(<, Nat), Nat)
  BY NatLessThanWellFounded
<1>2. PICK n \in S : \A m \in S : ~(<<m, n>> \in OpToRel(<, Nat))
  BY <1>1, WFMin
<1>3. \A m \in S : ~(m < n)
  BY <1>2 DEF OpToRel
<1> QED
  BY <1>3

LEMMA LeastIs ==
  ASSUME TreeTyped, NEW S \in SUBSET entries
  PROVE  /\ S # {} => Min(S) \in S /\ \A m \in S : Min(S) <= m
         /\ \A n \in S : (\A m \in S : n <= m) => n = Min(S)
<1>1. S \in SUBSET Nat
  BY TreeAssumption DEF TreeTyped
<1>2. S # {} => \E n \in S : \A m \in S : n <= m
  BY <1>1, LeastOf
<1>3. S # {} => Min(S) \in S /\ \A m \in S : Min(S) <= m
  BY <1>2 DEF Min
<1>4. ASSUME NEW n \in S, \A m \in S : n <= m PROVE n = Min(S)
  <2>1. n <= Min(S) /\ Min(S) <= n /\ n \in Nat /\ Min(S) \in Nat
    BY <1>1, <1>3, <1>4
  <2> QED
    BY <2>1
<1> QED
  BY <1>3, <1>4

LEMMA TreeHoldsFirst ==
  ASSUME TreeInit
  PROVE  TreeInv
<1>1. /\ entries \in SUBSET DisplayIds /\ links \in SUBSET (DisplayIds \X DisplayIds)
      /\ frames = <<>> /\ stack = <<>>
      /\ number = [i \in DisplayIds |-> 0] /\ low = number /\ component = number
  BY DEF TreeInit
<1>2. TreeTyped
  BY <1>1 DEF TreeTyped
<1>3. Met = {} /\ Closed = {}
  BY <1>1 DEF Met, Closed
<1>4. Left(stack) = {} /\ Gray = {} /\ Len(frames) = 0 /\ Len(stack) = 0
  BY <1>1 DEF Left, Gray
<1>5. \A m : m \notin 1..0
  OBVIOUS
<1>6. InOrder
  BY <1>3, <1>4, <1>5 DEF InOrder
<1>7. StackIsOpen
  BY <1>3, <1>4 DEF StackIsOpen
<1>8. ChildrenAreMet
  BY <1>3, <1>4, <1>5 DEF ChildrenAreMet
<1>9. ClosedAreCycles
  BY <1>3 DEF ClosedAreCycles
<1>10. StackIsAbove
  BY <1>4 DEF StackIsAbove
<1>11. LowIsLowest
  BY <1>4, <1>5 DEF LowIsLowest
<1> QED
  BY <1>2, <1>6, <1>7, <1>8, <1>9, <1>10, <1>11 DEF TreeInv

LEMMA TreeHoldsOn ==
  ASSUME TreeInv, [TreeNext]_treeVars
  PROVE  TreeInv'
<1>1. CASE NextEntry
  <2> DEFINE i == Min(entries \ Met)
  <2>1. TreeTyped /\ frames = <<>> /\ entries \ Met # {} /\ Meet(i, frames)
    BY <1>1, MetIsFinite DEF NextEntry, TreeInv, Met
  <2>2. i \in entries \ Met
    BY <2>1, LeastIs
  <2>3. Len(frames) = 0 /\ frames \in Seq([id : entries, todo : SUBSET entries]) /\ \A k : k \notin 1..0
    BY <2>1 DEF TreeTyped
  <2> HIDE DEF i
  <2>4. Below(frames, i)
    BY <2>1, <2>3 DEF Below
  <2> QED
    BY <2>1, <2>2, <2>4, MeetKeeps
<1>2. CASE Look
  <2>1. frames # <<>> /\ TreeTyped /\ ChildrenAreMet
    BY <1>2 DEF Look, TreeInv
  <2>2. PICK child \in Top.todo : Descend(child) \/ Seen(child)
    BY <1>2 DEF Look
  <2>3. CASE Descend(child)
    <3>1. number[child] = 0 /\ Meet(child, Looked(child))
      BY <2>3 DEF Descend
    <3>2. Len(frames) \in 1..Len(frames) /\ Top = frames[Len(frames)]
      BY <2>1, LookedIs
    <3>3. child \in ChildrenOf(frames[Len(frames)].id)
      BY <2>1, <3>2 DEF ChildrenAreMet
    <3>4. child \in entries \ Met
      BY <3>1, <3>3 DEF ChildrenOf, Met
    <3>5. Below(Looked(child), child)
      BY <2>1, <3>3, LookedIs DEF Below
    <3> QED
      BY <3>1, <3>4, <3>5, MeetKeeps
  <2>4. CASE Seen(child)
    BY <2>1, <2>4, SeenKeeps
  <2> QED
    BY <2>2, <2>3, <2>4
<1>3. CASE Leave
  BY <1>3, LeaveOpenKeeps, LeaveClosedKeeps
<1>4. CASE UNCHANGED treeVars
  <2>1. /\ entries' = entries /\ links' = links /\ frames' = frames /\ number' = number /\ low' = low
        /\ stack' = stack /\ component' = component
    BY <1>4 DEF treeVars
  <2>2. Met' = Met /\ Closed' = Closed /\ Gray' = Gray
    BY <2>1 DEF Met, Closed, Gray
  <2>3. (\A p : ChildrenOf(p)' = ChildrenOf(p)) /\ \A i : Ancestors(i)' = Ancestors(i)
    BY <2>1, EntriesStay
  <2>4. TreeTyped' /\ InOrder'
    BY <2>1, <2>2 DEF TreeInv, TreeTyped, InOrder
  <2>5. StackIsOpen' /\ StackIsAbove'
    BY <2>1, <2>2, <2>3 DEF TreeInv, StackIsOpen, StackIsAbove
  <2>6. ChildrenAreMet' /\ ClosedAreCycles'
    BY <2>1, <2>2, <2>3 DEF TreeInv, ChildrenAreMet, ClosedAreCycles
  <2>7. LowIsLowest'
    BY <2>1, <2>2, <2>3 DEF TreeInv, LowIsLowest, InSegment
  <2> QED
    BY <2>4, <2>5, <2>6, <2>7 DEF TreeInv
<1> QED
  BY <1>1, <1>2, <1>3, <1>4 DEF TreeNext

\* When the walk is done every entry is closed: the components are the cycles.
LEMMA GroupsAreCycles ==
  ASSUME TreeInv, WalkIsDone
  PROVE  \A i, j \in entries : j \in Group(i) <=> i \in Ancestors(j) /\ j \in Ancestors(i)
<1>1. TreeTyped /\ StackIsOpen /\ ClosedAreCycles /\ StackIsAbove /\ frames = <<>> /\ Met = entries
  BY DEF TreeInv, WalkIsDone
<1>2. Gray = {}
  BY <1>1 DEF Gray
<1>3. Left(stack) = {}
  BY <1>1, <1>2 DEF StackIsAbove
<1>4. Closed = entries
  BY <1>1, <1>3 DEF StackIsOpen, Closed
<1> QED
  BY <1>1, <1>4 DEF ClosedAreCycles, Group

LEMMA RootsAre ==
  ASSUME TreeInv
  PROVE  RootsAreLowest
<1> SUFFICES ASSUME WalkIsDone PROVE Roots = {i \in entries : \A j \in Ancestors(i) : i \in Ancestors(j) /\ i <= j}
  BY DEF RootsAreLowest
<1> DEFINE R == {i \in entries : \A j \in Ancestors(i) : i \in Ancestors(j) /\ i <= j}
<1>1. TreeTyped /\ entries \subseteq Nat
  BY TreeAssumption DEF TreeInv, TreeTyped
<1>2. \A i, j \in entries : j \in Group(i) <=> i \in Ancestors(j) /\ j \in Ancestors(i)
  BY GroupsAreCycles
<1>3. /\ \A i \in entries : i \in Ancestors(i)
      /\ \A i, j, k : j \in Ancestors(i) /\ k \in Ancestors(j) => k \in Ancestors(i)
      /\ \A p \in entries : \A c \in ChildrenOf(p) : p \in Ancestors(c)
  BY <1>1, AncestorsAre
<1>4. \A i \in entries : Group(i) \in SUBSET entries /\ i \in Group(i)
  BY DEF Group
<1>5. \A e \in Edges : e[1] \in entries /\ e[2] \in entries /\ e[1] # e[2] /\ e[2] \in Ancestors(e[1])
  BY <1>1, <1>3, EdgeIs
<1>6. ASSUME NEW i \in Roots PROVE i \in R
  <2>1. CASE i \in entries /\ ~\E e \in Edges : e[1] = i
    <3>1. {i} \in SUBSET entries /\ i \in {i} /\ \A e \in Edges : e[1] \in {i} => e[2] \in {i}
      BY <2>1
    <3>2. \A j \in Ancestors(i) : j \in {i}
      BY <3>1 DEF Ancestors
    <3> QED
      BY <1>1, <1>3, <2>1, <3>2
  <2>2. CASE i \in SourceCycleRoots
    <3>1. PICK h \in entries : /\ i = Min(Group(h))
                               /\ ~\E e \in Edges : component[e[1]] = component[h] /\ component[e[2]] # component[h]
      BY <2>2 DEF SourceCycleRoots
    <3>2. i \in Group(h) /\ \A m \in Group(h) : i <= m
      BY <1>1, <1>4, <3>1, LeastIs
    <3>3. \A e \in Edges : e[1] \in Group(h) => e[2] \in Group(h)
      BY <1>5, <3>1 DEF Group
    <3>4. \A j \in Ancestors(i) : j \in Group(h)
      BY <1>4, <3>2, <3>3 DEF Ancestors
    <3>5. \A j \in Group(h) : i \in Ancestors(j)
      BY <1>2, <1>3, <1>4, <3>2
    <3> QED
      BY <1>4, <3>2, <3>4, <3>5
  <2> QED
    BY <2>1, <2>2 DEF Roots
<1>7. ASSUME NEW i \in R, i \notin SourceCycleRoots, NEW e \in Edges, e[1] = i PROVE FALSE
  <2>1. i \in entries /\ \A j \in Ancestors(i) : i \in Ancestors(j) /\ i <= j
    OBVIOUS
  <2> HIDE DEF R
  <2>2. e[2] \in entries /\ e[2] # i /\ e[2] \in Ancestors(i)
    BY <1>5, <1>7
  <2>3. e[2] \in Group(i)
    BY <1>2, <2>1, <2>2
  <2>4. Cardinality(Group(i)) > 1
    <3>1. IsFiniteSet(entries)
      BY <1>1, TreeAssumption, FS_Subset DEF TreeTyped
    <3>2. IsFiniteSet(Group(i)) /\ i \in Group(i)
      BY <1>4, <2>1, <3>1, FS_Subset
    <3>3. Cardinality(Group(i)) \in Nat
      BY <3>2, FS_CardinalityType
    <3>4. Cardinality(Group(i)) # 0
      BY <3>2, FS_EmptySet
    <3>5. Cardinality(Group(i)) # 1
      BY <2>2, <2>3, <3>2, FS_Singleton
    <3> QED
      BY <3>3, <3>4, <3>5
  <2>5. ASSUME NEW d \in Edges, component[d[1]] = component[i] PROVE component[d[2]] = component[i]
    <3>1. d[1] \in Group(i)
      BY <1>5, <2>5 DEF Group
    <3>2. d[2] \in Ancestors(i)
      BY <1>2, <1>3, <1>5, <2>1, <3>1
    <3>3. d[2] \in Group(i)
      BY <1>2, <1>5, <2>1, <3>2
    <3> QED
      BY <3>3 DEF Group
  <2>6. i = Min(Group(i))
    <3>1. i \in Group(i) /\ Group(i) \in SUBSET entries /\ \A j \in Group(i) : i <= j
      BY <1>2, <1>4, <2>1
    <3> QED
      BY <1>1, <3>1, LeastIs
  <2>7. i \in SourceCycleRoots
    BY <2>1, <2>4, <2>5, <2>6 DEF SourceCycleRoots
  <2> QED
    BY <1>7, <2>7
<1>8. R \subseteq Roots
  <2>1. R \subseteq entries
    OBVIOUS
  <2> HIDE DEF R
  <2> QED
    BY <1>7, <2>1 DEF Roots
<1> HIDE DEF R
<1>9. Roots = R
  BY <1>6, <1>8
<1> QED
  BY <1>9 DEF R

-------------------------------------------------------------------------------
(***************************************************************************)
(* buildProductTree.  Whatever the entries and their links and whichever   *)
(* child the walk looks at next: the roots are the lowest of the entries   *)
(* that are below each other and below nothing else.                       *)
(***************************************************************************)
THEOREM RootsAreThose == TreeSpec => []RootsAreLowest
<1>1. TreeInit => TreeInv
  BY TreeHoldsFirst
<1>2. TreeInv /\ [TreeNext]_treeVars => TreeInv'
  BY TreeHoldsOn
<1>3. TreeInv => RootsAreLowest
  BY RootsAre
<1> QED
  BY <1>1, <1>2, <1>3, PTL DEF TreeSpec
================================================================================
