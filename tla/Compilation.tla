------------------------------ MODULE Compilation ------------------------------
(***************************************************************************)
(* The compiler (core/compiler/mod.ts): `compile` reads and parses all     *)
(* files, a few at a time, and makes the graph of what it found: the       *)
(* entries by display ID, the links, the inverses that the profile         *)
(* declares (inverses.ts), and the links whose target is a draft or is     *)
(* retired (link_target.ts).                                               *)
(*                                                                         *)
(* An entry is what these stages look at: its display ID, its ULID, its    *)
(* type, what its source says of its state, and the values of its          *)
(* attributes.  A value names an entry by display ID or by ULID.           *)
(***************************************************************************)
EXTENDS Naturals, Sequences, FiniteSets

CONSTANTS
  Paths,      \* the files to compile, in the order given
  Delivered,  \* the entries that the profile delivers: they come first
  Slots,      \* how many files are read at a time
  Contents,   \* what a file may hold: entries, or NoText, if it cannot be read
  NoText,
  Unread,
  NoId,
  LinkAttrs,  \* the attributes that make a link
  Inverses,   \* the inverses that the profile declares, in order: those for all types first
  AnyType,    \* the source type of an inverse declared for all types
  MaxChanges  \* how often a file changes meanwhile

PathSet == {Paths[n] : n \in DOMAIN Paths}

Attributes ==
  LinkAttrs \cup {"Superseded-by"} \cup UNION {{Inverses[k].attr, Inverses[k].inverse} : k \in DOMAIN Inverses}

\* The entries there are.
Written == UNION {{c[n] : n \in DOMAIN c} : c \in (Contents \ {NoText}) \cup {Delivered}}

FileEntry ==
  [name : {e.name : e \in Written}, id : {e.id : e \in Written}, type : {e.type : e \in Written},
   state : {"active", "draft", "retired"},
   attrs : [Attributes -> SUBSET UNION {e.attrs[a] : e \in Written, a \in Attributes}]]

ASSUME CompilationAssumption ==
  /\ Paths \in Seq(PathSet) /\ Delivered \in Seq(FileEntry)
  /\ Contents \subseteq Seq(FileEntry) \cup {NoText} /\ NoText \notin Seq(FileEntry)
  /\ Slots \in Nat \ {0} /\ MaxChanges \in Nat
  /\ \A m, n \in DOMAIN Paths : Paths[m] = Paths[n] => m = n
  /\ Unread \notin Contents /\ NoText # Unread
  /\ Inverses \in Seq({Inverses[k] : k \in DOMAIN Inverses})

VARIABLES
  disk,      \* what each file holds
  at,        \* how far each file is: "waiting", "reading", "parsing", "done"
  waiting,   \* those without a slot, in the order they asked
  free,      \* the slots nobody has
  found,     \* what was read of each file, or Unread
  outcome,   \* of the compilation: "running", "failed", "done"
  graph,     \* what it has made
  changes

compileVars == <<disk, at, waiting, free, found, outcome, graph, changes>>

CompileTypeOK ==
  /\ disk \in [PathSet -> Contents] /\ found \in [PathSet -> Contents \cup {Unread}]
  /\ at \in [PathSet -> {"waiting", "reading", "parsing", "done"}]
  /\ waiting \in Seq(PathSet) /\ free \in 0..Slots /\ changes \in 0..MaxChanges
  /\ outcome \in {"running", "failed", "done"}
  /\ DOMAIN graph = {"entries", "links", "reported"}

\* All files ask for a slot at once; the first of them get one.
CompileInit ==
  /\ disk \in [PathSet -> Contents] /\ changes = 0
  /\ at = [f \in PathSet |->
             IF \E n \in DOMAIN Paths : n <= Slots /\ Paths[n] = f THEN "reading" ELSE "waiting"]
  /\ waiting = SubSeq(Paths, Slots + 1, Len(Paths))
  /\ free = IF Len(Paths) < Slots THEN Slots - Len(Paths) ELSE 0
  /\ found = [f \in PathSet |-> Unread] /\ outcome = "running"
  /\ graph = [entries |-> <<>>, links |-> {}, reported |-> {}]

\* A file is saved while the compilation goes on.
ChangeFile(f) ==
  /\ changes < MaxChanges /\ changes' = changes + 1
  /\ \E c \in Contents : disk' = [disk EXCEPT ![f] = c]
  /\ UNCHANGED <<at, waiting, free, found, outcome, graph>>

-------------------------------------------------------------------------------
\* release: the slot of file f goes to the one that has waited longest.
EndFile(f) ==
  IF waiting = <<>>
    THEN /\ at' = [at EXCEPT ![f] = "done"]
         /\ free' = free + 1 /\ UNCHANGED waiting
    ELSE /\ at' = [at EXCEPT ![f] = "done", ![Head(waiting)] = "reading"]
         /\ waiting' = Tail(waiting) /\ UNCHANGED free

ReadFile(f) ==
  /\ at[f] = "reading"
  /\ found' = [found EXCEPT ![f] = disk[f]]
  /\ IF disk[f] = NoText THEN EndFile(f)
     ELSE at' = [at EXCEPT ![f] = "parsing"] /\ UNCHANGED <<waiting, free>>
  /\ UNCHANGED <<disk, outcome, graph, changes>>

\* Parsed, and its time and history asked for.
ParseFile(f) ==
  /\ at[f] = "parsing" /\ EndFile(f)
  /\ UNCHANGED <<disk, found, outcome, graph, changes>>

\* A grammar cannot be loaded, or the time of the file not be read: the
\* compilation fails, and the other files go on.
ParseThrows(f) ==
  /\ at[f] = "parsing" /\ EndFile(f)
  /\ outcome' = "failed"
  /\ UNCHANGED <<disk, found, graph, changes>>

-------------------------------------------------------------------------------
EntriesOf(content) == IF content = NoText THEN <<>> ELSE content

\* The entries that were found, in the order of the paths.
AllFound ==
  LET upTo[n \in 0..Len(Paths)] ==
        IF n = 0 THEN Delivered ELSE upTo[n - 1] \o EntriesOf(found[Paths[n]])
  IN upTo[Len(Paths)]

\* A mutant of FirstEntries: the last entry of a display ID counts.
LastEntries(all) == {n \in DOMAIN all : \A m \in (n + 1)..Len(all) : all[m].name # all[n].name}

\* Of several entries with one display ID, the first counts.
FirstEntries(all) == {n \in DOMAIN all : \A m \in 1..(n - 1) : all[m].name # all[n].name}

HasId(all, id) == id # NoId /\ \E n \in FirstEntries(all) : all[n].id = id

\* Of several entries with one ULID, the last is found by it.
ById(all, id) ==
  all[CHOOSE n \in FirstEntries(all) : all[n].id = id /\ \A m \in FirstEntries(all) : all[m].id = id => m <= n]

(***************************************************************************)
(* generateInverses: the values, written as the ULID of an entry of the    *)
(* category, for which that entry gets a value in return.  Entries and     *)
(* inverses are gone through in order: where several inverses of one name  *)
(* return the same ULID to the same entry, the first of them counts.       *)
(***************************************************************************)
Returns(all, n, k, id) ==
  /\ id \in all[n].attrs[Inverses[k].attr] /\ all[n].id # NoId
  /\ Inverses[k].source \in {AnyType, all[n].type}
  /\ HasId(all, id) /\ ById(all, id).type = Inverses[k].category

ReturnedBefore(all, n, k, id) ==
  \E m \in FirstEntries(all), j \in DOMAIN Inverses :
    /\ m < n \/ (m = n /\ j < k)
    /\ all[m].id = all[n].id /\ Inverses[j].inverse = Inverses[k].inverse
    /\ Returns(all, m, j, id)

Generated(all) ==
  UNION {{[target |-> id, inverse |-> Inverses[k].inverse, attr |-> Inverses[k].attr, source |-> all[n].id] :
            id \in {v \in all[n].attrs[Inverses[k].attr] :
                      Returns(all, n, k, v) /\ ~ReturnedBefore(all, n, k, v)}} :
           n \in FirstEntries(all), k \in DOMAIN Inverses}

\* What is generated for attribute a of entry e.
Returned(all, e, a) ==
  {g.source : g \in {h \in Generated(all) : e.id # NoId /\ h.target = e.id /\ h.inverse = a}}

Merged(all, e) ==
  [e EXCEPT !.attrs = [a \in DOMAIN e.attrs |-> e.attrs[a] \cup Returned(all, e, a)]]

\* Entries that wrote the inverse themselves, and wrote something else.
Disagreeing(all) ==
  UNION {{<<"MSL-L005", all[n].name, g.inverse>> : g \in
            {h \in Generated(all) :
               /\ h.target = all[n].id /\ all[n].attrs[h.inverse] # {}
               /\ all[n].attrs[h.inverse] # Returned(all, all[n], h.inverse)}} :
           n \in FirstEntries(all)}

Link(from, to, attr, generated) ==
  [from |-> from, to |-> to, attr |-> attr, generated |-> generated]

\* extractLinks: a link goes to what the source has written.
AuthoredLinks(all) ==
  UNION {{Link(all[n].name, v, a, FALSE) : v \in all[n].attrs[a]} :
           n \in FirstEntries(all), a \in LinkAttrs}

GeneratedLinks(all) ==
  {Link(ById(all, g.target).name, ById(all, g.source).name, g.attr, TRUE) :
     g \in {h \in Generated(all) : h.attr \in LinkAttrs}}

\* classifyTargetState.
TargetState(e) ==
  IF e.attrs["Superseded-by"] # {} THEN "retired" ELSE e.state

\* checkLinkTargets.
AtInactive(entries, links) ==
  {<<"MSL-T013", l.from, l.to, TargetState(entries[l.to])>> :
     l \in {k \in links : k.to \in DOMAIN entries /\ TargetState(entries[k.to]) # "active"}}

\* What the compilation makes of all entries found.
Graph(all) ==
  LET entries == [x \in {all[n].name : n \in FirstEntries(all)} |->
                    Merged(all, all[CHOOSE n \in FirstEntries(all) : all[n].name = x])]
      links == AuthoredLinks(all) \cup GeneratedLinks(all)
  IN [entries |-> entries, links |-> links,
      reported |-> AtInactive(entries, links) \cup Disagreeing(all) \cup
                   {<<"MSL-E000", f>> : f \in {g \in PathSet : found[g] = NoText}}]

\* All files are done: the rest is one step.
BuildGraph ==
  /\ outcome = "running" /\ \A f \in PathSet : at[f] = "done"
  /\ outcome' = "done" /\ graph' = Graph(AllFound)
  /\ UNCHANGED <<disk, at, waiting, free, found, changes>>

CompileNext ==
  \/ \E f \in PathSet : ChangeFile(f) \/ ReadFile(f) \/ ParseFile(f) \/ ParseThrows(f)
  \/ BuildGraph

CompileSpec == CompileInit /\ [][CompileNext]_compileVars

-------------------------------------------------------------------------------
(***************************************************************************)
(* Whatever the order in which the files were read, and whoever changes    *)
(* them meanwhile:                                                         *)
(* - no more files than slots are in work, and while any waits, all slots  *)
(*   are taken, so that a compilation that has not ended goes on;          *)
(* - the graph has the display IDs of what was read, each with the entry   *)
(*   of the first file, in the order of the paths, that has it, the        *)
(*   delivered ones first; a file that could not be read is reported;      *)
(* - the entry of a link that is written as its ULID, of the category, has *)
(*   the inverse, and the way back is a link too, unless its ULID is that  *)
(*   of another entry also; nothing else is generated.  Of several         *)
(*   attributes whose inverses share a name, one alone gives a way back:   *)
(*   the first the profile declares, of those that name the entry;         *)
(* - a link to a draft or retired entry is reported, one to an entry that  *)
(*   is retired because an entry elsewhere supersedes it included.         *)
(***************************************************************************)
InWork == {f \in PathSet : at[f] \in {"reading", "parsing"}}

SlotsHold ==
  /\ Cardinality(InWork) + free = Slots
  /\ waiting # <<>> => free = 0

NamesIn(content) == {EntriesOf(content)[n].name : n \in DOMAIN EntriesOf(content)}

\* The place an entry comes from: before any other of its display ID.
FirstIn(content, x) ==
  content[CHOOSE n \in DOMAIN content : content[n].name = x /\ \A m \in 1..(n - 1) : content[m].name # x]

SourceOf(x) ==
  IF x \in NamesIn(Delivered) THEN FirstIn(Delivered, x)
  ELSE FirstIn(found[Paths[CHOOSE n \in DOMAIN Paths :
                 /\ x \in NamesIn(found[Paths[n]])
                 /\ \A m \in 1..(n - 1) : x \notin NamesIn(found[Paths[m]])]], x)

Compiled == DOMAIN graph.entries

FirstCounts ==
  /\ Compiled = NamesIn(Delivered) \cup UNION {NamesIn(found[f]) : f \in PathSet}
  /\ \A x \in Compiled : [graph.entries[x] EXCEPT !.attrs = SourceOf(x).attrs] = SourceOf(x)

OneEntryEach == \A x, y \in Compiled : SourceOf(x).id = SourceOf(y).id /\ SourceOf(x).id # NoId => x = y

\* Entry y returns a link that x has written, by inverse s.
Answers(x, y, s) ==
  LET source == SourceOf(x)
      target == SourceOf(y)
  IN /\ NoId \notin {source.id, target.id} /\ target.id \in source.attrs[s.attr]
     /\ target.type = s.category /\ s.source \in {AnyType, source.type}

\* What entry y gets for attribute a.
Returning(y, a) ==
  {SourceOf(x).id : x \in {z \in Compiled :
     \E k \in DOMAIN Inverses : Inverses[k].inverse = a /\ Answers(z, y, Inverses[k])}}

\* The way back from y to x is by the first inverse of its name.
WayBack(x, y, k) ==
  /\ Answers(x, y, Inverses[k])
  /\ \A j \in 1..(k - 1) : Inverses[j].inverse = Inverses[k].inverse => ~Answers(x, y, Inverses[j])

BackLinks ==
  UNION {{Link(y, x, Inverses[k].attr, TRUE) :
            k \in {j \in DOMAIN Inverses : Inverses[j].attr \in LinkAttrs /\ WayBack(x, y, j)}} :
           x \in Compiled, y \in Compiled}

InversesAgree ==
  OneEntryEach =>
    /\ \A y \in Compiled, a \in Attributes :
         graph.entries[y].attrs[a] = SourceOf(y).attrs[a] \cup Returning(y, a)
    /\ {l \in graph.links : l.generated} = BackLinks

InactiveReported ==
  \A l \in graph.links : l.to \in Compiled =>
    LET reported == \E s \in {"draft", "retired"} : <<"MSL-T013", l.from, l.to, s>> \in graph.reported
        inactive == SourceOf(l.to).state # "active" \/ SourceOf(l.to).attrs["Superseded-by"] # {}
        superseded == Returning(l.to, "Superseded-by") # {}
    IN  /\ inactive => reported
        /\ OneEntryEach => (reported <=> inactive \/ superseded)

UnreadReported ==
  \A f \in PathSet : <<"MSL-E000", f>> \in graph.reported <=> found[f] = NoText

GraphIsOfSources ==
  /\ SlotsHold
  /\ outcome = "running" => InWork # {} \/ \A f \in PathSet : at[f] = "done"
  /\ outcome = "done" =>
       FirstCounts /\ InversesAgree /\ InactiveReported /\ UnreadReported
================================================================================
