----------------------------- MODULE ProjectProofs -----------------------------
(***************************************************************************)
(* The projects of the language server: the entry index of one, its        *)
(* corpora, its configuration and the chain of profiles it comes from, and *)
(* what the editor shows of its files.                                     *)
(***************************************************************************)
EXTENDS Diagnostics, IndexMutations, ProjectContext, ProfileChain,
        FiniteSetTheorems, WellFoundedInduction, TLAPS

-------------------------------------------------------------------------------
(***************************************************************************)
(* The entry index, for every set of files and IDs and every bound on the  *)
(* number of parses.                                                       *)
(***************************************************************************)

(***************************************************************************)
(* A scan of the map finds a first file in every nonempty set of files.    *)
(***************************************************************************)
LEMMA FirstOfMember ==
  ASSUME NEW ix \in Index, NEW S \in SUBSET Files, S # {}
  PROVE  FirstOf(ix, S) \in S
<1> DEFINE T == {ix.insertedAt[f] : f \in S}
<1>1. T \subseteq Nat /\ T # {}
  BY DEF Index
<1>2. IsWellFoundedOn(OpToRel(<, Nat), Nat)
  BY NatLessThanWellFounded
<1>3. PICK n \in T : \A m \in T : ~(<<m, n>> \in OpToRel(<, Nat))
  BY <1>1, <1>2, WFMin
<1>4. \A m \in T : ~(m < n)
  BY <1>1, <1>3 DEF OpToRel
<1>5. \A m \in T : n <= m
  <2> HIDE DEF T
  <2> QED
    BY <1>1, <1>4
<1>6. PICK f \in S : n = ix.insertedAt[f]
  BY <1>3
<1>7. \A g \in S : ix.insertedAt[f] <= ix.insertedAt[g]
  BY <1>5, <1>6
<1> QED
  BY <1>7 DEF FirstOf

(***************************************************************************)
(* The strengthening: an untracked file has no entries, so an entry found  *)
(* by a scan of the files always belongs to a tracked one.                 *)
(***************************************************************************)
OnlyTrackedDeclare(ix) ==
  \A f \in Files : ix.fileEntries[f] # {} => Tracked(ix, f)

Consistent(ix) ==
  /\ ix \in Index
  /\ OnlyTrackedDeclare(ix)
  /\ Complete(ix)
  /\ Current(ix)

(***************************************************************************)
(* Once the entries of f are withdrawn, an ID resolves to a current entry  *)
(* of another file that declares it, and to nothing when there is none.    *)
(***************************************************************************)
LEMMA WithdrawnResolves ==
  ASSUME NEW ix, Consistent(ix), NEW f \in Files, NEW id \in Ids
  PROVE  /\ Declarers(ix, id) \ {f} = {} => Withdrawn(ix, f, id) = NoEntry
         /\ Declarers(ix, id) \ {f} # {} =>
              \E g \in Declarers(ix, id) \ {f} :
                Tracked(ix, g) /\ Withdrawn(ix, f, id) = EntryOf(ix, g)
<1> DEFINE others == Declarers(ix, id) \ {f}
<1> USE DEF Consistent
<1>1. ASSUME ix.byDisplayId[id] # NoEntry
      PROVE  \E g \in Declarers(ix, id) :
               /\ Tracked(ix, g)
               /\ ix.byDisplayId[id] = EntryOf(ix, g)
               /\ ResolvesTo(ix, id, f) <=> g = f
  BY <1>1 DEF Current, EntryOf, ResolvesTo
<1>2. \A g \in Declarers(ix, id) : Tracked(ix, g)
  BY DEF Declarers, OnlyTrackedDeclare
<1>3. f \in Declarers(ix, id) <=> id \in ix.fileEntries[f]
  BY DEF Declarers
<1>4. CASE id \in ix.fileEntries[f] /\ ResolvesTo(ix, id, f)
  <2>1. others # {} => FirstOf(ix, others) \in others
    BY FirstOfMember DEF Declarers
  <2> QED
    BY <1>2, <1>4, <2>1 DEF Withdrawn
<1>5. CASE ~(id \in ix.fileEntries[f] /\ ResolvesTo(ix, id, f))
  <2>1. Withdrawn(ix, f, id) = ix.byDisplayId[id]
    BY <1>5 DEF Withdrawn
  <2>2. others # {} => ix.byDisplayId[id] # NoEntry
    BY DEF Complete
  <2> QED
    BY <1>1, <1>3, <1>5, <2>1, <2>2
<1> QED
  BY <1>4, <1>5

\* Both mutations yield an index again, with the entries one expects.
LEMMA WithdrawnType ==
  ASSUME NEW ix, Consistent(ix), NEW f \in Files, NEW id \in Ids
  PROVE  Withdrawn(ix, f, id) \in Entry \cup {NoEntry}
BY WithdrawnResolves DEF Entry, EntryOf, Consistent, Index, Declarers

LEMMA UpdateFileConsistent ==
  ASSUME NEW ix, Consistent(ix), NEW f \in Files, NEW new \in SUBSET Ids
  PROVE  Consistent(UpdateFile(ix, f, new))
<1> DEFINE after == UpdateFile(ix, f, new)
           n == ix.parses + 1
<1>1. ix \in Index
  BY DEF Consistent
<1>2. after \in Index
  <2>1. n \in Nat \ {0}
    BY <1>1 DEF Index
  <2>2. \A id \in Ids : Withdrawn(ix, f, id) \in Entry \cup {NoEntry}
    BY WithdrawnType
  <2>3. <<f, n>> \in Entry
    BY <2>1 DEF Entry
  <2>4. after.byDisplayId \in [Ids -> Entry \cup {NoEntry}]
    BY <2>2, <2>3 DEF UpdateFile
  <2> HIDE DEF n
  <2> QED
    BY <1>1, <2>1, <2>4 DEF UpdateFile, Index, n
<1>3. \A id \in Ids :
        Declarers(after, id) =
          (Declarers(ix, id) \ {f}) \cup (IF id \in new THEN {f} ELSE {})
  BY <1>1 DEF UpdateFile, Declarers, Index
<1>4. Tracked(after, f) /\ EntryOf(after, f) = <<f, n>>
  BY <1>1 DEF UpdateFile, Tracked, EntryOf, Index
<1>5. \A g \in Files \ {f} :
        /\ Tracked(after, g) <=> Tracked(ix, g)
        /\ EntryOf(after, g) = EntryOf(ix, g)
        /\ after.fileEntries[g] = ix.fileEntries[g]
  BY <1>1 DEF UpdateFile, Tracked, EntryOf, Index
<1>6. ASSUME NEW id \in Ids
      PROVE  /\ after.byDisplayId[id] # NoEntry <=> Declarers(after, id) # {}
             /\ after.byDisplayId[id] # NoEntry =>
                  \E g \in Declarers(after, id) :
                    Tracked(after, g) /\ after.byDisplayId[id] = EntryOf(after, g)
  <2>1. after.byDisplayId[id] =
          IF Withdrawn(ix, f, id) = NoEntry /\ id \in new
            THEN <<f, n>> ELSE Withdrawn(ix, f, id)
    BY DEF UpdateFile
  <2>2. <<f, n>> # NoEntry
    BY <1>1, NoEntryAssumption DEF Entry, Index
  <2>3. \A g \in Files : EntryOf(ix, g) # NoEntry
    BY <1>1, NoEntryAssumption DEF Entry, EntryOf, Index
  <2>4. Declarers(ix, id) \subseteq Files
    BY DEF Declarers
  <2>5. CASE Declarers(ix, id) \ {f} = {}
    <3>1. Withdrawn(ix, f, id) = NoEntry
      BY <2>5, WithdrawnResolves
    <3> QED
      BY <1>3, <1>4, <2>1, <2>2, <2>5, <3>1
  <2>6. CASE Declarers(ix, id) \ {f} # {}
    <3>1. PICK g \in Declarers(ix, id) \ {f} :
            Tracked(ix, g) /\ Withdrawn(ix, f, id) = EntryOf(ix, g)
      BY <2>6, WithdrawnResolves
    <3>2. g \in Declarers(after, id) /\ after.byDisplayId[id] = EntryOf(ix, g)
      BY <1>3, <2>1, <2>3, <2>4, <3>1
    <3> QED
      BY <1>5, <2>3, <2>4, <3>1, <3>2
  <2> QED
    BY <2>5, <2>6
<1>7. OnlyTrackedDeclare(after)
  BY <1>4, <1>5 DEF OnlyTrackedDeclare, Consistent
<1> QED
  BY <1>2, <1>6, <1>7 DEF Consistent, Complete, Current

LEMMA RemoveFileConsistent ==
  ASSUME NEW ix, Consistent(ix), NEW f \in Files
  PROVE  Consistent(RemoveFile(ix, f))
<1> DEFINE after == RemoveFile(ix, f)
<1>1. ix \in Index
  BY DEF Consistent
<1>2. /\ after.fileEntries = [ix.fileEntries EXCEPT ![f] = {}]
      /\ after.insertedAt = [ix.insertedAt EXCEPT ![f] = 0]
      /\ after.parseOf = ix.parseOf
      /\ after.byDisplayId = [id \in Ids |-> Withdrawn(ix, f, id)]
      /\ after.parses = ix.parses
  BY <1>1 DEF RemoveFile, Index
<1>3. after \in Index
  <2>1. after.byDisplayId \in [Ids -> Entry \cup {NoEntry}]
    BY <1>2, WithdrawnType
  <2> QED
    BY <1>1, <1>2, <2>1 DEF RemoveFile, Index
<1> HIDE DEF after
<1>4. \A id \in Ids : Declarers(after, id) = Declarers(ix, id) \ {f}
  BY <1>1, <1>2 DEF Declarers, Index
<1>5. \A g \in Files \ {f} :
        /\ Tracked(after, g) <=> Tracked(ix, g)
        /\ EntryOf(after, g) = EntryOf(ix, g)
        /\ after.fileEntries[g] = ix.fileEntries[g]
  BY <1>1, <1>2 DEF Tracked, EntryOf, Index
<1>6. ASSUME NEW id \in Ids
      PROVE  /\ after.byDisplayId[id] # NoEntry <=> Declarers(after, id) # {}
             /\ after.byDisplayId[id] # NoEntry =>
                  \E g \in Declarers(after, id) :
                    Tracked(after, g) /\ after.byDisplayId[id] = EntryOf(after, g)
  <2>1. after.byDisplayId[id] = Withdrawn(ix, f, id)
    BY <1>2
  <2>2. \A g \in Files : EntryOf(ix, g) # NoEntry
    BY <1>1, NoEntryAssumption DEF Entry, EntryOf, Index
  <2>3. Declarers(ix, id) \subseteq Files
    BY DEF Declarers
  <2> QED
    BY <1>4, <1>5, <2>1, <2>2, <2>3, WithdrawnResolves
<1>7. OnlyTrackedDeclare(after)
  <2>1. after.fileEntries[f] = {}
    BY <1>1, <1>2 DEF Index
  <2> QED
    BY <1>5, <2>1 DEF OnlyTrackedDeclare, Consistent
<1>8. Consistent(after)
  BY <1>3, <1>6, <1>7 DEF Consistent, Complete, Current
<1> QED
  BY <1>8 DEF after

(***************************************************************************)
(* The inductive invariant: the index is consistent, and every entry comes *)
(* from a parse that has run.  The second part says that a parse never     *)
(* reuses the number of an earlier one.                                    *)
(***************************************************************************)
PastParses == \A f \in Files : workspaceIndex.parseOf[f] <= workspaceIndex.parses

IndexInv == Consistent(workspaceIndex) /\ PastParses

LEMMA InitIndexInv == Init => IndexInv
BY DEF Init, EmptyIndex, IndexInv, Consistent, PastParses, Index,
       OnlyTrackedDeclare, Complete, Current, Declarers

LEMMA ParseIndexInv ==
  ASSUME IndexInv, NEW f \in Files, NEW new \in SUBSET Ids, Parse(f, new)
  PROVE  IndexInv'
<1>1. Consistent(workspaceIndex')
  BY UpdateFileConsistent DEF Parse, IndexInv
<1>2. /\ workspaceIndex'.parses = workspaceIndex.parses + 1
      /\ workspaceIndex'.parseOf = [workspaceIndex.parseOf EXCEPT ![f] = workspaceIndex.parses + 1]
  BY DEF Parse, UpdateFile
<1>3. workspaceIndex \in Index
  BY DEF IndexInv, Consistent
<1>4. PastParses'
  BY <1>2, <1>3 DEF IndexInv, PastParses, Index
<1> QED
  BY <1>1, <1>4 DEF IndexInv

LEMMA ForgetIndexInv ==
  ASSUME IndexInv, NEW f \in Files, Forget(f)
  PROVE  IndexInv'
<1>1. Consistent(workspaceIndex')
  BY RemoveFileConsistent DEF Forget, IndexInv
<1>2. workspaceIndex \in Index
  BY DEF IndexInv, Consistent
<1>3. workspaceIndex'.parses = workspaceIndex.parses /\ workspaceIndex'.parseOf = workspaceIndex.parseOf
  BY <1>2 DEF Forget, RemoveFile, Index
<1> QED
  BY <1>1, <1>3 DEF IndexInv, PastParses

LEMMA NextIndexInv == IndexInv /\ [Next]_workspaceIndex => IndexInv'
<1> SUFFICES ASSUME IndexInv, [Next]_workspaceIndex PROVE IndexInv'
  OBVIOUS
<1>1. CASE Next
  BY <1>1, ParseIndexInv, ForgetIndexInv DEF Next
<1>2. CASE UNCHANGED workspaceIndex
  BY <1>2 DEF IndexInv, PastParses
<1> QED
  BY <1>1, <1>2

(***************************************************************************)
(* The index is consistent in every reachable state: an ID resolves when   *)
(* and only when a tracked file declares it, and then to an entry of that  *)
(* file's latest parse.                                                    *)
(***************************************************************************)
THEOREM IndexConsistent == Spec => [](TypeOK /\ IndexComplete /\ NoStaleEntry)
<1>1. IndexInv => TypeOK /\ IndexComplete /\ NoStaleEntry
  BY DEF IndexInv, Consistent, TypeOK, IndexComplete, NoStaleEntry
<1> QED
  BY <1>1, InitIndexInv, NextIndexInv, PTL DEF Spec

(***************************************************************************)
(* No mutation of one file takes an ID away from another (updateFile and   *)
(* removeFile touch only the IDs of the file they replace).                *)
(***************************************************************************)
THEOREM FirstEntryStays == Spec => FirstEntryWins
<1> DEFINE Stays ==
             \A id \in Ids, f \in Files :
               /\ ResolvesTo(workspaceIndex, id, f)
               /\ workspaceIndex'.parseOf[f] = workspaceIndex.parseOf[f]
               /\ Tracked(workspaceIndex', f)
               => workspaceIndex'.byDisplayId[id] = workspaceIndex.byDisplayId[id]
<1>1. ASSUME IndexInv, Next PROVE Stays
  <2> SUFFICES ASSUME NEW id \in Ids, NEW f \in Files,
                      ResolvesTo(workspaceIndex, id, f),
                      workspaceIndex'.parseOf[f] = workspaceIndex.parseOf[f],
                      Tracked(workspaceIndex', f)
               PROVE  workspaceIndex'.byDisplayId[id] = workspaceIndex.byDisplayId[id]
    OBVIOUS
  <2>1. workspaceIndex \in Index /\ workspaceIndex.parseOf[f] <= workspaceIndex.parses
    BY <1>1 DEF IndexInv, Consistent, PastParses
  <2>2. \A g \in Files \ {f} :
          Withdrawn(workspaceIndex, g, id) = workspaceIndex.byDisplayId[id]
    BY DEF Withdrawn, ResolvesTo
  <2>3. ASSUME NEW g \in Files, NEW new \in SUBSET Ids, Parse(g, new)
        PROVE  workspaceIndex'.byDisplayId[id] = workspaceIndex.byDisplayId[id]
    <3>1. workspaceIndex'.parseOf[g] = workspaceIndex.parses + 1
      BY <2>1, <2>3 DEF Parse, UpdateFile, Index
    <3>2. workspaceIndex.parses \in Nat /\ workspaceIndex.parseOf[f] \in Nat
      BY <2>1 DEF Index
    <3>3. f # g
      BY <2>1, <3>1, <3>2
    <3>4. Withdrawn(workspaceIndex, g, id) = workspaceIndex.byDisplayId[id]
      BY <2>2, <3>3
    <3> QED
      BY <2>3, <3>4 DEF Parse, UpdateFile, ResolvesTo
  <2>4. ASSUME NEW g \in Files, Forget(g)
        PROVE  workspaceIndex'.byDisplayId[id] = workspaceIndex.byDisplayId[id]
    <3>1. /\ workspaceIndex'.insertedAt = [workspaceIndex.insertedAt EXCEPT ![g] = 0]
          /\ workspaceIndex'.byDisplayId = [i \in Ids |-> Withdrawn(workspaceIndex, g, i)]
      BY <2>1, <2>4 DEF Forget, RemoveFile, Index
    <3>2. f # g
      BY <2>1, <3>1 DEF Tracked, Index
    <3> QED
      BY <2>2, <3>1, <3>2
  <2> QED
    BY <1>1, <2>3, <2>4 DEF Next
<1>2. IndexInv /\ [Next]_workspaceIndex => [Stays]_workspaceIndex
  <2> HIDE DEF Stays
  <2> QED
    BY <1>1
<1> QED
  BY <1>2, InitIndexInv, NextIndexInv, PTL DEF Spec, FirstEntryWins

-------------------------------------------------------------------------------
(***************************************************************************)
(* ShownIsCurrent, for any files, texts and corpora, and any order of      *)
(* edits, parses, validations and tasks of the lane.  While a task is at   *)
(* work on a project (Busy), nothing is said of that one.  Two projects    *)
(* have a file in common only if it is a stray, so that what the one       *)
(* publishes does not disturb what the other has published.                *)
(***************************************************************************)
Busy == IF laneAt \in {"walkPrimary", "seed"} THEN {"primary"}
        ELSE IF laneAt = "walkLate" THEN {"late"} ELSE {}

LiveFits ==
  /\ laneAt \in {"idle", "load", "walkPrimary", "walkLate", "seed"}
  /\ live \in {{}, {"primary"}, ProjectNames} /\ (live = {} <=> laneAt = "load")
  /\ laneAt = "walkPrimary" => live = {"primary"} /\ todo \cap LatePaths = {}
  /\ laneAt = "walkLate" => live = ProjectNames /\ todo \subseteq LatePaths

IndexesFit ==
  /\ DOMAIN tracked = ProjectNames /\ DOMAIN shown = Paths /\ corpusPaths \subseteq Deliverable
  /\ \A n \in ProjectNames : DOMAIN tracked[n] \subseteq Paths /\ (n \notin live => DOMAIN tracked[n] = {})
  /\ DOMAIN tracked["late"] \subseteq LatePaths
  /\ "late" \in live => DOMAIN tracked["primary"] \cap LatePaths \subseteq strays

ParsesFit == \A r \in parsesUnderWay :
  /\ r = [path |-> r.path, text |-> r.text, project |-> r.project, moved |-> r.moved]
  /\ r.path \in Paths
  /\ r.project # "gate" => r.project \in live /\ (r.project = "late" => r.path \in LatePaths)

\* What a project has published stands, and nothing does of a file without one.
Stand(reports, projects, ix, apart) ==
  \A n \in projects : \A p \in DOMAIN ix[n] \ apart : reports[p] = Validated(p, ix[n])

NothingLeft(reports, projects, ix, apart) ==
  \A p \in Paths \ apart : (\A n \in projects : p \notin DOMAIN ix[n]) => reports[p] = {}

DiagInv ==
  /\ LiveFits /\ IndexesFit /\ ParsesFit
  /\ Stand(shown, live \ (validations \cup unvalidated \cup Busy), tracked, corpusPaths \cup strays)
  /\ NothingLeft(shown, live, tracked, Deliverable \cup strays)

-------------------------------------------------------------------------------
LEMMA WithAndWithout ==
  ASSUME NEW ix, NEW p, NEW t, NEW paths
  PROVE  /\ DOMAIN With(ix, p, t) = DOMAIN ix \cup {p}
         /\ DOMAIN Without(ix, paths) = DOMAIN ix \ paths
         /\ \A x \in DOMAIN ix \ paths : Without(ix, paths)[x] = ix[x]
BY DEF With, Without, Restrict

LEMMA ParseChanges ==
  ASSUME NEW r, r = [path |-> r.path, text |-> r.text, project |-> r.project, moved |-> r.moved],
         NEW name, NEW b
  PROVE  /\ [r EXCEPT !.project = name] =
              [path |-> r.path, text |-> r.text, project |-> name, moved |-> r.moved]
         /\ [r EXCEPT !.moved = b] =
              [path |-> r.path, text |-> r.text, project |-> r.project, moved |-> b]
OBVIOUS

\* A close and an open make the parses of the file out of date, no more.
LEMMA MovedFits ==
  ASSUME ParsesFit, NEW p, NEW q \in Moved(p)
  PROVE  /\ q = [path |-> q.path, text |-> q.text, project |-> q.project, moved |-> q.moved]
         /\ q.path \in Paths
         /\ q.project # "gate" => q.project \in live /\ (q.project = "late" => q.path \in LatePaths)
<1>1. PICK r \in parsesUnderWay : q = [r EXCEPT !.moved = @ \/ r.path = p]
  BY DEF Moved
<1>2. r = [path |-> r.path, text |-> r.text, project |-> r.project, moved |-> r.moved]
  BY DEF ParsesFit
<1>3. q = [path |-> r.path, text |-> r.text, project |-> r.project, moved |-> (r.moved \/ r.path = p)]
  BY <1>1, <1>2, ParseChanges
<1>4. q.path = r.path /\ q.project = r.project
  BY <1>3
<1> QED
  BY <1>3, <1>4 DEF ParsesFit

LEMMA NewParseFits ==
  ASSUME NEW p \in Paths, NEW t
  PROVE  /\ NewParse(p, t) = [path |-> NewParse(p, t).path, text |-> NewParse(p, t).text,
                               project |-> NewParse(p, t).project, moved |-> NewParse(p, t).moved]
         /\ NewParse(p, t).path = p /\ NewParse(p, t).project = "gate"
BY DEF NewParse

\* What the validator reports is of the index, whatever has brought it there.
LEMMA SameReports ==
  ASSUME NEW f, NEW g, DOMAIN f = DOMAIN g, \A x \in DOMAIN f : f[x] = g[x],
         NEW p \in DOMAIN f
  PROVE  Validated(p, f) = Validated(p, g)
<1>1. Range(f) = Range(g)
  BY DEF Range
<1> QED
  BY <1>1 DEF Validated

\* A publication makes its project stand, and leaves the others alone.
LEMMA PublishStands ==
  ASSUME NEW n \in live', LiveFits', IndexesFit', ParsesFit', Publish(n),
         Stand(shown, live' \ (validations \cup unvalidated \cup Busy' \cup {n}), tracked',
               corpusPaths' \cup strays'),
         NothingLeft(shown, live', tracked', Deliverable \cup strays')
  PROVE  DiagInv'
<1>1. /\ shown' = [p \in Paths |-> IF p \in DOMAIN tracked'[n] \ corpusPaths' THEN Validated(p, tracked'[n])
                                   ELSE shown[p]]
      /\ validations' = validations \ {n} /\ unvalidated' = unvalidated \ {n}
  BY DEF Publish, Published
<1>2. live' \subseteq ProjectNames
  BY DEF LiveFits, ProjectNames
<1>3. ASSUME NEW m \in live' \ (validations' \cup unvalidated' \cup Busy'),
             NEW p \in DOMAIN tracked'[m] \ (corpusPaths' \cup strays')
      PROVE  shown'[p] = Validated(p, tracked'[m])
  <2> p \in Paths
    BY <1>2 DEF IndexesFit
  <2>1. CASE m = n
    BY <1>1, <1>3, <2>1
  <2>2. CASE m # n
    <3>1. p \notin DOMAIN tracked'[n]
      BY <1>2, <1>3, <2>2 DEF LiveFits, IndexesFit, ProjectNames
    <3>2. m \in live' \ (validations \cup unvalidated \cup Busy' \cup {n})
      BY <1>1, <2>2
    <3> QED
      BY <1>1, <1>3, <3>1, <3>2 DEF Stand
  <2> QED
    BY <2>1, <2>2
<1>4. ASSUME NEW p \in Paths \ (Deliverable \cup strays'), \A m \in live' : p \notin DOMAIN tracked'[m]
      PROVE  shown'[p] = {}
  BY <1>1, <1>4 DEF NothingLeft
<1> QED
  BY <1>3, <1>4 DEF DiagInv, Stand, NothingLeft, IndexesFit

\* Nothing that the editor is shown changes.
LEMMA ShownStays ==
  ASSUME DiagInv, LiveFits', IndexesFit', ParsesFit',
         UNCHANGED <<live, shown, corpusPaths, tracked, strays>>,
         validations' = validations, unvalidated' = unvalidated, laneAt' = laneAt
  PROVE  DiagInv'
BY DEF DiagInv, Stand, NothingLeft, Busy

-------------------------------------------------------------------------------
(***************************************************************************)
(* Each step: first what projects, indexes and parses there are, then what *)
(* stands.                                                                 *)
(***************************************************************************)
LEMMA EditorKeeps ==
  ASSUME DiagInv, NEW p \in Paths,
         (\E t \in TextsOf[p] : OpenDocument(p, t) \/ Type(p, t)) \/ StartParse(p)
  PROVE  DiagInv'
<1>1. UNCHANGED <<laneState, tracked, corpusPaths, validations, shown, unvalidated, strays>>
  BY DEF OpenDocument, Type, StartParse
<1>2. LiveFits' /\ IndexesFit'
  BY <1>1 DEF DiagInv, LiveFits, IndexesFit, laneState
<1>3. ParsesFit'
  <2>1. ParsesFit /\ live' = live
    BY <1>1 DEF DiagInv, laneState
  <2>2. \A q \in parsesUnderWay' :
          q \in parsesUnderWay \/ q \in Moved(p) \/ \E t : q = NewParse(p, t)
    BY DEF OpenDocument, Type, StartParse
  <2>3. \A q \in parsesUnderWay' :
          /\ q = [path |-> q.path, text |-> q.text, project |-> q.project, moved |-> q.moved]
          /\ q.path \in Paths
          /\ q.project # "gate" => q.project \in live /\ (q.project = "late" => q.path \in LatePaths)
    <3> TAKE q \in parsesUnderWay'
    <3>1. CASE q \in parsesUnderWay
      BY <2>1, <3>1 DEF ParsesFit
    <3>2. CASE q \in Moved(p)
      BY <2>1, <3>2, MovedFits
    <3>3. CASE \E t : q = NewParse(p, t)
      BY <3>3, NewParseFits
    <3> QED
      BY <2>2, <3>1, <3>2, <3>3
  <2> QED
    BY <2>1, <2>3 DEF ParsesFit
<1> QED
  BY <1>1, <1>2, <1>3, ShownStays DEF laneState

LEMMA EnsureContextKeeps == ASSUME DiagInv, NEW r \in parsesUnderWay, EnsureContext(r) PROVE DiagInv'
<1>1. /\ UNCHANGED <<laneState, tracked, corpusPaths, validations, shown, unvalidated, strays>>
      /\ laneAt \in {"idle", "seed"}
      /\ \A q \in parsesUnderWay' : q \in parsesUnderWay \/ q = [r EXCEPT !.project = OwnerOfPath(r.path)]
  BY DEF EnsureContext
<1>2. LiveFits' /\ IndexesFit'
  BY <1>1 DEF DiagInv, LiveFits, IndexesFit, laneState
<1>3. ParsesFit'
  <2> DEFINE to == [r EXCEPT !.project = OwnerOfPath(r.path)]
  <2>1. r = [path |-> r.path, text |-> r.text, project |-> r.project, moved |-> r.moved] /\ r.path \in Paths
    BY DEF DiagInv, ParsesFit
  <2>2. to = [path |-> r.path, text |-> r.text, project |-> OwnerOfPath(r.path), moved |-> r.moved]
    BY <2>1, ParseChanges
  <2>3. /\ to = [path |-> to.path, text |-> to.text, project |-> to.project, moved |-> to.moved]
        /\ to.path = r.path /\ to.project = OwnerOfPath(r.path)
    BY <2>2
  <2>4. /\ OwnerOfPath(r.path) \in live
        /\ OwnerOfPath(r.path) = "late" => r.path \in LatePaths
    BY <1>1 DEF DiagInv, LiveFits, OwnerOfPath, ProjectNames
  <2> HIDE DEF to
  <2>5. live' = live /\ \A q \in parsesUnderWay' : q \in parsesUnderWay \/ q = to
    BY <1>1 DEF laneState, to
  <2> QED
    BY <2>1, <2>3, <2>4, <2>5 DEF DiagInv, ParsesFit
<1> QED
  BY <1>1, <1>2, <1>3, ShownStays DEF laneState

LEMMA EndParseKeeps == ASSUME DiagInv, NEW r \in parsesUnderWay, EndParse(r) PROVE DiagInv'
<1> DEFINE n == r.project
           p == r.path
           landed == [tracked EXCEPT ![n] = With(@, p, r.text)]
           lost == [tracked EXCEPT ![n] = Without(@, {p})]
<1>1. /\ n # "gate" /\ UNCHANGED <<live, laneAt, todo, corpusPaths>>
      /\ parsesUnderWay' = parsesUnderWay \ {r}
  BY DEF EndParse, laneState
<1>2. /\ p \in Paths /\ n \in live /\ (n = "late" => p \in LatePaths) /\ n \in ProjectNames
      /\ live \subseteq ProjectNames
  BY <1>1 DEF DiagInv, ParsesFit, LiveFits, ProjectNames
<1>3. LiveFits' /\ ParsesFit' /\ Busy' = Busy
  BY <1>1 DEF DiagInv, LiveFits, ParsesFit, Busy
<1>4. /\ DOMAIN tracked = ProjectNames /\ DOMAIN shown = Paths
      /\ DOMAIN landed = ProjectNames /\ DOMAIN lost = ProjectNames
      /\ DOMAIN landed[n] = DOMAIN tracked[n] \cup {p}
      /\ DOMAIN lost[n] = DOMAIN tracked[n] \ {p}
      /\ \A m \in ProjectNames \ {n} : landed[m] = tracked[m] /\ lost[m] = tracked[m]
  <2>1. DOMAIN tracked = ProjectNames /\ DOMAIN shown = Paths
    BY DEF DiagInv, IndexesFit
  <2>2. landed[n] = With(tracked[n], p, r.text) /\ lost[n] = Without(tracked[n], {p})
    BY <1>2, <2>1
  <2>3. /\ DOMAIN With(tracked[n], p, r.text) = DOMAIN tracked[n] \cup {p}
        /\ DOMAIN Without(tracked[n], {p}) = DOMAIN tracked[n] \ {p}
    BY WithAndWithout
  <2> QED
    BY <1>2, <2>1, <2>2, <2>3
<1>5. /\ Stand(shown, live \ (validations \cup unvalidated \cup Busy), tracked, corpusPaths \cup strays)
      /\ NothingLeft(shown, live, tracked, Deliverable \cup strays)
  BY DEF DiagInv
<1> HIDE DEF landed, lost
<1>6. CASE r.moved
  <2>1. /\ tracked' = landed /\ unvalidated' = unvalidated \cup {n}
        /\ strays' = strays \cup {x \in {p} : OwnerOfPath(x) # n}
        /\ UNCHANGED <<shown, validations>>
    BY <1>6 DEF EndParse, landed
  <2>2. IndexesFit'
    BY <1>1, <1>2, <1>4, <2>1 DEF DiagInv, IndexesFit, ProjectNames, OwnerOfPath
  <2>3. Stand(shown, live \ (validations \cup unvalidated' \cup Busy), landed, corpusPaths \cup strays')
    BY <1>2, <1>4, <1>5, <2>1 DEF Stand
  <2>4. NothingLeft(shown, live, landed, Deliverable \cup strays')
    BY <1>2, <1>4, <1>5, <2>1 DEF NothingLeft
  <2> QED
    BY <1>1, <1>3, <2>1, <2>2, <2>3, <2>4 DEF DiagInv
<1>7. CASE ~r.moved /\ OwnerOfPath(p) # n
  <2>1. /\ tracked' = lost /\ unvalidated' = unvalidated \cup {n}
        /\ UNCHANGED <<shown, validations, strays>>
    BY <1>7 DEF EndParse, lost
  <2>2. n = "primary" /\ p \in LatePaths /\ "late" \in live
    BY <1>2, <1>7 DEF OwnerOfPath, ProjectNames
  <2>3. IndexesFit'
    BY <1>1, <1>2, <1>4, <2>1 DEF DiagInv, IndexesFit, ProjectNames
  <2>4. Stand(shown, live \ (validations \cup unvalidated' \cup Busy), lost, corpusPaths \cup strays)
    BY <1>2, <1>4, <1>5, <2>1 DEF Stand
  <2>5. p \in DOMAIN tracked[n] => p \in strays
    BY <2>2 DEF DiagInv, IndexesFit
  <2>6. NothingLeft(shown, live, lost, Deliverable \cup strays)
    BY <1>2, <1>4, <1>5, <2>1, <2>5 DEF NothingLeft
  <2> QED
    BY <1>1, <1>3, <2>1, <2>3, <2>4, <2>6 DEF DiagInv
<1>8. CASE ~r.moved /\ OwnerOfPath(p) = n
  <2>1. /\ tracked' = landed /\ shown' = [shown EXCEPT ![p] = ParseReports(r.text)]
        /\ validations' = validations \cup {n} /\ UNCHANGED <<unvalidated, strays>>
    BY <1>8 DEF EndParse, landed
  <2>2. IndexesFit'
    BY <1>1, <1>2, <1>4, <1>8, <2>1 DEF DiagInv, IndexesFit, ProjectNames, OwnerOfPath
  <2>3. \A m \in live \ {n} : p \in DOMAIN tracked[m] => p \in strays
    BY <1>2, <1>8 DEF DiagInv, IndexesFit, OwnerOfPath, ProjectNames
  <2>4. Stand(shown', live \ (validations' \cup unvalidated \cup Busy), landed, corpusPaths \cup strays)
    BY <1>2, <1>4, <1>5, <2>1, <2>3 DEF Stand
  <2>5. NothingLeft(shown', live, landed, Deliverable \cup strays)
    BY <1>2, <1>4, <1>5, <2>1 DEF NothingLeft
  <2> QED
    BY <1>1, <1>3, <2>1, <2>2, <2>4, <2>5 DEF DiagInv
<1> QED
  BY <1>6, <1>7, <1>8

LEMMA SaveKeeps == ASSUME DiagInv, NEW p \in Paths, Save(p) PROVE DiagInv'
<1>1. /\ UNCHANGED <<tracked, corpusPaths, parsesUnderWay, strays, live, laneAt, todo>>
      /\ Busy' = Busy
  BY DEF Save, laneState, Busy
<1>2. LiveFits' /\ ParsesFit'
  BY <1>1 DEF DiagInv, LiveFits, ParsesFit
<1>3. CASE OwnerOfPath(p) \notin live
  <2>1. UNCHANGED <<shown, validations, unvalidated>>
    BY <1>3 DEF Save
  <2> QED
    BY <1>1, <1>2, <2>1 DEF DiagInv, IndexesFit
<1>4. CASE OwnerOfPath(p) \in live
  <2> DEFINE n == OwnerOfPath(p)
  <2>1. Publish(n) /\ DOMAIN shown' = Paths
    BY <1>4 DEF Save, Publish, Published
  <2>2. IndexesFit'
    BY <1>1, <2>1 DEF DiagInv, IndexesFit
  <2>3. Stand(shown, live' \ (validations \cup unvalidated \cup Busy' \cup {n}), tracked', corpusPaths' \cup strays')
    BY <1>1 DEF DiagInv, Stand
  <2>4. NothingLeft(shown, live', tracked', Deliverable \cup strays')
    BY <1>1 DEF DiagInv
  <2>5. n \in live'
    BY <1>1, <1>4
  <2> HIDE DEF n
  <2> QED
    BY <1>2, <2>1, <2>2, <2>3, <2>4, <2>5, PublishStands
<1> QED
  BY <1>3, <1>4

LEMMA ValidateAllKeeps == ASSUME DiagInv, NEW n \in ProjectNames, ValidateAll(n) PROVE DiagInv'
<1>1. /\ UNCHANGED <<tracked, corpusPaths, parsesUnderWay, strays, live, laneAt, todo>>
      /\ Busy' = Busy /\ Publish(n) /\ DOMAIN shown' = Paths
  BY DEF ValidateAll, laneState, Busy, Publish, Published
<1>2. LiveFits' /\ ParsesFit' /\ IndexesFit'
  BY <1>1 DEF DiagInv, LiveFits, ParsesFit, IndexesFit
<1>3. Stand(shown, live' \ (validations \cup unvalidated \cup Busy' \cup {n}), tracked', corpusPaths' \cup strays')
  BY <1>1 DEF DiagInv, Stand
<1>4. NothingLeft(shown, live', tracked', Deliverable \cup strays')
  BY <1>1 DEF DiagInv
<1>5. CASE n \in live
  BY <1>1, <1>2, <1>3, <1>4, <1>5, PublishStands
<1>6. CASE n \notin live
  <2>1. DOMAIN tracked[n] = {} /\ live \subseteq ProjectNames
    BY <1>6 DEF DiagInv, IndexesFit, LiveFits, ProjectNames
  <2>2. \A p \in Paths : shown'[p] = shown[p]
    BY <1>1, <2>1 DEF Publish, Published
  <2>3. \A m \in live : m \notin validations' \cup unvalidated' => m \notin validations \cup unvalidated
    BY <1>1, <1>6 DEF Publish
  <2>4. \A m \in live : DOMAIN tracked[m] \subseteq Paths
    BY <2>1 DEF DiagInv, IndexesFit
  <2>5. Stand(shown', live' \ (validations' \cup unvalidated' \cup Busy'), tracked', corpusPaths' \cup strays')
    BY <1>1, <2>2, <2>3, <2>4 DEF DiagInv, Stand
  <2>6. NothingLeft(shown', live', tracked', Deliverable \cup strays')
    BY <1>1, <2>2 DEF DiagInv, NothingLeft
  <2> QED
    BY <1>2, <2>5, <2>6 DEF DiagInv
<1> QED
  BY <1>5, <1>6

LEMMA CloseKeeps == ASSUME DiagInv, NEW p \in Paths, Close(p) PROVE DiagInv'
<1>1. UNCHANGED <<live, laneAt, todo, corpusPaths, unvalidated, strays>> /\ Busy' = Busy
  BY DEF Close, laneState, Busy
<1>2. LiveFits' /\ ParsesFit'
  <2>1. LiveFits'
    BY <1>1 DEF DiagInv, LiveFits
  <2>2. parsesUnderWay' = parsesUnderWay \/ parsesUnderWay' = Moved(p)
    BY DEF Close
  <2>3. ParsesFit
    BY DEF DiagInv
  <2>4. ASSUME parsesUnderWay' = parsesUnderWay PROVE ParsesFit'
    BY <1>1, <2>3, <2>4 DEF ParsesFit
  <2>5. ASSUME parsesUnderWay' = Moved(p) PROVE ParsesFit'
    BY <1>1, <2>3, <2>5, MovedFits DEF ParsesFit
  <2> QED
    BY <2>1, <2>2, <2>4, <2>5
<1>3. CASE IsCorpus(p)
  <2>1. UNCHANGED <<shown, tracked, validations>>
    BY <1>3 DEF Close
  <2> QED
    BY <1>1, <1>2, <2>1 DEF DiagInv, IndexesFit
<1>4. CASE ~IsCorpus(p) /\ live = {}
  <2>1. shown' = [shown EXCEPT ![p] = {}] /\ UNCHANGED <<tracked, validations>>
    BY <1>4 DEF Close
  <2>2. IndexesFit'
    BY <1>1, <2>1 DEF DiagInv, IndexesFit
  <2>3. Stand(shown', live' \ (validations' \cup unvalidated' \cup Busy'), tracked', corpusPaths' \cup strays')
    BY <1>1, <1>4 DEF Stand
  <2>4. NothingLeft(shown', live', tracked', Deliverable \cup strays')
    BY <1>1, <2>1 DEF DiagInv, IndexesFit, NothingLeft
  <2> QED
    BY <1>2, <2>2, <2>3, <2>4 DEF DiagInv
<1>5. CASE ~IsCorpus(p) /\ live # {}
  <2> DEFINE n == OwnerOfPath(p)
             lost == [tracked EXCEPT ![n] = Without(@, {p})]
  <2>1. /\ shown' = [shown EXCEPT ![p] = {}] /\ tracked' = lost /\ validations' = validations \cup {n}
    BY <1>5 DEF Close
  <2>2. n \in live /\ n \in ProjectNames /\ live \subseteq ProjectNames
        /\ DOMAIN tracked = ProjectNames /\ DOMAIN shown = Paths
    BY <1>5 DEF DiagInv, LiveFits, IndexesFit, OwnerOfPath, ProjectNames
  <2>3. /\ DOMAIN lost = ProjectNames /\ DOMAIN lost[n] = DOMAIN tracked[n] \ {p}
        /\ \A m \in ProjectNames \ {n} : lost[m] = tracked[m]
    BY <2>2, WithAndWithout
  <2> HIDE DEF lost
  <2>4. IndexesFit'
    BY <1>1, <2>1, <2>2, <2>3 DEF DiagInv, IndexesFit, ProjectNames
  <2>5. \A m \in live \ {n} : p \in DOMAIN tracked[m] => p \in strays
    BY <2>2 DEF DiagInv, IndexesFit, OwnerOfPath, ProjectNames
  <2>6. Stand(shown', live \ (validations' \cup unvalidated \cup Busy), lost, corpusPaths \cup strays)
    BY <2>1, <2>2, <2>3, <2>5 DEF DiagInv, Stand
  <2>7. NothingLeft(shown', live, lost, Deliverable \cup strays)
    BY <2>1, <2>2, <2>3 DEF DiagInv, NothingLeft
  <2> QED
    BY <1>1, <1>2, <2>1, <2>4, <2>6, <2>7 DEF DiagInv
<1> QED
  BY <1>3, <1>4, <1>5

\* A task of the lane that is at work on the files of a project.
LEMMA WalkPathKeeps == ASSUME DiagInv, NEW p \in Paths, WalkPath(p) PROVE DiagInv'
<1> DEFINE n == WalkedProject
<1>1. /\ UNCHANGED <<laneAt, live, corpusPaths, parsesUnderWay, validations, shown, unvalidated, strays>>
      /\ laneAt \in {"walkPrimary", "walkLate"} /\ p \in todo /\ todo' = todo \ {p} /\ Busy' = Busy
  BY DEF WalkPath, Busy
<1>2. /\ n \in ProjectNames /\ n \in live /\ n \in Busy /\ live \subseteq ProjectNames
      /\ (n = "late" => p \in LatePaths) /\ (n = "primary" => p \notin LatePaths)
      /\ DOMAIN tracked = ProjectNames
  BY <1>1 DEF DiagInv, LiveFits, IndexesFit, WalkedProject, Busy, ProjectNames
<1>3. /\ DOMAIN tracked' = ProjectNames /\ \A m \in ProjectNames \ {n} : tracked'[m] = tracked[m]
      /\ DOMAIN tracked'[n] \in {DOMAIN tracked[n], DOMAIN tracked[n] \cup {p}}
  <2>1. ASSUME NEW t, tracked' = [tracked EXCEPT ![n] = With(@, p, t)]
        PROVE  /\ DOMAIN tracked' = ProjectNames /\ \A m \in ProjectNames \ {n} : tracked'[m] = tracked[m]
               /\ DOMAIN tracked'[n] = DOMAIN tracked[n] \cup {p}
    <3>1. tracked'[n] = With(tracked[n], p, t)
      BY <1>2, <2>1
    <3>2. DOMAIN With(tracked[n], p, t) = DOMAIN tracked[n] \cup {p}
      BY WithAndWithout
    <3> QED
      BY <1>2, <2>1, <3>1, <3>2
  <2>2. tracked' = tracked \/ \E t : tracked' = [tracked EXCEPT ![n] = With(@, p, t)]
    BY DEF WalkPath
  <2> QED
    BY <1>2, <2>1, <2>2
<1>4. LiveFits' /\ ParsesFit'
  BY <1>1 DEF DiagInv, LiveFits, ParsesFit
<1>5. IndexesFit'
  BY <1>1, <1>2, <1>3 DEF DiagInv, IndexesFit, ProjectNames
<1>6. Stand(shown', live' \ (validations' \cup unvalidated' \cup Busy'), tracked', corpusPaths' \cup strays')
  BY <1>1, <1>2, <1>3 DEF DiagInv, Stand
<1>7. NothingLeft(shown', live', tracked', Deliverable \cup strays')
  BY <1>1, <1>2, <1>3 DEF DiagInv, NothingLeft
<1> QED
  BY <1>4, <1>5, <1>6, <1>7 DEF DiagInv

\* What was published is cleared; what showed nothing still does.
LEMMA RebuildAllKeeps == ASSUME DiagInv, RebuildAll PROVE DiagInv'
<1>1. /\ laneAt' = "load" /\ live' = {} /\ tracked' = [n \in ProjectNames |-> <<>>] /\ corpusPaths' = {}
      /\ shown' = [p \in Paths |->
            IF \E n \in live : p \in DOMAIN tracked[n] \ corpusPaths THEN {} ELSE shown[p]]
      /\ parsesUnderWay' = {r \in parsesUnderWay : r.project = "gate"}
      /\ strays' = {p \in strays : shown'[p] # {}}
  BY DEF RebuildAll
<1>2. LiveFits' /\ ParsesFit'
  BY <1>1 DEF DiagInv, LiveFits, ParsesFit
<1>3. \A n \in ProjectNames : DOMAIN tracked'[n] = {}
  BY <1>1
<1>4. IndexesFit'
  BY <1>1, <1>3 DEF IndexesFit, ProjectNames
<1>5. Stand(shown', live' \ (validations' \cup unvalidated' \cup Busy'), tracked', corpusPaths' \cup strays')
  BY <1>1 DEF Stand
<1>6. ASSUME NEW p \in Paths \ (Deliverable \cup strays') PROVE shown'[p] = {}
  <2>1. CASE \E n \in live : p \in DOMAIN tracked[n] \ corpusPaths
    BY <1>1, <2>1
  <2>2. CASE ~\E n \in live : p \in DOMAIN tracked[n] \ corpusPaths
    <3>1. p \notin corpusPaths
      BY <1>6 DEF DiagInv, IndexesFit
    <3>2. shown'[p] = shown[p]
      BY <1>1, <2>2
    <3>3. CASE p \in strays
      BY <1>1, <1>6, <3>3
    <3>4. CASE p \notin strays
      BY <1>6, <2>2, <3>1, <3>2, <3>4 DEF DiagInv, NothingLeft
    <3> QED
      BY <3>3, <3>4
  <2> QED
    BY <2>1, <2>2
<1> QED
  BY <1>2, <1>4, <1>5, <1>6 DEF DiagInv, NothingLeft

LEMMA LoadPrimaryKeeps == ASSUME DiagInv, LoadPrimary PROVE DiagInv'
<1>1. /\ laneAt = "load" /\ laneAt' = "walkPrimary" /\ live' = {"primary"}
      /\ todo' = SavedPaths \ (LatePaths \cup Deliverable)
      /\ UNCHANGED <<parsesUnderWay, validations, shown, unvalidated, strays>>
  BY DEF LoadPrimary
<1>2. PICK corpus \in SUBSET Deliverable :
        /\ corpusPaths' = corpus
        /\ tracked' = [tracked EXCEPT !["primary"] = [p \in corpus |-> "plain"]]
  BY DEF LoadPrimary
<1>3. live = {} /\ DOMAIN tracked = ProjectNames /\ DOMAIN tracked["late"] = {} /\ DOMAIN shown = Paths
  BY <1>1 DEF DiagInv, LiveFits, IndexesFit, ProjectNames
<1>4. /\ DOMAIN tracked' = ProjectNames /\ DOMAIN tracked'["primary"] = corpus
      /\ DOMAIN tracked'["late"] = {}
  BY <1>2, <1>3 DEF ProjectNames
<1>5. LiveFits' /\ ParsesFit'
  BY <1>1, <1>3 DEF DiagInv, LiveFits, ParsesFit
<1>6. IndexesFit'
  BY <1>1, <1>2, <1>3, <1>4, DiagnosticsAssumption DEF IndexesFit, ProjectNames
<1>7. Stand(shown', live' \ (validations' \cup unvalidated' \cup Busy'), tracked', corpusPaths' \cup strays')
  BY <1>1 DEF Stand, Busy
<1>8. NothingLeft(shown', live', tracked', Deliverable \cup strays')
  BY <1>1, <1>3 DEF DiagInv, NothingLeft
<1> QED
  BY <1>5, <1>6, <1>7, <1>8 DEF DiagInv

LEMMA EndRebuildKeeps == ASSUME DiagInv, EndRebuild PROVE DiagInv'
<1>1. /\ laneAt = "walkPrimary" /\ laneAt' = "idle" /\ Publish("primary") /\ DOMAIN shown' = Paths
      /\ parsesUnderWay' = parsesUnderWay \cup {NewParse(p, buffer[p]) : p \in OpenPaths}
      /\ UNCHANGED <<tracked, corpusPaths, live, strays>>
  BY DEF EndRebuild, Publish, Published
<1>2. live = {"primary"}
  BY <1>1 DEF DiagInv, LiveFits
<1>3. LiveFits' /\ IndexesFit'
  BY <1>1, <1>2 DEF DiagInv, LiveFits, IndexesFit, ProjectNames
<1>4. ParsesFit'
  <2>1. \A q \in parsesUnderWay' : q \in parsesUnderWay \/ \E p \in Paths : \E t : q = NewParse(p, t)
    BY <1>1 DEF OpenPaths
  <2> QED
    BY <1>1, <2>1, NewParseFits DEF DiagInv, ParsesFit
<1>5. Stand(shown, live' \ (validations \cup unvalidated \cup Busy' \cup {"primary"}), tracked', corpusPaths' \cup strays')
  BY <1>1, <1>2 DEF Stand
<1>6. NothingLeft(shown, live', tracked', Deliverable \cup strays')
  BY <1>1 DEF DiagInv
<1> QED
  BY <1>1, <1>2, <1>3, <1>4, <1>5, <1>6, PublishStands

\* The files that the primary project gives up are cleared.
LEMMA FindLateKeeps == ASSUME DiagInv, FindLate PROVE DiagInv'
<1> DEFINE evicted == DOMAIN tracked["primary"] \cap LatePaths
           lost == [tracked EXCEPT !["primary"] = Without(@, evicted)]
<1>1. /\ laneAt = "idle" /\ live = {"primary"} /\ laneAt' = "walkLate" /\ live' = ProjectNames
      /\ tracked' = lost
      /\ shown' = [p \in Paths |-> IF p \in evicted THEN {} ELSE shown[p]]
      /\ todo' = (SavedPaths \cap LatePaths) \cup (evicted \cap OpenPaths)
      /\ unvalidated' = IF evicted = {} THEN unvalidated ELSE unvalidated \cup {"primary"}
      /\ UNCHANGED <<corpusPaths, parsesUnderWay, validations, strays>>
  BY DEF FindLate
<1>2. /\ DOMAIN tracked = ProjectNames /\ DOMAIN shown = Paths /\ DOMAIN tracked["late"] = {}
      /\ DOMAIN tracked["primary"] \subseteq Paths
  BY <1>1 DEF DiagInv, IndexesFit, ProjectNames
<1>3. /\ DOMAIN lost = ProjectNames /\ lost["late"] = tracked["late"]
      /\ lost["primary"] = Without(tracked["primary"], evicted)
  BY <1>2 DEF ProjectNames
<1>4. /\ DOMAIN lost["primary"] = DOMAIN tracked["primary"] \ evicted
      /\ \A x \in DOMAIN tracked["primary"] \ evicted : lost["primary"][x] = tracked["primary"][x]
  <2> DEFINE ix == tracked["primary"]
  <2>1. /\ DOMAIN Without(ix, evicted) = DOMAIN ix \ evicted
        /\ \A x \in DOMAIN ix \ evicted : Without(ix, evicted)[x] = ix[x]
    BY WithAndWithout
  <2>2. lost["primary"] = Without(ix, evicted)
    BY <1>3
  <2> HIDE DEF lost
  <2> QED
    BY <2>1, <2>2
<1> HIDE DEF lost
<1>5. LiveFits' /\ ParsesFit'
  BY <1>1 DEF DiagInv, LiveFits, ParsesFit, ProjectNames
<1>6. IndexesFit'
  BY <1>1, <1>2, <1>3, <1>4 DEF DiagInv, IndexesFit, ProjectNames
<1>7. Stand(shown', live' \ (validations' \cup unvalidated' \cup Busy'), tracked', corpusPaths' \cup strays')
  <2>1. \A n \in live' \ (validations' \cup unvalidated' \cup Busy') : n = "primary"
    BY <1>1 DEF Busy, ProjectNames
  <2>2. ASSUME "primary" \notin validations \cup unvalidated', NEW p \in DOMAIN lost["primary"] \ (corpusPaths \cup strays)
        PROVE  shown'[p] = Validated(p, lost["primary"])
    <3>1. evicted = {} /\ "primary" \notin validations \cup unvalidated /\ "primary" \notin Busy
      BY <1>1, <2>2 DEF Busy
    <3>2. Validated(p, lost["primary"]) = Validated(p, tracked["primary"])
      BY <1>4, <2>2, <3>1, SameReports
    <3>3. shown[p] = Validated(p, tracked["primary"])
      BY <1>1, <1>4, <2>2, <3>1 DEF DiagInv, Stand
    <3> QED
      BY <1>1, <1>2, <1>4, <2>2, <3>1, <3>2, <3>3
  <2> QED
    BY <1>1, <2>1, <2>2 DEF Stand
<1>8. NothingLeft(shown', live', tracked', Deliverable \cup strays')
  BY <1>1, <1>2, <1>3, <1>4 DEF DiagInv, NothingLeft, ProjectNames
<1> QED
  BY <1>5, <1>6, <1>7, <1>8 DEF DiagInv

LEMMA EndFindLateKeeps == ASSUME DiagInv, EndFindLate PROVE DiagInv'
<1>1. /\ laneAt = "walkLate" /\ laneAt' = "idle" /\ Publish("late") /\ DOMAIN shown' = Paths
      /\ UNCHANGED <<tracked, corpusPaths, live, parsesUnderWay, strays>>
  BY DEF EndFindLate, Publish, Published
<1>2. live = ProjectNames
  BY <1>1 DEF DiagInv, LiveFits
<1>3. LiveFits' /\ IndexesFit' /\ ParsesFit'
  BY <1>1, <1>2 DEF DiagInv, LiveFits, IndexesFit, ParsesFit, ProjectNames
<1>4. Stand(shown, live' \ (validations \cup unvalidated \cup Busy' \cup {"late"}), tracked', corpusPaths' \cup strays')
  BY <1>1, <1>2 DEF DiagInv, Stand, Busy
<1>5. NothingLeft(shown, live', tracked', Deliverable \cup strays')
  BY <1>1 DEF DiagInv
<1>6. "late" \in live'
  BY <1>1, <1>2 DEF ProjectNames
<1> QED
  BY <1>1, <1>3, <1>4, <1>5, <1>6, PublishStands

\* The corpus goes: no file of the other project is of it.
LEMMA StartReseedKeeps == ASSUME DiagInv, StartReseed PROVE DiagInv'
<1> DEFINE lost == [tracked EXCEPT !["primary"] = Without(@, corpusPaths)]
<1>1. /\ laneAt = "idle" /\ "primary" \in live /\ laneAt' = "seed" /\ corpusPaths' = {} /\ tracked' = lost
      /\ UNCHANGED <<live, parsesUnderWay, validations, shown, unvalidated, strays>>
  BY DEF StartReseed
<1>2. /\ DOMAIN tracked = ProjectNames /\ DOMAIN tracked["late"] \subseteq LatePaths
      /\ corpusPaths \cap LatePaths = {} /\ corpusPaths \subseteq Deliverable
      /\ live \subseteq ProjectNames
  BY DiagnosticsAssumption DEF DiagInv, LiveFits, IndexesFit, ProjectNames
<1>3. /\ DOMAIN lost = ProjectNames /\ lost["late"] = tracked["late"]
      /\ DOMAIN lost["primary"] = DOMAIN tracked["primary"] \ corpusPaths
  <2>1. lost["primary"] = Without(tracked["primary"], corpusPaths)
    BY <1>2 DEF ProjectNames
  <2> QED
    BY <1>2, <2>1, WithAndWithout DEF ProjectNames
<1> HIDE DEF lost
<1>4. LiveFits' /\ ParsesFit'
  BY <1>1 DEF DiagInv, LiveFits, ParsesFit
<1>5. IndexesFit'
  BY <1>1, <1>2, <1>3 DEF DiagInv, IndexesFit, ProjectNames
<1>6. Stand(shown', live' \ (validations' \cup unvalidated' \cup Busy'), tracked', corpusPaths' \cup strays')
  BY <1>1, <1>2, <1>3 DEF DiagInv, Stand, Busy, ProjectNames
<1>7. NothingLeft(shown', live', tracked', Deliverable \cup strays')
  BY <1>1, <1>2, <1>3 DEF DiagInv, NothingLeft, ProjectNames
<1> QED
  BY <1>4, <1>5, <1>6, <1>7 DEF DiagInv

LEMMA EndReseedKeeps == ASSUME DiagInv, EndReseed PROVE DiagInv'
<1>1. /\ laneAt = "seed" /\ laneAt' = "idle" /\ Publish("primary") /\ DOMAIN shown' = Paths
      /\ UNCHANGED <<live, parsesUnderWay, strays>>
  BY DEF EndReseed, Publish, Published
<1>2. PICK corpus \in SUBSET Deliverable :
        /\ corpusPaths' = corpus
        /\ tracked' = [tracked EXCEPT !["primary"] =
             [p \in DOMAIN @ \cup corpus |-> IF p \in corpus THEN "plain" ELSE @[p]]]
  BY DEF EndReseed
<1>3. /\ "primary" \in live /\ live \subseteq ProjectNames /\ DOMAIN tracked = ProjectNames
      /\ DOMAIN tracked["late"] \subseteq LatePaths /\ corpusPaths \subseteq Deliverable
      /\ corpus \cap LatePaths = {} /\ corpus \subseteq Paths /\ corpusPaths \cap LatePaths = {}
  BY <1>1, DiagnosticsAssumption DEF DiagInv, LiveFits, IndexesFit, ProjectNames
<1>4. /\ DOMAIN tracked' = ProjectNames /\ tracked'["late"] = tracked["late"]
      /\ DOMAIN tracked'["primary"] = DOMAIN tracked["primary"] \cup corpus
  BY <1>2, <1>3 DEF ProjectNames
<1>5. LiveFits' /\ ParsesFit'
  BY <1>1 DEF DiagInv, LiveFits, ParsesFit
<1>6. IndexesFit'
  BY <1>1, <1>2, <1>3, <1>4 DEF DiagInv, IndexesFit, ProjectNames
<1>7. Stand(shown, live' \ (validations \cup unvalidated \cup Busy' \cup {"primary"}), tracked', corpusPaths' \cup strays')
  BY <1>1, <1>2, <1>3, <1>4 DEF DiagInv, Stand, Busy, ProjectNames
<1>8. NothingLeft(shown, live', tracked', Deliverable \cup strays')
  BY <1>1, <1>2, <1>3, <1>4 DEF DiagInv, NothingLeft, ProjectNames
<1> QED
  BY <1>1, <1>3, <1>5, <1>6, <1>7, <1>8, PublishStands

LEMMA DiagStep == DiagInv /\ [DiagNext]_diagVars => DiagInv'
<1> SUFFICES ASSUME DiagInv, [DiagNext]_diagVars PROVE DiagInv'
  OBVIOUS
<1>1. ASSUME NEW p \in Paths,
             \/ \E t \in TextsOf[p] : OpenDocument(p, t) \/ Type(p, t)
             \/ StartParse(p) \/ Save(p) \/ Close(p) \/ WalkPath(p)
      PROVE  DiagInv'
  BY <1>1, EditorKeeps, SaveKeeps, CloseKeeps, WalkPathKeeps
<1>2. CASE UNCHANGED diagVars
  <2>1. LiveFits' /\ IndexesFit' /\ ParsesFit'
    BY <1>2 DEF DiagInv, LiveFits, IndexesFit, ParsesFit, diagVars, laneState
  <2> QED
    BY <1>2, <2>1, ShownStays DEF diagVars, laneState
<1> QED
  BY <1>1, <1>2, EnsureContextKeeps, EndParseKeeps, ValidateAllKeeps, RebuildAllKeeps, LoadPrimaryKeeps,
     EndRebuildKeeps, FindLateKeeps, EndFindLateKeeps, StartReseedKeeps, EndReseedKeeps DEF DiagNext

\* What the editor shows is current, for any files and texts: between two tasks of
\* the lane, where no validation is due, it is what the validator says of the index
\* now, and nothing for a file that no project tracks.
THEOREM DiagnosticsAreCurrent == DiagSpec => []ShownIsCurrent
<1>1. DiagInit => DiagInv
  <2> SUFFICES ASSUME DiagInit PROVE DiagInv
    OBVIOUS
  <2>1. /\ tracked = [n \in ProjectNames |-> <<>>] /\ corpusPaths = {} /\ live = {} /\ laneAt = "load"
        /\ parsesUnderWay = {} /\ shown = [p \in Paths |-> {}]
    BY DEF DiagInit
  <2>2. \A n \in ProjectNames : DOMAIN tracked[n] = {}
    BY <2>1
  <2> QED
    BY <2>1, <2>2 DEF DiagInv, LiveFits, IndexesFit, ParsesFit, Stand, NothingLeft, ProjectNames
<1>2. DiagInv => ShownIsCurrent
  BY DEF DiagInv, Stand, NothingLeft, ShownIsCurrent, Busy
<1> QED
  BY <1>1, <1>2, DiagStep, PTL DEF DiagSpec

-------------------------------------------------------------------------------
(***************************************************************************)
(* Folds over a finite set, of which those over a sequence are a case.     *)
(* What a fold yields is proved over the subsets, each of which has a      *)
(* smaller one before it.                                                  *)
(***************************************************************************)

\* A finite set has no set of subsets that each has a smaller one in it.
LEMMA NoDescent ==
  ASSUME NEW S, IsFiniteSet(S), NEW T \in SUBSET SUBSET S,
         \A s \in T : \E x \in s : s \ {x} \in T
  PROVE  T = {}
<1> SUFFICES ASSUME T # {} PROVE FALSE
  OBVIOUS
<1> DEFINE N == {Cardinality(s) : s \in T}
<1>1. \A s \in T : IsFiniteSet(s) /\ Cardinality(s) \in Nat
  BY FS_Subset, FS_CardinalityType
<1>2. N \subseteq Nat /\ N # {}
  BY <1>1
<1>3. PICK n \in N : \A m \in N : ~(<<m, n>> \in OpToRel(<, Nat))
  <2> HIDE DEF N
  <2>1. IsWellFoundedOn(OpToRel(<, Nat), Nat)
    BY NatLessThanWellFounded
  <2> QED
    BY <1>2, <2>1, WFMin
<1>4. PICK s \in T : n = Cardinality(s)
  OBVIOUS
<1>5. PICK x \in s : s \ {x} \in T
  OBVIOUS
<1>6. Cardinality(s \ {x}) = n - 1 /\ n - 1 \in N
  BY <1>1, <1>4, <1>5, FS_RemoveElement
<1>7. n \in Nat /\ n - 1 \in Nat
  BY <1>2, <1>6
<1>8. <<n - 1, n>> \in OpToRel(<, Nat)
  BY <1>7 DEF OpToRel
<1> QED
  BY <1>3, <1>6, <1>8

\* g is the fold of the function op from `base`, for the sets of D; `pick` says
\* which member of a set comes last.
FoldsOver(g, D, base, op, pick) ==
  \A s \in D : g[s] = IF s = {} THEN base ELSE op[<<pick[s], g[s \ {pick[s]}]>>]

\* The recursion by which FoldSet and FoldLeft are defined has a solution.
LEMMA FoldExists ==
  ASSUME NEW S, IsFiniteSet(S), NEW X, NEW base \in X, NEW op \in [S \X X -> X],
         NEW pick, \A s \in SUBSET S : s # {} => pick[s] \in s
  PROVE  \E g \in [SUBSET S -> X] : FoldsOver(g, SUBSET S, base, op, pick)
<1> DEFINE Upto(n) == {s \in SUBSET S : Cardinality(s) <= n}
           T == {n \in Nat : ~\E g \in [Upto(n) -> X] : FoldsOver(g, Upto(n), base, op, pick)}
<1>1. \A s \in SUBSET S : IsFiniteSet(s) /\ Cardinality(s) \in Nat
  BY FS_Subset, FS_CardinalityType
<1>2. \A s \in SUBSET S : s # {} =>
        /\ pick[s] \in s /\ s \ {pick[s]} \in SUBSET S
        /\ Cardinality(s \ {pick[s]}) = Cardinality(s) - 1
  BY <1>1, FS_RemoveElement
<1>3. 0 \notin T
  <2> DEFINE g == [s \in Upto(0) |-> base]
  <2>1. \A s \in Upto(0) : s = {}
    BY <1>1, FS_EmptySet
  <2>2. g \in [Upto(0) -> X] /\ FoldsOver(g, Upto(0), base, op, pick)
    BY <2>1 DEF FoldsOver
  <2> QED
    BY <2>2
<1>4. ASSUME NEW n \in Nat, n \notin T PROVE n + 1 \notin T
  <2>1. PICK g \in [Upto(n) -> X] : FoldsOver(g, Upto(n), base, op, pick)
    BY <1>4
  <2> DEFINE h == [s \in Upto(n + 1) |-> IF s = {} THEN base ELSE op[<<pick[s], g[s \ {pick[s]}]>>]]
  <2>2. \A s \in Upto(n + 1) : s # {} => s \ {pick[s]} \in Upto(n) /\ pick[s] \in S
    BY <1>1, <1>2
  <2>3. h \in [Upto(n + 1) -> X]
    BY <2>2
  <2>4. \A s \in Upto(n) : s \in Upto(n + 1) /\ h[s] = g[s]
    BY <1>1, <2>1 DEF FoldsOver
  <2>5. FoldsOver(h, Upto(n + 1), base, op, pick)
    BY <2>2, <2>4 DEF FoldsOver
  <2> QED
    BY <2>3, <2>5
<1>5. T = {}
  <2> SUFFICES ASSUME T # {} PROVE FALSE
    OBVIOUS
  <2>1. PICK n \in T : \A m \in T : ~(<<m, n>> \in OpToRel(<, Nat))
    <3> HIDE DEF T
    <3>1. T \subseteq Nat
      BY DEF T
    <3>2. IsWellFoundedOn(OpToRel(<, Nat), Nat)
      BY NatLessThanWellFounded
    <3> QED
      BY <3>1, <3>2, WFMin
  <2>2. n \in Nat /\ n # 0
    BY <1>3
  <2>3. n - 1 \in Nat /\ n - 1 < n /\ n = (n - 1) + 1
    BY <2>2
  <2>4. n - 1 \in T
    BY <1>4, <2>3
  <2> QED
    BY <2>1, <2>2, <2>3, <2>4 DEF OpToRel
<1>6. Cardinality(S) \in Nat /\ Upto(Cardinality(S)) = SUBSET S
  BY <1>1, FS_Subset
<1>7. Cardinality(S) \notin T
  BY <1>5
<1>8. \E g \in [Upto(Cardinality(S)) -> X] : FoldsOver(g, Upto(Cardinality(S)), base, op, pick)
  BY <1>6, <1>7
<1> HIDE DEF Upto
<1> QED
  BY <1>6, <1>8

-------------------------------------------------------------------------------
(***************************************************************************)
(* The corpora of a project, for any files, entries and configurations.    *)
(* A seeder drops or seeds a finite set of files one by one.               *)
(***************************************************************************)

\* The member of s that a fold takes first.
Pick(s) == CHOOSE x \in s : TRUE

\* From ix to v, only the files of s have changed.
KeepsOthers(ix, s, v) ==
  \A f \in Files \ s :
    /\ v.fileEntries[f] = ix.fileEntries[f] /\ v.insertedAt[f] = ix.insertedAt[f]
    /\ v.parseOf[f] = ix.parseOf[f]
    /\ \A id \in Ids : ResolvesTo(ix, id, f) => v.byDisplayId[id] = ix.byDisplayId[id]

\* A mutation of one file leaves the others, and the IDs that resolve to them.
LEMMA RemoveFileKeepsOthers ==
  ASSUME NEW ix, Consistent(ix), NEW f \in Files
  PROVE  KeepsOthers(ix, {f}, RemoveFile(ix, f)) /\ ~Tracked(RemoveFile(ix, f), f)
<1> DEFINE v == RemoveFile(ix, f)
<1>1. ix \in Index
  BY DEF Consistent
<1>2. /\ v.fileEntries = [ix.fileEntries EXCEPT ![f] = {}]
      /\ v.insertedAt = [ix.insertedAt EXCEPT ![f] = 0] /\ v.parseOf = ix.parseOf
      /\ v.byDisplayId = [id \in Ids |-> Withdrawn(ix, f, id)]
  BY <1>1 DEF RemoveFile, Index
<1>3. \A g \in Files \ {f}, id \in Ids : ResolvesTo(ix, id, g) => Withdrawn(ix, f, id) = ix.byDisplayId[id]
  BY DEF ResolvesTo, Withdrawn
<1>4. KeepsOthers(ix, {f}, v)
  <2> SUFFICES ASSUME NEW g \in Files \ {f}
               PROVE  /\ v.fileEntries[g] = ix.fileEntries[g] /\ v.insertedAt[g] = ix.insertedAt[g]
                      /\ v.parseOf[g] = ix.parseOf[g]
                      /\ \A id \in Ids : ResolvesTo(ix, id, g) => v.byDisplayId[id] = ix.byDisplayId[id]
    BY DEF KeepsOthers
  <2> HIDE DEF v
  <2>1. v.fileEntries[g] = ix.fileEntries[g] /\ v.insertedAt[g] = ix.insertedAt[g]
    BY <1>1, <1>2 DEF Index
  <2> QED
    BY <1>2, <1>3, <2>1
<1>5. v.insertedAt[f] = 0
  <2> HIDE DEF v
  <2> QED
    BY <1>1, <1>2 DEF Index
<1> QED
  BY <1>4, <1>5 DEF Tracked

LEMMA UpdateFileKeepsOthers ==
  ASSUME NEW ix, Consistent(ix), NEW f \in Files, NEW new \in SUBSET Ids
  PROVE  /\ KeepsOthers(ix, {f}, UpdateFile(ix, f, new))
         /\ Tracked(UpdateFile(ix, f, new), f) /\ UpdateFile(ix, f, new).fileEntries[f] = new
<1> DEFINE v == UpdateFile(ix, f, new)
           n == ix.parses + 1
<1>1. ix \in Index /\ n \in Nat \ {0}
  BY DEF Consistent, Index
<1>2. /\ v.fileEntries = [ix.fileEntries EXCEPT ![f] = new]
      /\ v.insertedAt = [ix.insertedAt EXCEPT ![f] = IF Tracked(ix, f) THEN @ ELSE n]
      /\ v.parseOf = [ix.parseOf EXCEPT ![f] = n]
      /\ v.byDisplayId = [id \in Ids |-> IF Withdrawn(ix, f, id) = NoEntry /\ id \in new THEN <<f, n>>
                                         ELSE Withdrawn(ix, f, id)]
  BY DEF UpdateFile
<1>3. \A g \in Files \ {f}, id \in Ids : ResolvesTo(ix, id, g) =>
        Withdrawn(ix, f, id) = ix.byDisplayId[id] /\ Withdrawn(ix, f, id) # NoEntry
  BY DEF ResolvesTo, Withdrawn
<1>4. KeepsOthers(ix, {f}, v)
  <2> SUFFICES ASSUME NEW g \in Files \ {f}
               PROVE  /\ v.fileEntries[g] = ix.fileEntries[g] /\ v.insertedAt[g] = ix.insertedAt[g]
                      /\ v.parseOf[g] = ix.parseOf[g]
                      /\ \A id \in Ids : ResolvesTo(ix, id, g) => v.byDisplayId[id] = ix.byDisplayId[id]
    BY DEF KeepsOthers
  <2> HIDE DEF v, n
  <2>1. v.fileEntries[g] = ix.fileEntries[g] /\ v.insertedAt[g] = ix.insertedAt[g]
        /\ v.parseOf[g] = ix.parseOf[g]
    BY <1>1, <1>2 DEF Index
  <2>2. \A id \in Ids : ResolvesTo(ix, id, g) => v.byDisplayId[id] = ix.byDisplayId[id]
    BY <1>2, <1>3
  <2> QED
    BY <2>1, <2>2
<1>5. v.insertedAt[f] # 0 /\ v.fileEntries[f] = new
  <2> HIDE DEF v, n
  <2> QED
    BY <1>1, <1>2 DEF Index, Tracked
<1> HIDE DEF v
<1>6. Tracked(v, f)
  BY <1>5 DEF Tracked
<1> QED
  BY <1>4, <1>5, <1>6 DEF v

LEMMA OthersKeptTwice ==
  ASSUME NEW ix, NEW v, NEW w, NEW s, NEW x \in s,
         KeepsOthers(ix, s \ {x}, v), KeepsOthers(v, {x}, w)
  PROVE  KeepsOthers(ix, s, w)
<1>1. \A f \in Files \ s : f \in Files \ (s \ {x}) /\ f \in Files \ {x}
  OBVIOUS
<1>2. \A id \in Ids, f \in Files \ s : ResolvesTo(ix, id, f) => v.byDisplayId[id] = ix.byDisplayId[id]
  BY <1>1 DEF KeepsOthers
<1>3. \A id \in Ids, f \in Files \ s : ResolvesTo(ix, id, f) => ResolvesTo(v, id, f)
  BY <1>2 DEF ResolvesTo
<1> QED
  BY <1>1, <1>2, <1>3 DEF KeepsOthers

\* The index with the files of s dropped.
Dropped(ix, s, v) ==
  Consistent(v) /\ KeepsOthers(ix, s, v) /\ \A f \in s : ~Tracked(v, f)

LEMMA DropAllDrops ==
  ASSUME NEW ix, Consistent(ix), NEW S \in SUBSET Files, IsFiniteSet(S)
  PROVE  Dropped(ix, S, DropAll(ix, S))
<1> DEFINE Folded(g) == [s \in SUBSET S |-> IF s = {} THEN ix ELSE RemoveFile(g[s \ {Pick(s)}], Pick(s))]
           X == {v \in Index : Consistent(v)}
           op == [a \in S \X X |-> RemoveFile(a[2], a[1])]
           pick == [s \in SUBSET S |-> Pick(s)]
<1>1. DropAll(ix, S) = (CHOOSE g : g = Folded(g))[S]
  BY Zenon DEF DropAll, FoldSet, MapThenFoldSet, Pick
<1>2. ix \in X /\ op \in [S \X X -> X]
  BY RemoveFileConsistent DEF Consistent
<1>3. \A s \in SUBSET S : s # {} => Pick(s) \in s /\ s \ {Pick(s)} \in SUBSET S
  BY DEF Pick
<1>4. PICK g \in [SUBSET S -> X] : FoldsOver(g, SUBSET S, ix, op, pick)
  <2> HIDE DEF X, op
  <2>1. \A s \in SUBSET S : s # {} => pick[s] \in s
    BY <1>3
  <2> HIDE DEF pick
  <2> QED
    BY <1>2, <2>1, FoldExists
<1>5. \A s \in SUBSET S : s # {} => op[<<pick[s], g[s \ {pick[s]}]>>] = RemoveFile(g[s \ {Pick(s)}], Pick(s))
  BY <1>3, <1>4
<1>6. g = Folded(g)
  BY <1>4, <1>5 DEF FoldsOver
<1>7. PICK h : h = Folded(h) /\ DropAll(ix, S) = h[S]
  <2> HIDE DEF Folded
  <2> QED
    BY <1>1, <1>6
<1>8. \A s \in SUBSET S : h[s] = IF s = {} THEN ix ELSE RemoveFile(h[s \ {Pick(s)}], Pick(s))
  BY <1>7
<1> DEFINE T == {s \in SUBSET S : ~Dropped(ix, s, h[s])}
<1>9. Dropped(ix, {}, h[{}])
  BY <1>8 DEF Dropped, KeepsOthers
<1>10. ASSUME NEW s \in SUBSET S, s # {}, Dropped(ix, s \ {Pick(s)}, h[s \ {Pick(s)}])
       PROVE  Dropped(ix, s, h[s])
  <2> DEFINE x == Pick(s)
             v == h[s \ {Pick(s)}]
  <2>1. x \in s /\ x \in Files /\ h[s] = RemoveFile(v, x) /\ Dropped(ix, s \ {x}, v)
    BY <1>3, <1>8, <1>10
  <2> HIDE DEF x, v
  <2>2. Consistent(h[s])
    BY <2>1, RemoveFileConsistent DEF Dropped
  <2>3. KeepsOthers(v, {x}, h[s]) /\ ~Tracked(h[s], x)
    BY <2>1, RemoveFileKeepsOthers DEF Dropped
  <2>4. KeepsOthers(ix, s, h[s])
    BY <2>1, <2>3, OthersKeptTwice DEF Dropped
  <2>5. \A f \in s \ {x} : ~Tracked(h[s], f)
    BY <2>1, <2>3 DEF Dropped, KeepsOthers, Tracked
  <2> QED
    BY <2>2, <2>3, <2>4, <2>5 DEF Dropped
<1>11. \A s \in T : \E x \in s : s \ {x} \in T
  BY <1>3, <1>9, <1>10
<1>12. T = {}
  <2> HIDE DEF T
  <2>1. T \in SUBSET SUBSET S
    BY DEF T
  <2> QED
    BY <1>11, <2>1, NoDescent
<1> QED
  BY <1>7, <1>12

\* The index with the corpus files of s seeded.
Seeded(ix, s, v) ==
  Consistent(v) /\ KeepsOthers(ix, s, v) /\ \A f \in s : Tracked(v, f) /\ v.fileEntries[f] = CorpusIds[f]

LEMMA SeedAllSeeds ==
  ASSUME NEW ix, Consistent(ix), NEW S \in SUBSET (Delivered \cup Upstream), IsFiniteSet(S)
  PROVE  Seeded(ix, S, SeedAll(ix, S))
<1> DEFINE Folded(g) == [s \in SUBSET S |-> IF s = {} THEN ix ELSE UpdateFile(g[s \ {Pick(s)}], Pick(s), CorpusIds[Pick(s)])]
           X == {v \in Index : Consistent(v)}
           op == [a \in S \X X |-> UpdateFile(a[2], a[1], CorpusIds[a[1]])]
           pick == [s \in SUBSET S |-> Pick(s)]
<1>0. S \subseteq Files /\ \A f \in S : CorpusIds[f] \in SUBSET Ids
  BY CorpusAssumption
<1>1. SeedAll(ix, S) = (CHOOSE g : g = Folded(g))[S]
  BY Zenon DEF SeedAll, FoldSet, MapThenFoldSet, Pick
<1>2. ix \in X /\ op \in [S \X X -> X]
  BY <1>0, UpdateFileConsistent DEF Consistent
<1>3. \A s \in SUBSET S : s # {} => Pick(s) \in s /\ s \ {Pick(s)} \in SUBSET S
  BY DEF Pick
<1>4. PICK g \in [SUBSET S -> X] : FoldsOver(g, SUBSET S, ix, op, pick)
  <2> HIDE DEF X, op
  <2>1. \A s \in SUBSET S : s # {} => pick[s] \in s
    BY <1>3
  <2> HIDE DEF pick
  <2> QED
    BY <1>2, <2>1, FoldExists
<1>5. \A s \in SUBSET S : s # {} => op[<<pick[s], g[s \ {pick[s]}]>>] = UpdateFile(g[s \ {Pick(s)}], Pick(s), CorpusIds[Pick(s)])
  BY <1>3, <1>4
<1>6. g = Folded(g)
  BY <1>4, <1>5 DEF FoldsOver
<1>7. PICK h : h = Folded(h) /\ SeedAll(ix, S) = h[S]
  <2> HIDE DEF Folded
  <2> QED
    BY <1>1, <1>6
<1>8. \A s \in SUBSET S : h[s] = IF s = {} THEN ix ELSE UpdateFile(h[s \ {Pick(s)}], Pick(s), CorpusIds[Pick(s)])
  BY <1>7
<1> DEFINE T == {s \in SUBSET S : ~Seeded(ix, s, h[s])}
<1>9. Seeded(ix, {}, h[{}])
  BY <1>8 DEF Seeded, KeepsOthers
<1>10. ASSUME NEW s \in SUBSET S, s # {}, Seeded(ix, s \ {Pick(s)}, h[s \ {Pick(s)}])
       PROVE  Seeded(ix, s, h[s])
  <2> DEFINE x == Pick(s)
             v == h[s \ {Pick(s)}]
  <2>1. x \in s /\ x \in Files /\ CorpusIds[x] \in SUBSET Ids /\ h[s] = UpdateFile(v, x, CorpusIds[x]) /\ Seeded(ix, s \ {x}, v)
    BY <1>0, <1>3, <1>8, <1>10
  <2> HIDE DEF x, v
  <2>2. Consistent(h[s])
    BY <2>1, UpdateFileConsistent DEF Seeded
  <2>3. KeepsOthers(v, {x}, h[s]) /\ Tracked(h[s], x) /\ h[s].fileEntries[x] = CorpusIds[x]
    BY <2>1, UpdateFileKeepsOthers DEF Seeded
  <2>4. KeepsOthers(ix, s, h[s])
    BY <2>1, <2>3, OthersKeptTwice DEF Seeded
  <2>5. \A f \in s \ {x} : Tracked(h[s], f) /\ h[s].fileEntries[f] = CorpusIds[f]
    <3>1. \A f \in s \ {x} : f \in Files \ {x}
      BY <1>0
    <3> QED
      BY <2>1, <2>3, <3>1 DEF Seeded, KeepsOthers, Tracked
  <2> QED
    BY <2>2, <2>3, <2>4, <2>5 DEF Seeded
<1>11. \A s \in T : \E x \in s : s \ {x} \in T
  BY <1>3, <1>9, <1>10
<1>12. T = {}
  <2> HIDE DEF T
  <2>1. T \in SUBSET SUBSET S
    BY DEF T
  <2> QED
    BY <1>11, <2>1, NoDescent
<1> QED
  BY <1>7, <1>12

\* The two corpora and the files of the index, at each await of the lane.
CorporaFit ==
  /\ \A f \in corpusFilePaths : Tracked(index, f) /\ index.fileEntries[f] = CorpusIds[f]
  /\ \A f \in (Delivered \cup Upstream) \ InTree : Tracked(index, f) => f \in corpusFilePaths
  /\ at = "seedDelivered" => corpusFilePaths = {}
  /\ at = "seedUpstream" => upstreamFilePaths = {} /\ corpusFilePaths \subseteq delivers
  /\ at \notin {"seedDelivered", "seedUpstream"} => upstreamFilePaths = corpusFilePaths \cap Upstream

\* What is seeded is of what is loaded, but while a reload is between the two.
CorporaLoaded ==
  /\ at \in {"walk", "profile", "lockfileOnly"} => corpusFilePaths \subseteq delivers \cup lockfile
  /\ AtRest => corpusFilePaths \subseteq delivers \cup lockfile

\* A change that the lane has taken is loaded, is being loaded, or is owed.
ProfileOwed ==
  ~disposed /\ "profile" \notin fileEvents =>
    \/ pendingProfileFileChange \/ at = "profile"
    \/ delivers = IF diskProfile = Broken THEN {} ELSE diskProfile

LockOwed ==
  ~disposed /\ "lock" \notin fileEvents =>
    \/ pendingProfileFileChange \/ at \in {"profile", "lockfile", "lockfileOnly"}
    \/ diskLock = Broken \/ lockfile = diskLock

ContextInv ==
  ContextTypeOK /\ Consistent(index) /\ CorporaFit /\ CorporaLoaded /\ ProfileOwed /\ LockOwed

LEMMA ContextInitially == ContextInit => ContextInv
<1> SUFFICES ASSUME ContextInit PROVE ContextInv
  OBVIOUS
<1> USE DEF ContextInit
<1>1. Consistent(index) /\ index \in Index
  <2>1. index \in Index
    BY DEF EmptyIndex, Index
  <2>2. OnlyTrackedDeclare(index) /\ Complete(index) /\ Current(index)
    BY DEF EmptyIndex, OnlyTrackedDeclare, Complete, Current, Declarers
  <2> QED
    BY <2>1, <2>2 DEF Consistent
<1>2. delivers \subseteq Delivered /\ lockfile \subseteq Upstream
  <2>1. /\ diskProfile \in (SUBSET Delivered) \cup {Broken} /\ diskLock \in (SUBSET Upstream) \cup {Broken}
        /\ delivers = IF diskProfile = Broken THEN {} ELSE diskProfile
        /\ lockfile = IF diskLock = Broken THEN {} ELSE diskLock
    OBVIOUS
  <2> HIDE DEF ContextInit
  <2> QED
    BY <2>1
<1>3. flags \in BOOLEAN \X BOOLEAN
  BY DEF flags
<1>4. ContextTypeOK
  <2>1. diskChanges \in 0..MaxDiskChanges
    BY CorpusAssumption
  <2>2. /\ diskProfile \in (SUBSET Delivered) \cup {Broken} /\ diskLock \in (SUBSET Upstream) \cup {Broken}
        /\ fileEvents = {} /\ corpusFilePaths = {} /\ upstreamFilePaths = {} /\ at \in AwaitsLoad
    BY DEF AwaitsLoad
  <2>3. indexed \in BOOLEAN /\ disposed \in BOOLEAN
    OBVIOUS
  <2> HIDE DEF ContextInit
  <2> QED
    BY <1>1, <1>2, <1>3, <2>1, <2>2, <2>3 DEF ContextTypeOK
<1>5. CorporaFit
  BY CorpusAssumption DEF CorporaFit, EmptyIndex, Tracked
<1> QED
  BY <1>1, <1>4, <1>5 DEF ContextInv, CorporaLoaded, ProfileOwed, LockOwed, AtRest

\* A set of corpus files is a finite set of files.
LEMMA CorpusFilesFinite ==
  ASSUME NEW s \in SUBSET (Delivered \cup Upstream)
  PROVE  s \in SUBSET Files /\ IsFiniteSet(s)
BY CorpusAssumption, FS_Subset

\* What the seeders leave: the loaded files are there with their entries, and no other
\* file of the corpora that the editor cannot edit.
LEMMA SeedDeliveredKeeps == ASSUME ContextInv, SeedDelivered PROVE ContextInv'
<1> USE DEF SeedDelivered, configFiles
<1>1. PICK loaded \in SUBSET delivers :
        /\ index' = DropAll(SeedAll(index, loaded), upstreamFilePaths)
        /\ corpusFilePaths' = (corpusFilePaths \cup loaded) \ upstreamFilePaths
        /\ upstreamFilePaths' = {}
  OBVIOUS
<1>2. PICK seeded : seeded = SeedAll(index, loaded)
  OBVIOUS
<1>3. /\ delivers \subseteq Delivered /\ upstreamFilePaths \subseteq Upstream /\ corpusFilePaths = {}
      /\ Consistent(index)
  BY DEF ContextInv, ContextTypeOK, CorporaFit
<1>4. Seeded(index, loaded, seeded)
  BY <1>2, <1>3, SeedAllSeeds, CorpusFilesFinite
<1>5. Dropped(seeded, upstreamFilePaths, index')
  BY <1>1, <1>2, <1>3, <1>4, DropAllDrops, CorpusFilesFinite DEF Seeded
<1>6. loaded \subseteq Files \ upstreamFilePaths /\ corpusFilePaths' = loaded
  BY <1>1, <1>3, CorpusAssumption
<1>7. \A f \in loaded : Tracked(index', f) /\ index'.fileEntries[f] = CorpusIds[f]
  BY <1>4, <1>5, <1>6 DEF Seeded, Dropped, KeepsOthers, Tracked
<1>8. \A f \in Files \ loaded : Tracked(index', f) => Tracked(index, f)
  BY <1>4, <1>5 DEF Seeded, Dropped, KeepsOthers, Tracked
<1>9. CorporaFit'
  <2>1. \A f \in (Delivered \cup Upstream) \ InTree : Tracked(index', f) => f \in corpusFilePaths'
    BY <1>3, <1>6, <1>8, CorpusAssumption DEF ContextInv, CorporaFit
  <2> QED
    BY <1>1, <1>6, <1>7, <2>1 DEF CorporaFit
<1>10. Consistent(index') /\ index' \in Index
  BY <1>5 DEF Dropped, Consistent
<1>11. ContextTypeOK'
  BY <1>1, <1>3, <1>6, <1>10 DEF ContextInv, ContextTypeOK, AwaitsLoad, flags
<1> QED
  BY <1>9, <1>10, <1>11 DEF ContextInv, CorporaLoaded, ProfileOwed, LockOwed, AtRest, flags

LEMMA SeedUpstreamKeeps == ASSUME ContextInv, SeedUpstream PROVE ContextInv'
<1> USE DEF SeedUpstream, configFiles
<1>1. PICK loaded \in SUBSET lockfile :
        /\ index' = SeedAll(index, loaded)
        /\ upstreamFilePaths' = loaded /\ corpusFilePaths' = corpusFilePaths \cup loaded
  OBVIOUS
<1>2. /\ lockfile \subseteq Upstream /\ delivers \subseteq Delivered /\ corpusFilePaths \subseteq delivers
      /\ Consistent(index)
  BY DEF ContextInv, ContextTypeOK, CorporaFit
<1>3. Seeded(index, loaded, index')
  BY <1>1, <1>2, SeedAllSeeds, CorpusFilesFinite
<1>4. loaded \subseteq Files /\ corpusFilePaths \subseteq Files \ loaded
  BY <1>2, CorpusAssumption
<1>5. \A f \in corpusFilePaths' : Tracked(index', f) /\ index'.fileEntries[f] = CorpusIds[f]
  BY <1>1, <1>3, <1>4 DEF Seeded, KeepsOthers, Tracked, ContextInv, CorporaFit
<1>6. CorporaFit'
  <2>1. \A f \in (Delivered \cup Upstream) \ InTree : Tracked(index', f) => f \in corpusFilePaths'
    BY <1>1, <1>3, CorpusAssumption DEF ContextInv, CorporaFit, Seeded, KeepsOthers, Tracked
  <2>2. upstreamFilePaths' = corpusFilePaths' \cap Upstream
    BY <1>1, <1>2, CorpusAssumption
  <2> QED
    BY <1>5, <2>1, <2>2 DEF CorporaFit
<1>7. Consistent(index') /\ index' \in Index
  BY <1>3 DEF Seeded, Consistent
<1>8. ContextTypeOK'
  BY <1>1, <1>2, <1>7 DEF ContextInv, ContextTypeOK, AwaitsLoad, flags
<1>9. CorporaLoaded'
  BY <1>1, <1>2 DEF CorporaLoaded, AtRest
<1> QED
  BY <1>6, <1>7, <1>8, <1>9 DEF ContextInv, ProfileOwed, LockOwed, flags

\* A parse of a file that is no corpus file, and its close.
LEMMA OtherFileKeeps ==
  ASSUME ContextInv, NEW f \in Own \cup InTree, f \notin corpusFilePaths,
         Consistent(index'), KeepsOthers(index, {f}, index'),
         UNCHANGED <<configFiles, fileEvents, delivers, lockfile, corpora, flags, indexed, disposed, at>>
  PROVE  ContextInv'
<1> USE DEF configFiles, corpora
<1>1. f \in Files /\ f \notin (Delivered \cup Upstream) \ InTree
  BY CorpusAssumption
<1>2. corpusFilePaths \subseteq Files \ {f}
  BY CorpusAssumption DEF ContextInv, ContextTypeOK
<1>3. CorporaFit'
  <2>1. \A g \in corpusFilePaths' : Tracked(index', g) /\ index'.fileEntries[g] = CorpusIds[g]
    BY <1>2 DEF ContextInv, CorporaFit, KeepsOthers, Tracked
  <2>2. \A g \in (Delivered \cup Upstream) \ InTree : Tracked(index', g) => g \in corpusFilePaths'
    BY <1>1, CorpusAssumption DEF ContextInv, CorporaFit, KeepsOthers, Tracked
  <2> QED
    BY <2>1, <2>2 DEF ContextInv, CorporaFit
<1>4. ContextTypeOK'
  BY DEF ContextInv, ContextTypeOK, Consistent
<1> QED
  BY <1>3, <1>4 DEF ContextInv, CorporaLoaded, ProfileOwed, LockOwed, AtRest, flags

LEMMA WalkAndBuffersKeep ==
  ASSUME ContextInv, NEW f \in Own \cup InTree, (f \in Own /\ WalkFile(f)) \/ ParseBuffer(f) \/ CloseBuffer(f)
  PROVE  ContextInv'
<1>1. f \in Files /\ Consistent(index) /\ (f \in Own => f \notin corpusFilePaths)
  BY CorpusAssumption DEF ContextInv, ContextTypeOK
<1>2. CASE f \in Own /\ WalkFile(f)
  <2>1. PICK ids \in SUBSET Ids : index' = UpdateFile(index, f, ids)
    BY <1>2 DEF WalkFile
  <2>2. Consistent(index') /\ KeepsOthers(index, {f}, index')
    BY <1>1, <2>1, UpdateFileConsistent, UpdateFileKeepsOthers
  <2> QED
    BY <1>1, <1>2, <2>2, OtherFileKeeps DEF WalkFile
<1>3. CASE ParseBuffer(f)
  <2>1. PICK ids \in SUBSET Ids : index' = UpdateFile(index, f, ids)
    BY <1>3 DEF ParseBuffer
  <2>2. Consistent(index') /\ KeepsOthers(index, {f}, index')
    BY <1>1, <2>1, UpdateFileConsistent, UpdateFileKeepsOthers
  <2> QED
    BY <1>3, <2>2, OtherFileKeeps DEF ParseBuffer
<1>4. CASE CloseBuffer(f)
  <2>1. Consistent(index') /\ KeepsOthers(index, {f}, index')
    BY <1>1, <1>4, RemoveFileConsistent, RemoveFileKeepsOthers DEF CloseBuffer
  <2> QED
    BY <1>4, <2>1, OtherFileKeeps DEF CloseBuffer
<1> QED
  BY <1>2, <1>3, <1>4

\* The full reload drops every corpus file.
LEMMA FullReloadLockfileKeeps == ASSUME ContextInv, FullReloadLockfile PROVE ContextInv'
<1> USE DEF FullReloadLockfile, StartSeedDelivered, ReloadLockfile, configFiles
<1>1. corpusFilePaths \subseteq Delivered \cup Upstream /\ Consistent(index)
  BY DEF ContextInv, ContextTypeOK
<1>2. Dropped(index, corpusFilePaths, index')
  BY <1>1, DropAllDrops, CorpusFilesFinite
<1>3. \A f \in (Delivered \cup Upstream) \ InTree : ~Tracked(index', f)
  BY <1>2, CorpusAssumption DEF ContextInv, CorporaFit, Dropped, KeepsOthers, Tracked
<1>4. CorporaFit'
  BY <1>3 DEF CorporaFit
<1>5. Consistent(index') /\ index' \in Index
  BY <1>2 DEF Dropped, Consistent
<1>6. lockfile' \subseteq Upstream
  BY DEF ContextInv, ContextTypeOK
<1>7. ContextTypeOK'
  BY <1>5, <1>6 DEF ContextInv, ContextTypeOK, AwaitsLoad, flags
<1> QED
  BY <1>4, <1>5, <1>7 DEF ContextInv, CorporaLoaded, ProfileOwed, LockOwed, AtRest, flags

\* The short reload drops the upstream files, which are those of its own set.
LEMMA LockOnlyReloadKeeps == ASSUME ContextInv, LockOnlyReload PROVE ContextInv'
<1> USE DEF LockOnlyReload, ReloadLockfile, configFiles
<1>1. /\ corpusFilePaths \subseteq Delivered \cup Upstream /\ Consistent(index)
      /\ upstreamFilePaths = corpusFilePaths \cap Upstream
      /\ corpusFilePaths \subseteq delivers \cup lockfile /\ lockfile \subseteq Upstream
  BY DEF ContextInv, ContextTypeOK, CorporaFit, CorporaLoaded
<1>2. Dropped(index, upstreamFilePaths, index')
  BY <1>1, DropAllDrops, CorpusFilesFinite
<1>3. \A f \in corpusFilePaths' : Tracked(index', f) /\ index'.fileEntries[f] = CorpusIds[f]
  BY <1>1, <1>2, CorpusAssumption DEF ContextInv, CorporaFit, Dropped, KeepsOthers, Tracked
<1>4. \A f \in (Delivered \cup Upstream) \ InTree : Tracked(index', f) => f \in corpusFilePaths'
  BY <1>1, <1>2, CorpusAssumption DEF ContextInv, CorporaFit, Dropped, KeepsOthers, Tracked
<1>5. corpusFilePaths' \subseteq delivers'
  BY <1>1
<1>6. CorporaFit'
  BY <1>3, <1>4, <1>5 DEF CorporaFit
<1>7. Consistent(index') /\ index' \in Index
  BY <1>2 DEF Dropped, Consistent
<1>8. lockfile' \subseteq Upstream
  BY DEF ContextInv, ContextTypeOK
<1>9. ContextTypeOK'
  BY <1>1, <1>7, <1>8 DEF ContextInv, ContextTypeOK, AwaitsLoad, flags
<1> QED
  BY <1>6, <1>7, <1>9 DEF ContextInv, CorporaLoaded, ProfileOwed, LockOwed, AtRest, flags

\* What does not touch the index, and leaves the corpora.
LEMMA IndexUntouched ==
  ASSUME ContextInv, UNCHANGED <<index, corpora>>,
         \/ at' \notin {"seedDelivered", "seedUpstream"} /\ at \notin {"seedDelivered", "seedUpstream"}
         \/ at' = at /\ delivers' = delivers
  PROVE  CorporaFit' /\ Consistent(index')
BY DEF ContextInv, CorporaFit, corpora, Tracked

LEMMA ReloadWatchedFilesKeeps == ASSUME ContextInv, ReloadWatchedFiles PROVE ContextInv'
<1> USE DEF ReloadWatchedFiles, configFiles, corpora
<1>1. at' \in {"idle", "profile", "lockfileOnly"}
  OBVIOUS
<1>2. CorporaFit' /\ Consistent(index')
  BY <1>1, IndexUntouched
<1>3. pendingProfileFileChange \in BOOLEAN /\ pendingWatchedChange \in BOOLEAN
  BY DEF ContextInv, ContextTypeOK, flags
<1>4. pendingProfileFileChange' \in BOOLEAN /\ pendingWatchedChange' \in BOOLEAN
  BY <1>3
<1>5. ContextTypeOK'
  BY <1>1, <1>4 DEF ContextInv, ContextTypeOK, AwaitsLoad, flags
<1>6. CorporaLoaded'
  BY DEF ContextInv, CorporaLoaded, AtRest
<1>7. ProfileOwed' /\ LockOwed'
  BY DEF ContextInv, ProfileOwed, LockOwed
<1> QED
  BY <1>2, <1>5, <1>6, <1>7 DEF ContextInv

LEMMA ReloadProfileKeeps == ASSUME ContextInv, ReloadProfileFails \/ ReloadProfile PROVE ContextInv'
<1> USE DEF ReloadProfileFails, ReloadProfile, configFiles, corpora, flags
<1>1. at' \in {"idle", "lockfile"} /\ at = "profile"
  OBVIOUS
<1>2. CorporaFit' /\ Consistent(index')
  BY <1>1, IndexUntouched
<1>3. pendingProfileFileChange' \in BOOLEAN /\ pendingWatchedChange' \in BOOLEAN
  BY DEF ContextInv, ContextTypeOK
<1>4. delivers' \subseteq Delivered
  BY DEF ContextInv, ContextTypeOK
<1>5. ContextTypeOK'
  BY <1>1, <1>3, <1>4 DEF ContextInv, ContextTypeOK, AwaitsLoad
<1>6. CorporaLoaded'
  BY DEF ContextInv, CorporaLoaded, AtRest
<1>7. ProfileOwed' /\ LockOwed'
  BY DEF ContextInv, ProfileOwed, LockOwed
<1> QED
  BY <1>2, <1>5, <1>6, <1>7 DEF ContextInv

LEMMA OutsideKeeps ==
  ASSUME ContextInv, EndWalk \/ ChangeProfile \/ ChangeLock \/ Dispose PROVE ContextInv'
<1> USE DEF EndWalk, ChangeProfile, ChangeLock, Dispose, configFiles, corpora, flags
<1>1. delivers' = delivers /\ (at' = at \/ (at = "walk" /\ at' = "idle"))
  OBVIOUS
<1>2. CorporaFit' /\ Consistent(index')
  BY <1>1, IndexUntouched
<1>3. diskChanges' \in 0..MaxDiskChanges
  BY CorpusAssumption DEF ContextInv, ContextTypeOK
<1>4. diskProfile' \in (SUBSET Delivered) \cup {Broken} /\ diskLock' \in (SUBSET Upstream) \cup {Broken}
  BY DEF ContextInv, ContextTypeOK
<1>5. ContextTypeOK'
  <2>1. indexed' \in BOOLEAN /\ disposed' \in BOOLEAN
    BY DEF ContextInv, ContextTypeOK
  <2>2. fileEvents' \subseteq {"profile", "lock"} /\ at' \in AwaitsLoad
    BY DEF ContextInv, ContextTypeOK, AwaitsLoad
  <2>3. UNCHANGED <<index, delivers, lockfile, corpusFilePaths, upstreamFilePaths, flags>>
    OBVIOUS
  <2> QED
    BY <1>3, <1>4, <2>1, <2>2, <2>3 DEF ContextInv, ContextTypeOK
<1>6. CorporaLoaded'
  BY DEF ContextInv, CorporaLoaded, AtRest
<1>7. ProfileOwed' /\ LockOwed'
  BY DEF ContextInv, ProfileOwed, LockOwed
<1> QED
  BY <1>2, <1>5, <1>6, <1>7 DEF ContextInv

LEMMA ContextStep == ContextInv /\ [ContextNext]_contextVars => ContextInv'
<1> SUFFICES ASSUME ContextInv, [ContextNext]_contextVars PROVE ContextInv'
  OBVIOUS
<1>1. CASE Lane
  BY <1>1, SeedDeliveredKeeps, SeedUpstreamKeeps, OutsideKeeps, ReloadWatchedFilesKeeps, ReloadProfileKeeps,
     FullReloadLockfileKeeps, LockOnlyReloadKeeps DEF Lane
<1>2. CASE \E f \in Own : WalkFile(f)
  BY <1>2, WalkAndBuffersKeep
<1>3. CASE ChangeProfile \/ ChangeLock \/ Dispose
  BY <1>3, OutsideKeeps
<1>4. CASE \E f \in Own \cup InTree : ParseBuffer(f) \/ CloseBuffer(f)
  BY <1>4, WalkAndBuffersKeep
<1>5. CASE UNCHANGED contextVars
  BY <1>5 DEF contextVars, configFiles, corpora, flags, ContextInv, ContextTypeOK, CorporaFit, Tracked,
              CorporaLoaded, ProfileOwed, LockOwed, AtRest
<1> QED
  BY <1>1, <1>2, <1>3, <1>4, <1>5 DEF ContextNext

\* At rest, every excuse but the owed retry is gone.
LEMMA InvFollows == ContextInv => FollowsConfiguration
<1> SUFFICES ASSUME ContextInv PROVE FollowsConfiguration
  OBVIOUS
<1>1. CorpusMatchesLoaded
  BY DEF CorpusMatchesLoaded, ContextInv, CorporaFit, CorporaLoaded, AtRest
<1>2. NoReloadLost
  BY DEF NoReloadLost, ContextInv, ProfileOwed, LockOwed, AtRest
<1> QED
  BY <1>1, <1>2 DEF FollowsConfiguration

\* For any files, profiles, lockfiles and buffers: at rest a project is what its
\* configuration files say, or a retry is owed; and its two maps agree after every
\* seeding, reload and parse.
THEOREM ConfigurationIsFollowed == ContextSpec => [](FollowsConfiguration /\ Consistent(index))
<1>1. ContextInv => FollowsConfiguration /\ Consistent(index)
  BY InvFollows DEF ContextInv
<1> QED
  BY <1>1, ContextInitially, ContextStep, PTL DEF ContextSpec

\* The two steps of a reload of the lockfile name only files of the upstreams.
LEMMA LockStepKeepsDelivered ==
  ASSUME ContextInv, ContextNext, at' # at, at \in {"lockfileOnly", "seedUpstream"},
         NEW f \in corpusFilePaths \ upstreamFilePaths
  PROVE  CorpusFileKept(f)
<1>1. /\ f \in Files /\ Consistent(index) /\ Tracked(index, f)
      /\ upstreamFilePaths \subseteq Upstream /\ lockfile \subseteq Upstream
  BY CorpusAssumption DEF ContextInv, ContextTypeOK, CorporaFit
<1>2. LockOnlyReload \/ SeedUpstream
  BY DEF ContextNext, Lane, SeedDelivered, EndWalk, ReloadWatchedFiles, ReloadProfileFails, ReloadProfile,
         FullReloadLockfile, WalkFile, ChangeProfile, ChangeLock, ParseBuffer, CloseBuffer, Dispose
<1>3. PICK s \in SUBSET Files : f \in Files \ s /\ KeepsOthers(index, s, index') /\ f \in corpusFilePaths'
  <2>1. CASE LockOnlyReload
    <3>1. Dropped(index, upstreamFilePaths, index')
      BY <1>1, <2>1, DropAllDrops, CorpusFilesFinite DEF LockOnlyReload
    <3> QED
      BY <1>1, <2>1, <3>1, CorpusAssumption DEF LockOnlyReload, Dropped
  <2>2. CASE SeedUpstream
    <3>1. PICK loaded \in SUBSET lockfile : index' = SeedAll(index, loaded) /\ corpusFilePaths' = corpusFilePaths \cup loaded
      BY <2>2 DEF SeedUpstream
    <3>2. Seeded(index, loaded, index')
      BY <1>1, <3>1, SeedAllSeeds, CorpusFilesFinite
    <3>3. f \in Delivered
      BY <2>2 DEF SeedUpstream, ContextInv, ContextTypeOK, CorporaFit
    <3>4. loaded \in SUBSET Files /\ f \notin loaded
      BY <1>1, <3>3, CorpusAssumption
    <3> QED
      BY <1>1, <3>1, <3>2, <3>4 DEF Seeded
  <2> QED
    BY <1>2, <2>1, <2>2
<1>4. Tracked(index', f) /\ EntryOf(index, f) = EntryOf(index', f)
  BY <1>1, <1>3 DEF KeepsOthers, Tracked, EntryOf
<1>5. \A id \in Ids : ResolvesTo(index, id, f) => ResolvesTo(index', id, f)
  BY <1>3 DEF KeepsOthers, ResolvesTo
<1> QED
  BY <1>3, <1>4, <1>5 DEF CorpusFileKept

\* For any corpora, a reload of markspec.lock alone leaves the delivered files, their
\* entries and the IDs that resolve to them, although both corpora share a set.
THEOREM LockReloadIsApart == ContextSpec => LockReloadKeepsDelivered
<1>1. ContextInv /\ [ContextNext]_contextVars =>
        [at' # at /\ at \in {"lockfileOnly", "seedUpstream"} =>
           \A f \in corpusFilePaths \ upstreamFilePaths : CorpusFileKept(f)]_contextVars
  BY LockStepKeepsDelivered DEF contextVars
<1> QED
  BY <1>1, ContextInitially, ContextStep, PTL DEF ContextSpec, LockReloadKeepsDelivered

-------------------------------------------------------------------------------
(***************************************************************************)
(* The profile chain, for any manifests, specifiers, values and depth.     *)
(***************************************************************************)

\* The merge of two tiers is a profile again.
LEMMA UnionTypes ==
  /\ \A a, b \in AttributeDecl \cup {None} : UnionAttr(a, b) \in AttributeDecl \cup {None}
  /\ \A a, b \in LinkRule \cup {None} : UnionRule(a, b) \in LinkRule \cup {None}
  /\ \A a, b \in TypeDecl \cup {None} : UnionType(a, b) \in TypeDecl \cup {None}
<1>1. \A a, b \in AttributeDecl \cup {None} : UnionAttr(a, b) \in AttributeDecl \cup {None}
  BY DEF UnionAttr, Fold, AttributeDecl
<1>2. \A a, b \in LinkRule \cup {None} : UnionRule(a, b) \in LinkRule \cup {None}
  <2> SUFFICES ASSUME NEW a \in LinkRule \cup {None}, NEW b \in LinkRule \cup {None}
               PROVE  UnionRule(a, b) \in LinkRule \cup {None}
    OBVIOUS
  <2>1. CASE a = None \/ b = None \/ ~RuleTightens(a, b)
    BY <2>1 DEF UnionRule, Fold
  <2>2. CASE a # None /\ b # None /\ RuleTightens(a, b)
    <3>1. a \in LinkRule /\ b \in LinkRule
      BY <2>2
    <3>2. PICK card, required :
            /\ card = IF b.card = None THEN a.card ELSE b.card
            /\ required = (a.required \/ b.required)
      OBVIOUS
    <3>3. UnionRule(a, b) = [b EXCEPT !.card = card, !.required = required]
      BY <2>2, <3>2 DEF UnionRule, Fold
    <3>4. card \in Cardinalities \cup {None}
      BY <3>1, <3>2 DEF LinkRule
    <3>5. required \in BOOLEAN
      BY <3>2
    <3> QED
      BY <3>1, <3>3, <3>4, <3>5 DEF LinkRule
  <2> QED
    BY <2>1, <2>2
<1>3. \A a, b \in TypeDecl \cup {None} : UnionType(a, b) \in TypeDecl \cup {None}
  BY <1>1, <1>2 DEF UnionType, Fold, TypeDecl
<1> QED
  BY <1>1, <1>2, <1>3

LEMMA FoldTierType == ASSUME NEW p \in Profile, NEW m \in Profile PROVE FoldTier(p, m) \in Profile
BY UnionTypes DEF FoldTier, Profile

\* A set of numbers with a bound has a last member.
LEMMA LastMember ==
  ASSUME NEW n \in Nat, NEW s \in SUBSET (1..n), s # {}
  PROVE  Max(s) \in s /\ \A x \in s : x <= Max(s)
<1> DEFINE T == {m \in Nat : \E x \in s : m = n - x}
<1>1. T \subseteq Nat /\ T # {}
  <2>1. PICK x \in s : TRUE
    OBVIOUS
  <2>2. n - x \in T
    BY <2>1
  <2> QED
    BY <2>2
<1>2. PICK k \in T : \A m \in T : ~(<<m, k>> \in OpToRel(<, Nat))
  <2> HIDE DEF T
  <2>1. IsWellFoundedOn(OpToRel(<, Nat), Nat)
    BY NatLessThanWellFounded
  <2> QED
    BY <1>1, <2>1, WFMin
<1>3. PICK last \in s : k = n - last
  OBVIOUS
<1>4. \A x \in s : n - x \in T
  OBVIOUS
<1>5. \A x \in s : last >= x
  <2> SUFFICES ASSUME NEW x \in s PROVE last >= x
    OBVIOUS
  <2>1. n - x \in Nat /\ n - last \in Nat /\ x \in Int /\ last \in Int
    OBVIOUS
  <2>2. ~(<<n - x, n - last>> \in OpToRel(<, Nat))
    BY <1>2, <1>3, <1>4
  <2>3. ~(n - x < n - last)
    BY <2>1, <2>2 DEF OpToRel
  <2> QED
    BY <2>1, <2>3
<1>6. \E y \in s : \A x \in s : y >= x
  BY <1>5
<1>7. Max(s) \in s /\ \A x \in s : Max(s) >= x
  BY <1>6 DEF Max
<1> QED
  BY <1>7

\* The merge of the first n tiers, as a function of the sets of tiers merged.
LEMMA EffectiveFolds ==
  ASSUME NEW ms \in Seq(Profile), NEW n \in 1..Len(ms)
  PROVE  \E h \in [SUBSET (1..(n - 1)) -> Profile] :
           /\ Effective(SubSeq(ms, 1, n)) = h[1..(n - 1)]
           /\ \A s \in SUBSET (1..(n - 1)) :
                h[s] = IF s = {} THEN ms[1] ELSE FoldTier(h[s \ {Max(s)}], ms[Max(s) + 1])
<1> DEFINE S == 1..(n - 1)
           first == SubSeq(ms, 1, n)
           pick == [s \in SUBSET S |-> Max(s)]
           op == [a \in S \X Profile |-> FoldTier(a[2], ms[a[1] + 1])]
           Fold1(g) == [s \in SUBSET S |-> IF s = {} THEN Head(first)
                                          ELSE FoldTier(g[s \ {Max(s)}], Tail(first)[Max(s)])]
           Fold2(g) == [s \in SUBSET S |-> IF s = {} THEN ms[1]
                                          ELSE FoldTier(g[s \ {Max(s)}], ms[Max(s) + 1])]
<1>1. n \in Nat \ {0} /\ n - 1 \in Nat /\ IsFiniteSet(S)
  BY FS_Interval
<1>2. /\ first \in Seq(Profile) /\ Len(first) = n /\ first # <<>> /\ Head(first) = ms[1]
      /\ Len(Tail(first)) = n - 1 /\ DOMAIN Tail(first) = S /\ \A i \in S : Tail(first)[i] = ms[i + 1]
  BY <1>1
<1>3. \A s \in SUBSET S : s # {} => Max(s) \in s
  BY <1>1, LastMember
<1>4. Effective(first) = (CHOOSE g : g = Fold1(g))[S]
  <2> HIDE DEF first
  <2>1. DOMAIN Tail(first) = S
    BY <1>2
  <2> HIDE DEF S
  <2> QED
    BY <2>1, Zenon DEF Effective, FoldLeft, MapThenFoldSet
<1>5. \A g : Fold1(g) = Fold2(g)
  <2> HIDE DEF first
  <2> QED
    BY <1>2, <1>3
<1>6. \A m \in 1..Len(ms) : ms[m] \in Profile
  OBVIOUS
<1>7. op \in [S \X Profile -> Profile] /\ ms[1] \in Profile
  <2>1. \A i \in S : i + 1 \in 1..Len(ms)
    BY <1>1
  <2> QED
    BY <1>6, <2>1, FoldTierType
<1>8. PICK g \in [SUBSET S -> Profile] : FoldsOver(g, SUBSET S, ms[1], op, pick)
  <2> HIDE DEF S, op
  <2>1. \A s \in SUBSET S : s # {} => pick[s] \in s
    BY <1>3
  <2> HIDE DEF pick
  <2> QED
    BY <1>1, <1>7, <2>1, FoldExists
<1>9. g = Fold2(g)
  <2> HIDE DEF S
  <2>1. \A s \in SUBSET S : s # {} =>
          op[<<pick[s], g[s \ {pick[s]}]>>] = FoldTier(g[s \ {Max(s)}], ms[Max(s) + 1])
    BY <1>3, <1>8
  <2> QED
    BY <1>8, <2>1 DEF FoldsOver
<1>10. \E h : h = Fold2(h) /\ Effective(first) = h[S]
  <2>1. \E h : h = Fold1(h)
    <3>1. Fold1(g) = Fold2(g)
      BY <1>5
    <3> HIDE DEF Fold1, Fold2
    <3> QED
      BY <1>9, <3>1
  <2>2. (CHOOSE h : h = Fold1(h)) = Fold1(CHOOSE h : h = Fold1(h))
    <3> HIDE DEF Fold1
    <3> QED
      BY <2>1
  <2> QED
    BY <1>4, <1>5, <2>2
<1>11. PICK h : h = Fold2(h) /\ Effective(first) = h[S]
  BY <1>10
<1>12. \A s \in SUBSET S : h[s] = IF s = {} THEN ms[1] ELSE FoldTier(h[s \ {Max(s)}], ms[Max(s) + 1])
  BY <1>11
<1> DEFINE T == {s \in SUBSET S : h[s] \notin Profile}
<1>13. \A s \in T : \E x \in s : s \ {x} \in T
  <2> SUFFICES ASSUME NEW s \in T PROVE \E x \in s : s \ {x} \in T
    OBVIOUS
  <2> HIDE DEF S
  <2>1. s # {}
    BY <1>7, <1>12
  <2>2. Max(s) \in s /\ Max(s) \in S /\ s \ {Max(s)} \in SUBSET S
    BY <1>3, <2>1
  <2>3. ms[Max(s) + 1] \in Profile
    BY <1>1, <1>6, <2>2 DEF S
  <2>4. h[s \ {Max(s)}] \notin Profile
    BY <1>12, <2>1, <2>3, FoldTierType
  <2> QED
    BY <2>2, <2>4
<1>14. T = {}
  <2> HIDE DEF T, S
  <2>1. T \in SUBSET SUBSET S
    BY DEF T
  <2> QED
    BY <1>1, <1>13, <2>1, NoDescent
<1>15. h \in [SUBSET S -> Profile]
  BY <1>11, <1>14
<1> QED
  BY <1>11, <1>12, <1>15
\* The merge goes tier by tier from the root.
LEMMA EffectiveStep ==
  ASSUME NEW ms \in Seq(Profile), NEW n \in 1..Len(ms)
  PROVE  /\ Effective(SubSeq(ms, 1, n)) \in Profile
         /\ n = 1 => Effective(SubSeq(ms, 1, n)) = ms[1]
         /\ n > 1 => Effective(SubSeq(ms, 1, n)) = FoldTier(Effective(SubSeq(ms, 1, n - 1)), ms[n])
<1>1. PICK h \in [SUBSET (1..(n - 1)) -> Profile] :
        /\ Effective(SubSeq(ms, 1, n)) = h[1..(n - 1)]
        /\ \A s \in SUBSET (1..(n - 1)) :
             h[s] = IF s = {} THEN ms[1] ELSE FoldTier(h[s \ {Max(s)}], ms[Max(s) + 1])
  BY EffectiveFolds
<1>2. Effective(SubSeq(ms, 1, n)) \in Profile
  BY <1>1
<1>3. n = 1 => Effective(SubSeq(ms, 1, n)) = ms[1]
  <2>1. n = 1 => 1..(n - 1) = {}
    OBVIOUS
  <2> QED
    BY <1>1, <2>1
<1>4. ASSUME n > 1 PROVE Effective(SubSeq(ms, 1, n)) = FoldTier(Effective(SubSeq(ms, 1, n - 1)), ms[n])
  <2> DEFINE S == 1..((n - 1) - 1)
  <2>1. n - 1 \in 1..Len(ms) /\ (n - 1) - 1 = n - 2 /\ n - 2 \in Nat /\ n - 1 \in Nat /\ (n - 1) + 1 = n
    BY <1>4
  <2>2. PICK g \in [SUBSET S -> Profile] :
          /\ Effective(SubSeq(ms, 1, n - 1)) = g[S]
          /\ \A s \in SUBSET S :
               g[s] = IF s = {} THEN ms[1] ELSE FoldTier(g[s \ {Max(s)}], ms[Max(s) + 1])
    BY <2>1, EffectiveFolds
  <2> DEFINE T == {s \in SUBSET S : g[s] # h[s]}
  <2>3. S \subseteq 1..(n - 1) /\ IsFiniteSet(S)
    <3>1. S = 1..(n - 2)
      BY <2>1
    <3>2. IsFiniteSet(1..(n - 2))
      BY <2>1, FS_Interval
    <3>3. 1..(n - 2) \subseteq 1..(n - 1)
      BY <2>1
    <3> QED
      BY <3>1, <3>2, <3>3
  <2>4. \A s \in T : \E x \in s : s \ {x} \in T
    <3> SUFFICES ASSUME NEW s \in T PROVE \E x \in s : s \ {x} \in T
      OBVIOUS
    <3>1. s # {} /\ s \in SUBSET S /\ s \in SUBSET (1..(n - 1))
      BY <1>1, <2>2, <2>3
    <3> HIDE DEF S
    <3>2. Max(s) \in s
      BY <2>1, <3>1, LastMember DEF S
    <3>3. /\ g[s] = FoldTier(g[s \ {Max(s)}], ms[Max(s) + 1])
          /\ h[s] = FoldTier(h[s \ {Max(s)}], ms[Max(s) + 1]) /\ g[s] # h[s]
      BY <1>1, <2>2, <3>1
    <3> QED
      BY <3>1, <3>2, <3>3
  <2>5. T = {}
    <3> HIDE DEF S
    <3>1. T \in SUBSET SUBSET S
      OBVIOUS
    <3> HIDE DEF T
    <3> QED
      BY <2>3, <2>4, <3>1, NoDescent
  <2>6. g[S] = h[S]
    BY <2>5
  <2>7. 1..(n - 1) # {} /\ Max(1..(n - 1)) = n - 1
    <3>1. n - 1 \in 1..(n - 1)
      BY <1>4, <2>1
    <3>2. Max(1..(n - 1)) \in 1..(n - 1) /\ n - 1 <= Max(1..(n - 1))
      BY <2>1, <3>1, LastMember
    <3> QED
      BY <2>1, <3>1, <3>2
  <2>8. (1..(n - 1)) \ {n - 1} = S
    BY <1>4
  <2>9. h[1..(n - 1)] = FoldTier(h[S], ms[n])
    BY <1>1, <2>1, <2>7, <2>8
  <2> QED
    BY <1>1, <2>2, <2>6, <2>9
<1> QED
  BY <1>2, <1>3, <1>4

-------------------------------------------------------------------------------
\* Declaration d of a descendant leaves nothing that declaration a forbids.
AttributeStands(a, d) ==
  a # None => /\ d # None /\ d.type = a.type /\ CardTightens(a.card, d.card)
              /\ a.type = "enum" => d.values \subseteq a.values

RuleStands(a, d) ==
  a # None => /\ d # None /\ CardTightens(RuleCard(a), RuleCard(d)) /\ (a.required => d.required)
              /\ a.target \cap Shapes = {} => d.target \subseteq a.target

TypeStands(a, d) ==
  a # None => /\ d # None /\ d.enforcement >= a.enforcement /\ (a.required => d.required)
              /\ a.pattern # None => d.pattern = a.pattern
              /\ AttributeStands(a.attr, d.attr) /\ RuleStands(a.rule, d.rule)

Stands(a, d) == AttributeStands(a.attr, d.attr) /\ TypeStands(a.type, d.type)

\* The bounds on the number of values are numbers.
LEMMA Bounds ==
  /\ Unbounded \in Nat
  /\ \A a \in AttributeDecl : a.card \in Nat \X Nat
  /\ \A r \in LinkRule : RuleCard(r) \in Nat \X Nat
<1>1. Unbounded \in Nat
  BY ProfileAssumption, FS_CardinalityType DEF Unbounded
<1>2. \A c \in Cardinalities : c \in Nat \X Nat
  BY <1>1 DEF Cardinalities
<1> QED
  BY <1>1, <1>2 DEF AttributeDecl, LinkRule, RuleCard

LEMMA StandsItself == ASSUME NEW p \in Profile PROVE Stands(p, p)
<1>1. \A a \in AttributeDecl \cup {None} : AttributeStands(a, a)
  BY Bounds DEF AttributeStands, CardTightens
<1>2. \A r \in LinkRule \cup {None} : RuleStands(r, r)
  BY Bounds DEF RuleStands, CardTightens
<1>3. \A t \in TypeDecl \cup {None} : TypeStands(t, t)
  BY <1>1, <1>2 DEF TypeStands, TypeDecl
<1> QED
  BY <1>1, <1>3 DEF Stands, Profile

LEMMA StandsAlong ==
  ASSUME NEW p \in Profile, NEW q \in Profile, NEW r \in Profile, Stands(p, q), Stands(q, r)
  PROVE  Stands(p, r)
<1>1. \A a, b, c \in AttributeDecl \cup {None} :
        AttributeStands(a, b) /\ AttributeStands(b, c) => AttributeStands(a, c)
  BY Bounds DEF AttributeStands, CardTightens
<1>2. \A a, b, c \in LinkRule \cup {None} : RuleStands(a, b) /\ RuleStands(b, c) => RuleStands(a, c)
  BY Bounds DEF RuleStands, CardTightens
<1>3. \A a, b, c \in TypeDecl \cup {None} : TypeStands(a, b) /\ TypeStands(b, c) => TypeStands(a, c)
  BY <1>1, <1>2 DEF TypeStands, TypeDecl
<1> QED
  BY <1>1, <1>3 DEF Stands, Profile

\* A tier without a diagnostic tightens what was merged before it.
LEMMA TierTightens ==
  ASSUME NEW p \in Profile, NEW m \in Profile, ~Relaxes(p, m)
  PROVE  Stands(p, FoldTier(p, m))
<1>1. \A a, b \in AttributeDecl \cup {None} :
        (a = None \/ b = None \/ AttrTightens(a, b)) => AttributeStands(a, UnionAttr(a, b))
  BY Bounds DEF AttributeStands, UnionAttr, Fold, AttrTightens, CardTightens, AttributeDecl
<1>2. \A a, b \in LinkRule \cup {None} :
        (a = None \/ b = None \/ RuleTightens(a, b)) => RuleStands(a, UnionRule(a, b))
  <2> SUFFICES ASSUME NEW a \in LinkRule \cup {None}, NEW b \in LinkRule \cup {None},
                      a = None \/ b = None \/ RuleTightens(a, b), a # None
               PROVE  RuleStands(a, UnionRule(a, b))
    BY DEF RuleStands
  <2>1. CASE b = None
    BY <2>1, Bounds DEF RuleStands, UnionRule, Fold, CardTightens
  <2>2. CASE b # None
    <3>1. a \in LinkRule /\ b \in LinkRule /\ RuleTightens(a, b)
      BY <2>2
    <3>2. PICK card, required :
            /\ card = IF b.card = None THEN a.card ELSE b.card
            /\ required = (a.required \/ b.required)
      OBVIOUS
    <3>3. UnionRule(a, b) = [b EXCEPT !.card = card, !.required = required]
      BY <2>2, <3>1, <3>2 DEF UnionRule, Fold
    <3>4. PICK d : d = [b EXCEPT !.card = card, !.required = required]
      OBVIOUS
    <3>5. d.card = card /\ d.target = b.target
      BY <3>1, <3>4 DEF LinkRule
    <3>6. a.required => d.required
      <4>1. d.required = required
        BY <3>1, <3>4 DEF LinkRule
      <4> QED
        BY <3>2, <4>1
    <3>7. CardTightens(RuleCard(a), RuleCard(d))
      BY <3>1, <3>2, <3>5, Bounds DEF RuleTightens, RuleCard, CardTightens
    <3>8. a.target \cap Shapes = {} => d.target \subseteq a.target
      BY <3>1, <3>5 DEF RuleTightens, CoveredBy
    <3>9. d # None
      <4>1. card \in Cardinalities \cup {None} /\ required \in BOOLEAN
        BY <3>1, <3>2 DEF LinkRule
      <4>2. d \in LinkRule
        BY <3>1, <3>4, <4>1 DEF LinkRule
      <4> QED
        BY <4>2, ProfileAssumption
    <3> QED
      BY <3>3, <3>4, <3>6, <3>7, <3>8, <3>9 DEF RuleStands
  <2> QED
    BY <2>1, <2>2
<1>3. \A a, b \in TypeDecl \cup {None} :
        /\ a = None \/ b = None \/ TypeTightens(a, b)
        /\ a # None /\ b # None => /\ a.attr = None \/ b.attr = None \/ AttrTightens(a.attr, b.attr)
                                   /\ a.rule = None \/ b.rule = None \/ RuleTightens(a.rule, b.rule)
        => TypeStands(a, UnionType(a, b))
  <2> SUFFICES ASSUME NEW a \in TypeDecl \cup {None}, NEW b \in TypeDecl \cup {None}, a # None,
                      b = None \/ TypeTightens(a, b),
                      b # None => /\ a.attr = None \/ b.attr = None \/ AttrTightens(a.attr, b.attr)
                                  /\ a.rule = None \/ b.rule = None \/ RuleTightens(a.rule, b.rule)
               PROVE  TypeStands(a, UnionType(a, b))
    BY DEF TypeStands
  <2>1. CASE b = None
    <3>1. UnionType(a, b) = a
      BY <2>1 DEF UnionType, Fold
    <3>2. /\ AttributeStands(a.attr, a.attr) /\ RuleStands(a.rule, a.rule)
          /\ a.enforcement >= a.enforcement
      BY Bounds DEF AttributeStands, RuleStands, CardTightens, TypeDecl
    <3> QED
      BY <3>1, <3>2 DEF TypeStands
  <2>2. CASE b # None
    <3>1. PICK d : d = UnionType(a, b)
      OBVIOUS
    <3>2. a \in TypeDecl /\ b \in TypeDecl /\ TypeTightens(a, b)
      BY <2>2
    <3>3. d = [extends |-> a.extends, pattern |-> IF a.pattern = None THEN b.pattern ELSE a.pattern,
               enforcement |-> b.enforcement, required |-> a.required \/ b.required,
               attr |-> UnionAttr(a.attr, b.attr), rule |-> UnionRule(a.rule, b.rule)]
      BY <2>2, <3>1, <3>2 DEF UnionType, Fold
    <3>4. d.enforcement >= a.enforcement /\ (a.pattern # None => d.pattern = a.pattern)
      BY <3>2, <3>3 DEF TypeTightens
    <3>5. a.required => d.required
      BY <3>3
    <3>6. AttributeStands(a.attr, d.attr) /\ RuleStands(a.rule, d.rule)
      BY <1>1, <1>2, <2>2, <3>2, <3>3 DEF TypeDecl
    <3>7. d # None
      <4>1. UnionAttr(a.attr, b.attr) \in AttributeDecl \cup {None} /\ UnionRule(a.rule, b.rule) \in LinkRule \cup {None}
        BY <3>2, UnionTypes DEF TypeDecl
      <4>2. (a.required \/ b.required) \in BOOLEAN /\ b.enforcement \in 0..2
            /\ (IF a.pattern = None THEN b.pattern ELSE a.pattern) \in Patterns \cup {None}
            /\ a.extends \in CoreTypes
        BY <3>2 DEF TypeDecl
      <4>3. d \in TypeDecl
        BY <3>3, <4>1, <4>2 DEF TypeDecl
      <4> QED
        BY <4>3, ProfileAssumption
    <3> QED
      BY <3>1, <3>4, <3>5, <3>6, <3>7 DEF TypeStands
  <2> QED
    BY <2>1, <2>2
<1> QED
  BY <1>1, <1>3 DEF Stands, FoldTier, Relaxes, Profile
\* An entry without errors under d has only the excused ones under a.
LEMMA ErrorsStand ==
  ASSUME NEW a \in Profile, NEW d \in Profile, Stands(a, d), a.type # None,
         NEW e \in EntryInput, ErrorsOf(e, d) = {}
  PROVE  ErrorsOf(e, a) \subseteq Excused(a, d)
<1>1. /\ a.type \in TypeDecl /\ d.type \in TypeDecl /\ TypeStands(a.type, d.type) /\ d.type # None
      /\ a.type.attr \in AttributeDecl \cup {None} /\ d.type.attr \in AttributeDecl \cup {None}
      /\ a.attr \in AttributeDecl \cup {None} /\ d.attr \in AttributeDecl \cup {None}
      /\ a.type.rule \in LinkRule \cup {None} /\ d.type.rule \in LinkRule \cup {None}
  <2>1. TypeStands(a.type, d.type) /\ d.type # None
    BY DEF Stands, TypeStands
  <2>2. a.type \in TypeDecl /\ d.type \in TypeDecl
    BY <2>1 DEF Profile
  <2> QED
    BY <2>1, <2>2 DEF Profile, TypeDecl
<1>2. /\ ~(d.type.enforcement = 2 /\ d.type.pattern # None /\ d.type.pattern \notin e.fits)
      /\ ~(d.type.required /\ e.values = {})
      /\ ~BadAttribute(e, d) /\ ~BadLink(e, d.type.rule) /\ ~BadTarget(e, d.type.rule)
  BY DEF ErrorsOf
<1>3. ~(a.type.enforcement = 2 /\ a.type.pattern # None /\ a.type.pattern \notin e.fits)
  <2>1. a.type.enforcement \in 0..2 /\ d.type.enforcement \in 0..2
    BY <1>1 DEF TypeDecl
  <2> QED
    BY <1>1, <1>2, <2>1 DEF TypeStands
<1>4. ~(a.type.required /\ e.values = {})
  BY <1>1, <1>2 DEF TypeStands
<1>5. \A low, high, low2, high2 \in Nat : low2 >= low /\ high2 <= high => low2..high2 \subseteq low..high
  OBVIOUS
<1>6. \A c, c2 \in Nat \X Nat : CardTightens(c, c2) /\ Outside(e.values, c) => Outside(e.values, c2)
  BY <1>5 DEF CardTightens, Outside
<1>7. ASSUME BadAttribute(e, a) PROVE "attribute" \in Excused(a, d)
  <2> SUFFICES ASSUME ScopeOf(a) = ScopeOf(d) PROVE FALSE
    BY DEF Excused
  <2>1. AttributeStands(a.type.attr, d.type.attr) /\ AttributeStands(a.attr, d.attr)
    BY <1>1 DEF Stands, TypeStands
  <2>2. Declared(a) \in AttributeDecl \cup {LinkAttr} /\ Declared(d) \in AttributeDecl \cup {LinkAttr}
        /\ AttributeStands(Declared(a), Declared(d))
    <3>1. Declared(a) # None
      BY <1>7 DEF BadAttribute
    <3>2. CASE ScopeOf(a) = "type"
      <4>1. Declared(a) = a.type.attr /\ Declared(d) = d.type.attr
        BY <3>2 DEF Declared
      <4>2. a.type.attr # None /\ d.type.attr # None
        BY <3>1, <2>1, <4>1 DEF AttributeStands
      <4> QED
        BY <1>1, <2>1, <4>1, <4>2
    <3>3. CASE ScopeOf(a) = "universal"
      <4>1. Declared(a) = a.attr /\ Declared(d) = d.attr
        BY <3>3 DEF Declared
      <4>2. a.attr # None /\ d.attr # None
        BY <3>1, <2>1, <4>1 DEF AttributeStands
      <4> QED
        BY <1>1, <2>1, <4>1, <4>2
    <3>4. CASE ScopeOf(a) = "link"
      <4>1. Declared(a) = LinkAttr /\ Declared(d) = LinkAttr
        BY <3>4 DEF Declared
      <4>2. AttributeStands(LinkAttr, LinkAttr)
        BY <3>1, <4>1, Bounds DEF AttributeStands, LinkAttr, CardTightens
      <4> QED
        BY <4>1, <4>2
    <3>5. ScopeOf(a) \in {"type", "universal", "link"}
      BY <3>1 DEF ScopeOf, Declared
    <3> QED
      BY <3>2, <3>3, <3>4, <3>5
  <2>3. LinkAttr.card \in Nat \X Nat
    BY Bounds DEF LinkAttr
  <2>4. Outside(e.values, Declared(a).card) => Outside(e.values, Declared(d).card)
    BY <1>6, <1>7, <2>2, <2>3, Bounds DEF AttributeStands, BadAttribute
  <2>5. ValidValues(Declared(d)) \subseteq ValidValues(Declared(a))
    BY <1>7, <2>2 DEF AttributeStands, BadAttribute, ValidValues
  <2> QED
    BY <1>2, <1>7, <2>2, <2>4, <2>5 DEF BadAttribute, AttributeStands
<1>8. ~BadLink(e, a.type.rule)
  <2>1. RuleStands(a.type.rule, d.type.rule)
    BY <1>1 DEF TypeStands
  <2> QED
    BY <1>1, <1>2, <1>6, <2>1, Bounds DEF RuleStands, BadLink
<1>9. ASSUME BadTarget(e, a.type.rule) PROVE "target" \in Excused(a, d)
  <2> SUFFICES ASSUME a.type.rule.target \cap Shapes = {} PROVE FALSE
    BY <1>9 DEF Excused, BadTarget
  <2>1. RuleStands(a.type.rule, d.type.rule)
    BY <1>1 DEF TypeStands
  <2>2. d.type.rule # None /\ d.type.rule.target \subseteq a.type.rule.target
    BY <1>9, <2>1 DEF RuleStands, BadTarget
  <2> QED
    BY <1>2, <1>9, <2>2 DEF BadTarget
<1>10. \A code \in ErrorsOf(e, a) :
         /\ code \in {"attribute", "target"}
         /\ code = "attribute" => BadAttribute(e, a)
         /\ code = "target" => BadTarget(e, a.type.rule)
  BY <1>3, <1>4, <1>8 DEF ErrorsOf
<1> QED
  BY <1>7, <1>9, <1>10

\* A chain without a diagnostic only tightens.
LEMMA ChainTightens ==
  ASSUME NEW ms \in Seq(Profile), ~AnyRelaxes(ms), NEW n \in 1..Len(ms)
  PROVE  Stands(Effective(SubSeq(ms, 1, n)), Effective(ms))
<1> DEFINE E(k) == Effective(SubSeq(ms, 1, k))
           T == {m \in Nat : \E k \in n..Len(ms) : m = k - n /\ ~Stands(E(n), E(k))}
<1>1. \A k \in 1..Len(ms) : E(k) \in Profile /\ ms[k] \in Profile
  BY EffectiveStep
<1>2. n \in Nat /\ Len(ms) \in Nat /\ n >= 1 /\ n <= Len(ms)
  OBVIOUS
<1>3. T = {}
  <2> SUFFICES ASSUME T # {} PROVE FALSE
    OBVIOUS
  <2>1. PICK m \in T : \A l \in T : ~(<<l, m>> \in OpToRel(<, Nat))
    <3>1. T \subseteq Nat
      OBVIOUS
    <3>2. IsWellFoundedOn(OpToRel(<, Nat), Nat)
      BY NatLessThanWellFounded
    <3> HIDE DEF T
    <3> QED
      BY <3>1, <3>2, WFMin
  <2>2. PICK k \in n..Len(ms) : m = k - n /\ ~Stands(E(n), E(k))
    OBVIOUS
  <2> HIDE DEF E
  <2>3. k # n
    BY <1>1, <2>2, StandsItself
  <2>4. k \in 1..Len(ms) /\ k - 1 \in 1..Len(ms) /\ k > 1 /\ k - 1 \in n..Len(ms)
    BY <1>2, <2>3
  <2>5. m - 1 = (k - 1) - n /\ m - 1 \in Nat /\ m \in Nat
    BY <1>2, <2>2, <2>3
  <2>6. m - 1 \notin T
    <3>1. <<m - 1, m>> \in OpToRel(<, Nat)
      BY <2>5 DEF OpToRel
    <3> HIDE DEF T
    <3> QED
      BY <2>1, <3>1
  <2>7. Stands(E(n), E(k - 1))
    BY <2>4, <2>5, <2>6
  <2>8. ~Relaxes(E(k - 1), ms[k])
    BY <2>4 DEF AnyRelaxes, E
  <2>9. E(k) = FoldTier(E(k - 1), ms[k])
    BY <2>4, EffectiveStep DEF E
  <2>10. Stands(E(k - 1), E(k))
    BY <1>1, <2>4, <2>8, <2>9, TierTightens
  <2> QED
    BY <1>1, <1>2, <2>2, <2>4, <2>7, <2>10, StandsAlong
<1>4. Len(ms) - n \notin T /\ Len(ms) - n \in Nat /\ Len(ms) \in n..Len(ms)
  <2>1. Len(ms) - n \in Nat /\ Len(ms) \in n..Len(ms)
    BY <1>2
  <2> HIDE DEF T
  <2> QED
    BY <1>3, <2>1
<1>5. Stands(E(n), E(Len(ms)))
  BY <1>4
<1>6. SubSeq(ms, 1, Len(ms)) = ms
  OBVIOUS
<1> QED
  BY <1>5, <1>6

-------------------------------------------------------------------------------
\* The tiers that were read declare what a profile may, and only a chain without a
\* diagnostic is merged.
ProfileInv ==
  /\ tiers \in Seq([spec : Specs \cup {Builtin}, manifest : Manifests])
  /\ cursor \in Specs \cup {Builtin, None}
  /\ chain = "merged" => ~AnyRelaxes(RootFirst)

LEMMA ProfileStep == ProfileInv /\ [ProfileNext]_profileVars => ProfileInv'
<1> SUFFICES ASSUME ProfileInv, [ProfileNext]_profileVars PROVE ProfileInv'
  OBVIOUS
<1>1. CASE Cycle \/ TooDeep \/ Unreadable
  BY <1>1 DEF Cycle, TooDeep, Unreadable, Null, ProfileInv
<1>2. CASE chain = "walking" /\ Merge
  <2>1. RootFirst' = RootFirst
    BY <1>2 DEF Merge, RootFirst
  <2> QED
    BY <1>2, <2>1 DEF Merge, ProfileInv
<1>3. ASSUME NEW m \in Manifests, NEW parent \in Specs \cup {Builtin, None}, ReadTier(m, parent), chain = "walking"
      PROVE  ProfileInv'
  <2>1. cursor \in Specs \cup {Builtin}
    BY <1>3 DEF ReadTier, Readable, ProfileInv
  <2>2. tiers' \in Seq([spec : Specs \cup {Builtin}, manifest : Manifests])
    BY <1>3, <2>1 DEF ReadTier, ProfileInv
  <2> QED
    BY <1>3, <2>2 DEF ReadTier, ProfileInv
<1>4. CASE UNCHANGED profileVars
  <2>1. RootFirst' = RootFirst
    BY <1>4 DEF profileVars, RootFirst
  <2> QED
    BY <1>4, <2>1 DEF profileVars, ProfileInv
<1> QED
  BY <1>1, <1>2, <1>3, <1>4 DEF ProfileNext

LEMMA InvNeverRelaxes == ProfileInv => NeverRelaxed
<1> SUFFICES ASSUME ProfileInv, chain = "merged" PROVE NeverRelaxed
  BY DEF NeverRelaxed
<1> DEFINE leafFirst == [i \in 1..Len(tiers) |-> tiers[i].manifest]
           ancestry == Reverse(leafFirst)
<1>1. \A i \in 1..Len(tiers) : tiers[i].manifest \in Profile
  <2>1. \A i \in 1..Len(tiers) : tiers[i] \in [spec : Specs \cup {Builtin}, manifest : Manifests]
    <3>1. PICK R : R = [spec : Specs \cup {Builtin}, manifest : Manifests]
      OBVIOUS
    <3>2. tiers \in Seq(R)
      BY <3>1, Zenon DEF ProfileInv
    <3>3. \A i \in 1..Len(tiers) : tiers[i] \in R
      BY <3>2
    <3> QED
      BY <3>1, <3>3, Zenon
  <2>2. \A i \in 1..Len(tiers) : tiers[i].manifest \in Manifests
    BY <2>1
  <2> QED
    BY <2>2, ProfileAssumption
<1>2. Len(tiers) \in Nat /\ leafFirst \in Seq(Profile) /\ Len(leafFirst) = Len(tiers)
  BY <1>1 DEF ProfileInv
<1>3. RootFirst = [i \in 1..Len(tiers) |-> tiers[(Len(tiers) - i) + 1].manifest]
  BY DEF RootFirst, Reverse, ProfileInv
<1>4. ancestry = RootFirst
  BY <1>2, <1>3 DEF Reverse
<1>5. RootFirst \in Seq(Profile) /\ Len(RootFirst) = Len(tiers)
  BY <1>1, <1>2, <1>3
<1>6. ASSUME NEW k \in 1..Len(ancestry), NEW e \in EntryInput,
             Effective(SubSeq(ancestry, 1, k)).type # None, ErrorsOf(e, Effective(RootFirst)) = {}
      PROVE  ErrorsOf(e, Effective(SubSeq(ancestry, 1, k)))
               \subseteq Excused(Effective(SubSeq(ancestry, 1, k)), Effective(RootFirst))
  <2>1. Stands(Effective(SubSeq(RootFirst, 1, k)), Effective(RootFirst))
    BY <1>4, <1>5, <1>6, ChainTightens DEF ProfileInv
  <2>2. Effective(SubSeq(RootFirst, 1, k)) \in Profile /\ Effective(RootFirst) \in Profile
    <3>1. Len(RootFirst) \in 1..Len(RootFirst) /\ SubSeq(RootFirst, 1, Len(RootFirst)) = RootFirst
      BY <1>2, <1>4, <1>5
    <3> QED
      BY <1>4, <1>5, <3>1, EffectiveStep
  <2> QED
    BY <1>4, <1>6, <2>1, <2>2, ErrorsStand
<1> HIDE DEF ancestry
<1>7. NeverRelaxed <=>
        \A k \in 1..Len(ancestry) : Effective(SubSeq(ancestry, 1, k)).type # None =>
          \A e \in EntryInput : ErrorsOf(e, Effective(RootFirst)) = {} =>
            ErrorsOf(e, Effective(SubSeq(ancestry, 1, k)))
              \subseteq Excused(Effective(SubSeq(ancestry, 1, k)), Effective(RootFirst))
  BY DEF NeverRelaxed, ancestry
<1> QED
  BY <1>6, <1>7

\* For any manifests, chains and entries: an entry without errors under a chain that
\* loads has none under any ancestor that declares its type, but for the two ways.
THEOREM ChainsNeverRelax == ProfileSpec => []NeverRelaxed
<1>1. ProfileInit => ProfileInv
  BY ProfileAssumption DEF ProfileInit, ProfileInv
<1> QED
  BY <1>1, ProfileStep, InvNeverRelaxes, PTL DEF ProfileSpec
================================================================================
