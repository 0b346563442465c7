------------------------------ MODULE Diagnostics ------------------------------
(***************************************************************************)
(* The diagnostics the editor shows (packages/markspec/lsp/server.ts,      *)
(* project_context.ts and project_registry.ts).                            *)
(*                                                                         *)
(* A parse publishes its own diagnostics for one file and schedules the    *)
(* validation of the project, which publishes for every file it tracks.    *)
(* The editor keeps what it was sent last for a file.  Files leave a       *)
(* project when they close, when they become read-only corpus, when a      *)
(* project is found above them, and when the registry is rebuilt.          *)
(*                                                                         *)
(* There are two projects: the primary one, which also owns the documents  *)
(* that have no project of their own, and one that is found late above     *)
(* some of these.  What the registry, the buffers and the seeders do       *)
(* otherwise is in ProjectRegistry, DocumentSync and ProjectContext.       *)
(***************************************************************************)
EXTENDS Naturals, Functions

CONSTANTS
  Paths,
  LatePaths,    \* those below the project that is found late
  Deliverable,  \* files that a profile of the primary project can deliver; the
                \* walk is told to skip them
  TextsOf,      \* path -> the texts it may have
  Closed,       \* no buffer
  NotSaved,     \* no file on disk
  MaxOpens, MaxTyped, MaxReloads  \* bounds (reloads: rebuilds and new corpora)

\* "refers" to an ID that only "declares" declares; "broken" does not parse.
Texts == {"plain", "declares", "refers", "broken"}
Diagnostic == {"syntax", "dangling"}
ProjectNames == {"primary", "late"}

ASSUME DiagnosticsAssumption ==
  /\ LatePaths \subseteq Paths /\ Deliverable \subseteq Paths \ LatePaths
  /\ TextsOf \in [Paths -> SUBSET Texts]
  /\ Closed \notin Texts /\ NotSaved \notin Texts
  /\ {MaxOpens, MaxTyped, MaxReloads} \subseteq Nat

VARIABLES
  buffer,        \* path -> the text in the editor, or Closed
  saved,         \* path -> the text on disk, or NotSaved
  tracked,       \* project -> what its index holds, path -> text
  corpusPaths,   \* corpusFilePaths of the primary project
  live,          \* the projects that have a context
  laneAt, todo,  \* what the registry's lane does, and the files left to walk
  pendingContent,  \* path -> the text its scheduled parse will take
  parsesUnderWay,
  validations,   \* the projects whose debounced validation is scheduled
  shown,         \* path -> the diagnostics last sent for it (external)
  unvalidated,   \* the projects whose index changed with no validation scheduled
  strays,        \* files that a parse put into a project that had lost them (history)
  opensMade, typed, reloads  \* so far

buffers == <<buffer, saved, pendingContent, opensMade, typed>>
laneState == <<laneAt, todo, live, reloads>>
diagVars == <<buffers, laneState, tracked, corpusPaths, parsesUnderWay, validations,
              shown, unvalidated, strays>>

\* project: where it goes, or "gate" before its project is known; moved: the
\* buffer epoch is no longer the one it began with.
ParseUnderWay == [path : Paths, text : Texts, project : ProjectNames \cup {"gate"}, moved : BOOLEAN]

DiagTypeOK ==
  /\ \A p \in Paths : buffer[p] \in TextsOf[p] \cup {Closed} /\ saved[p] \in TextsOf[p] \cup {NotSaved}
  /\ DOMAIN tracked = ProjectNames
  /\ \A n \in ProjectNames : DOMAIN tracked[n] \subseteq Paths /\ Range(tracked[n]) \subseteq Texts
  /\ corpusPaths \subseteq Deliverable /\ DOMAIN pendingContent \subseteq Paths /\ todo \subseteq Paths
  /\ live \subseteq ProjectNames /\ validations \subseteq live /\ unvalidated \subseteq live
  /\ laneAt \in {"idle", "load", "walkPrimary", "walkLate", "seed"}
  /\ parsesUnderWay \subseteq ParseUnderWay /\ strays \subseteq Paths
  /\ shown \in [Paths -> SUBSET Diagnostic]

OpenPaths == {p \in Paths : buffer[p] # Closed}
SavedPaths == {p \in Paths : saved[p] # NotSaved}

\* contextFor: the primary project takes what no other root is above.
OwnerOfPath(p) == IF p \in LatePaths /\ "late" \in live THEN "late" ELSE "primary"
IsCorpus(p) == p \in corpusPaths

Without(ix, paths) == Restrict(ix, DOMAIN ix \ paths)
With(ix, p, t) == [x \in DOMAIN ix \cup {p} |-> IF x = p THEN t ELSE ix[x]]

\* What the parse of a text reports, and what validateAll reports for a path.
ParseReports(t) == IF t = "broken" THEN {"syntax"} ELSE {}
Validated(p, ix) ==
  IF ix[p] = "refers" /\ "declares" \notin Range(ix) THEN {"dangling"} ELSE {}

\* Files with issues only: what was fixed stays.
PublishedKeepingFixed(ix, corpus) ==
  [p \in Paths |-> IF p \in DOMAIN ix \ corpus /\ Validated(p, ix) # {}
                   THEN Validated(p, ix) ELSE shown[p]]

\* publishAllDiagnostics: every tracked file that is no corpus, clean or not.
Published(ix, corpus) ==
  [p \in Paths |-> IF p \in DOMAIN ix \ corpus THEN Validated(p, ix) ELSE shown[p]]

Publish(n) ==
  /\ shown' = Published(tracked'[n], corpusPaths')
  /\ validations' = validations \ {n}
  /\ unvalidated' = unvalidated \ {n}

-------------------------------------------------------------------------------
\* Every parse of p that is under way has the epoch of before.
Moved(p) == {[r EXCEPT !.moved = @ \/ r.path = p] : r \in parsesUnderWay}
NewParse(p, t) == [path |-> p, text |-> t, project |-> "gate", moved |-> FALSE]

OpenDocument(p, t) ==
  /\ buffer[p] = Closed /\ opensMade < MaxOpens
  /\ saved[p] \in {t, NotSaved}
  /\ opensMade' = opensMade + 1
  /\ buffer' = [buffer EXCEPT ![p] = t]
  /\ parsesUnderWay' = Moved(p) \cup {NewParse(p, t)}
  /\ UNCHANGED <<saved, pendingContent, typed, laneState, tracked, corpusPaths, validations, shown,
                 unvalidated, strays>>

\* onDidChangeContent: a corpus file is read-only.
Type(p, t) ==
  /\ buffer[p] \notin {Closed, t} /\ typed < MaxTyped
  /\ typed' = typed + 1
  /\ buffer' = [buffer EXCEPT ![p] = t]
  /\ pendingContent' = IF IsCorpus(p) THEN pendingContent ELSE With(pendingContent, p, t)
  /\ UNCHANGED <<saved, opensMade, laneState, tracked, corpusPaths, parsesUnderWay,
                 validations, shown, unvalidated, strays>>

\* The 50 ms of a scheduled parse are over.
StartParse(p) ==
  /\ p \in DOMAIN pendingContent
  /\ pendingContent' = Without(pendingContent, {p})
  /\ parsesUnderWay' = parsesUnderWay \cup {NewParse(p, pendingContent[p])}
  /\ UNCHANGED <<buffer, saved, opensMade, typed, laneState, tracked, corpusPaths,
                 validations, shown, unvalidated, strays>>

\* The gate is open, and the project known.
EnsureContext(r) ==
  /\ r.project = "gate" /\ laneAt \in {"idle", "seed"}
  /\ parsesUnderWay' = (parsesUnderWay \ {r}) \cup
       {x \in {[r EXCEPT !.project = OwnerOfPath(r.path)]} : ~r.moved /\ ~IsCorpus(r.path)}
  /\ UNCHANGED <<buffers, laneState, tracked, corpusPaths, validations, shown, unvalidated, strays>>

\* A parse is over: the index has the result before the guards look at it.  One
\* that is out of date stays there, even if the file has gone to another project:
\* stillOwnedBy is not asked then.
EndParse(r) ==
  LET landed == [tracked EXCEPT ![r.project] = With(@, r.path, r.text)] IN
  /\ r.project # "gate"
  /\ parsesUnderWay' = parsesUnderWay \ {r}
  /\ \/ /\ r.moved
        /\ tracked' = landed
        /\ unvalidated' = unvalidated \cup {r.project}
        /\ strays' = strays \cup {p \in {r.path} : OwnerOfPath(p) # r.project}
        /\ UNCHANGED <<pendingContent, shown, validations>>
     \/ /\ ~r.moved /\ OwnerOfPath(r.path) # r.project  \* stillOwnedBy
        /\ tracked' = [tracked EXCEPT ![r.project] = Without(@, {r.path})]
        /\ pendingContent' = IF r.path \in OpenPaths
             THEN With(pendingContent, r.path, buffer[r.path]) ELSE pendingContent
        /\ unvalidated' = unvalidated \cup {r.project}
        /\ UNCHANGED <<shown, validations, strays>>
     \/ /\ ~r.moved /\ OwnerOfPath(r.path) = r.project
        /\ tracked' = landed
        /\ shown' = [shown EXCEPT ![r.path] = ParseReports(r.text)]
        /\ validations' = validations \cup {r.project}
        /\ UNCHANGED <<pendingContent, unvalidated, strays>>
  /\ UNCHANGED <<buffer, saved, opensMade, typed, laneState, corpusPaths>>

\* onDidSave: the validation runs at once.
Save(p) ==
  /\ p \in OpenPaths /\ saved[p] # buffer[p]
  /\ saved' = [saved EXCEPT ![p] = buffer[p]]
  /\ UNCHANGED <<tracked, corpusPaths>>
  /\ IF OwnerOfPath(p) \in live THEN Publish(OwnerOfPath(p))
     ELSE UNCHANGED <<shown, validations, unvalidated>>
  /\ UNCHANGED <<buffer, pendingContent, opensMade, typed, laneState, parsesUnderWay, strays>>

\* onDidClose: nothing of a corpus file changes; while the contexts are gone
\* there is no index to take the file from.
Close(p) ==
  /\ p \in OpenPaths
  /\ buffer' = [buffer EXCEPT ![p] = Closed]
  /\ IF IsCorpus(p) THEN UNCHANGED <<pendingContent, parsesUnderWay, shown, tracked, validations>>
     ELSE /\ pendingContent' = Without(pendingContent, {p})
          /\ parsesUnderWay' = Moved(p)
          /\ shown' = [shown EXCEPT ![p] = {}]
          /\ IF live = {} THEN UNCHANGED <<tracked, validations>>
             ELSE /\ tracked' = [tracked EXCEPT ![OwnerOfPath(p)] = Without(@, {p})]
                  /\ validations' = validations \cup {OwnerOfPath(p)}
  /\ UNCHANGED <<saved, opensMade, typed, laneState, corpusPaths, unvalidated, strays>>

\* The second of quiet is over.
ValidateAll(n) ==
  /\ n \in validations
  /\ UNCHANGED <<tracked, corpusPaths>> /\ Publish(n)
  /\ UNCHANGED <<buffers, laneState, parsesUnderWay, strays>>

-------------------------------------------------------------------------------
(***************************************************************************)
(* rebuild: every context is disposed (its scheduled validation and its    *)
(* parses come to nothing) and what it published is cleared.               *)
(***************************************************************************)
RebuildAll ==
  /\ laneAt = "idle" /\ reloads < MaxReloads
  /\ reloads' = reloads + 1
  /\ laneAt' = "load" /\ live' = {}
  /\ shown' = [p \in Paths |->
       IF \E n \in live : p \in DOMAIN tracked[n] \ corpusPaths THEN {} ELSE shown[p]]
  /\ tracked' = [n \in ProjectNames |-> <<>>] /\ corpusPaths' = {}
  /\ parsesUnderWay' = {r \in parsesUnderWay : r.project = "gate"}
  /\ validations' = {} /\ unvalidated' = {}
  /\ strays' = {p \in strays : shown'[p] # {}}
  /\ UNCHANGED <<buffers, todo>>

\* The primary project is there, with its corpus (whose text is never broken).
LoadPrimary ==
  /\ laneAt = "load"
  /\ laneAt' = "walkPrimary" /\ live' = {"primary"}
  /\ todo' = SavedPaths \ (LatePaths \cup Deliverable)
  /\ \E corpus \in SUBSET Deliverable :
       /\ corpusPaths' = corpus
       /\ tracked' = [tracked EXCEPT !["primary"] = [p \in corpus |-> "plain"]]
  /\ UNCHANGED <<buffers, reloads, parsesUnderWay, validations, shown, unvalidated, strays>>

WalkedProject == IF laneAt = "walkPrimary" THEN "primary" ELSE "late"

\* indexProject parses the buffer of a file that is open, else the file.  An
\* evicted buffer that is closed by now and is on no disk is passed over.
WalkPath(p) ==
  /\ laneAt \in {"walkPrimary", "walkLate"} /\ p \in todo
  /\ todo' = todo \ {p}
  /\ tracked' = IF p \in OpenPaths THEN [tracked EXCEPT ![WalkedProject] = With(@, p, buffer[p])]
                ELSE IF p \in SavedPaths THEN [tracked EXCEPT ![WalkedProject] = With(@, p, saved[p])]
                ELSE tracked
  /\ UNCHANGED <<buffers, laneAt, live, reloads, corpusPaths, parsesUnderWay,
                 validations, shown, unvalidated, strays>>

\* The walk of a rebuild is over: its files are published, and every open buffer
\* is parsed again (afterRebuild).
EndRebuild ==
  /\ laneAt = "walkPrimary" /\ todo = {}
  /\ laneAt' = "idle"
  /\ UNCHANGED <<tracked, corpusPaths>> /\ Publish("primary")
  /\ parsesUnderWay' = parsesUnderWay \cup {NewParse(p, buffer[p]) : p \in OpenPaths}
  /\ UNCHANGED <<buffers, todo, live, reloads, strays>>

(***************************************************************************)
(* addTree for the project above LatePaths, which another document of its  *)
(* led to: the primary project gives up its files there, and is not        *)
(* validated for it.                                                       *)
(***************************************************************************)
FindLate ==
  /\ laneAt = "idle" /\ live = {"primary"}
  /\ laneAt' = "walkLate" /\ live' = ProjectNames
  /\ LET evicted == DOMAIN tracked["primary"] \cap LatePaths IN
       /\ tracked' = [tracked EXCEPT !["primary"] = Without(@, evicted)]
       /\ shown' = [p \in Paths |-> IF p \in evicted THEN {} ELSE shown[p]]
       /\ todo' = (SavedPaths \cap LatePaths) \cup (evicted \cap OpenPaths)
       /\ unvalidated' = IF evicted = {} THEN unvalidated ELSE unvalidated \cup {"primary"}
  /\ UNCHANGED <<buffers, reloads, corpusPaths, parsesUnderWay, validations, strays>>

\* Its files are walked, and the evicted buffers that are not on disk handed over.
EndFindLate ==
  /\ laneAt = "walkLate" /\ todo = {}
  /\ laneAt' = "idle"
  /\ UNCHANGED <<tracked, corpusPaths>> /\ Publish("late")
  /\ UNCHANGED <<buffers, todo, live, reloads, parsesUnderWay, strays>>

\* reloadProfile drops the corpus and, an await later, has the new one.
StartReseed ==
  /\ laneAt = "idle" /\ "primary" \in live /\ reloads < MaxReloads
  /\ reloads' = reloads + 1 /\ laneAt' = "seed"
  /\ tracked' = [tracked EXCEPT !["primary"] = Without(@, corpusPaths)]
  /\ corpusPaths' = {}
  /\ UNCHANGED <<buffers, todo, live, parsesUnderWay, validations, shown, unvalidated, strays>>

EndReseed ==
  /\ laneAt = "seed"
  /\ laneAt' = "idle"
  /\ \E corpus \in SUBSET Deliverable :
       /\ corpusPaths' = corpus
       /\ tracked' = [tracked EXCEPT !["primary"] =
            [p \in DOMAIN @ \cup corpus |-> IF p \in corpus THEN "plain" ELSE @[p]]]
  /\ Publish("primary")
  /\ UNCHANGED <<buffers, todo, live, reloads, parsesUnderWay, strays>>

-------------------------------------------------------------------------------
\* The server has started: the primary project is loaded, nothing is walked.
DiagInit ==
  /\ saved \in {f \in [Paths -> Texts \cup {NotSaved}] : \A p \in Paths : f[p] \in TextsOf[p] \cup {NotSaved}}
  /\ Deliverable \subseteq SavedPaths
  /\ buffer = [p \in Paths |-> Closed]
  /\ tracked = [n \in ProjectNames |-> <<>>] /\ corpusPaths = {}
  /\ live = {} /\ laneAt = "load" /\ todo = {}
  /\ pendingContent = <<>> /\ parsesUnderWay = {} /\ validations = {} /\ unvalidated = {}
  /\ shown = [p \in Paths |-> {}] /\ strays = {}
  /\ opensMade = 0 /\ typed = 0 /\ reloads = 0

DiagNext ==
  \/ \E p \in Paths : \/ \E t \in TextsOf[p] : OpenDocument(p, t) \/ Type(p, t)
                      \/ StartParse(p) \/ Save(p) \/ Close(p) \/ WalkPath(p)
  \/ \E r \in parsesUnderWay : EnsureContext(r) \/ EndParse(r)
  \/ \E n \in ProjectNames : ValidateAll(n)
  \/ RebuildAll \/ LoadPrimary \/ EndRebuild
  \/ FindLate \/ EndFindLate
  \/ StartReseed \/ EndReseed

DiagSpec == DiagInit /\ [][DiagNext]_diagVars

-------------------------------------------------------------------------------
(***************************************************************************)
(* Between two tasks of the lane, and with no validation due, the editor   *)
(* shows for every file of a project what the validator says of it now,    *)
(* whoever published last, and nothing for a file that no project tracks.  *)
(* Not so where a project lost a file to another, or got one back from a   *)
(* parse that ended after the close: neither schedules a validation        *)
(* (unvalidated).  A file that was corpus may show what it showed before;  *)
(* and one that a parse has put into a project that had lost it (strays)   *)
(* is shown as either of the two projects says.                            *)
(***************************************************************************)
ShownIsCurrent ==
  laneAt = "idle" =>
    /\ \A n \in live \ (validations \cup unvalidated) :
         \A p \in DOMAIN tracked[n] \ (corpusPaths \cup strays) :
           shown[p] = Validated(p, tracked[n])
    /\ \A p \in Paths \ (Deliverable \cup strays) :
         (\A n \in live : p \notin DOMAIN tracked[n]) => shown[p] = {}

(***************************************************************************)
(* What the guide says: errors are shown as you type.  The parse publishes *)
(* its own, and the validation a second later replaces them.               *)
(***************************************************************************)
ParseErrorsStay ==
  \A p \in OpenPaths :
    laneAt = "idle" /\ p \notin DOMAIN pendingContent /\ parsesUnderWay = {} /\ ~IsCorpus(p)
      /\ p \in DOMAIN tracked[OwnerOfPath(p)] =>
    ParseReports(buffer[p]) \subseteq shown[p]
===============================================================================
