---------------------------- MODULE ProjectDiscovery ----------------------------
(***************************************************************************)
(* Who owns a file: the project roots as the servers discover them and as  *)
(* the command line resolves them (packages/markspec/core/discovery,       *)
(* core/collect, cli/helpers.ts).                                          *)
(*                                                                         *)
(* The state is a tree of directories that the user edits: configuration   *)
(* files, the .gitignore files, the exclude lists, hidden directories.     *)
(* Every operator below is what the code computes for the tree.  A rule    *)
(* names one directory, and each directory holds one document, which       *)
(* shares its fate; globs and rules about single files are left out.       *)
(***************************************************************************)
EXTENDS Integers, SequencesExt

CONSTANTS
  Dirs,
  Path,       \* directory -> the directories from the top down to it
  Home,       \* the directories no downward scan starts from
  NoRoot,
  MaxRules    \* bound on the ignore rules and the hidden directories

ASSUME ProjectDiscoveryAssumption ==
  /\ \A d \in Dirs : Path[d] \in Seq(Dirs) /\ Path[d] # <<>> /\ Path[d][Len(Path[d])] = d
  /\ \A d \in Dirs : \A i \in 1..Len(Path[d]) : Path[Path[d][i]] = SubSeq(Path[d], 1, i)
  /\ Home \subseteq Dirs /\ NoRoot \notin Dirs /\ MaxRules \in Nat

VARIABLES
  projectYaml, markspecYaml,  \* directories that hold one
  rules,    \* in the .gitignore or the exclude list of a directory
  hidden,   \* directories whose name starts with a dot
  built     \* directories named node_modules, target, dist or build

dirVars == <<projectYaml, markspecYaml, rules, hidden, built>>

Above(d) == {Path[d][i] : i \in 1..(Len(Path[d]) - 1)}
Below(d) == {x \in Dirs : d \in Above(x)}
Depth(d) == Len(Path[d])

Rule == [file : {"gitignore", "exclude"}, at : Dirs, target : Dirs,
         verdict : {"ignore", "keep"}]

DirTypeOK ==
  /\ projectYaml \subseteq Dirs /\ markspecYaml \subseteq Dirs
  /\ rules \subseteq Rule /\ hidden \subseteq Dirs /\ built \subseteq Dirs

Deepest(S) == IF S = {} THEN NoRoot ELSE CHOOSE d \in S : \A x \in S : Depth(x) <= Depth(d)

NearestRoot(d, roots) == Deepest(roots \cap (Above(d) \cup {d}))

\* The nearest project.yaml, else the nearest .markspec.yaml.
ResolveConfigRoot(d) ==
  LET project == NearestRoot(d, projectYaml)
  IN  IF project # NoRoot THEN project ELSE NearestRoot(d, markspecYaml)

-------------------------------------------------------------------------------
(***************************************************************************)
(* The walk.  The last rule that names a directory decides; a directory    *)
(* that is pruned hides what is below it.                                  *)
(***************************************************************************)
VerdictOf(file, at, x) ==
  {r.verdict : r \in {q \in rules : q.file = file /\ q.at = at /\ q.target = x}}

\* The rule files in the order the walk of root reads them for x; `from` is the
\* enclosing folder whose .gitignore files are inherited, or NoRoot.
Layers(root, from, x) ==
  LET at(d) == <<"gitignore", d>>
      inherited == IF from = NoRoot \/ from \notin Above(root) THEN <<>>
                   ELSE SelectSeq(Path[root], LAMBDA d : d \notin Above(from) /\ d # root)
      own == SelectSeq(Path[x], LAMBDA d : d \notin Above(root) /\ d # x)
  IN  [i \in 1..Len(inherited) |-> at(inherited[i])]
        \o <<<<"exclude", root>>>> \o [i \in 1..Len(own) |-> at(own[i])]

\* The last of the layers that names x decides.
LastVerdict(layers, x) ==
  LET speak == {i \in 1..Len(layers) : VerdictOf(layers[i][1], layers[i][2], x) # {}}
      verdict == {VerdictOf(layers[i][1], layers[i][2], x) : i \in {j \in speak : Max(speak) = j}}
  IN  UNION verdict

IsIgnored(root, from, x) ==
  LET verdict == LastVerdict(Layers(root, from, x), x)
  IN  "ignore" \in verdict \/ (verdict = {} /\ x \in built)

\* discoverFiles: the directories the walk of root visits.
Walk(root, from) ==
  LET pruned == {x \in Below(root) : x \in hidden \/ IsIgnored(root, from, x)}
  IN  {x \in Below(root) \cup {root} : pruned \cap (Above(x) \cup {x}) = {}}

-------------------------------------------------------------------------------
\* The roots below root: the configurations its walk finds, without those that
\* the exclude list of another one covers.
FindNestedProjectRoots(root) ==
  LET found == {ResolveConfigRoot(d) : d \in
                  (Walk(root, NoRoot) \cap (projectYaml \cup markspecYaml)) \ {root}}
                 \cap Below(root)
      covers(a, r) == \E x \in Below(a) \cap (Above(r) \cup {r}) :
                        "ignore" \in VerdictOf("exclude", a, x)
  IN  {r \in found : \A a \in found \cap Above(r) : ~covers(a, r)}

\* What the servers answer for when they start at `start`.
DiscoverProjectRoots(start) ==
  LET configRoot == ResolveConfigRoot(start)
      primary == IF configRoot = NoRoot THEN start ELSE configRoot
  IN  ({configRoot} \ {NoRoot}) \cup
      (IF primary \in Home THEN {} ELSE FindNestedProjectRoots(primary))

(***************************************************************************)
(* createProjectRootResolver: the owner of a directory, found from the     *)
(* outermost project above it.                                             *)
(***************************************************************************)
OutermostFrom ==
  LET climb[n \in Dirs] ==
        LET above == IF Above(n) = {} THEN NoRoot ELSE ResolveConfigRoot(Deepest(Above(n)))
        IN  IF above = NoRoot \/ above \in Home THEN n ELSE climb[above]
  IN  climb

OutermostOf(d) ==
  IF ResolveConfigRoot(d) = NoRoot THEN NoRoot ELSE OutermostFrom[ResolveConfigRoot(d)]

\* The roots of the projects below an outermost one, and itself.
RootsFrom(outermost) == {outermost} \cup FindNestedProjectRoots(outermost)

OwnerOf(d) ==
  IF OutermostOf(d) = ResolveConfigRoot(d) THEN ResolveConfigRoot(d)
  ELSE NearestRoot(d, RootsFrom(OutermostOf(d)))

\* A mutant: as the root itself sees them.
NestedOwn(root) == FindNestedProjectRoots(root)

\* The command line: the roots below a root, as the outermost one sees them.
NestedRootsBelow(root) == RootsFrom(OutermostOf(root)) \cap Below(root)

\* The folder whose .gitignore files the walk of p inherits.
InheritFor(p, outermost) == IF p = outermost THEN NoRoot ELSE outermost

\* walkProjects: the directories of the project p in the bare walk of root.
WalkProjects(root, p) ==
  {x \in Walk(p, InheritFor(p, OutermostOf(root))) :
     NearestRoot(x, {root} \cup NestedRootsBelow(root)) = p}

\* collectProjectEntries with projectCollectOptions: what markspec lock pins.
Collected(root) ==
  {x \in Walk(root, InheritFor(root, OutermostOf(root))) :
     NearestRoot(x, {root} \cup NestedRootsBelow(root)) = root}

-------------------------------------------------------------------------------
DirInit ==
  /\ projectYaml \in SUBSET Dirs /\ markspecYaml \in SUBSET Dirs
  /\ rules = {} /\ hidden = {} /\ built = {}

Used == Cardinality(rules) + Cardinality(hidden) + Cardinality(built)

\* A line of a .gitignore; of the exclude list of a .markspec.yaml.
AddRule(r) ==
  /\ Used < MaxRules
  /\ r.target \in Below(r.at)
  /\ r.file = "exclude" => r.at \in markspecYaml
  /\ VerdictOf(r.file, r.at, r.target) = {}
  /\ rules' = rules \cup {r}
  /\ UNCHANGED <<projectYaml, markspecYaml, hidden, built>>

Rename(d) ==
  /\ Used < MaxRules
  /\ d \notin hidden \cup built
  /\ \/ hidden' = hidden \cup {d} /\ UNCHANGED built
     \/ built' = built \cup {d} /\ UNCHANGED hidden
  /\ UNCHANGED <<projectYaml, markspecYaml, rules>>

DirNext == (\E r \in Rule : AddRule(r)) \/ (\E d \in Dirs : Rename(d))

DirSpec == DirInit /\ [][DirNext]_dirVars

-------------------------------------------------------------------------------
\* The directories of some project.
InProject == UNION {Below(r) \cup {r} : r \in projectYaml \cup markspecYaml}

\* A file has the same project on every surface: the resolver of the command line
\* names the root that a server started at the outermost project gives it.
SurfacesAgree ==
  \A d \in InProject :
    OwnerOf(d) = NearestRoot(d, DiscoverProjectRoots(OutermostOf(d)))

\* A file of the bare walk, checked by name instead, has the same project.
BareWalkOwns ==
  \A root \in {OwnerOf(d) : d \in InProject} :
    \A p \in {root} \cup NestedRootsBelow(root) :
      \A d \in WalkProjects(root, p) : OwnerOf(d) = p

(***************************************************************************)
(* A file has the same project on the command line, by name or by the bare *)
(* walk that meets it, and in a server; and a project has the same files   *)
(* from wherever the command runs, those its markspec.lock pins.           *)
(***************************************************************************)
SameFilesFromAnywhere ==
  /\ SurfacesAgree /\ BareWalkOwns
  /\ \A root \in {OwnerOf(d) : d \in InProject} :
       \A p \in {root} \cup NestedRootsBelow(root) :
         /\ WalkProjects(root, p) = WalkProjects(OutermostOf(root), p)
         /\ WalkProjects(root, p) = Collected(p)
=============================================================================
